--------------------------- MODULE CommandsProofs ---------------------------
(***************************************************************************)
(* Proofs about Commands, for every number of clients, traps and managers: *)
(* a verification misses no trap that was bad all along, and a clean stop  *)
(* leaves none behind.                                                     *)
(***************************************************************************)
EXTENDS Commands, FiniteSetTheorems, TLAPS

-----------------------------------------------------------------------------
(* Types of the traps, of what the managers remember and of the walks.     *)

TrapTypes ==
  /\ disk \in [Traps -> {"intact", "changed", "gone"}]
  /\ canaries \in [Managers -> SUBSET Traps]
  /\ job \in [Threads -> Jobs]
  /\ failed \in BOOLEAN

LEMMA ThreadsOfService == Main \in Threads /\ Cli \in Threads /\ Clients \subseteq Threads
BY CommandsAssumption

LEMMA MineIsOfTraps ==
  ASSUME TrapTypes, NEW t \in Threads
  PROVE  Mine(t) \subseteq Traps /\ ManagerOf[t] \in Managers
BY CanaryAssumption DEF TrapTypes, Mine

\* A part of the traps has a size a job can hold.
LEMMA SizeOfPart ==
  ASSUME NEW S \in SUBSET Traps
  PROVE  Cardinality(S) \in 0..Cardinality(Traps)
<1>1. /\ IsFiniteSet(S) /\ Cardinality(S) <= Cardinality(Traps)
  BY CanaryAssumption, FS_Subset
<1>2. Cardinality(S) \in Nat /\ Cardinality(Traps) \in Nat
  BY <1>1, CanaryAssumption, FS_CardinalityType
<1> QED BY <1>1, <1>2

LEMMA IdleIsJob == Idle \in Jobs
BY SizeOfPart, CanaryAssumption, FS_EmptySet DEF Idle, Jobs

\* Work changes the job of t to j, and of the others only what they owe.
LEMMA WorkOf ==
  ASSUME TrapTypes, NEW t \in Threads, NEW j \in Jobs, NEW d, Work(t, j, d)
  PROVE  /\ job' \in [Threads -> Jobs]
         /\ \A u \in Threads \ {t} :
              /\ job'[u].op = job[u].op /\ job'[u].todo = job[u].todo
              /\ job'[u].size = job[u].size /\ job'[u].found = job[u].found
              /\ job'[u].due = {x \in job[u].due : d[x] # "intact"}
         /\ job'[t].op = j.op /\ job'[t].todo = j.todo /\ job'[t].size = j.size
         /\ job'[t].found = j.found /\ job'[t].due = {x \in j.due : d[x] # "intact"}
<1> DEFINE owing(w) == [w EXCEPT !.due = {x \in @ : d[x] # "intact"}]
<1>1. ASSUME NEW w \in Jobs
      PROVE  /\ owing(w) \in Jobs /\ owing(w).op = w.op /\ owing(w).todo = w.todo
             /\ owing(w).size = w.size /\ owing(w).found = w.found
             /\ owing(w).due = {x \in w.due : d[x] # "intact"}
  BY DEF Jobs
<1>2. job' = [u \in Threads |-> owing(IF u = t THEN j ELSE job[u])]
  BY DEF Work
<1>3. \A u \in Threads : job[u] \in Jobs
  BY DEF TrapTypes
<1> HIDE DEF owing
<1>4. job' \in [Threads -> Jobs]
  BY <1>1, <1>2, <1>3
<1>5. \A u \in Threads \ {t} : job'[u] = owing(job[u])
  BY <1>2
<1>6. job'[t] = owing(j)
  BY <1>2
<1> QED BY <1>1, <1>3, <1>4, <1>5, <1>6

LEMMA BeginTypes ==
  ASSUME TrapTypes, NEW t \in Threads, NEW op \in {"arm", "verify", "repair", "disarm"},
         Begin(t, op)
  PROVE  TrapTypes'
<1> DEFINE S == IF op = "arm" THEN {} ELSE Mine(t)
<1>1. S \subseteq Traps /\ ManagerOf[t] \in Managers
  BY MineIsOfTraps
<1>2. Cardinality(S) \in 0..Cardinality(Traps)
  BY <1>1, SizeOfPart
<1>3. /\ canaries' = [canaries EXCEPT ![ManagerOf[t]] = S]
      /\ job' = [job EXCEPT ![t] =
                   [op |-> op, todo |-> IF op = "arm" THEN Traps ELSE S,
                    at |-> None, size |-> Cardinality(S), found |-> {},
                    due |-> {x \in S : disk[x] # "intact"}]]
      /\ UNCHANGED <<disk, failed>>
  BY DEF Begin, Remember
<1> HIDE DEF S
<1>4. [op |-> op, todo |-> IF op = "arm" THEN Traps ELSE S, at |-> None,
       size |-> Cardinality(S), found |-> {}, due |-> {x \in S : disk[x] # "intact"}] \in Jobs
  BY <1>1, <1>2 DEF Jobs
<1>5. job' \in [Threads -> Jobs]
  BY <1>3, <1>4 DEF TrapTypes
<1>6. canaries' \in [Managers -> SUBSET Traps]
  BY <1>1, <1>3 DEF TrapTypes
<1> QED BY <1>3, <1>5, <1>6 DEF TrapTypes

LEMMA JobEnds ==
  ASSUME TrapTypes, NEW t \in Threads, job' = [job EXCEPT ![t] = Idle]
  PROVE  /\ job' \in [Threads -> Jobs] /\ job'[t] = Idle
         /\ \A u \in Threads \ {t} : job'[u] = job[u]
BY IdleIsJob DEF TrapTypes

LEMMA WrittenTypes ==
  ASSUME TrapTypes, NEW x, Written(x) \/ WriteFails(x)
  PROVE  disk' \in [Traps -> {"intact", "changed", "gone"}]
BY DEF TrapTypes, Written, WriteFails

-----------------------------------------------------------------------------
(* Verification.  What makes VerifySees inductive: what a walk owes is bad *)
(* at the moment, so that the walk reports it when it comes to it.         *)

OwedAreBad == \A t \in Threads : \A x \in job[t].due : disk[x] # "intact"

TrapInv == TrapTypes /\ OwedAreBad /\ VerifySees

\* A step of t's walk: the files as `disk'`, the job as j.
LEMMA WorkKeeps ==
  ASSUME TrapInv, NEW t \in Threads, NEW j \in Jobs, Work(t, j, disk'),
         disk' \in [Traps -> {"intact", "changed", "gone"}],
         canaries' \in [Managers -> SUBSET Traps], failed' \in BOOLEAN,
         j.op = "verify" => {x \in j.due : disk'[x] # "intact"} \subseteq j.todo \cup j.found
  PROVE  TrapInv'
<1>1. /\ job' \in [Threads -> Jobs]
      /\ \A u \in Threads \ {t} :
           /\ job'[u].op = job[u].op /\ job'[u].todo = job[u].todo
           /\ job'[u].found = job[u].found
           /\ job'[u].due = {x \in job[u].due : disk'[x] # "intact"}
      /\ job'[t].op = j.op /\ job'[t].todo = j.todo /\ job'[t].found = j.found
      /\ job'[t].due = {x \in j.due : disk'[x] # "intact"}
  BY WorkOf DEF TrapInv
<1>2. TrapTypes'
  BY <1>1 DEF TrapTypes
<1>3. ASSUME NEW u \in Threads
      PROVE  /\ \A x \in job'[u].due : disk'[x] # "intact"
             /\ job'[u].op = "verify" => job'[u].due \subseteq job'[u].todo \cup job'[u].found
  <2>1. CASE u = t
    BY <1>1, <2>1
  <2>2. CASE u # t
    BY <1>1, <2>2 DEF TrapInv, VerifySees, Doing
  <2> QED BY <2>1, <2>2
<1> QED BY <1>2, <1>3 DEF TrapInv, OwedAreBad, VerifySees, Doing

LEMMA EndKeeps ==
  ASSUME TrapInv, NEW t \in Threads, job' = [job EXCEPT ![t] = Idle],
         canaries' \in [Managers -> SUBSET Traps], UNCHANGED <<disk, failed>>
  PROVE  TrapInv'
<1>1. /\ job' \in [Threads -> Jobs] /\ job'[t] = Idle
      /\ \A u \in Threads \ {t} : job'[u] = job[u]
  BY JobEnds DEF TrapInv
<1>2. Idle.due = {} /\ Idle.op = "none"
  BY DEF Idle
<1>3. TrapTypes'
  BY <1>1 DEF TrapInv, TrapTypes
<1> QED BY <1>1, <1>2, <1>3 DEF TrapInv, OwedAreBad, VerifySees, Doing

LEMMA BeginKeeps ==
  ASSUME TrapInv, NEW t \in Threads, NEW op \in {"arm", "verify", "repair", "disarm"},
         Begin(t, op)
  PROVE  TrapInv'
<1> DEFINE S == IF op = "arm" THEN {} ELSE Mine(t)
<1>1. TrapTypes' /\ UNCHANGED <<disk, failed>>
  BY BeginTypes DEF TrapInv, Begin
<1>2. /\ \A u \in Threads \ {t} : job'[u] = job[u]
      /\ job'[t].op = op /\ job'[t].due = {x \in S : disk[x] # "intact"}
      /\ job'[t].todo = IF op = "arm" THEN Traps ELSE S
  BY DEF TrapInv, TrapTypes, Begin
<1>3. job'[t].due \subseteq job'[t].todo
  BY <1>2
<1> QED BY <1>1, <1>2, <1>3 DEF TrapInv, OwedAreBad, VerifySees, Doing

LEMMA TamperKeeps ==
  ASSUME TrapInv, NEW x \in Traps, NEW to \in {"changed", "gone"}, Tamper(x, to)
  PROVE  TrapInv'
BY DEF TrapInv, TrapTypes, OwedAreBad, VerifySees, Doing, Tamper

LEMMA StepKeeps ==
  ASSUME TrapInv, NEW t \in Threads, Step(t)
  PROVE  TrapInv'
<1>1. /\ job[t] \in Jobs /\ Mine(t) \subseteq Traps /\ ManagerOf[t] \in Managers
      /\ disk \in [Traps -> {"intact", "changed", "gone"}]
      /\ canaries \in [Managers -> SUBSET Traps] /\ failed \in BOOLEAN
  BY MineIsOfTraps DEF TrapInv, TrapTypes
<1>2. \A S \in SUBSET Traps : Remember(t, S) => canaries' \in [Managers -> SUBSET Traps]
  BY <1>1 DEF Remember
<1>3. \A x \in Traps : Written(x) \/ WriteFails(x)
        => disk' \in [Traps -> {"intact", "changed", "gone"}]
  BY WrittenTypes DEF TrapInv
<1>4. job[t].todo \subseteq Traps /\ job[t].found \subseteq Traps /\ job[t].at \in Traps \cup {None}
  BY <1>1 DEF Jobs
<1>5. CASE ArmOne(t)
  <2>1. PICK x \in job[t].todo :
          /\ \/ Written(x) /\ Remember(t, Mine(t) \cup {x}) /\ UNCHANGED failed
             \/ WriteFails(x) /\ failed' = TRUE /\ UNCHANGED canaries
          /\ Work(t, [job[t] EXCEPT !.todo = @ \ {x}], disk')
    BY <1>5 DEF ArmOne
  <2> DEFINE j == [job[t] EXCEPT !.todo = @ \ {x}]
  <2>2. j \in Jobs /\ j.op = "arm"
    BY <1>1, <1>5 DEF Jobs, ArmOne, Doing
  <2>3. /\ disk' \in [Traps -> {"intact", "changed", "gone"}]
        /\ canaries' \in [Managers -> SUBSET Traps] /\ failed' \in BOOLEAN
    <3>1. x \in Traps /\ Mine(t) \cup {x} \in SUBSET Traps
      BY <1>1, <1>4
    <3> QED BY <1>1, <1>2, <1>3, <2>1, <3>1
  <2> QED BY <2>1, <2>2, <2>3, WorkKeeps
<1>6. CASE VerifyOne(t)
  <2>1. PICK x \in job[t].todo :
          Work(t, [job[t] EXCEPT !.todo = @ \ {x},
                                 !.found = IF Tampered(t, x) THEN @ \cup {x} ELSE @], disk)
    BY <1>6 DEF VerifyOne
  <2> DEFINE j == [job[t] EXCEPT !.todo = @ \ {x},
                                 !.found = IF Tampered(t, x) THEN @ \cup {x} ELSE @]
  <2>2. /\ j \in Jobs /\ j.due = job[t].due /\ j.todo = job[t].todo \ {x}
        /\ j.found = IF Tampered(t, x) THEN job[t].found \cup {x} ELSE job[t].found
    <3> DEFINE f == IF Tampered(t, x) THEN job[t].found \cup {x} ELSE job[t].found
    <3>1. f \in SUBSET Traps
      BY <1>4
    <3> HIDE DEF f
    <3>2. j = [job[t] EXCEPT !.todo = @ \ {x}, !.found = f]
      BY DEF f
    <3> HIDE DEF j
    <3>3. /\ j \in Jobs /\ j.due = job[t].due /\ j.todo = job[t].todo \ {x} /\ j.found = f
      BY <1>1, <3>1, <3>2 DEF Jobs
    <3> QED BY <3>3 DEF f
  <2>3. UNCHANGED <<disk, canaries, failed>>
    BY <1>6 DEF VerifyOne
  <2>4. {y \in j.due : disk[y] # "intact"} \subseteq j.todo \cup j.found
    <3>1. job[t].due \subseteq job[t].todo \cup job[t].found
      BY <1>6 DEF VerifyOne, TrapInv, VerifySees
    <3>2. x \in job[t].due => Tampered(t, x)
      BY DEF TrapInv, OwedAreBad, Tampered
    <3> QED BY <2>2, <3>1, <3>2
  <2> HIDE DEF j
  <2> QED BY <1>1, <2>1, <2>2, <2>3, <2>4, WorkKeeps DEF j
<1>7. CASE WalkRaises(t) \/ WalkEnds(t)
  BY <1>1, <1>7, EndKeeps DEF WalkRaises, WalkEnds
<1>8. CASE RepairCheck(t)
  <2>1. PICK x \in job[t].todo :
          Work(t, [job[t] EXCEPT !.todo = @ \ {x},
                                 !.at = IF Tampered(t, x) THEN x ELSE None], disk)
    BY <1>8 DEF RepairCheck
  <2> DEFINE j == [job[t] EXCEPT !.todo = @ \ {x}, !.at = IF Tampered(t, x) THEN x ELSE None]
  <2>2. j \in Jobs /\ j.op = "repair"
    BY <1>1, <1>4, <1>8 DEF Jobs, RepairCheck, Doing
  <2>3. UNCHANGED <<disk, canaries, failed>>
    BY <1>8 DEF RepairCheck
  <2> HIDE DEF j
  <2> QED BY <1>1, <2>1, <2>2, <2>3, WorkKeeps DEF j
<1>9. CASE RepairWrite(t)
  <2> DEFINE j == [job[t] EXCEPT !.found = @ \cup {job[t].at}]
  <2>1. j \in Jobs /\ j.op = "repair" /\ job[t].at \in Traps
    BY <1>1, <1>4, <1>9 DEF Jobs, RepairWrite, Doing
  <2>2. Work(t, j, disk') /\ Written(job[t].at) /\ UNCHANGED <<canaries, failed>>
    BY <1>9 DEF RepairWrite
  <2> HIDE DEF j
  <2> QED BY <1>1, <1>3, <2>1, <2>2, WorkKeeps
<1>10. CASE RepairFails(t)
  <2> DEFINE j == [job[t] EXCEPT !.at = None]
  <2>1. j \in Jobs /\ j.op = "repair" /\ job[t].at \in Traps
    BY <1>1, <1>4, <1>10 DEF Jobs, RepairFails, Doing
  <2>2. Work(t, j, disk') /\ WriteFails(job[t].at) /\ failed' = TRUE /\ UNCHANGED canaries
    BY <1>10 DEF RepairFails
  <2> HIDE DEF j
  <2> QED BY <1>1, <1>3, <2>1, <2>2, WorkKeeps
<1>11. CASE RepairRemember(t)
  <2> DEFINE j == [job[t] EXCEPT !.at = None]
  <2>1. j \in Jobs /\ j.op = "repair" /\ job[t].at \in Traps
    BY <1>1, <1>4, <1>11 DEF Jobs, RepairRemember, Doing
  <2>2. /\ Work(t, j, disk) /\ Remember(t, Mine(t) \cup {job[t].at}) /\ UNCHANGED <<disk, failed>>
    BY <1>11 DEF RepairRemember
  <2>3. canaries' \in [Managers -> SUBSET Traps]
    <3>1. Mine(t) \cup {job[t].at} \in SUBSET Traps
      BY <1>1, <2>1
    <3> QED BY <1>2, <2>2, <3>1
  <2> HIDE DEF j
  <2> QED BY <1>1, <2>1, <2>2, <2>3, WorkKeeps
<1>12. CASE DisarmOne(t)
  <2>1. PICK x \in job[t].todo :
          \/ /\ disk' = [disk EXCEPT ![x] = "gone"]
             /\ Work(t, [job[t] EXCEPT !.todo = @ \ {x}], disk')
             /\ UNCHANGED failed
          \/ /\ Work(t, [job[t] EXCEPT !.todo = @ \ {x}], disk)
             /\ failed' = TRUE
             /\ UNCHANGED disk
    BY <1>12 DEF DisarmOne
  <2> DEFINE j == [job[t] EXCEPT !.todo = @ \ {x}]
  <2>2. j \in Jobs /\ j.op = "disarm"
    BY <1>1, <1>12 DEF Jobs, DisarmOne, Doing
  <2>3. Work(t, j, disk')
    BY <2>1
  <2>4. /\ disk' \in [Traps -> {"intact", "changed", "gone"}]
        /\ canaries' = canaries /\ failed' \in BOOLEAN
    BY <1>1, <1>12, <2>1 DEF DisarmOne
  <2> HIDE DEF j
  <2> QED BY <1>1, <2>2, <2>3, <2>4, WorkKeeps
<1>13. CASE DisarmClear(t)
  <2>1. canaries' \in [Managers -> SUBSET Traps]
    BY <1>2, <1>13 DEF DisarmClear
  <2> QED BY <1>13, <2>1, EndKeeps DEF DisarmClear
<1> QED
  BY <1>5, <1>6, <1>7, <1>8, <1>9, <1>10, <1>11, <1>12, <1>13 DEF Step

LEMMA TrapInit == CommandsInit => TrapInv
<1> SUFFICES ASSUME CommandsInit PROVE TrapInv
  OBVIOUS
<1>1. Idle.due = {} /\ \A t \in Threads : job[t] = Idle
  BY DEF CommandsInit, Init, Idle
<1>2. TrapTypes
  BY IdleIsJob DEF CommandsInit, Init, TrapTypes
<1> QED BY <1>1, <1>2 DEF TrapInv, OwedAreBad, VerifySees

LEMMA TrapNext == TrapInv /\ [Next]_vars => TrapInv'
<1> SUFFICES ASSUME TrapInv, [Next]_vars PROVE TrapInv'
  OBVIOUS
<1>1. CASE UNCHANGED trapVars
  BY <1>1 DEF trapVars, TrapInv, TrapTypes, OwedAreBad, VerifySees, Doing
<1>2. ASSUME NEW t \in Threads, NEW op \in {"arm", "verify", "repair", "disarm"}, Begin(t, op)
      PROVE  TrapInv'
  BY <1>2, BeginKeeps
<1>3. CASE Alive /\ Orchestrate
  BY <1>1, <1>2, <1>3, ThreadsOfService
     DEF Orchestrate, ArmFirst, StartIpc, StopIpc, DisarmLast, CleanedUp
<1>4. CASE Alive /\ Listening
  BY <1>1, <1>4 DEF Listening
<1>5. ASSUME NEW c \in Clients, Receive(c) \/ Respond(c) \/ Serving(c) \/ Asking(c)
      PROVE  TrapInv'
  BY <1>1, <1>2, <1>5, ThreadsOfService DEF Receive, Respond, Serving, Asking
<1>6. ASSUME NEW t \in Threads, Working(t) PROVE TrapInv'
  BY <1>6, StepKeeps DEF Working
<1>7. CASE CliArms \/ CliGoesOn
  BY <1>1, <1>2, <1>7, ThreadsOfService DEF CliArms, CliGoesOn
<1>8. CASE Tampering
  BY <1>8, TamperKeeps DEF Tampering
<1>9. CASE UNCHANGED vars
  BY <1>1, <1>9 DEF vars
<1> QED BY <1>3, <1>4, <1>5, <1>6, <1>7, <1>8, <1>9 DEF Next

\* verify_all_canaries misses no trap that was bad when it began and that nobody has
\* written since, whatever the other threads do to the traps meanwhile.
THEOREM NoBadTrapIsMissed == Spec => []VerifySees
<1>1. TrapInv => VerifySees
  BY DEF TrapInv
<1> QED BY <1>1, TrapInit, TrapNext, PTL DEF Spec

-----------------------------------------------------------------------------
(* A clean stop.  As long as no write failed, no repair was asked for and   *)
(* the command line did nothing, only the orchestrator's thread changes     *)
(* what its manager remembers: every file that is there is remembered while *)
(* the service runs, and is on the list of the walk that disarms.           *)

Left == {x \in Traps : disk[x] # "gone"}

Undisturbed == ~failed /\ ~rearmed /\ cli = "new"

\* What the threads other than Main are at.
Bystanders ==
  /\ job[Cli].op = "none"
  /\ \A c \in Clients : job[c].op \in {"none", "verify"}

MainKeeps ==
  /\ phase \in {"new", "arm", "serve", "stop", "disarm", "done"}
  /\ phase = "new" => job[Main].op = "none" /\ Left = {}
  /\ phase = "arm" => job[Main].op \in {"none", "arm"} /\ Left \subseteq Mine(Main)
  /\ phase \in {"serve", "stop"} => job[Main].op = "none" /\ Left \subseteq Mine(Main)
  /\ phase = "disarm" =>
       \/ /\ job[Main].op = "disarm" /\ job[Main].size = Cardinality(Mine(Main))
          /\ Left \subseteq job[Main].todo
       \/ job[Main].op = "none" /\ Left = {}
  /\ phase = "done" => Left = {}

QuietInv == Undisturbed => Bystanders /\ MainKeeps

\* Nothing Main depends on has changed.
LEMMA MainUntouched ==
  ASSUME MainKeeps, UNCHANGED <<phase, canaries>>, Left' \subseteq Left,
         job'[Main].op = job[Main].op, job'[Main].todo = job[Main].todo,
         job'[Main].size = job[Main].size
  PROVE  MainKeeps'
<1>1. Mine(Main)' = Mine(Main)
  BY DEF Mine
<1> QED BY <1>1 DEF MainKeeps

\* A verification changes neither the files nor what is remembered.
LEMMA VerifyTouchesNothing ==
  ASSUME TrapTypes, NEW t \in Threads, job[t].op \in {"none", "verify"}, Step(t)
  PROVE  /\ UNCHANGED <<disk, canaries, failed>>
         /\ job'[t].op \in {"none", "verify"}
         /\ \A u \in Threads \ {t} :
              /\ job'[u].op = job[u].op /\ job'[u].todo = job[u].todo
              /\ job'[u].size = job[u].size
<1>1. job[t] \in Jobs
  BY DEF TrapTypes
<1>2. CASE VerifyOne(t)
  <2>1. PICK x \in job[t].todo :
          Work(t, [job[t] EXCEPT !.todo = @ \ {x},
                                 !.found = IF Tampered(t, x) THEN @ \cup {x} ELSE @], disk)
    BY <1>2 DEF VerifyOne
  <2> DEFINE f == IF Tampered(t, x) THEN job[t].found \cup {x} ELSE job[t].found
             j == [job[t] EXCEPT !.todo = @ \ {x}, !.found = f]
  <2>2. f \in SUBSET Traps
    BY <1>1 DEF Jobs
  <2>3. Work(t, j, disk)
    BY <2>1
  <2> HIDE DEF f
  <2>4. j \in Jobs /\ j.op = job[t].op
    BY <1>1, <2>2 DEF Jobs
  <2> HIDE DEF j
  <2> QED BY <1>2, <2>3, <2>4, WorkOf DEF VerifyOne
<1>3. CASE WalkRaises(t) \/ WalkEnds(t)
  BY <1>3, JobEnds DEF WalkRaises, WalkEnds, Idle
<1> QED
  BY <1>2, <1>3 DEF Step, ArmOne, RepairCheck, RepairWrite, RepairFails, RepairRemember, DisarmOne,
                    DisarmClear, Doing

LEMMA VerifyBegins ==
  ASSUME TrapTypes, NEW t \in Threads, Begin(t, "verify")
  PROVE  /\ UNCHANGED <<disk, canaries, failed>> /\ job'[t].op = "verify"
         /\ \A u \in Threads \ {t} : job'[u] = job[u]
BY DEF Begin, Remember, Mine, TrapTypes

\* The walk that arms: each file it writes it remembers.
LEMMA MainArms ==
  ASSUME TrapTypes, Undisturbed', MainKeeps, phase = "arm", phase' = "arm", Step(Main)
  PROVE  /\ MainKeeps'
         /\ \A u \in Threads \ {Main} : job'[u].op = job[u].op
<1>1. job[Main] \in Jobs /\ ManagerOf[Main] \in Managers /\ Main \in Threads
  BY ThreadsOfService, MineIsOfTraps DEF TrapTypes
<1>2. job[Main].op \in {"none", "arm"} /\ Left \subseteq Mine(Main)
  BY DEF MainKeeps
<1>3. CASE ArmOne(Main)
  <2>1. PICK x \in job[Main].todo :
          /\ Written(x) /\ Remember(Main, Mine(Main) \cup {x})
          /\ Work(Main, [job[Main] EXCEPT !.todo = @ \ {x}], disk')
    BY <1>3 DEF ArmOne, Undisturbed
  <2> DEFINE j == [job[Main] EXCEPT !.todo = @ \ {x}]
  <2>2. j \in Jobs /\ j.op = "arm"
    BY <1>1, <1>3 DEF Jobs, ArmOne, Doing
  <2>3. Mine(Main)' = Mine(Main) \cup {x}
    BY <1>1, <2>1 DEF Remember, Mine, TrapTypes
  <2>4. Left' \subseteq Left \cup {x}
    BY <2>1 DEF Written, Left, TrapTypes
  <2> HIDE DEF j
  <2>5. /\ job'[Main].op = "arm" /\ \A u \in Threads \ {Main} : job'[u].op = job[u].op
    BY <1>1, <2>1, <2>2, WorkOf DEF j
  <2> QED BY <1>2, <2>3, <2>4, <2>5 DEF MainKeeps
<1>4. CASE WalkEnds(Main)
  <2>1. /\ job'[Main].op = "none" /\ UNCHANGED <<disk, canaries>>
        /\ \A u \in Threads \ {Main} : job'[u] = job[u]
    BY <1>1, <1>4, JobEnds DEF WalkEnds, Idle
  <2>2. Mine(Main)' = Mine(Main) /\ Left' = Left
    BY <2>1 DEF Mine, Left
  <2> QED BY <1>2, <2>1, <2>2 DEF MainKeeps
<1> QED
  BY <1>2, <1>3, <1>4
     DEF Step, VerifyOne, WalkRaises, RepairCheck, RepairWrite, RepairFails, RepairRemember,
         DisarmOne, DisarmClear, Doing

\* The walk that disarms: it is not cut short, and passes over no file.
LEMMA MainDisarms ==
  ASSUME TrapTypes, Undisturbed', MainKeeps, phase = "disarm", phase' = "disarm", Step(Main)
  PROVE  /\ MainKeeps'
         /\ \A u \in Threads \ {Main} : job'[u].op = job[u].op
<1>1. job[Main] \in Jobs /\ ManagerOf[Main] \in Managers /\ Main \in Threads
  BY ThreadsOfService, MineIsOfTraps DEF TrapTypes
<1>2. /\ job[Main].op = "disarm" /\ job[Main].size = Cardinality(Mine(Main))
      /\ Left \subseteq job[Main].todo
  BY DEF MainKeeps, Step, ArmOne, VerifyOne, WalkRaises, RepairCheck, RepairWrite, RepairFails,
         RepairRemember, DisarmOne, DisarmClear, WalkEnds, Doing
<1>3. CASE DisarmOne(Main)
  <2>1. PICK x \in job[Main].todo :
          /\ disk' = [disk EXCEPT ![x] = "gone"]
          /\ Work(Main, [job[Main] EXCEPT !.todo = @ \ {x}], disk')
    BY <1>3 DEF DisarmOne, Undisturbed
  <2> DEFINE j == [job[Main] EXCEPT !.todo = @ \ {x}]
  <2>2. j \in Jobs /\ j.op = "disarm" /\ j.size = job[Main].size /\ j.todo = job[Main].todo \ {x}
    BY <1>1, <1>2 DEF Jobs
  <2>3. Mine(Main)' = Mine(Main)
    BY <1>3 DEF DisarmOne, Mine
  <2>4. Left' \subseteq Left \ {x}
    BY <2>1 DEF Left, TrapTypes
  <2>5. Work(Main, j, disk')
    BY <2>1
  <2> HIDE DEF j
  <2>6. /\ job'[Main].op = "disarm" /\ job'[Main].size = job[Main].size
        /\ job'[Main].todo = job[Main].todo \ {x}
        /\ \A u \in Threads \ {Main} : job'[u].op = job[u].op
    BY <1>1, <2>2, <2>5, WorkOf
  <2> QED BY <1>2, <2>3, <2>4, <2>6 DEF MainKeeps
<1>4. CASE DisarmClear(Main)
  <2>1. /\ job'[Main].op = "none" /\ UNCHANGED disk
        /\ \A u \in Threads \ {Main} : job'[u] = job[u]
    BY <1>1, <1>4, JobEnds DEF DisarmClear, Idle
  <2>2. Left' = {}
    BY <1>2, <1>4, <2>1 DEF DisarmClear, Left
  <2> QED BY <2>1, <2>2 DEF MainKeeps
<1>5. ~WalkRaises(Main)
  BY <1>2 DEF WalkRaises, SizeChanged
<1> QED
  BY <1>2, <1>3, <1>4, <1>5
     DEF Step, ArmOne, VerifyOne, RepairCheck, RepairWrite, RepairFails, RepairRemember, WalkEnds, Doing

LEMMA QuietInit == CommandsInit => QuietInv
<1> SUFFICES ASSUME CommandsInit PROVE QuietInv
  OBVIOUS
<1>1. \A t \in Threads : job[t].op = "none"
  BY DEF CommandsInit, Init, Idle
<1>2. Left = {} /\ phase = "new"
  BY DEF CommandsInit, Init, Left
<1> QED BY <1>1, <1>2, ThreadsOfService DEF QuietInv, Bystanders, MainKeeps

LEMMA MainBegins ==
  ASSUME TrapTypes, NEW op \in {"arm", "disarm"}, Begin(Main, op)
  PROVE  /\ Left' = Left /\ job'[Main].op = op
         /\ \A u \in Threads \ {Main} : job'[u] = job[u]
         /\ op = "disarm" => /\ canaries' = canaries /\ job'[Main].todo = Mine(Main)
                             /\ job'[Main].size = Cardinality(Mine(Main))
BY ThreadsOfService DEF Begin, Remember, Mine, TrapTypes, Left

\* The phases of the orchestrator.
LEMMA OrchestrateQuiet ==
  ASSUME TrapTypes, Bystanders, MainKeeps, Alive, Orchestrate
  PROVE  Bystanders' /\ MainKeeps'
<1>0. Main \notin Clients /\ Main # Cli
  BY CommandsAssumption
<1>1. CASE ArmFirst
  <2>1. /\ Left = {} /\ phase' = "arm" /\ Left' = Left /\ job'[Main].op = "arm"
        /\ \A u \in Threads \ {Main} : job'[u] = job[u]
    BY <1>1, MainBegins DEF ArmFirst, MainKeeps
  <2>2. MainKeeps'
    BY <2>1 DEF MainKeeps
  <2>3. Bystanders'
    BY <1>0, <2>1, ThreadsOfService DEF Bystanders
  <2> QED BY <2>2, <2>3
<1>2. CASE DisarmLast
  <2>1. /\ Left \subseteq Mine(Main) /\ phase' = "disarm" /\ Left' = Left
        /\ job'[Main].op = "disarm" /\ canaries' = canaries /\ job'[Main].todo = Mine(Main)
        /\ job'[Main].size = Cardinality(Mine(Main))
        /\ \A u \in Threads \ {Main} : job'[u] = job[u]
    BY <1>2, MainBegins DEF DisarmLast, MainKeeps
  <2>2. Mine(Main)' = Mine(Main)
    BY <2>1 DEF Mine
  <2>3. MainKeeps'
    BY <2>1, <2>2 DEF MainKeeps
  <2>4. Bystanders'
    BY <1>0, <2>1, ThreadsOfService DEF Bystanders
  <2> QED BY <2>3, <2>4
<1>3. CASE StartIpc \/ StopIpc \/ CleanedUp
  <2>1. UNCHANGED <<disk, canaries, job>>
    BY <1>3 DEF StartIpc, StopIpc, CleanedUp, trapVars
  <2>2. Left' = Left /\ Mine(Main)' = Mine(Main)
    BY <2>1 DEF Left, Mine
  <2>3. MainKeeps'
    BY <1>3, <2>1, <2>2 DEF StartIpc, StopIpc, CleanedUp, MainKeeps, Ended, Doing
  <2> QED BY <2>1, <2>3 DEF Bystanders
<1> QED BY <1>1, <1>2, <1>3 DEF Orchestrate

LEMMA QuietNext == TrapInv /\ QuietInv /\ [Next]_vars => QuietInv'
<1> SUFFICES ASSUME TrapInv, QuietInv, [Next]_vars, Undisturbed'
             PROVE  Bystanders' /\ MainKeeps'
  BY DEF QuietInv
<1>0. TrapTypes /\ Main \notin Clients /\ Main # Cli /\ Cli \notin Clients
  BY CommandsAssumption DEF TrapInv
<1>a. ASSUME UNCHANGED trapVars, UNCHANGED <<phase, cli>>, rearmed => rearmed'
      PROVE  Bystanders' /\ MainKeeps'
  <2>1. Undisturbed
    BY <1>a DEF Undisturbed, trapVars
  <2>2. Bystanders /\ MainKeeps
    BY <2>1 DEF QuietInv
  <2>3. UNCHANGED <<disk, canaries, job, phase>>
    BY <1>a DEF trapVars
  <2>4. Left' \subseteq Left
    BY <2>3 DEF Left
  <2> QED BY <2>2, <2>3, <2>4, MainUntouched DEF Bystanders
\* Once somebody has disturbed the traps, or a file operation has failed, it stays so.
<1>b. ASSUME UNCHANGED cli, rearmed => rearmed', failed => failed'
      PROVE  Bystanders /\ MainKeeps
  BY <1>b DEF QuietInv, Undisturbed
<1>1. CASE Alive /\ Orchestrate
  <2>1. Bystanders /\ MainKeeps
    <3>1. UNCHANGED <<cli, rearmed, failed>>
      BY <1>1 DEF Orchestrate, ArmFirst, StartIpc, StopIpc, DisarmLast, CleanedUp, Begin, trapVars
    <3> QED BY <1>b, <3>1
  <2> QED BY <1>0, <1>1, <2>1, OrchestrateQuiet
<1>2. CASE Alive /\ Listening
  BY <1>a, <1>2 DEF Listening
<1>3. ASSUME NEW c \in Clients, Respond(c) \/ Serving(c) \/ Asking(c)
      PROVE  Bystanders' /\ MainKeeps'
  BY <1>a, <1>3 DEF Respond, Serving, Asking
<1>4. ASSUME NEW c \in Clients, Receive(c)
      PROVE  Bystanders' /\ MainKeeps'
  <2>1. \/ Begin(c, "verify")
        \/ UNCHANGED trapVars
    BY <1>4 DEF Receive, Undisturbed
  <2>2. UNCHANGED <<phase, cli>> /\ (rearmed => rearmed')
    BY <1>4 DEF Receive
  <2>3. CASE Begin(c, "verify")
    <3>1. /\ UNCHANGED <<disk, canaries, failed>> /\ job'[c].op = "verify" /\ c \in Threads
          /\ \A u \in Threads \ {c} : job'[u] = job[u]
      BY <1>0, <2>3, ThreadsOfService, VerifyBegins
    <3>2. Bystanders /\ MainKeeps
      BY <1>b, <2>2, <3>1
    <3>3. Left' \subseteq Left
      BY <3>1 DEF Left
    <3>4. MainKeeps'
      BY <1>0, <2>2, <3>1, <3>2, <3>3, ThreadsOfService, MainUntouched
    <3> QED BY <1>0, <3>1, <3>2, <3>4, ThreadsOfService DEF Bystanders
  <2> QED BY <1>a, <2>1, <2>2, <2>3
<1>5. ASSUME NEW t \in Threads, Alive \/ t = Cli, Working(t)
      PROVE  Bystanders' /\ MainKeeps'
  <2>1. UNCHANGED <<phase, cli, rearmed>> /\ Step(t)
    BY <1>5 DEF Working
  <2>2. Bystanders /\ MainKeeps
    <3>1. failed => failed'
      BY <2>1 DEF Step, ArmOne, VerifyOne, WalkRaises, RepairCheck, RepairWrite, RepairFails,
                  RepairRemember, DisarmOne, DisarmClear, WalkEnds
    <3> QED BY <1>b, <2>1, <3>1
  <2>3. CASE t # Main
    <3>1. job[t].op \in {"none", "verify"}
      BY <2>2, <2>3, CommandsAssumption DEF Bystanders
    <3>2. /\ UNCHANGED <<disk, canaries, failed>>
          /\ job'[t].op \in {"none", "verify"}
          /\ \A u \in Threads \ {t} :
               /\ job'[u].op = job[u].op /\ job'[u].todo = job[u].todo
               /\ job'[u].size = job[u].size
      BY <1>0, <2>1, <3>1, VerifyTouchesNothing
    <3>3. t # Cli
      BY <2>1, <2>2 DEF Bystanders, Step, ArmOne, VerifyOne, WalkRaises, RepairCheck, RepairWrite,
                        RepairFails, RepairRemember, DisarmOne, DisarmClear, WalkEnds, Doing
    <3>4. Left' \subseteq Left
      BY <3>2 DEF Left
    <3>5. MainKeeps'
      BY <2>1, <2>2, <2>3, <3>2, <3>4, ThreadsOfService, MainUntouched
    <3>6. Bystanders'
      BY <2>2, <3>2, <3>3, ThreadsOfService DEF Bystanders
    <3> QED BY <3>5, <3>6
  <2>4. CASE t = Main
    <3>1. /\ phase # "done" /\ job[Main].op # "none"
      BY <1>0, <1>5, <2>1, <2>4
         DEF Alive, Step, ArmOne, VerifyOne, WalkRaises, RepairCheck, RepairWrite, RepairFails,
             RepairRemember, DisarmOne, DisarmClear, WalkEnds, Doing
    <3>2. phase = "arm" \/ phase = "disarm"
      BY <2>2, <3>1 DEF MainKeeps
    <3>3. MainKeeps' /\ \A u \in Threads \ {Main} : job'[u].op = job[u].op
      BY <1>0, <2>1, <2>2, <2>4, <3>2, MainArms, MainDisarms
    <3> QED BY <1>0, <2>2, <3>3, ThreadsOfService DEF Bystanders
  <2> QED BY <2>3, <2>4
<1>6. CASE CliArms \/ CliGoesOn
  BY <1>6 DEF CliArms, CliGoesOn, Undisturbed
<1>7. CASE Tampering
  <2>1. UNCHANGED <<canaries, job, failed, phase, cli, rearmed>>
    BY <1>7 DEF Tampering, Tamper
  <2>2. Bystanders /\ MainKeeps
    BY <1>b, <2>1
  <2>3. Left' \subseteq Left
    BY <1>0, <1>7 DEF Tampering, Tamper, Left, TrapTypes
  <2> QED BY <2>1, <2>2, <2>3, MainUntouched DEF Bystanders
<1>8. CASE UNCHANGED vars
  BY <1>a, <1>8 DEF vars
<1> QED BY <1>1, <1>2, <1>3, <1>4, <1>5, <1>6, <1>7, <1>8 DEF Next

\* A clean stop leaves no trap behind, with any number of clients that verify and of
\* programs that change the traps, unless a write or an unlink failed, a repair was asked
\* for or the command line armed the traps too.
THEOREM CleanStopIsQuiet == Spec => []QuietStop
<1>1. QuietInv => QuietStop
  BY DEF QuietInv, Undisturbed, MainKeeps, Left, QuietStop
<1> QED BY <1>1, TrapInit, TrapNext, QuietInit, QuietNext, PTL DEF Spec
=============================================================================
