------------------------------ MODULE Emulator ------------------------------
(***************************************************************************)
(* The emulator, sentinel/sandbox/emulator.py, as the worker threads of a  *)
(* scan share it: there is one DynamicEmulator in a scanner, and the       *)
(* memory it emulates in is an attribute of it, self.vm.                   *)
(*                                                                         *)
(* A program is the sequence of what its instructions do to the result; an *)
(* instruction without such an effect is "other", and the zeros behind the *)
(* last one end the run.  Registers and addresses are left out: every      *)
(* image is mapped at the same place.                                      *)
(***************************************************************************)
EXTENDS Naturals, Sequences, FiniteSets

CONSTANTS Workers, Programs, NoProgram,
          Code,              \* what the instructions of a program do
          Infected,          \* the programs whose memory a YARA rule matches
          MaxInstructions,
          PayloadSize        \* the stores beyond which a payload was written

ASSUME EmulatorAssumption ==
  /\ NoProgram \notin Programs /\ Infected \subseteq Programs
  /\ MaxInstructions \in Nat \ {0} /\ PayloadSize \in Nat

VARIABLES vm,                \* self.vm: what is mapped, and what was mapped last
          emu                \* the threads, each with its EmulationResult

emulatorVars == <<vm, emu>>

NewMemory == [holds |-> {}, image |-> NoProgram]
NewResult == [evasions |-> 0, rwx |-> 0, injects |-> FALSE, payload |-> FALSE, yara |-> {}]

\* `alone` is history: no other thread has begun or mapped a program meanwhile.
Rested == [at |-> "out", program |-> NoProgram, eip |-> 1, steps |-> 0, stores |-> 0,
           alone |-> TRUE, result |-> NewResult]

EmulatorInit == vm = NewMemory /\ emu = [w \in Workers |-> Rested]

\* A step of thread w on the memory of all.
Disturb(w, r) ==
  emu' = [v \in Workers |-> IF v = w THEN r ELSE [emu[v] EXCEPT !.alone = FALSE]]

-----------------------------------------------------------------------------
\* _emulate_pe, _emulate_elf and _emulate_shellcode: a memory of its own, then the
\* image and the stack, a call later.  A file that cannot be read does not come here.
NewVmOnce(w, p) ==              \* mutant: the memory is made for the first program alone
  /\ emu[w].at = "out"
  /\ UNCHANGED vm
  /\ Disturb(w, [Rested EXCEPT !.at = "map", !.program = p,
                               !.alone = \A v \in Workers \ {w} : emu[v].at = "out"])

NewVm(w, p) ==
  /\ emu[w].at = "out"
  /\ vm' = NewMemory
  /\ Disturb(w, [Rested EXCEPT !.at = "map", !.program = p,
                               !.alone = \A v \in Workers \ {w} : emu[v].at = "out"])

Map(w) ==
  /\ emu[w].at = "map"
  /\ vm' = [holds |-> vm.holds \cup {emu[w].program}, image |-> emu[w].program]
  /\ Disturb(w, [emu[w] EXCEPT !.at = "run"])

-----------------------------------------------------------------------------
(* _run_interpreter and _handle_api_call.                                  *)

Fetched(w) ==
  IF vm.image # NoProgram /\ emu[w].eip \in DOMAIN Code[vm.image]
  THEN Code[vm.image][emu[w].eip] ELSE "zero"

Effect(r, instruction) ==
  CASE instruction \in {"rdtsc", "peb"}     -> [r EXCEPT !.evasions = @ + 1]
    [] instruction \in {"debugger", "sleep"} -> [r EXCEPT !.evasions = @ + 2]
    [] instruction = "alloc"                -> [r EXCEPT !.evasions = @ + 1, !.rwx = @ + 1]
    [] instruction = "inject"               -> [r EXCEPT !.evasions = @ + 1, !.injects = TRUE]
    [] OTHER                                -> r

\* A payload counts when the run is over, however it ends.
Over(e) == [e EXCEPT !.at = "rescan", !.result.payload = e.stores > PayloadSize]

Interpret(w) ==
  LET i == Fetched(w)
      e == [emu[w] EXCEPT !.steps = @ + 1, !.result = Effect(@, i),
                          !.stores = @ + IF i = "stos" THEN 1 ELSE 0,
                          !.eip = IF i = "jump" THEN 1 ELSE @ + 1]
  IN  /\ emu[w].at = "run" /\ emu[w].steps < MaxInstructions
      /\ emu' = [emu EXCEPT ![w] = IF i \in {"zero", "ret"} THEN Over(e) ELSE e]
      /\ UNCHANGED vm

OutOfSteps(w) ==
  /\ emu[w].at = "run" /\ emu[w].steps = MaxInstructions
  /\ emu' = [emu EXCEPT ![w] = Over(@)]
  /\ UNCHANGED vm

\* max_seconds is over: that is an evasion of its own.
OutOfTime(w) ==
  /\ emu[w].at = "run" /\ emu[w].steps < MaxInstructions
  /\ emu' = [emu EXCEPT ![w] = Over([emu[w] EXCEPT !.result.evasions = @ + 1])]
  /\ UNCHANGED vm

-----------------------------------------------------------------------------
\* The buffers that were written are those of every image that was mapped.
Rescan(w) ==
  LET r == emu[w].result IN
  /\ emu[w].at = "rescan"
  /\ emu' = [emu EXCEPT ![w].at = "done",
                        ![w].result.yara = IF r.payload \/ r.rwx > 0
                                           THEN vm.holds \cap Infected ELSE {}]
  /\ UNCHANGED vm

Report(w) ==
  /\ emu[w].at = "done"
  /\ emu' = [emu EXCEPT ![w] = Rested]
  /\ UNCHANGED vm

EmulatorNext ==
  \E w \in Workers :
    \/ \E p \in Programs : NewVm(w, p)
    \/ Map(w) \/ Interpret(w) \/ OutOfSteps(w) \/ OutOfTime(w) \/ Rescan(w) \/ Report(w)

EmulatorSpec == EmulatorInit /\ [][EmulatorNext]_emulatorVars

\* _evaluate_risk
Capped(n, limit) == IF n > limit THEN limit ELSE n
Risk(r) ==
  Capped((IF r.yara # {} THEN 85 ELSE 0) + (IF r.injects THEN 45 ELSE 0)
         + (IF r.payload THEN 35 ELSE 0) + (IF r.rwx > 0 THEN 25 ELSE 0)
         + Capped(20 * r.evasions, 40), 100)
Malicious(r) == Risk(r) >= 75 \/ r.yara # {}

-----------------------------------------------------------------------------
(* Properties.                                                             *)

EmulatorOK ==
  /\ vm.holds \subseteq Programs
  /\ \A w \in Workers :
       /\ emu[w].at \in {"out", "map", "run", "rescan", "done"}
       /\ emu[w].steps \in 0..MaxInstructions
       /\ emu[w].result.yara \subseteq Infected

\* The verdict on a file comes from that file alone, whatever was emulated before it,
\* as long as no other thread begins another one meanwhile: nothing infected was in a
\* file without a match, and no file is malicious that does nothing at all.
OwnMemory ==
  \A w \in Workers : emu[w].at = "done" /\ emu[w].alone =>
    /\ emu[w].result.yara \subseteq {emu[w].program}
    /\ Malicious(emu[w].result) => Code[emu[w].program] # <<>>

\* Does not hold with two workers: emulator.py:243 looks at self.vm.
OwnMemoryAlways ==
  \A w \in Workers : emu[w].at = "done" => emu[w].result.yara \subseteq {emu[w].program}
=============================================================================
