------------------------------ MODULE Commands ------------------------------
(***************************************************************************)
(* The commands of the service (SentinelOrchestrator._handle_ipc_command)  *)
(* on the canary traps, between the start of the orchestrator and the end  *)
(* of its cleanup; and the command line, sentinel/cli_entry.py, which has  *)
(* a manager of its own for the same traps.                                *)
(*                                                                         *)
(* The handler of a client works on the traps under the client's name.     *)
(* The rest of the orchestrator (consumer, sensors, bridge, watchdog) is   *)
(* in the modules Lifecycle and Sensors.                                   *)
(***************************************************************************)
EXTENDS Canary, Ipc

CONSTANTS Main, Cli,           \* threads that are no handlers
          Verify, Rearm,       \* the commands that work on the traps
          Nature,        \* the programs that change the traps
          Casts,         \* who acts, in the behaviours that are looked at
          MaxTampers

ASSUME CommandsAssumption ==
  /\ Threads = Clients \cup {Main, Cli} /\ Main # Cli
  /\ {Main, Cli} \cap Clients = {}
  /\ Verify # Rearm /\ Casts \subseteq SUBSET (Clients \cup {Cli, Nature})
  /\ MaxTampers \in Nat

VARIABLES phase,       \* how far the orchestrator is
          cli,         \* what the command line has done
          cast, tampers,
          rearmed      \* history: a repair was asked for

vars == <<trapVars, ipcVars, phase, cli, cast, tampers, rearmed>>

CommandsInit ==
  /\ Init /\ IpcInit
  /\ phase = "new" /\ cli = "new" /\ cast \in Casts /\ tampers = 0 /\ rearmed = FALSE

-----------------------------------------------------------------------------
(* The orchestrator: _init_components, _run_loop, _cleanup.                *)

ArmFirst ==
  /\ phase = "new" /\ phase' = "arm"
  /\ Begin(Main, "arm")
  /\ UNCHANGED <<ipcVars, cli, cast, tampers, rearmed>>

StartIpc ==
  /\ phase = "arm" /\ Ended(Main) /\ phase' = "serve"
  /\ StartServer \/ StartFails
  /\ UNCHANGED <<trapVars, cli, cast, tampers, rearmed>>

\* The server is stopped first; the consumer, the sensors and the bridge follow it.
StopIpc ==
  /\ phase \in {"serve", "stop"} /\ phase' = "stop"
  /\ StopServer \/ StopNothing \/ StopWakes \/ StopWakeFails \/ StopJoined
  /\ UNCHANGED <<trapVars, cli, cast, tampers, rearmed>>

DisarmLast ==
  /\ phase = "stop" /\ stopper = "done" /\ phase' = "disarm"
  /\ Begin(Main, "disarm")
  /\ UNCHANGED <<ipcVars, cli, cast, tampers, rearmed>>

CleanedUp ==
  /\ phase = "disarm" /\ Ended(Main) /\ phase' = "done"
  /\ ProcessEnds
  /\ UNCHANGED <<trapVars, cli, cast, tampers, rearmed>>

Orchestrate == ArmFirst \/ StartIpc \/ StopIpc \/ DisarmLast \/ CleanedUp

-----------------------------------------------------------------------------
(* A request reaches its handler, which takes the traps one by one.        *)

Receive(c) ==
  /\ Recv(c)
  /\ CASE served'[c] = "run" /\ asks[c] = Verify -> Begin(c, "verify")
       [] served'[c] = "run" /\ asks[c] = Rearm  -> Begin(c, "repair")
       [] OTHER -> UNCHANGED trapVars
  /\ rearmed' = (rearmed \/ (served'[c] = "run" /\ asks[c] = Rearm))
  /\ UNCHANGED <<phase, cli, cast, tampers>>

Respond(c) ==
  /\ Ended(c) /\ Handled(c)
  /\ UNCHANGED <<trapVars, phase, cli, cast, tampers, rearmed>>

\* The process of the service ends with its cleanup, and its handlers with it.
Alive == phase # "done"

Serving(c) ==
  /\ \/ PipeConnect(c) \/ SocketConnect(c) \/ Accept(c)
     \/ RecvStopped(c) \/ RecvRaises(c) \/ RecvFails(c) \/ Reply(c) \/ Bye(c)
  /\ UNCHANGED <<trapVars, phase, cli, cast, tampers, rearmed>>

Listening ==
  /\ ServerLoop
  /\ UNCHANGED <<trapVars, phase, cli, cast, tampers, rearmed>>

Asking(c) ==
  /\ c \in cast
  /\ Call(c) \/ GiveUp(c) \/ Send(c) \/ Leave(c)
  /\ UNCHANGED <<trapVars, phase, cli, cast, tampers, rearmed>>

Working(t) ==
  /\ Step(t)
  /\ UNCHANGED <<ipcVars, phase, cli, cast, tampers, rearmed>>

-----------------------------------------------------------------------------
\* cmd_canaries: each of its three forms arms the traps first.
CliArms ==
  /\ Cli \in cast /\ cli = "new" /\ cli' = "armed"
  /\ Begin(Cli, "arm")
  /\ UNCHANGED <<ipcVars, phase, cast, tampers, rearmed>>

CliGoesOn ==
  /\ cli = "armed" /\ Ended(Cli) /\ cli' = "done"
  /\ \/ Begin(Cli, "verify") \/ Begin(Cli, "disarm")
     \/ UNCHANGED trapVars
  /\ UNCHANGED <<ipcVars, phase, cast, tampers, rearmed>>

Tampering ==
  /\ Nature \in cast /\ tampers < MaxTampers /\ tampers' = tampers + 1
  /\ \E x \in Traps : Tamper(x, "changed") \/ Tamper(x, "gone")
  /\ UNCHANGED <<ipcVars, phase, cli, cast, rearmed>>

Next ==
  \/ Alive /\ Orchestrate
  \/ Alive /\ Listening
  \/ \E c \in Clients : Alive /\ (Receive(c) \/ Respond(c) \/ Serving(c))
  \/ \E c \in Clients : Alive /\ Asking(c)
  \/ \E t \in Threads : (Alive \/ t = Cli) /\ Working(t)
  \/ CliArms \/ CliGoesOn \/ Tampering

\* The threads of the service are scheduled and their system calls return; nothing is
\* assumed of when clients call, send or leave, nor that anybody stops the service.
MainStep ==
  \/ phase = "stop" /\ StopIpc
  \/ DisarmLast \/ CleanedUp \/ Working(Main)

HandlerStep(c) == Receive(c) \/ Respond(c) \/ Serving(c) \/ Working(c)

Fairness ==
  /\ WF_vars(Alive /\ MainStep)
  /\ WF_vars(Alive /\ Listening)
  /\ \A c \in Clients : WF_vars(Alive /\ HandlerStep(c))

Spec == CommandsInit /\ [][Next]_vars /\ Fairness

-----------------------------------------------------------------------------
(* Properties.                                                             *)

\* A clean stop leaves no trap behind, unless a write or an unlink failed, a repair was
\* asked for or the command line armed them too: disarm_traps takes the changed ones
\* as well, and whoever verifies meanwhile.
QuietStop ==
  phase = "done" /\ ~failed /\ ~rearmed /\ cli = "new" =>
    \A x \in Traps : disk[x] = "gone"

\* The cleanup of the orchestrator comes to its end, though clients are silent and
\* handlers change the traps under it.
CleanupEnds == phase = "stop" ~> phase = "done"

\* service.py:381, "Disarm canaries if shutting down cleanly".
CleanStopDisarms ==
  phase = "done" /\ cli = "new" /\ ~failed => \A x \in Traps : disk[x] # "intact"
=============================================================================
