-------------------------------- MODULE Ipc --------------------------------
(***************************************************************************)
(* Commands to the service: the named pipe of sentinel/ipc.py on Windows,  *)
(* the Unix socket of sentinel/platform/ipc.py elsewhere.                  *)
(*                                                                         *)
(* The pipe has one instance and one thread: a client is served from its   *)
(* connect to its disconnect before the next one gets in, and the thread   *)
(* waits for it without a timeout.  The socket has a backlog and a thread  *)
(* per client, and every wait has a timeout.  A client sends one request,  *)
(* may be slow to send it, and may be gone at any time.                    *)
(*                                                                         *)
(* What a command does is in the module Commands; a handler is in "run"    *)
(* while it does it.                                                       *)
(***************************************************************************)
EXTENDS Naturals, FiniteSets

CONSTANTS Clients,
          Requests,    \* what each client may ask: known and unknown commands
          Shutdown,    \* the command that ends the pipe's thread
          Garbage,     \* what is no JSON
          NoObject,    \* JSON, but no object
          NoRequest

ASSUME IpcAssumption == DOMAIN Requests = Clients /\ \A c \in Clients : NoRequest \notin Requests[c]

VARIABLES transport,   \* "pipe" or "socket"
          loop,        \* where the thread of the server is
          stopping,    \* _stop_event is set, or _running is not
          stopper,     \* where the thread in stop() is
          client,      \* where each client is
          asks,        \* what it asks
          served       \* where the handler of each client is

ipcVars == <<transport, loop, stopping, stopper, client, asks, served>>

Pipe == transport = "pipe"
Socket == transport = "socket"

\* create_ipc_server
IpcInit ==
  /\ transport \in {"pipe", "socket"}
  /\ loop = "off" /\ stopping = FALSE /\ stopper = "no"
  /\ client = [c \in Clients |-> "idle"]
  /\ asks = [c \in Clients |-> NoRequest]
  /\ served = [c \in Clients |-> "none"]

Client(c, to) ==
  /\ client' = [client EXCEPT ![c] = to]
  /\ asks' = [asks EXCEPT ![c] = IF to = "idle" THEN NoRequest ELSE @]
Serve(c, to) == served' = [served EXCEPT ![c] = to]

\* The end of a connection: a client that has had no answer sees an error.
Broken(c) == IF client[c] = "trying" THEN "trying" ELSE "idle"

\* The server lets go of a client; the pipe's thread goes on to `next`.
Disconnect(c, next) ==
  /\ Client(c, Broken(c))
  /\ Serve(c, "none")
  /\ loop' = IF Pipe THEN next ELSE loop
  /\ UNCHANGED <<transport, stopping, stopper>>

-----------------------------------------------------------------------------
(* The server.                                                             *)

StartServer ==
  /\ loop = "off"
  /\ loop' = IF Pipe THEN "head" ELSE "accept"
  /\ UNCHANGED <<transport, stopping, stopper, client, asks, served>>

\* The pipe cannot be created: its thread ends.  The socket cannot be bound: there
\* is no server.
StartFails ==
  /\ loop = "off"
  /\ loop' = IF Pipe THEN "ended" ELSE "none"
  /\ UNCHANGED <<transport, stopping, stopper, client, asks, served>>

PipeHead ==
  /\ Pipe /\ loop = "head"
  /\ loop' = IF stopping THEN "ended" ELSE "listen"
  /\ UNCHANGED <<transport, stopping, stopper, client, asks, served>>

\* ConnectNamedPipe, for a client that comes or has come already.
PipeConnect(c) ==
  /\ Pipe /\ loop = "listen" /\ client[c] = "trying"
  /\ loop' = "busy"
  /\ Client(c, "connected") /\ Serve(c, "recv")
  /\ UNCHANGED <<transport, stopping, stopper>>

PipeConnectFails ==
  /\ Pipe /\ loop = "listen"
  /\ loop' = "head"
  /\ UNCHANGED <<transport, stopping, stopper, client, asks, served>>

\* The kernel takes a client into the backlog.
SocketConnect(c) ==
  /\ Socket /\ loop = "accept" /\ ~stopping /\ client[c] = "trying"
  /\ Client(c, "connected") /\ Serve(c, "backlog")
  /\ UNCHANGED <<transport, loop, stopping, stopper>>

Accept(c) ==
  /\ loop = "accept" /\ ~stopping /\ served[c] = "backlog"
  /\ Serve(c, "recv")
  /\ UNCHANGED <<transport, loop, stopping, stopper, client, asks>>

\* The accept loop ends at a timeout or at the error of the closed socket.
AcceptEnds ==
  /\ loop = "accept" /\ stopping
  /\ loop' = "ended"
  /\ UNCHANGED <<transport, stopping, stopper, client, asks, served>>

\* On the pipe the stop is looked at again behind the read.
RecvStopped(c) ==
  /\ Pipe /\ stopping
  /\ served[c] = "recv" /\ client[c] = "sent"
  /\ Disconnect(c, "ended")

RecvDropsGarbage(c) ==         \* mutant: no answer to what is no JSON
  /\ served[c] = "recv" /\ client[c] = "sent"
  /\ Pipe => ~stopping
  /\ Serve(c, IF asks[c] = Garbage THEN "none" ELSE "run")
  /\ UNCHANGED <<transport, loop, stopping, stopper, client, asks>>

\* request.get raises in the pipe's thread, which ends and closes the pipe.
RecvRaises(c) ==
  /\ Pipe /\ ~stopping
  /\ served[c] = "recv" /\ client[c] = "sent" /\ asks[c] = NoObject
  /\ Disconnect(c, "ended")

Recv(c) ==
  /\ served[c] = "recv" /\ client[c] = "sent"
  /\ Pipe => ~stopping /\ asks[c] # NoObject
  /\ Serve(c, IF Pipe /\ asks[c] = Shutdown THEN "bye"
              ELSE IF asks[c] = Garbage THEN "reply" ELSE "run")
  /\ UNCHANGED <<transport, loop, stopping, stopper, client, asks>>

\* The client has gone, or, on the socket, is too slow.
RecvFails(c) ==
  /\ served[c] = "recv"
  /\ client[c] = "left" \/ (Socket /\ client[c] = "connected")
  /\ Disconnect(c, "head")

\* The command has been done, or has raised.
Handled(c) ==
  /\ served[c] = "run"
  /\ Serve(c, "reply")
  /\ UNCHANGED <<transport, loop, stopping, stopper, client, asks>>

Reply(c) == served[c] = "reply" /\ Disconnect(c, "head")

Bye(c) == served[c] = "bye" /\ Disconnect(c, "ended")

-----------------------------------------------------------------------------
(* stop(), in the orchestrator's thread.                                   *)

DropAll(S) ==
  /\ client' = [c \in Clients |-> IF c \in S THEN Broken(c) ELSE client[c]]
  /\ asks' = [c \in Clients |-> IF c \in S THEN NoRequest ELSE asks[c]]
  /\ served' = [c \in Clients |-> IF c \in S THEN "none" ELSE served[c]]

\* The process ends, and with it its threads and its ends of the connections.
ProcessEnds ==
  /\ DropAll({c \in Clients : served[c] # "none"})
  /\ loop' = "ended"
  /\ UNCHANGED <<transport, stopping, stopper>>

Running == loop \notin {"off", "none"}

\* The socket is closed: what waits in its backlog is reset.
StopServer ==
  /\ stopper = "no" /\ Running
  /\ stopping' = TRUE
  /\ stopper' = IF Pipe THEN "wake" ELSE "join"
  /\ DropAll({c \in Clients : served[c] = "backlog"})
  /\ UNCHANGED <<transport, loop>>

StopNothing ==
  /\ stopper = "no" /\ loop = "none"
  /\ stopper' = "done"
  /\ UNCHANGED <<transport, loop, stopping, client, asks, served>>

\* A call of its own gets the thread out of ConnectNamedPipe.
StopWakes ==
  /\ stopper = "wake" /\ loop = "listen"
  /\ stopper' = "join" /\ loop' = "ended"
  /\ UNCHANGED <<transport, stopping, client, asks, served>>

\* The instance is busy, or there is none.
StopWakeFails ==
  /\ stopper = "wake"
  /\ stopper' = "join"
  /\ UNCHANGED <<transport, loop, stopping, client, asks, served>>

JoinForEver ==                 \* mutant: join()
  /\ stopper = "join" /\ loop = "ended"
  /\ stopper' = "done"
  /\ UNCHANGED <<transport, loop, stopping, client, asks, served>>

\* join(timeout): the thread has ended, or the time is up.
StopJoined ==
  /\ stopper = "join"
  /\ stopper' = "done"
  /\ UNCHANGED <<transport, loop, stopping, client, asks, served>>

-----------------------------------------------------------------------------
(* The clients: NamedPipeClient.send, UnixSocketClient.send_command.       *)

Call(c) ==
  /\ client[c] = "idle" /\ served[c] = "none"
  /\ \E r \in Requests[c] : asks' = [asks EXCEPT ![c] = r]
  /\ client' = [client EXCEPT ![c] = "trying"]
  /\ UNCHANGED <<transport, loop, stopping, stopper, served>>

\* The pipe is busy or missing until the deadline; the socket refuses.
GiveUp(c) ==
  /\ client[c] = "trying"
  /\ Pipe \/ loop # "accept" \/ stopping
  /\ Client(c, "idle")
  /\ UNCHANGED <<transport, loop, stopping, stopper, served>>

Send(c) ==
  /\ client[c] = "connected"
  /\ Client(c, "sent")
  /\ UNCHANGED <<transport, loop, stopping, stopper, served>>

\* Only the socket's client waits with a timeout; any client may end at any time.
Leave(c) ==
  /\ client[c] \in {"connected", "sent"}
  /\ Client(c, "left")
  /\ UNCHANGED <<transport, loop, stopping, stopper, served>>

ServerLoop == PipeHead \/ PipeConnectFails \/ AcceptEnds

-----------------------------------------------------------------------------
\* A client that has sent its request to the service gets an answer or an error, or
\* leaves; it is not left waiting, whatever other clients do.
SentIsAnswered == \A c \in Clients : client[c] = "sent" ~> client[c] # "sent"
=============================================================================
