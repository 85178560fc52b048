--------------------------- MODULE ClientHandler ---------------------------
(***************************************************************************)
(* The clients' side of the auth service, src/server/auth/ClientHandler.   *)
(*                                                                         *)
(* One thread accepts, a growing pool of threads receives, one processes,  *)
(* one sends.  The accepting and the receiving threads share one           *)
(* io_context; a receiving thread holds clientSocketsMutex all the time it *)
(* is in run().  running is never cleared: Start's threads end with the    *)
(* process.                                                                *)
(*                                                                         *)
(* The wire is shared with the clients: link[c] is the TCP connection,     *)
(* hello[c] whether c has begun the TLS handshake, keys[c] its outcome,    *)
(* input[c] the number of its chunks the service has not read.             *)
(***************************************************************************)
EXTENDS IoContext, Pipeline

CONSTANTS
  Clients,
  Receivers,  (* the receiving threads there may be: maxThreads *)
  Accepter

ASSUME ThreadsAssumption ==
  /\ Accepter \notin Receivers
  /\ Runners = Receivers \cup {Accepter}
  /\ "nobody" \notin Receivers /\ "no data" \notin Clients

VARIABLES
  link, hello, keys, input,
  acceptPc, rpc,
  clientSocketsMutex, clientSockets,
  written  (* what async_write was called with *)

wire == <<link, hello, keys, input>>
handlerVars == <<acceptPc, rpc, clientSocketsMutex, clientSockets, written>>
serverVars == <<ioVars, pipeVars, handlerVars>>

Nobody == "nobody"
First == CHOOSE r \in Receivers : TRUE
Accept == <<"accept">>
Handshake(c) == <<"handshake", c>>
Read(c) == <<"read", c>>
Write(c) == <<"write", c>>
Operations == {Accept} \cup {Handshake(c) : c \in Clients}
              \cup {Read(c) : c \in Clients} \cup {Write(c) : c \in Clients}

WireInit ==
  /\ link = [c \in Clients |-> "none"]
  /\ hello = [c \in Clients |-> FALSE]
  /\ keys = [c \in Clients |-> "none"]
  /\ input = [c \in Clients |-> 0]

\* ClientHandler::Start.
ServerInit ==
  /\ IoInit /\ PipeInit("test")
  /\ acceptPc = "loop"
  /\ rpc = [r \in Receivers |-> IF r = First THEN "loop" ELSE "none"]
  /\ clientSocketsMutex = Nobody
  /\ clientSockets = {}
  /\ written = <<>>

OnlyAccepter ==
  UNCHANGED <<pipeVars, wire, rpc, clientSocketsMutex, clientSockets, written>>

\* Mutant: a context that has stopped is restarted.
AcceptRestarts ==
  /\ acceptPc = "loop" /\ acceptPc' = "run"
  /\ stopped' = FALSE
  /\ pending' = pending \cup {Accept}
  /\ inRun' = inRun \cup {Accepter} /\ UNCHANGED handling
  /\ OnlyAccepter

AcceptPosts ==
  /\ acceptPc = "loop"
  /\ PostAndRun(Accepter, {Accept})
  /\ acceptPc' = "run"
  /\ OnlyAccepter

AcceptReturns ==
  /\ acceptPc = "run" /\ acceptPc' = "loop"
  /\ LeaveRun(Accepter)
  /\ OnlyAccepter

OnlyReceiver ==
  UNCHANGED <<pipeVars, wire, acceptPc, clientSockets, written>>

\* Also on a context that has stopped: the thread then takes the mutex and
\* gives it back again and again.
ReceiverRuns(r) ==
  /\ rpc[r] = "loop" /\ clientSocketsMutex = Nobody
  /\ PostAndRun(r, {Read(c) : c \in clientSockets})
  /\ rpc' = [rpc EXCEPT ![r] = "run"]
  /\ clientSocketsMutex' = r
  /\ OnlyReceiver

\* Mutant: run_one instead of run.
ReceiverRunsOne(r) ==
  /\ rpc[r] = "run" /\ handling[r] = Idle
  /\ inRun' = inRun \ {r}
  /\ UNCHANGED <<stopped, pending, handling>>
  /\ rpc' = [rpc EXCEPT ![r] = "loop"]
  /\ clientSocketsMutex' = Nobody
  /\ OnlyReceiver

ReceiverReturns(r) ==
  /\ rpc[r] = "run"
  /\ LeaveRun(r)
  /\ rpc' = [rpc EXCEPT ![r] = "loop"]
  /\ clientSocketsMutex' = Nobody
  /\ OnlyReceiver

\* The handlers.

AcceptHandled(r, c) ==
  /\ link[c] = "open"
  /\ Handle(r, Accept, {Handshake(c)})
  /\ link' = [link EXCEPT ![c] = "accepted"]
  /\ UNCHANGED <<pipeVars, hello, keys, input, handlerVars>>

AcceptFails(r) ==
  /\ Handle(r, Accept, {})
  /\ UNCHANGED <<pipeVars, wire, handlerVars>>

\* The two ends agree on keys, or one of them rejects the other.  The steps
\* of the handshake are run by a thread of the context like a handler.
Secure(c) ==
  /\ link[c] = "accepted" /\ hello[c] /\ keys[c] = "none"
  /\ \E r \in Runners : CanHandle(r, Handshake(c))
  /\ \E outcome \in {"agreed", "failed"} : keys' = [keys EXCEPT ![c] = outcome]
  /\ UNCHANGED <<serverVars, link, hello, input>>

HandshakeHandled(r, c) ==
  /\ keys[c] # "none" \/ link[c] = "closed"
  /\ BeginHandler(r, Handshake(c))
  /\ UNCHANGED <<pipeVars, wire, handlerVars>>

\* Mutant: the handler does not look at its error.
HandshakePushesAny(r, c) ==
  /\ handling[r] = Handshake(c)
  /\ clientSocketsMutex = Nobody
  /\ clientSockets' = clientSockets \cup {c}
  /\ UNCHANGED <<ioVars, pipeVars, wire, acceptPc, rpc, clientSocketsMutex, written>>

HandshakePushes(r, c) ==
  /\ handling[r] = Handshake(c) /\ keys[c] = "agreed"
  /\ clientSocketsMutex = Nobody
  /\ clientSockets' = clientSockets \cup {c}
  /\ UNCHANGED <<ioVars, pipeVars, wire, acceptPc, rpc, clientSocketsMutex, written>>

\* A stream that is not in clientSockets goes with its last handler.
HandshakeReturns(r, c) ==
  /\ handling[r] = Handshake(c)
  /\ keys[c] = "agreed" => c \in clientSockets
  /\ EndHandler(r)
  /\ link' = IF c \in clientSockets THEN link ELSE [link EXCEPT ![c] = "closed"]
  /\ UNCHANGED <<pipeVars, hello, keys, input, handlerVars>>

\* The handler also adds a thread to the pool, if maxThreads allows it.
ReadHandled(r, c) ==
  /\ input[c] > 0 /\ input' = [input EXCEPT ![c] = @ - 1]
  /\ Handle(r, Read(c), {})
  /\ Receive(c)
  /\ LET free == {x \in Receivers : rpc[x] = "none"} IN
       IF free = {} THEN UNCHANGED rpc
       ELSE \E new \in free : rpc' = [rpc EXCEPT ![new] = "loop"]
  /\ UNCHANGED <<link, hello, keys, acceptPc, clientSocketsMutex, clientSockets, written>>

ReadFails(r, c) ==
  /\ link[c] = "closed" /\ input[c] = 0
  /\ Handle(r, Read(c), {})
  /\ UNCHANGED <<pipeVars, wire, handlerVars>>

\* running stays TRUE, so that a spurious wakeup changes nothing here.
ProcessThread == ProcessStep /\ UNCHANGED <<ioVars, wire, handlerVars>>

SendThread == SendStep /\ UNCHANGED <<ioVars, wire, handlerVars>>

PipelineStep == ProcessThread \/ SendThread

\* Mutant: clientSockets is read without its mutex.
SendsToAllUnlocked ==
  /\ written' = Append(written, sdata)
  /\ SendWrites
  /\ Post({Write(c) : c \in clientSockets})
  /\ UNCHANGED <<wire, acceptPc, rpc, clientSocketsMutex, clientSockets>>

\* The completion handlers of these writes are not modelled: they are never
\* called (WritesFindItStopped).
SendsToAll ==
  /\ clientSocketsMutex = Nobody
  /\ written' = Append(written, sdata)
  /\ SendWrites
  /\ Post({Write(c) : c \in clientSockets})
  /\ UNCHANGED <<wire, acceptPc, rpc, clientSocketsMutex, clientSockets>>

HandlerStep(r) ==
  \/ \E c \in Clients : \/ AcceptHandled(r, c) \/ HandshakeHandled(r, c)
                        \/ HandshakePushes(r, c) \/ HandshakeReturns(r, c)
                        \/ ReadHandled(r, c) \/ ReadFails(r, c)
  \/ AcceptFails(r)

ServerStep ==
  \/ AcceptPosts \/ AcceptReturns \/ PipelineStep \/ SendsToAll
  \/ \E r \in Receivers : ReceiverRuns(r) \/ ReceiverReturns(r)
  \/ \E r \in Runners : HandlerStep(r)
  \/ \E c \in Clients : Secure(c)
==============================================================================
