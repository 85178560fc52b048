--------------------------- MODULE NetworkClient ---------------------------
(***************************************************************************)
(* The game's connection to the auth service, src/client/network/          *)
(* NetworkClient, driven by networkTemp of src/client/main.cpp, which main *)
(* calls twice.  Each call makes a NetworkClient, whose io_context is      *)
(* static: the second call finds the context the first one left.           *)
(***************************************************************************)
EXTENDS IoContext, Pipeline

CONSTANT Self  (* Self[round]: the client that the wire sees *)

VARIABLES
  link, hello, keys, input,   (* the wire: see ClientHandler *)
  round,
  mpc,    (* the main thread    *)
  rcv,    (* the receive thread *)
  sent    (* what async_write was called with *)

clientVars == <<round, mpc, rcv, sent>>
me == Self[round]

Connecting == <<"connect">>
Greeting == <<"handshake">>
Reading == <<"read">>
Writing == <<"write">>
Pending == {Connecting, Greeting, Reading, Writing}

NetInit ==
  /\ IoInit /\ PipeInit("none")
  /\ round = 1 /\ mpc = "idle" /\ rcv = "none" /\ sent = <<>>

OnlyMain == UNCHANGED <<pipeVars, hello, keys, input, round, rcv, sent>>

\* load_verify_file and resolve throw; networkTemp catches.
StartThrows ==
  /\ mpc = "idle" /\ mpc' = "over"
  /\ UNCHANGED <<ioVars, link>> /\ OnlyMain

StartConnects ==
  /\ mpc = "idle"
  /\ PostAndRun("main", {Connecting})
  /\ mpc' = "run"
  /\ UNCHANGED link /\ OnlyMain

\* The kernel completes the connection whether or not the context runs.
Connects ==
  /\ Connecting \in pending /\ mpc # "over" /\ link[me] = "none"
  /\ link' = [link EXCEPT ![me] = "open"]
  /\ UNCHANGED <<ioVars, mpc>> /\ OnlyMain

ConnectHandled ==
  /\ link[me] # "none"
  /\ Handle("main", Connecting, {Greeting})
  /\ hello' = [hello EXCEPT ![me] = TRUE]
  /\ UNCHANGED <<pipeVars, link, keys, input, clientVars>>

ConnectFails ==
  /\ link[me] = "none"
  /\ Handle("main", Connecting, {})
  /\ UNCHANGED <<link, mpc>> /\ OnlyMain

GreetingHandled ==
  /\ keys[me] # "none" \/ link[me] = "closed"
  /\ Handle("main", Greeting, {})
  /\ UNCHANGED <<link, mpc>> /\ OnlyMain

ConnectReturns ==
  /\ mpc = "run" /\ mpc' = "connected"
  /\ LeaveRun("main")
  /\ UNCHANGED link /\ OnlyMain

StartThreads ==
  /\ mpc = "connected" /\ mpc' = "send"
  /\ rcv' = "loop" /\ ppc' = "test" /\ spc' = "test"
  /\ UNCHANGED <<ioVars, link, hello, keys, input, round, sent, running,
                 receiveBuffer, processBuffer, sendBuffer, pdata, sdata>>

\* What run() does for the receive thread: nothing if the context has
\* stopped, else it handles the read and is out of work.
RunReads ==
  IF stopped THEN UNCHANGED <<ioVars, pipeVars>>
  ELSE /\ stopped' = TRUE
       /\ UNCHANGED <<pending, inRun, handling>>
       /\ \E read \in BOOLEAN :
            IF read THEN keys[me] = "agreed" /\ Receive("answer")
            ELSE UNCHANGED pipeVars

ReceiveSpins ==
  /\ rcv = "loop"
  /\ IF running THEN RunReads /\ UNCHANGED rcv
     ELSE rcv' = "gone" /\ UNCHANGED <<ioVars, pipeVars>>
  /\ UNCHANGED <<link, hello, keys, input, round, mpc, sent>>

MainSends ==
  /\ mpc = "send" /\ mpc' = "stop"
  /\ SendMessage("Hello, server!")
  /\ UNCHANGED <<ioVars, link, hello, keys, input, round, rcv, sent>>

\* NetworkClient::Stop tells the threads nothing.
MainStops ==
  /\ mpc = "stop" /\ mpc' = "join"
  /\ ClearRunning /\ StopContext
  /\ UNCHANGED <<link, hello, keys, input, round, rcv, sent>>

MainJoins ==
  /\ mpc = "join" /\ mpc' = "over"
  /\ rcv = "gone" /\ ppc = "gone" /\ spc = "gone"
  /\ link' = IF link[me] = "none" THEN link ELSE [link EXCEPT ![me] = "closed"]
  /\ UNCHANGED ioVars /\ OnlyMain

\* Mutant: an io_context for each NetworkClient.
SecondRoundRestarts ==
  /\ mpc = "over" /\ round = 1
  /\ round' = 2 /\ mpc' = "idle" /\ rcv' = "none" /\ sent' = <<>>
  /\ running' = TRUE
  /\ receiveBuffer' = <<>> /\ processBuffer' = <<>> /\ sendBuffer' = <<>>
  /\ ppc' = "none" /\ pdata' = NoData /\ spc' = "none" /\ sdata' = NoData
  /\ stopped' = FALSE /\ UNCHANGED <<pending, inRun, handling, link, hello, keys, input>>

\* main's second call of networkTemp, after the window is closed.
SecondRound ==
  /\ mpc = "over" /\ round = 1
  /\ round' = 2 /\ mpc' = "idle" /\ rcv' = "none" /\ sent' = <<>>
  /\ running' = TRUE
  /\ receiveBuffer' = <<>> /\ processBuffer' = <<>> /\ sendBuffer' = <<>>
  /\ ppc' = "none" /\ pdata' = NoData /\ spc' = "none" /\ sdata' = NoData
  /\ UNCHANGED <<ioVars, link, hello, keys, input>>

ThreadStep ==
  /\ ProcessStep \/ SendStep
  /\ UNCHANGED <<ioVars, link, hello, keys, input, clientVars>>

ThreadWakes ==
  /\ SpuriousWakeup
  /\ UNCHANGED <<ioVars, link, hello, keys, input, clientVars>>

SendsToServer ==
  /\ sent' = Append(sent, sdata)
  /\ SendWrites
  /\ Post({Writing})
  /\ UNCHANGED <<link, hello, keys, input, round, mpc, rcv>>

GameStep ==
  \/ StartThrows \/ StartConnects \/ Connects
  \/ ConnectHandled \/ ConnectFails \/ GreetingHandled \/ ConnectReturns
  \/ StartThreads \/ ReceiveSpins \/ MainSends \/ MainStops \/ MainJoins
  \/ SecondRound \/ ThreadStep \/ ThreadWakes \/ SendsToServer
==============================================================================
