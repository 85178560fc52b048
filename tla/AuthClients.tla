----------------------------- MODULE AuthClients -----------------------------
(***************************************************************************)
(* The auth service's ClientHandler, the game (NetworkClient, one          *)
(* connection per call of networkTemp) and other clients, which speak TLS  *)
(* as they like.                                                           *)
(***************************************************************************)
EXTENDS ClientHandler, FiniteSets

CONSTANTS
  Others,    (* clients that are not the game          *)
  MaxSends   (* chunks a client has on its way at once *)

VARIABLES
  round, mpc, rcv, sent,
  gStopped, gPending, gInRun, gHandling,
  gRunning, gReceiveBuffer, gProcessBuffer, gSendBuffer,
  gPpc, gPdata, gSpc, gSdata

gameVars == <<round, mpc, rcv, sent, gStopped, gPending, gInRun, gHandling,
              gRunning, gReceiveBuffer, gProcessBuffer, gSendBuffer,
              gPpc, gPdata, gSpc, gSdata>>
vars == <<wire, serverVars, gameVars>>

Rounds == <<"game1", "game2">>

ASSUME ClientsAssumption ==
  /\ Clients = Others \cup {"game1", "game2"}
  /\ Others \cap {"game1", "game2"} = {}
  /\ MaxSends \in Nat

Game == INSTANCE NetworkClient WITH
  Runners <- {"main", "receive"}, Self <- Rounds,
  stopped <- gStopped, pending <- gPending,
  inRun <- gInRun, handling <- gHandling,
  running <- gRunning, receiveBuffer <- gReceiveBuffer,
  processBuffer <- gProcessBuffer, sendBuffer <- gSendBuffer,
  ppc <- gPpc, pdata <- gPdata, spc <- gSpc, sdata <- gSdata

Init == WireInit /\ ServerInit /\ Game!NetInit

\* The other clients.

\* It may or may not begin a TLS handshake.
OtherConnects(c) ==
  /\ link[c] = "none" /\ link' = [link EXCEPT ![c] = "open"]
  /\ \E greets \in BOOLEAN : hello' = [hello EXCEPT ![c] = greets]
  /\ UNCHANGED <<keys, input>>

OtherSends(c) ==
  /\ link[c] = "accepted" /\ keys[c] = "agreed" /\ input[c] < MaxSends
  /\ input' = [input EXCEPT ![c] = @ + 1]
  /\ UNCHANGED <<link, hello, keys>>

OtherCloses(c) ==
  /\ link[c] \in {"open", "accepted"}
  /\ link' = [link EXCEPT ![c] = "closed"]
  /\ UNCHANGED <<hello, keys, input>>

OtherStep(c) == OtherConnects(c) \/ OtherSends(c) \/ OtherCloses(c)

Next ==
  \/ ServerStep /\ UNCHANGED gameVars
  \/ Game!GameStep /\ UNCHANGED serverVars
  \/ \E c \in Others : OtherStep(c) /\ UNCHANGED <<serverVars, gameVars>>

Spec == Init /\ [][Next]_vars

(***************************************************************************)
(* The process thread and the send thread take the steps that wait for no  *)
(* mutex of another.  The send thread is promised no turn with             *)
(* clientSocketsMutex, which the receiving threads take again and again,   *)
(* and nothing is assumed of them, of the accepting thread or the clients. *)
(***************************************************************************)
Fairness ==
  /\ WF_vars(ProcessThread /\ UNCHANGED gameVars)
  /\ WF_vars(SendThread /\ UNCHANGED gameVars)

FairSpec == Spec /\ Fairness

------------------------------------------------------------------------------

\* The types of the variables; link, hello, keys and input agree on how far
\* a client has come, and clientSockets has clients with keys only.
TypeOK ==
  /\ IoTypeOK(Operations) /\ PipeTypeOK(Clients)
  /\ link \in [Clients -> {"none", "open", "accepted", "closed"}]
  /\ hello \in [Clients -> BOOLEAN]
  /\ keys \in [Clients -> {"none", "agreed", "failed"}]
  /\ input \in [Clients -> 0..MaxSends]
  /\ acceptPc \in {"loop", "run"}
  /\ rpc \in [Receivers -> {"none", "loop", "run"}]
  /\ clientSocketsMutex \in Receivers \cup {Nobody}
  /\ clientSockets \subseteq Clients /\ written \in Seq(Clients)
  /\ round \in {1, 2}
  /\ mpc \in {"idle", "run", "connected", "send", "stop", "join", "over"}
  /\ rcv \in {"none", "loop", "gone"}
  /\ \A c \in Clients : /\ keys[c] # "none" => hello[c] /\ link[c] \in {"accepted", "closed"}
                        /\ input[c] > 0 => keys[c] = "agreed"
                        /\ c \in clientSockets => keys[c] = "agreed"

\* The accepting thread posts one accept and then waits in run() until the
\* context stops, which it does for good: in its whole life the service
\* hands at most one client to its receiving threads, reads from it at most
\* once, and accepts nobody after it.
ServesAtMostOneClient ==
  /\ Cardinality({c \in Clients : keys[c] # "none"}) <= 1
  /\ Cardinality(clientSockets) <= 1
  /\ Len(written) <= 1

\* The sending thread gets clientSocketsMutex only when the receiving thread
\* is out of run(), hence when the context has stopped: no completion of a
\* write, and no error of one, is ever reported.
WritesFindItStopped == [][written' # written => stopped]_vars

\* A handshake whose handler finds clientSocketsMutex taken by a thread in
\* run() (itself, or one that waits for the handler to return) waits for
\* ever: the service is dead to every client.
Stuck ==
  \E r \in Runners, c \in Clients, holder \in Receivers :
    /\ handling[r] = Handshake(c) /\ keys[c] = "agreed" /\ c \notin clientSockets
    /\ clientSocketsMutex = holder /\ rpc[holder] = "run"
StuckForEver == [][Stuck => Stuck']_vars

\* The game's threads start when the context has stopped: nothing it is
\* sent is handled.  And its sending thread waits for the answer to a
\* message before it looks for messages to send: while the game runs, none
\* leaves.
GameIsDeafAndMute ==
  /\ rcv # "none" => gStopped
  /\ gReceiveBuffer = <<>>
  /\ sent # <<>> => ~gRunning

\* The context is static and is not restarted: if the first call of
\* networkTemp got as far as a handshake, the second's handshake never
\* begins, although its TCP connection is made.
OneHandshakeOnly == ~(hello["game1"] /\ hello["game2"])

\* Stop joins a thread that sleeps on a condition nobody notifies any more:
\* Stop does not return, unless by a spurious wakeup.
JoinsASleeper == mpc = "join" /\ gPpc = "asleep"
StopNeedsASpuriousWakeup ==
  [][JoinsASleeper => mpc' = "join" /\ gPpc' \in {"asleep", "woken"}]_vars

\* A chunk that a client's read has delivered goes through the three queues
\* until the send thread has it in hand to write it; from there it needs a
\* turn with clientSocketsMutex.
WhatIsReadIsTakenToSend == receiveBuffer # <<>> ~> spc = "write"
==============================================================================
