------------------------- MODULE AuthClientsProofs -------------------------
(***************************************************************************)
(* Theorems about AuthClients for any number of clients, of receiving      *)
(* threads and of chunks on their way.                                     *)
(***************************************************************************)
EXTENDS AuthClients, SequenceTheorems, FiniteSetTheorems, TLAPS

(* The accept is posted once: afterwards it is pending, or was handled, or  *)
(* the context has stopped.                                                 *)
MayAccept == ~stopped /\ (acceptPc = "loop" \/ Accept \in pending)

(* The clients the service has accepted.                                    *)
Known ==
  {c \in Clients :
     \/ Handshake(c) \in pending
     \/ \E r \in Runners : handling[r] = Handshake(c)
     \/ keys[c] # "none" \/ c \in clientSockets}

KnownInv ==
  /\ \A c, d \in Known : c = d
  /\ MayAccept => Known = {}
  /\ ~stopped /\ acceptPc = "loop" => Accept \notin pending
  /\ \A c \in Clients : Read(c) \in pending => c \in clientSockets

(* A thread is in run() exactly while it has clientSocketsMutex; only out   *)
(* of work does the context stop.                                           *)
HolderInv ==
  /\ \A r \in Receivers : rpc[r] = "run" <=> clientSocketsMutex = r
  /\ stopped => \A r \in Runners : handling[r] = Idle

MayRead ==
  /\ ~stopped
  /\ \/ \A r \in Receivers : rpc[r] # "run"
     \/ \E c \in Clients : Read(c) \in pending

InProcess == IF ppc = "push" THEN 1 ELSE 0
InSend == IF spc \in {"push", "write"} THEN 1 ELSE 0

(* The chunks between a read and a write.                                   *)
Chunks ==
  Len(receiveBuffer) + InProcess + Len(processBuffer) + InSend + Len(sendBuffer) + Len(written)

ReadInv ==
  /\ ~stopped => \A c \in Clients : Read(c) \in pending =>
                   \E r \in Receivers : rpc[r] = "run"
  /\ Chunks <= 1
  /\ MayRead => Chunks = 0

DataInv ==
  /\ ppc = "push" => pdata \in Clients
  /\ spc \in {"push", "write"} => sdata \in Clients

ServerInv == KnownInv /\ HolderInv /\ ReadInv /\ DataInv

(* The game's threads start on a context that has stopped, and nothing      *)
(* reaches its queues but what it wants to send.                            *)
GameInv ==
  /\ gStopped \in BOOLEAN
  /\ mpc \in {"connected", "send", "stop", "join"} => gStopped
  /\ rcv # "none" \/ gPpc # "none" \/ gSpc # "none" => gStopped
  /\ ~gStopped /\ hello["game1"] => round = 1 /\ mpc = "run"
  /\ ~gStopped /\ gPending # {} => mpc = "run"
  /\ round = 1 => ~hello["game2"]
  /\ OneHandshakeOnly
  /\ gReceiveBuffer = <<>> /\ gProcessBuffer = <<>>
  /\ gPpc \in {"none", "test", "asleep", "woken", "gone"}
  /\ gSpc \in {"none", "test", "asleep", "woken", "gone"} \/ ~gRunning
  /\ gSpc \notin {"drain", "push"}
  /\ sent # <<>> => ~gRunning

IInv == TypeOK /\ ServerInv /\ GameInv
------------------------------------------------------------------------------
LEMMA OpsDiffer ==
  /\ Accept # Idle
  /\ \A c \in Clients :
       /\ Accept # Handshake(c) /\ Accept # Read(c) /\ Accept # Write(c)
       /\ Idle # Handshake(c) /\ Idle # Read(c) /\ Idle # Write(c)
  /\ \A c, d \in Clients :
       /\ Handshake(c) # Read(d) /\ Handshake(c) # Write(d) /\ Read(c) # Write(d)
       /\ Handshake(c) = Handshake(d) => c = d
       /\ Read(c) = Read(d) => c = d
  /\ Accept \in Operations
  /\ \A c \in Clients :
       Handshake(c) \in Operations /\ Read(c) \in Operations /\ Write(c) \in Operations
BY DEF Accept, Idle, Handshake, Read, Write, Operations

LEMMA ServerTypes ==
  ASSUME TypeOK
  PROVE  /\ stopped \in BOOLEAN /\ pending \subseteq Operations
         /\ handling \in [Runners -> Operations \cup {Idle}]
         /\ receiveBuffer \in Seq(Clients) /\ processBuffer \in Seq(Clients)
         /\ sendBuffer \in Seq(Clients) /\ written \in Seq(Clients)
         /\ keys \in [Clients -> {"none", "agreed", "failed"}]
         /\ rpc \in [Receivers -> {"none", "loop", "run"}]
         /\ clientSockets \subseteq Clients
         /\ Receivers \subseteq Runners /\ Nobody \notin Receivers
         /\ Len(receiveBuffer) \in Nat /\ Len(processBuffer) \in Nat
         /\ Len(sendBuffer) \in Nat /\ Len(written) \in Nat
BY LenProperties, ThreadsAssumption DEF TypeOK, IoTypeOK, PipeTypeOK, Nobody

LEMMA KnownShrinks ==
  ASSUME KnownInv, Known' \subseteq Known, MayAccept' => MayAccept,
         ~stopped' /\ acceptPc' = "loop" => Accept \notin pending',
         \A c \in Clients : Read(c) \in pending' => c \in clientSockets'
  PROVE  KnownInv'
BY DEF KnownInv

(* The accepting thread.                                                    *)
LEMMA AccepterKeeps ==
  ASSUME TypeOK, ServerInv, AcceptPosts \/ AcceptReturns
  PROVE  ServerInv'
<1>. USE ServerTypes, OpsDiffer DEF ServerInv
<1>0. UNCHANGED <<pipeVars, keys, rpc, clientSocketsMutex, clientSockets, written, handling>>
  BY DEF AcceptPosts, AcceptReturns, PostAndRun, LeaveRun, OnlyAccepter, wire
<1>1. /\ pending \subseteq pending' /\ pending' \subseteq pending \cup {Accept}
      /\ stopped => stopped'
      /\ ~stopped' => acceptPc = "loop" /\ acceptPc' = "run"
      /\ stopped' => stopped \/ \A r \in Runners : handling'[r] = Idle
  <2>1. CASE AcceptPosts
    BY <1>0, <2>1 DEF AcceptPosts, PostAndRun, With, OutOfWork
  <2>2. CASE AcceptReturns
    BY <2>2 DEF AcceptReturns, LeaveRun
  <2>. QED
    BY <2>1, <2>2
<1>2. Known' = Known
  BY <1>0, <1>1 DEF Known
<1>3. KnownInv'
  BY <1>0, <1>1, <1>2 DEF KnownInv, MayAccept
<1>4. HolderInv'
  BY <1>0, <1>1 DEF HolderInv
<1>5. ReadInv' /\ DataInv'
  BY <1>0, <1>1 DEF ReadInv, DataInv, MayRead, Chunks, InProcess, InSend, pipeVars
<1>. QED
  BY <1>3, <1>4, <1>5

(* The receiving threads.                                                   *)
LEMMA ReceiverKeeps ==
  ASSUME TypeOK, ServerInv, NEW r \in Receivers, ReceiverRuns(r) \/ ReceiverReturns(r)
  PROVE  ServerInv'
<1>. USE ServerTypes, OpsDiffer DEF ServerInv
<1>0. UNCHANGED <<pipeVars, keys, acceptPc, clientSockets, written, handling>>
  BY DEF ReceiverRuns, ReceiverReturns, PostAndRun, LeaveRun, OnlyReceiver, wire
<1>1. CASE ReceiverRuns(r)
  <2>1. /\ pending \subseteq pending'
        /\ pending' \subseteq pending \cup {Read(c) : c \in clientSockets}
        /\ stopped => stopped'
        /\ stopped' => stopped \/ \A x \in Runners : handling'[x] = Idle
    BY <1>0, <1>1 DEF ReceiverRuns, PostAndRun, With, OutOfWork
  <2>2. /\ clientSocketsMutex = Nobody /\ rpc[r] = "loop"
        /\ rpc' = [rpc EXCEPT ![r] = "run"]
        /\ clientSocketsMutex' = r
    BY <1>1 DEF ReceiverRuns
  <2>3. \A x \in Receivers : rpc[x] # "run"
    BY <2>2 DEF HolderInv
  <2>4. Known' = Known
    BY <1>0, <2>1 DEF Known
  <2>5. KnownInv'
    BY <1>0, <2>1, <2>4 DEF KnownInv, MayAccept
  <2>6. HolderInv'
    BY <1>0, <2>1, <2>2, <2>3 DEF HolderInv
  <2>7. Chunks' = Chunks /\ DataInv'
    BY <1>0 DEF DataInv, Chunks, InProcess, InSend, pipeVars
  <2>8. ~stopped' => rpc'[r] = "run" /\ Chunks' = 0
    BY <2>1, <2>2, <2>3, <2>7 DEF ReadInv, MayRead
  <2>9. ReadInv'
    BY <2>7, <2>8 DEF ReadInv, MayRead
  <2>. QED
    BY <2>5, <2>6, <2>7, <2>9
<1>2. CASE ReceiverReturns(r)
  <2>1. /\ stopped /\ UNCHANGED <<stopped, pending>>
        /\ rpc[r] = "run" /\ rpc' = [rpc EXCEPT ![r] = "loop"]
        /\ clientSocketsMutex' = Nobody
    BY <1>2 DEF ReceiverReturns, LeaveRun
  <2>2. KnownInv'
    BY <1>0, <2>1 DEF KnownInv, Known, MayAccept
  <2>3. HolderInv'
    BY <1>0, <2>1 DEF HolderInv
  <2>4. ReadInv' /\ DataInv'
    BY <1>0, <2>1 DEF ReadInv, DataInv, MayRead, Chunks, InProcess, InSend, pipeVars
  <2>. QED
    BY <2>2, <2>3, <2>4
<1>. QED
  BY <1>1, <1>2

(* The handlers.                                                            *)
LEMMA AcceptHandlerKeeps ==
  ASSUME TypeOK, ServerInv, NEW r \in Runners,
         AcceptFails(r) \/ \E c \in Clients : AcceptHandled(r, c)
  PROVE  ServerInv'
<1>. USE ServerTypes, OpsDiffer DEF ServerInv
<1>0. /\ UNCHANGED <<pipeVars, keys, acceptPc, rpc, clientSocketsMutex, clientSockets,
                     written, handling>>
      /\ ~stopped /\ Accept \in pending
      /\ Accept \notin pending' /\ pending \ {Accept} \subseteq pending'
      /\ stopped' => \A x \in Runners : handling'[x] = Idle
      /\ \/ pending' \subseteq pending
         \/ \E c \in Clients : pending' \subseteq pending \cup {Handshake(c)}
  BY DEF AcceptFails, AcceptHandled, Handle, CanHandle, OutOfWork, wire, handlerVars
<1>1. Known = {} /\ ~MayAccept'
  BY <1>0 DEF KnownInv, MayAccept
<1>2. \A c, d \in Known' : c = d
  BY <1>0, <1>1 DEF Known
<1>3. KnownInv'
  BY <1>0, <1>1, <1>2 DEF KnownInv
<1>4. HolderInv'
  BY <1>0 DEF HolderInv
<1>5. ReadInv' /\ DataInv'
  BY <1>0 DEF ReadInv, DataInv, MayRead, Chunks, InProcess, InSend, pipeVars
<1>. QED
  BY <1>3, <1>4, <1>5

LEMMA HandshakeKeeps ==
  ASSUME TypeOK, ServerInv, NEW r \in Runners, NEW c \in Clients,
         HandshakeHandled(r, c) \/ HandshakePushes(r, c) \/ HandshakeReturns(r, c)
  PROVE  ServerInv'
<1>. USE ServerTypes, OpsDiffer DEF ServerInv
<1>0. UNCHANGED <<pipeVars, keys, acceptPc, rpc, clientSocketsMutex, written>>
  BY DEF HandshakeHandled, HandshakePushes, HandshakeReturns, wire, handlerVars
<1>1. c \in Known
  BY DEF HandshakeHandled, HandshakePushes, HandshakeReturns, BeginHandler, CanHandle, Known
<1>2. /\ pending' \subseteq pending
      /\ \A d \in Clients : d # c => (Handshake(d) \in pending' <=> Handshake(d) \in pending)
      /\ \A x \in Runners : handling'[x] \in {handling[x], Idle, Handshake(c)}
      /\ clientSockets' \subseteq clientSockets \cup {c} /\ clientSockets \subseteq clientSockets'
      /\ stopped => stopped'
      /\ stopped' => \/ stopped /\ UNCHANGED handling
                     \/ \A x \in Runners : handling'[x] = Idle
      /\ Accept \in pending <=> Accept \in pending'
      /\ \A d \in Clients : Read(d) \in pending <=> Read(d) \in pending'
  <2>1. CASE HandshakeHandled(r, c)
    BY <2>1 DEF HandshakeHandled, BeginHandler, CanHandle, handlerVars
  <2>2. CASE HandshakePushes(r, c)
    BY <2>2 DEF HandshakePushes, ioVars
  <2>3. CASE HandshakeReturns(r, c)
    BY <2>3 DEF HandshakeReturns, EndHandler, OutOfWork, HolderInv, handlerVars
  <2>. QED
    BY <2>1, <2>2, <2>3
<1>3. Known' \subseteq Known
  BY <1>0, <1>1, <1>2 DEF Known
<1>4. KnownInv'
  BY <1>0, <1>2, <1>3, KnownShrinks DEF KnownInv, MayAccept
<1>5. HolderInv'
  BY <1>0, <1>2 DEF HolderInv
<1>6. ReadInv' /\ DataInv'
  BY <1>0, <1>2 DEF ReadInv, DataInv, MayRead, Chunks, InProcess, InSend, pipeVars
<1>. QED
  BY <1>4, <1>5, <1>6

(* A read finds no chunk in the pipeline, and no read comes after it.       *)
LEMMA ReadKeeps ==
  ASSUME TypeOK, ServerInv, NEW r \in Runners, NEW c \in Clients,
         ReadHandled(r, c) \/ ReadFails(r, c)
  PROVE  ServerInv'
<1>. USE ServerTypes, OpsDiffer DEF ServerInv
<1>0. /\ UNCHANGED <<keys, acceptPc, clientSocketsMutex, clientSockets, written, handling>>
      /\ ~stopped /\ Read(c) \in pending /\ pending' = pending \ {Read(c)}
      /\ stopped' = OutOfWork(pending', handling)
  BY DEF ReadHandled, ReadFails, Handle, CanHandle, wire, handlerVars
<1>1. /\ rpc' \in [Receivers -> {"none", "loop", "run"}]
      /\ \A x \in Receivers : rpc'[x] = "run" <=> rpc[x] = "run"
  <2>1. CASE ReadHandled(r, c)
    BY <2>1 DEF ReadHandled
  <2>2. CASE ReadFails(r, c)
    BY <2>2 DEF ReadFails, handlerVars
  <2>. QED
    BY <2>1, <2>2
<1>2. \A d \in Clients : Read(d) \notin pending'
  BY <1>0 DEF KnownInv, Known
<1>3. \E x \in Receivers : rpc[x] = "run"
  BY <1>0 DEF ReadInv
<1>4. Chunks = 0 /\ ~MayRead'
  BY <1>0, <1>1, <1>2, <1>3 DEF ReadInv, MayRead
<1>5. Known' = Known
  BY <1>0 DEF Known
<1>6. KnownInv'
  BY <1>0, <1>5, <1>2 DEF KnownInv, MayAccept
<1>7. HolderInv'
  BY <1>0, <1>1 DEF HolderInv, OutOfWork
<1>8. Chunks' <= 1 /\ DataInv'
  <2>1. CASE ReadHandled(r, c)
    <3>1. /\ receiveBuffer' = Append(receiveBuffer, c)
          /\ ppc' = IF ppc = "asleep" THEN "woken" ELSE ppc
          /\ UNCHANGED <<processBuffer, sendBuffer, pdata, spc, sdata>>
      BY <2>1 DEF ReadHandled, Receive, Notified
    <3>2. Len(receiveBuffer') = Len(receiveBuffer) + 1
      BY <3>1, AppendProperties
    <3>3. ppc' = "push" <=> ppc = "push"
      BY <3>1
    <3>4. InProcess' = InProcess /\ InSend' = InSend /\ InProcess \in Nat /\ InSend \in Nat
      BY <3>1, <3>3 DEF InProcess, InSend
    <3>5. Chunks' = Chunks + 1
      BY <1>0, <3>1, <3>2, <3>4 DEF Chunks
    <3>. QED
      BY <1>4, <3>1, <3>5, <3>3 DEF DataInv
  <2>2. CASE ReadFails(r, c)
    <3>1. UNCHANGED pipeVars
      BY <2>2 DEF ReadFails
    <3>2. Chunks' = Chunks
      BY <1>0, <3>1 DEF Chunks, InProcess, InSend, pipeVars
    <3>. QED
      BY <1>4, <3>1, <3>2 DEF DataInv, pipeVars
  <2>. QED
    BY <2>1, <2>2
<1>. QED
  BY <1>2, <1>4, <1>6, <1>7, <1>8 DEF ReadInv

LEMMA SecureKeeps ==
  ASSUME TypeOK, ServerInv, NEW c \in Clients, Secure(c)
  PROVE  ServerInv'
<1>. USE ServerTypes, OpsDiffer DEF ServerInv
<1>1. /\ UNCHANGED <<ioVars, pipeVars, handlerVars>>
      /\ Handshake(c) \in pending
      /\ \A d \in Clients : d # c => keys'[d] = keys[d]
  BY DEF Secure, CanHandle, serverVars
<1>2. Known' = Known
  BY <1>1 DEF Known, ioVars, handlerVars
<1>3. KnownInv' /\ HolderInv'
  BY <1>1, <1>2 DEF KnownInv, HolderInv, MayAccept, ioVars, handlerVars
<1>4. ReadInv' /\ DataInv'
  BY <1>1 DEF ReadInv, DataInv, MayRead, Chunks, InProcess, InSend, ioVars, pipeVars, handlerVars
<1>. QED
  BY <1>3, <1>4

(* The process and the send thread neither make nor lose a chunk.           *)
LEMMA TakeHead ==
  ASSUME NEW S, NEW s \in Seq(S), s # <<>>
  PROVE  /\ Head(s) \in S /\ Tail(s) \in Seq(S)
         /\ Len(s) = Len(Tail(s)) + 1 /\ Len(Tail(s)) \in Nat
BY HeadTailProperties, EmptySeq, LenProperties

SendPlaces == {"none", "test", "asleep", "woken", "push", "gone"} \cup HoldsProcessBuffer

LEMMA PipeTypes ==
  ASSUME TypeOK
  PROVE  /\ running \in BOOLEAN
         /\ receiveBuffer \in Seq(Clients) /\ processBuffer \in Seq(Clients)
         /\ sendBuffer \in Seq(Clients)
         /\ pdata \in Clients \cup {NoData} /\ sdata \in Clients \cup {NoData}
         /\ ppc \in {"none", "test", "asleep", "woken", "drain", "push", "gone"}
         /\ spc \in SendPlaces
BY DEF TypeOK, PipeTypeOK, SendPlaces

LEMMA ProcessMoves ==
  ASSUME TypeOK, DataInv, ProcessStep, UNCHANGED written
  PROVE  Chunks' = Chunks /\ DataInv' /\ PipeTypeOK(Clients)'
<1>. USE PipeTypes, ServerTypes DEF DataInv, OnlyProcess
<1>0. InProcess \in Nat /\ InSend \in Nat
  BY DEF InProcess, InSend
<1>1. CASE \/ ProcessLoops \/ ProcessLeaves
           \/ ProcessTakes /\ receiveBuffer = <<>>
  <2>1. UNCHANGED <<receiveBuffer, processBuffer, sendBuffer, spc, pdata, sdata, running>>
    BY <1>1 DEF ProcessLoops, ProcessLeaves, ProcessTakes
  <2>2. ppc # "push" /\ ppc' \in {"test", "drain", "asleep", "gone"}
    BY <1>1 DEF ProcessLoops, ProcessLeaves, ProcessTakes
  <2>3. InProcess' = InProcess /\ InSend' = InSend
    BY <2>1, <2>2 DEF InProcess, InSend
  <2>4. Chunks' = Chunks
    BY <1>0, <2>1, <2>3 DEF Chunks
  <2>. QED
    BY <2>1, <2>2, <2>4 DEF PipeTypeOK, SendPlaces
<1>2. CASE ProcessTakes /\ receiveBuffer # <<>>
  <2>1. /\ UNCHANGED <<processBuffer, sendBuffer, spc, sdata, running>>
        /\ ppc = "drain" /\ ppc' = "push"
        /\ pdata' = Head(receiveBuffer) /\ receiveBuffer' = Tail(receiveBuffer)
    BY <1>2 DEF ProcessTakes
  <2>2. /\ pdata' \in Clients /\ receiveBuffer' \in Seq(Clients)
        /\ Len(receiveBuffer) = Len(receiveBuffer') + 1 /\ Len(receiveBuffer') \in Nat
    BY <1>2, <2>1, TakeHead
  <2>3. InProcess = 0 /\ InProcess' = 1 /\ InSend' = InSend
    BY <2>1 DEF InProcess, InSend
  <2>4. Chunks' = Chunks
    BY <1>0, <2>1, <2>2, <2>3 DEF Chunks
  <2>. QED
    BY <2>1, <2>2, <2>4 DEF PipeTypeOK, SendPlaces
<1>3. CASE ProcessPushes
  <2>1. /\ UNCHANGED <<receiveBuffer, sendBuffer, sdata, running>>
        /\ ppc = "push" /\ ppc' = "drain" /\ pdata' = NoData
        /\ processBuffer' = Append(processBuffer, pdata)
        /\ spc' = IF spc = "asleep" THEN "woken" ELSE spc
    BY <1>3 DEF ProcessPushes, Notified
  <2>2. processBuffer' \in Seq(Clients) /\ Len(processBuffer') = Len(processBuffer) + 1
    BY <2>1, AppendProperties
  <2>3. /\ spc' \in {"push", "write"} <=> spc \in {"push", "write"}
        /\ spc' \in SendPlaces
    BY <2>1 DEF SendPlaces
  <2>4. InProcess = 1 /\ InProcess' = 0 /\ InSend' = InSend
    BY <2>1, <2>3 DEF InProcess, InSend
  <2>5. Chunks' = Chunks
    BY <1>0, <2>1, <2>2, <2>4 DEF Chunks
  <2>. QED
    BY <2>1, <2>2, <2>3, <2>5 DEF PipeTypeOK, SendPlaces
<1>. QED
  BY <1>1, <1>2, <1>3 DEF ProcessStep

LEMMA SendMoves ==
  ASSUME TypeOK, DataInv, SendStep, UNCHANGED written
  PROVE  Chunks' = Chunks /\ DataInv' /\ PipeTypeOK(Clients)'
<1>. USE PipeTypes, ServerTypes DEF DataInv, OnlySend
<1>0. InProcess \in Nat /\ InSend \in Nat
  BY DEF InProcess, InSend
<1>1. CASE \/ SendLoops \/ SendWaits \/ SendLeaves
           \/ SendTakes /\ processBuffer = <<>>
           \/ SendPicks /\ sendBuffer = <<>>
  <2>1. UNCHANGED <<receiveBuffer, processBuffer, sendBuffer, ppc, pdata, sdata, running>>
    BY <1>1 DEF SendLoops, SendWaits, SendLeaves, SendTakes, SendPicks
  <2>2. /\ spc \notin {"push", "write"}
        /\ spc' \in {"test", "drain", "asleep", "test2", "asleep2", "drain2", "gone"}
    BY <1>1 DEF SendLoops, SendWaits, SendLeaves, SendTakes, SendPicks
  <2>3. InProcess' = InProcess /\ InSend' = InSend
    BY <2>1, <2>2 DEF InProcess, InSend
  <2>4. Chunks' = Chunks
    BY <1>0, <2>1, <2>3 DEF Chunks
  <2>. QED
    BY <2>1, <2>2, <2>4 DEF PipeTypeOK, HoldsProcessBuffer
<1>2. CASE SendTakes /\ processBuffer # <<>>
  <2>1. /\ UNCHANGED <<receiveBuffer, sendBuffer, ppc, pdata, running>>
        /\ spc = "drain" /\ spc' = "push"
        /\ sdata' = Head(processBuffer) /\ processBuffer' = Tail(processBuffer)
    BY <1>2 DEF SendTakes
  <2>2. /\ sdata' \in Clients /\ processBuffer' \in Seq(Clients)
        /\ Len(processBuffer) = Len(processBuffer') + 1 /\ Len(processBuffer') \in Nat
    BY <1>2, <2>1, TakeHead
  <2>3. InProcess' = InProcess /\ InSend = 0 /\ InSend' = 1
    BY <2>1 DEF InProcess, InSend
  <2>4. Chunks' = Chunks
    BY <1>0, <2>1, <2>2, <2>3 DEF Chunks
  <2>. QED
    BY <2>1, <2>2, <2>4 DEF PipeTypeOK
<1>3. CASE SendPushes
  <2>1. /\ UNCHANGED <<receiveBuffer, processBuffer, ppc, pdata, running>>
        /\ spc = "push" /\ spc' = "drain" /\ sdata' = NoData
        /\ sendBuffer' = Append(sendBuffer, sdata)
    BY <1>3 DEF SendPushes
  <2>2. sendBuffer' \in Seq(Clients) /\ Len(sendBuffer') = Len(sendBuffer) + 1
    BY <2>1, AppendProperties
  <2>3. InProcess' = InProcess /\ InSend = 1 /\ InSend' = 0
    BY <2>1 DEF InProcess, InSend
  <2>4. Chunks' = Chunks
    BY <1>0, <2>1, <2>2, <2>3 DEF Chunks
  <2>. QED
    BY <2>1, <2>2, <2>4 DEF PipeTypeOK, HoldsProcessBuffer
<1>4. CASE SendPicks /\ sendBuffer # <<>>
  <2>1. /\ UNCHANGED <<receiveBuffer, processBuffer, ppc, pdata, running>>
        /\ spc = "drain2" /\ spc' = "write"
        /\ sdata' = Head(sendBuffer) /\ sendBuffer' = Tail(sendBuffer)
    BY <1>4 DEF SendPicks
  <2>2. /\ sdata' \in Clients /\ sendBuffer' \in Seq(Clients)
        /\ Len(sendBuffer) = Len(sendBuffer') + 1 /\ Len(sendBuffer') \in Nat
    BY <1>4, <2>1, TakeHead
  <2>3. InProcess' = InProcess /\ InSend = 0 /\ InSend' = 1
    BY <2>1 DEF InProcess, InSend
  <2>4. Chunks' = Chunks
    BY <1>0, <2>1, <2>2, <2>3 DEF Chunks
  <2>. QED
    BY <2>1, <2>2, <2>4 DEF PipeTypeOK, HoldsProcessBuffer
<1>. QED
  BY <1>1, <1>2, <1>3, <1>4 DEF SendStep

LEMMA WriteMoves ==
  ASSUME TypeOK, DataInv, SendWrites, written' = Append(written, sdata)
  PROVE  /\ Chunks' = Chunks /\ DataInv' /\ PipeTypeOK(Clients)'
         /\ written' \in Seq(Clients)
<1>. USE PipeTypes, ServerTypes DEF DataInv
<1>1. /\ UNCHANGED <<running, receiveBuffer, processBuffer, sendBuffer, ppc, pdata>>
      /\ spc = "write" /\ spc' = "drain2" /\ sdata' = NoData /\ sdata \in Clients
  BY DEF SendWrites, OnlySend
<1>2. written' \in Seq(Clients) /\ Len(written') = Len(written) + 1
  BY <1>1, AppendProperties
<1>3. InProcess' = InProcess /\ InSend = 1 /\ InSend' = 0 /\ InProcess \in Nat
  BY <1>1 DEF InProcess, InSend
<1>4. Chunks' = Chunks
  BY <1>1, <1>2, <1>3 DEF Chunks
<1>. QED
  BY <1>1, <1>2, <1>4 DEF PipeTypeOK, HoldsProcessBuffer

LEMMA PipelineKeeps ==
  ASSUME TypeOK, ServerInv, PipelineStep \/ SendsToAll
  PROVE  ServerInv'
<1>. USE ServerTypes, OpsDiffer DEF ServerInv
<1>1. Chunks' = Chunks /\ DataInv'
  <2>1. CASE PipelineStep
    BY <2>1, ProcessMoves, SendMoves DEF PipelineStep, ProcessThread, SendThread, handlerVars
  <2>2. CASE SendsToAll
    BY <2>2, WriteMoves DEF SendsToAll
  <2>. QED
    BY <2>1, <2>2
<1>2. /\ UNCHANGED <<stopped, handling, keys, acceptPc, rpc, clientSocketsMutex, clientSockets>>
      /\ pending \subseteq pending' /\ pending' \subseteq pending \cup {Write(c) : c \in Clients}
  BY DEF PipelineStep, ProcessThread, SendThread, SendsToAll, ioVars, handlerVars, wire, Post, With
<1>3. /\ \A c \in Clients : /\ Handshake(c) \in pending' <=> Handshake(c) \in pending
                            /\ Read(c) \in pending' <=> Read(c) \in pending
      /\ Accept \in pending' <=> Accept \in pending
  BY <1>2
<1>4. Known' = Known
  BY <1>2, <1>3 DEF Known
<1>5. KnownInv' /\ HolderInv'
  BY <1>2, <1>3, <1>4 DEF KnownInv, HolderInv, MayAccept
<1>6. ReadInv'
  BY <1>1, <1>2, <1>3 DEF ReadInv, MayRead
<1>. QED
  BY <1>1, <1>5, <1>6

(* The clients touch nothing of the service's but the wire.                 *)
LEMMA ClientsKeepServer ==
  ServerInv /\ UNCHANGED <<serverVars, keys>> => ServerInv'
<1>. SUFFICES ASSUME ServerInv, UNCHANGED <<serverVars, keys>>
              PROVE  ServerInv'
  OBVIOUS
<1>1. UNCHANGED <<ioVars, pipeVars, handlerVars, keys>>
  BY DEF serverVars
<1>2. Known' = Known
  BY <1>1 DEF Known, ioVars, handlerVars
<1>3. KnownInv' /\ HolderInv'
  BY <1>1, <1>2 DEF ServerInv, KnownInv, HolderInv, MayAccept, ioVars, handlerVars
<1>4. Chunks' = Chunks /\ DataInv'
  BY <1>1 DEF ServerInv, DataInv, Chunks, InProcess, InSend, pipeVars, handlerVars
<1>5. ReadInv'
  BY <1>1, <1>4 DEF ServerInv, ReadInv, MayRead, ioVars, handlerVars
<1>. QED
  BY <1>3, <1>4, <1>5 DEF ServerInv

LEMMA GameKeepsWire ==
  Game!GameStep => UNCHANGED <<keys, input>>
BY DEF Game!GameStep, Game!StartThrows, Game!StartConnects, Game!Connects,
       Game!ConnectHandled, Game!ConnectFails, Game!GreetingHandled, Game!ConnectReturns,
       Game!StartThreads, Game!ReceiveSpins, Game!MainSends, Game!MainStops, Game!MainJoins,
       Game!SecondRound, Game!ThreadStep, Game!ThreadWakes, Game!SendsToServer, Game!OnlyMain

LEMMA ServerKeeps ==
  ASSUME TypeOK, ServerInv, [Next]_vars
  PROVE  ServerInv'
<1>1. CASE ServerStep
  BY <1>1, AccepterKeeps, ReceiverKeeps, AcceptHandlerKeeps, HandshakeKeeps, ReadKeeps,
     SecureKeeps, PipelineKeeps DEF ServerStep, HandlerStep
<1>2. CASE Game!GameStep /\ UNCHANGED serverVars
  BY <1>2, GameKeepsWire, ClientsKeepServer
<1>3. CASE \E c \in Others : OtherStep(c) /\ UNCHANGED <<serverVars, gameVars>>
  BY <1>3, ClientsKeepServer DEF OtherStep, OtherConnects, OtherSends, OtherCloses
<1>4. CASE UNCHANGED vars
  BY <1>4, ClientsKeepServer DEF vars, wire
<1>. QED
  BY <1>1, <1>2, <1>3, <1>4 DEF Next
------------------------------------------------------------------------------
(* The types.                                                               *)
WireTypeOK ==
  /\ link \in [Clients -> {"none", "open", "accepted", "closed"}]
  /\ hello \in [Clients -> BOOLEAN]
  /\ keys \in [Clients -> {"none", "agreed", "failed"}]
  /\ input \in [Clients -> 0..MaxSends]
  /\ \A c \in Clients : /\ keys[c] # "none" => hello[c] /\ link[c] \in {"accepted", "closed"}
                        /\ input[c] > 0 => keys[c] = "agreed"

HandlerTypeOK ==
  /\ acceptPc \in {"loop", "run"}
  /\ rpc \in [Receivers -> {"none", "loop", "run"}]
  /\ clientSocketsMutex \in Receivers \cup {Nobody}
  /\ clientSockets \subseteq Clients /\ written \in Seq(Clients)

ClientTypeOK ==
  /\ round \in {1, 2}
  /\ mpc \in {"idle", "run", "connected", "send", "stop", "join", "over"}
  /\ rcv \in {"none", "loop", "gone"}

Types ==
  IoTypeOK(Operations) /\ PipeTypeOK(Clients) /\ WireTypeOK /\ HandlerTypeOK /\ ClientTypeOK

Agreed == \A c \in clientSockets : keys[c] = "agreed"

LEMMA TypeParts ==
  TypeOK => /\ IoTypeOK(Operations) /\ PipeTypeOK(Clients)
            /\ WireTypeOK /\ HandlerTypeOK /\ ClientTypeOK /\ Agreed
BY DEF TypeOK, WireTypeOK, HandlerTypeOK, ClientTypeOK, Agreed

LEMMA TypePartsNext ==
  /\ IoTypeOK(Operations)' /\ PipeTypeOK(Clients)'
  /\ WireTypeOK' /\ HandlerTypeOK' /\ ClientTypeOK'
  => Types'
BY DEF Types

LEMMA TypesNext ==
  Types' /\ Agreed' => TypeOK'
BY DEF Types, Agreed, TypeOK, WireTypeOK, HandlerTypeOK, ClientTypeOK

(* The steps of the wire: of a connection, of the keys, of the input.       *)
LEMMA LinkStep ==
  ASSUME WireTypeOK, NEW c \in Clients, NEW b \in BOOLEAN,
         NEW v \in {"none", "open", "accepted", "closed"},
         link' = [link EXCEPT ![c] = v], hello' = [hello EXCEPT ![c] = b],
         keys[c] # "none" => b /\ v \in {"accepted", "closed"},
         UNCHANGED <<keys, input>>
  PROVE  WireTypeOK'
<1>1. \A d \in Clients : /\ link'[d] = IF d = c THEN v ELSE link[d]
                         /\ hello'[d] = IF d = c THEN b ELSE hello[d]
  BY DEF WireTypeOK
<1>2. /\ link' \in [Clients -> {"none", "open", "accepted", "closed"}]
      /\ hello' \in [Clients -> BOOLEAN]
  BY DEF WireTypeOK
<1>. QED
  BY <1>1, <1>2 DEF WireTypeOK

LEMMA KeysStep ==
  ASSUME WireTypeOK, NEW c \in Clients, NEW v \in {"agreed", "failed"},
         link[c] = "accepted", hello[c], keys[c] = "none",
         keys' = [keys EXCEPT ![c] = v], UNCHANGED <<link, hello, input>>
  PROVE  WireTypeOK'
<1>1. \A d \in Clients : keys'[d] = IF d = c THEN v ELSE keys[d]
  BY DEF WireTypeOK
<1>2. keys' \in [Clients -> {"none", "agreed", "failed"}]
  BY DEF WireTypeOK
<1>. QED
  BY <1>1, <1>2 DEF WireTypeOK

LEMMA InputStep ==
  ASSUME WireTypeOK, NEW c \in Clients, NEW n \in 0..MaxSends,
         input' = [input EXCEPT ![c] = n], n > 0 => keys[c] = "agreed",
         UNCHANGED <<link, hello, keys>>
  PROVE  WireTypeOK'
<1>1. \A d \in Clients : input'[d] = IF d = c THEN n ELSE input[d]
  BY DEF WireTypeOK
<1>2. input' \in [Clients -> 0..MaxSends]
  BY DEF WireTypeOK
<1>. QED
  BY <1>1, <1>2 DEF WireTypeOK

LEMMA WireStays ==
  WireTypeOK /\ UNCHANGED wire => WireTypeOK'
BY DEF WireTypeOK, wire

LEMMA BecomesClosed ==
  ASSUME WireTypeOK, NEW c \in Clients,
         link' \in {link, [link EXCEPT ![c] = "closed"]},
         UNCHANGED <<hello, keys, input>>
  PROVE  WireTypeOK'
<1>1. CASE link' = link
  BY <1>1, WireStays DEF wire
<1>2. CASE link' = [link EXCEPT ![c] = "closed"]
  <2>1. /\ hello[c] \in BOOLEAN /\ hello' = [hello EXCEPT ![c] = hello[c]]
        /\ keys[c] # "none" => hello[c]
    BY DEF WireTypeOK
  <2>. QED
    BY <1>2, <2>1, LinkStep
<1>. QED
  BY <1>1, <1>2

(* The service's handlers and threads keep the types.                       *)
LEMMA PostTypes ==
  ASSUME IoTypeOK(Operations), NEW ops \in SUBSET Operations, Post(ops)
  PROVE  IoTypeOK(Operations)'
BY DEF IoTypeOK, Post, With

LEMMA PostAndRunTypes ==
  ASSUME IoTypeOK(Operations), NEW r \in Runners, NEW ops \in SUBSET Operations,
         PostAndRun(r, ops)
  PROVE  IoTypeOK(Operations)'
BY DEF IoTypeOK, PostAndRun, With, OutOfWork

LEMMA HandlingTypes ==
  ASSUME IoTypeOK(Operations), NEW r \in Runners, NEW op \in Operations,
         NEW ops \in SUBSET Operations,
         LeaveRun(r) \/ BeginHandler(r, op) \/ EndHandler(r) \/ Handle(r, op, ops)
  PROVE  IoTypeOK(Operations)'
<1>1. CASE LeaveRun(r)
  BY <1>1 DEF LeaveRun, IoTypeOK
<1>2. CASE BeginHandler(r, op)
  BY <1>2 DEF BeginHandler, IoTypeOK
<1>3. CASE EndHandler(r)
  BY <1>3 DEF EndHandler, IoTypeOK, OutOfWork
<1>4. CASE Handle(r, op, ops)
  BY <1>4 DEF Handle, IoTypeOK, OutOfWork
<1>. QED
  BY <1>1, <1>2, <1>3, <1>4

LEMMA IoStays ==
  IoTypeOK(Operations) /\ UNCHANGED ioVars => IoTypeOK(Operations)'
BY DEF IoTypeOK, ioVars

LEMMA PipeStays ==
  PipeTypeOK(Clients) /\ UNCHANGED pipeVars => PipeTypeOK(Clients)'
BY DEF PipeTypeOK, pipeVars

LEMMA HandlerStays ==
  HandlerTypeOK /\ UNCHANGED handlerVars => HandlerTypeOK'
BY DEF HandlerTypeOK, handlerVars

LEMMA ClientStays ==
  ClientTypeOK /\ UNCHANGED gameVars => ClientTypeOK'
BY DEF ClientTypeOK, gameVars

LEMMA ServerStepTypes ==
  ASSUME TypeOK, ServerInv, ServerStep, UNCHANGED gameVars
  PROVE  Types'
<1>. USE TypeParts, TypePartsNext, OpsDiffer, ClientStays
<1>0. DataInv
  BY DEF ServerInv
<1>1. CASE AcceptPosts \/ AcceptReturns
  <2>1. UNCHANGED <<pipeVars, wire>> /\ HandlerTypeOK'
    BY <1>1 DEF AcceptPosts, AcceptReturns, OnlyAccepter, HandlerTypeOK
  <2>2. IoTypeOK(Operations)'
    BY <1>1, PostAndRunTypes, HandlingTypes, ThreadsAssumption DEF AcceptPosts, AcceptReturns
  <2>. QED
    BY <2>1, <2>2, WireStays, PipeStays
<1>2. CASE \E r \in Receivers : ReceiverRuns(r) \/ ReceiverReturns(r)
  <2>0. PICK r \in Receivers : ReceiverRuns(r) \/ ReceiverReturns(r)
    BY <1>2
  <2>1. UNCHANGED <<pipeVars, wire>> /\ HandlerTypeOK'
    BY <2>0 DEF ReceiverRuns, ReceiverReturns, OnlyReceiver, HandlerTypeOK
  <2>2. r \in Runners /\ {Read(c) : c \in clientSockets} \in SUBSET Operations
    BY ThreadsAssumption DEF HandlerTypeOK
  <2>3. IoTypeOK(Operations)'
    BY <2>0, <2>2, PostAndRunTypes, HandlingTypes DEF ReceiverRuns, ReceiverReturns
  <2>. QED
    BY <2>1, <2>3, WireStays, PipeStays
<1>3. CASE PipelineStep
  <2>1. UNCHANGED <<ioVars, wire, handlerVars>>
    BY <1>3 DEF PipelineStep, ProcessThread, SendThread
  <2>2. PipeTypeOK(Clients)'
    BY <1>0, <1>3, <2>1, ProcessMoves, SendMoves
    DEF PipelineStep, ProcessThread, SendThread, handlerVars
  <2>. QED
    BY <2>1, <2>2, WireStays, IoStays, HandlerStays
<1>4. CASE SendsToAll
  <2>1. {Write(c) : c \in clientSockets} \in SUBSET Operations
    BY DEF HandlerTypeOK
  <2>2. IoTypeOK(Operations)' /\ UNCHANGED wire
    BY <1>4, <2>1, PostTypes DEF SendsToAll
  <2>3. PipeTypeOK(Clients)' /\ written' \in Seq(Clients)
    BY <1>0, <1>4, WriteMoves DEF SendsToAll
  <2>4. HandlerTypeOK'
    BY <1>4, <2>3 DEF SendsToAll, HandlerTypeOK
  <2>. QED
    BY <2>2, <2>3, <2>4, WireStays
<1>5. CASE \E r \in Runners : AcceptFails(r) \/ \E c \in Clients : AcceptHandled(r, c)
  <2>0. PICK r \in Runners : AcceptFails(r) \/ \E c \in Clients : AcceptHandled(r, c)
    BY <1>5
  <2>1. UNCHANGED <<pipeVars, handlerVars>>
    BY <2>0 DEF AcceptFails, AcceptHandled
  <2>2. IoTypeOK(Operations)'
    <3>1. CASE AcceptFails(r)
      BY <3>1, HandlingTypes DEF AcceptFails
    <3>2. ASSUME NEW c \in Clients, AcceptHandled(r, c)
          PROVE  IoTypeOK(Operations)'
      <4>1. {Handshake(c)} \in SUBSET Operations
        OBVIOUS
      <4>. QED
        BY <3>2, <4>1, HandlingTypes DEF AcceptHandled
    <3>. QED
      BY <2>0, <3>1, <3>2
  <2>3. WireTypeOK'
    <3>1. CASE AcceptFails(r)
      BY <3>1, WireStays DEF AcceptFails
    <3>2. ASSUME NEW c \in Clients, AcceptHandled(r, c)
          PROVE  WireTypeOK'
      <4>1. /\ link' = [link EXCEPT ![c] = "accepted"] /\ keys[c] = "none"
            /\ hello[c] \in BOOLEAN /\ hello' = [hello EXCEPT ![c] = hello[c]]
            /\ UNCHANGED <<keys, input>>
        BY <3>2 DEF AcceptHandled, WireTypeOK
      <4>. QED
        BY <4>1, LinkStep
    <3>. QED
      BY <2>0, <3>1, <3>2
  <2>. QED
    BY <2>1, <2>2, <2>3, PipeStays, HandlerStays
<1>6. ASSUME NEW r \in Runners, NEW c \in Clients,
             \/ HandshakeHandled(r, c) \/ HandshakePushes(r, c) \/ HandshakeReturns(r, c)
      PROVE  Types'
  <2>1. UNCHANGED pipeVars /\ HandlerTypeOK'
    BY <1>6 DEF HandshakeHandled, HandshakePushes, HandshakeReturns, HandlerTypeOK, handlerVars
  <2>2. IoTypeOK(Operations)'
    BY <1>6, HandlingTypes, IoStays DEF HandshakeHandled, HandshakePushes, HandshakeReturns
  <2>3. link' \in {link, [link EXCEPT ![c] = "closed"]} /\ UNCHANGED <<hello, keys, input>>
    BY <1>6 DEF HandshakeHandled, HandshakePushes, HandshakeReturns, wire
  <2>. QED
    BY <2>1, <2>2, <2>3, BecomesClosed, PipeStays
<1>7. ASSUME NEW r \in Runners, NEW c \in Clients, ReadHandled(r, c)
      PROVE  Types'
  <2>1. HandlerTypeOK'
    BY <1>7 DEF ReadHandled, HandlerTypeOK
  <2>2. IoTypeOK(Operations)'
    BY <1>7, HandlingTypes DEF ReadHandled
  <2>3. /\ receiveBuffer' = Append(receiveBuffer, c)
        /\ ppc' = IF ppc = "asleep" THEN "woken" ELSE ppc
        /\ UNCHANGED <<running, processBuffer, sendBuffer, pdata, spc, sdata>>
    BY <1>7 DEF ReadHandled, Receive, Notified
  <2>4. PipeTypeOK(Clients)'
    BY <2>3, AppendProperties DEF PipeTypeOK
  <2>5. /\ input[c] - 1 \in 0..MaxSends /\ keys[c] = "agreed"
        /\ input' = [input EXCEPT ![c] = input[c] - 1] /\ UNCHANGED <<link, hello, keys>>
    BY <1>7, ClientsAssumption DEF ReadHandled, WireTypeOK
  <2>. QED
    BY <2>1, <2>2, <2>4, <2>5, InputStep
<1>8. ASSUME NEW r \in Runners, NEW c \in Clients, ReadFails(r, c)
      PROVE  Types'
  BY <1>8, HandlingTypes, WireStays, PipeStays, HandlerStays DEF ReadFails
<1>9. ASSUME NEW c \in Clients, Secure(c)
      PROVE  Types'
  <2>1. UNCHANGED <<ioVars, pipeVars, handlerVars>>
    BY <1>9 DEF Secure, serverVars
  <2>2. WireTypeOK'
    BY <1>9, KeysStep DEF Secure
  <2>. QED
    BY <2>1, <2>2, IoStays, PipeStays, HandlerStays
<1>. QED
  BY <1>1, <1>2, <1>3, <1>4, <1>5, <1>6, <1>7, <1>8, <1>9 DEF ServerStep, HandlerStep
------------------------------------------------------------------------------
(* The game.                                                                *)
LEMMA Me ==
  ASSUME TypeOK
  PROVE  /\ Game!me \in Clients
         /\ Game!me = IF round = 1 THEN "game1" ELSE "game2"
         /\ "game1" \in Clients /\ "game2" \in Clients
BY ClientsAssumption DEF TypeOK, Game!me, Rounds

LEMMA GameStepTypes ==
  ASSUME TypeOK, Game!GameStep, UNCHANGED serverVars
  PROVE  Types'
<1>. USE TypeParts, TypePartsNext, Me
<1>1. IoTypeOK(Operations)' /\ PipeTypeOK(Clients)' /\ HandlerTypeOK'
  BY IoStays, PipeStays, HandlerStays DEF serverVars
<1>2. CASE Game!Connects
  <2>1. /\ link[Game!me] = "none" /\ link' = [link EXCEPT ![Game!me] = "open"]
        /\ UNCHANGED <<hello, keys, input, round, mpc, rcv>>
    BY <1>2 DEF Game!Connects, Game!OnlyMain
  <2>2. /\ hello[Game!me] \in BOOLEAN /\ hello' = [hello EXCEPT ![Game!me] = hello[Game!me]]
        /\ keys[Game!me] = "none"
    BY <2>1 DEF WireTypeOK
  <2>3. WireTypeOK'
    BY <2>1, <2>2, LinkStep
  <2>. QED
    BY <1>1, <2>1, <2>3 DEF ClientTypeOK
<1>3. CASE Game!ConnectHandled
  <2>1. /\ hello' = [hello EXCEPT ![Game!me] = TRUE]
        /\ UNCHANGED <<link, keys, input, round, mpc, rcv>>
    BY <1>3 DEF Game!ConnectHandled, Game!clientVars
  <2>2. /\ link[Game!me] \in {"none", "open", "accepted", "closed"}
        /\ link' = [link EXCEPT ![Game!me] = link[Game!me]]
        /\ keys[Game!me] # "none" => link[Game!me] \in {"accepted", "closed"}
    BY <2>1 DEF WireTypeOK
  <2>3. WireTypeOK'
    BY <2>1, <2>2, LinkStep
  <2>. QED
    BY <1>1, <2>1, <2>3 DEF ClientTypeOK
<1>4. CASE Game!MainJoins
  <2>1. /\ link' \in {link, [link EXCEPT ![Game!me] = "closed"]} /\ mpc' = "over"
        /\ UNCHANGED <<hello, keys, input, round, rcv>>
    BY <1>4 DEF Game!MainJoins, Game!OnlyMain
  <2>2. WireTypeOK'
    BY <2>1, BecomesClosed
  <2>. QED
    BY <1>1, <2>1, <2>2 DEF ClientTypeOK
<1>5. CASE \/ Game!StartThrows \/ Game!StartConnects \/ Game!ConnectFails
           \/ Game!GreetingHandled \/ Game!ConnectReturns
  <2>1. /\ UNCHANGED <<wire, round, rcv>>
        /\ mpc' \in {mpc, "over", "run", "connected"}
    BY <1>5 DEF Game!StartThrows, Game!StartConnects, Game!ConnectFails, Game!GreetingHandled,
                Game!ConnectReturns, Game!OnlyMain, wire
  <2>. QED
    BY <1>1, <2>1, WireStays DEF ClientTypeOK
<1>6. CASE \/ Game!StartThreads \/ Game!ReceiveSpins \/ Game!MainSends \/ Game!MainStops
           \/ Game!SecondRound
  <2>1. /\ UNCHANGED wire
        /\ round' \in {round, 2} /\ rcv' \in {rcv, "none", "loop", "gone"}
        /\ mpc' \in {mpc, "send", "stop", "join", "idle"}
    BY <1>6 DEF Game!StartThreads, Game!ReceiveSpins, Game!MainSends, Game!MainStops,
                Game!SecondRound, wire
  <2>. QED
    BY <1>1, <2>1, WireStays DEF ClientTypeOK
<1>7. CASE Game!ThreadStep \/ Game!ThreadWakes \/ Game!SendsToServer
  <2>1. UNCHANGED <<wire, round, mpc, rcv>>
    BY <1>7 DEF Game!ThreadStep, Game!ThreadWakes, Game!SendsToServer, Game!clientVars, wire
  <2>. QED
    BY <1>1, <2>1, WireStays DEF ClientTypeOK
<1>. QED
  BY <1>2, <1>3, <1>4, <1>5, <1>6, <1>7 DEF Game!GameStep

LEMMA OtherStepTypes ==
  ASSUME TypeOK, NEW c \in Others, OtherStep(c), UNCHANGED <<serverVars, gameVars>>
  PROVE  Types'
<1>. USE TypeParts, TypePartsNext
<1>1. IoTypeOK(Operations)' /\ PipeTypeOK(Clients)' /\ HandlerTypeOK' /\ ClientTypeOK'
  BY IoStays, PipeStays, HandlerStays, ClientStays DEF serverVars
<1>2. c \in Clients
  BY ClientsAssumption
<1>3. CASE OtherConnects(c)
  <2>1. PICK b \in BOOLEAN : hello' = [hello EXCEPT ![c] = b]
    BY <1>3 DEF OtherConnects
  <2>2. link' = [link EXCEPT ![c] = "open"] /\ UNCHANGED <<keys, input>> /\ keys[c] = "none"
    BY <1>2, <1>3 DEF OtherConnects, WireTypeOK
  <2>3. WireTypeOK'
    BY <1>2, <2>1, <2>2, LinkStep
  <2>. QED
    BY <1>1, <2>3
<1>4. CASE OtherSends(c)
  <2>1. /\ input[c] + 1 \in 0..MaxSends /\ keys[c] = "agreed"
        /\ input' = [input EXCEPT ![c] = input[c] + 1] /\ UNCHANGED <<link, hello, keys>>
    BY <1>2, <1>4, ClientsAssumption DEF OtherSends, WireTypeOK
  <2>2. WireTypeOK'
    BY <1>2, <2>1, InputStep
  <2>. QED
    BY <1>1, <2>2
<1>5. CASE OtherCloses(c)
  <2>1. WireTypeOK'
    BY <1>2, <1>5, BecomesClosed DEF OtherCloses
  <2>. QED
    BY <1>1, <2>1
<1>. QED
  BY <1>3, <1>4, <1>5 DEF OtherStep

(* Only a client that has keys gets into clientSockets, and keeps them.     *)
LEMMA AgreedStays ==
  ASSUME TypeOK, [Next]_vars
  PROVE  Agreed'
<1>. USE TypeParts
<1>1. ASSUME UNCHANGED <<keys, clientSockets>>
      PROVE  Agreed'
  BY <1>1 DEF Agreed
<1>2. ASSUME NEW c \in Clients, Secure(c)
      PROVE  Agreed'
  <2>1. /\ c \notin clientSockets
        /\ UNCHANGED clientSockets
        /\ \A d \in Clients : d # c => keys'[d] = keys[d]
    BY <1>2 DEF Secure, serverVars, handlerVars, Agreed
  <2>. QED
    BY <2>1 DEF Agreed, HandlerTypeOK
<1>3. ASSUME NEW r \in Runners, HandlerStep(r)
      PROVE  Agreed'
  <2>1. ASSUME NEW c \in Clients, HandshakePushes(r, c)
        PROVE  Agreed'
    BY <2>1 DEF HandshakePushes, wire, Agreed
  <2>. QED
    BY <1>1, <1>3, <2>1
    DEF HandlerStep, AcceptHandled, AcceptFails, HandshakeHandled, HandshakeReturns,
        ReadHandled, ReadFails, handlerVars, wire
<1>4. CASE AcceptPosts \/ AcceptReturns \/ PipelineStep \/ SendsToAll
  BY <1>1, <1>4
  DEF AcceptPosts, AcceptReturns, OnlyAccepter, PipelineStep, ProcessThread, SendThread,
      SendsToAll, handlerVars, wire
<1>5. ASSUME NEW r \in Receivers, ReceiverRuns(r) \/ ReceiverReturns(r)
      PROVE  Agreed'
  BY <1>1, <1>5 DEF ReceiverRuns, ReceiverReturns, OnlyReceiver, wire
<1>6. CASE UNCHANGED serverVars /\ UNCHANGED keys
  BY <1>1, <1>6 DEF serverVars, handlerVars
<1>7. CASE \/ Game!GameStep /\ UNCHANGED serverVars
           \/ \E c \in Others : OtherStep(c) /\ UNCHANGED <<serverVars, gameVars>>
           \/ UNCHANGED vars
  BY <1>6, <1>7, GameKeepsWire DEF OtherStep, OtherConnects, OtherSends, OtherCloses, vars, wire
<1>. QED
  BY <1>2, <1>3, <1>4, <1>5, <1>7 DEF Next, ServerStep

(* The context of the game stops for good.                                  *)
LEMMA GameContext ==
  ASSUME GameInv, TypeOK, NEW op,
         \/ Game!Handle("main", op, {}) \/ Game!Handle("main", op, {Game!Greeting})
  PROVE  ~gStopped /\ gStopped' \in BOOLEAN /\ mpc = "run"
BY DEF GameInv, Game!Handle, Game!CanHandle, Game!OutOfWork

LEMMA GameKeepsInv ==
  ASSUME TypeOK, GameInv, Game!GameStep
  PROVE  GameInv'
<1>. USE Me DEF GameInv, OneHandshakeOnly
<1>1. CASE Game!StartThrows
  BY <1>1 DEF Game!StartThrows, Game!OnlyMain, Game!ioVars, Game!pipeVars
<1>2. CASE Game!StartConnects
  <2>1. /\ UNCHANGED <<Game!pipeVars, hello, round, rcv, sent>> /\ mpc = "idle"
        /\ mpc' = "run"
        /\ gStopped' = (gStopped \/ Game!OutOfWork(gPending', gHandling))
    BY <1>2 DEF Game!StartConnects, Game!OnlyMain, Game!PostAndRun
  <2>2. gStopped' \in BOOLEAN /\ (gStopped => gStopped')
    BY <2>1 DEF Game!OutOfWork
  <2>. QED
    BY <2>1, <2>2 DEF Game!pipeVars
<1>3. CASE Game!Connects
  BY <1>3 DEF Game!Connects, Game!OnlyMain, Game!ioVars, Game!pipeVars
<1>4. CASE Game!ConnectHandled
  <2>1. /\ UNCHANGED <<Game!pipeVars, Game!clientVars>>
        /\ hello' = [hello EXCEPT ![Game!me] = TRUE]
        /\ ~gStopped /\ gStopped' \in BOOLEAN /\ mpc = "run"
    BY <1>4, GameContext DEF Game!ConnectHandled
  <2>2. \A c \in Clients : hello'[c] = IF c = Game!me THEN TRUE ELSE hello[c]
    BY <2>1 DEF TypeOK
  <2>3. round \in {1, 2}
    BY DEF TypeOK
  <2>. QED
    BY <2>1, <2>2, <2>3 DEF Game!pipeVars, Game!clientVars
<1>5. CASE Game!ConnectFails \/ Game!GreetingHandled
  <2>1. /\ UNCHANGED <<Game!pipeVars, hello, round, mpc, rcv, sent>>
        /\ ~gStopped /\ gStopped' \in BOOLEAN /\ mpc = "run"
    BY <1>5, GameContext DEF Game!ConnectFails, Game!GreetingHandled, Game!OnlyMain
  <2>. QED
    BY <2>1 DEF Game!pipeVars
<1>6. CASE Game!ConnectReturns
  BY <1>6 DEF Game!ConnectReturns, Game!LeaveRun, Game!OnlyMain, Game!pipeVars
<1>7. CASE Game!StartThreads
  BY <1>7 DEF Game!StartThreads, Game!ioVars
<1>8. CASE Game!ReceiveSpins
  <2>1. UNCHANGED <<Game!pipeVars, hello, round, mpc, sent, gStopped>> /\ rcv = "loop"
    BY <1>8 DEF Game!ReceiveSpins, Game!RunReads, Game!ioVars
  <2>. QED
    BY <2>1 DEF Game!pipeVars
<1>9. CASE Game!MainSends
  BY <1>9 DEF Game!MainSends, Game!SendMessage, Game!Notified, Game!ioVars
<1>10. CASE Game!MainStops
  BY <1>10 DEF Game!MainStops, Game!ClearRunning, Game!StopContext
<1>11. CASE Game!MainJoins
  BY <1>11 DEF Game!MainJoins, Game!OnlyMain, Game!ioVars, Game!pipeVars
<1>12. CASE Game!SecondRound
  BY <1>12 DEF Game!SecondRound, Game!ioVars
<1>13. CASE Game!ThreadStep
  <2>1. UNCHANGED <<Game!ioVars, hello, Game!clientVars>>
    BY <1>13 DEF Game!ThreadStep
  <2>2. CASE Game!ProcessStep
    <3>1. /\ UNCHANGED <<gRunning, gReceiveBuffer, gProcessBuffer, gSpc>>
          /\ gPpc # "none" /\ gPpc' \in {"asleep", "gone"}
      BY <2>2 DEF Game!ProcessStep, Game!ProcessLoops, Game!ProcessTakes, Game!ProcessPushes,
                  Game!ProcessLeaves, Game!OnlyProcess
    <3>. QED
      BY <2>1, <3>1 DEF Game!ioVars, Game!clientVars
  <2>3. CASE Game!SendStep
    <3>1. /\ UNCHANGED <<gRunning, gReceiveBuffer, gProcessBuffer, gPpc>>
          /\ gSpc # "none"
          /\ gSpc' \in {"asleep", "gone"} \/ ~gRunning
          /\ gSpc' \notin {"drain", "push"}
      BY <2>3 DEF Game!SendStep, Game!SendLoops, Game!SendTakes, Game!SendPushes,
                  Game!SendWaits, Game!SendPicks, Game!SendLeaves, Game!OnlySend
    <3>. QED
      BY <2>1, <3>1 DEF Game!ioVars, Game!clientVars
  <2>. QED
    BY <1>13, <2>2, <2>3 DEF Game!ThreadStep
<1>14. CASE Game!ThreadWakes
  BY <1>14 DEF Game!ThreadWakes, Game!SpuriousWakeup, Game!ioVars, Game!clientVars
<1>15. CASE Game!SendsToServer
  <2>1. /\ UNCHANGED <<gRunning, gReceiveBuffer, gProcessBuffer, gPpc, hello, round, mpc, rcv,
                       gStopped>>
        /\ gSpc = "write" /\ gSpc' = "drain2" /\ gPending' = Game!With({Game!Writing})
    BY <1>15 DEF Game!SendsToServer, Game!SendWrites, Game!OnlySend, Game!Post
  <2>2. gStopped
    BY <2>1
  <2>. QED
    BY <2>1, <2>2
<1>. QED
  BY <1>1, <1>2, <1>3, <1>4, <1>5, <1>6, <1>7, <1>8, <1>9, <1>10, <1>11, <1>12, <1>13, <1>14,
     <1>15 DEF Game!GameStep

(* Nobody else greets in the game's name.                                   *)
LEMMA GameInvStays ==
  ASSUME GameInv, UNCHANGED gameVars,
         hello'["game1"] = hello["game1"], hello'["game2"] = hello["game2"]
  PROVE  GameInv'
BY DEF GameInv, OneHandshakeOnly, gameVars

LEMMA ServerKeepsHello ==
  ServerStep => UNCHANGED hello
BY DEF ServerStep, HandlerStep, AcceptPosts, AcceptReturns, OnlyAccepter, PipelineStep,
       ProcessThread, SendThread, SendsToAll, ReceiverRuns, ReceiverReturns, OnlyReceiver,
       AcceptHandled, AcceptFails, HandshakeHandled, HandshakePushes, HandshakeReturns,
       ReadHandled, ReadFails, Secure, wire

LEMMA GameKeeps ==
  ASSUME TypeOK, GameInv, [Next]_vars
  PROVE  GameInv'
<1>1. CASE ServerStep /\ UNCHANGED gameVars
  BY <1>1, ServerKeepsHello, GameInvStays
<1>2. CASE Game!GameStep
  BY <1>2, GameKeepsInv
<1>3. ASSUME NEW c \in Others, OtherStep(c), UNCHANGED <<serverVars, gameVars>>
      PROVE  GameInv'
  <2>1. c # "game1" /\ c # "game2" /\ "game1" \in Clients /\ "game2" \in Clients
    BY ClientsAssumption
  <2>2. hello'["game1"] = hello["game1"] /\ hello'["game2"] = hello["game2"]
    BY <1>3, <2>1 DEF OtherStep, OtherConnects, OtherSends, OtherCloses, TypeOK
  <2>. QED
    BY <1>3, <2>2, GameInvStays
<1>4. CASE UNCHANGED vars
  BY <1>4, GameInvStays DEF vars, wire
<1>. QED
  BY <1>1, <1>2, <1>3, <1>4 DEF Next
------------------------------------------------------------------------------
LEMMA InitIInv ==
  ASSUME Init
  PROVE  IInv
<1>1. WireTypeOK
  <2>1. 0 \in 0..MaxSends
    BY ClientsAssumption
  <2>. QED
    BY <2>1 DEF Init, WireInit, WireTypeOK
<1>2. IoTypeOK(Operations)
  BY DEF Init, ServerInit, IoInit, IoTypeOK
<1>3. <<>> \in Seq(Clients) /\ Len(<<>>) = 0
  BY EmptySeq
<1>4. PipeTypeOK(Clients)
  BY <1>3 DEF Init, ServerInit, PipeInit, PipeTypeOK
<1>5. HandlerTypeOK
  BY <1>3 DEF Init, ServerInit, HandlerTypeOK
<1>6. ClientTypeOK
  BY DEF Init, Game!NetInit, ClientTypeOK
<1>7. TypeOK
  BY <1>1, <1>2, <1>4, <1>5, <1>6
  DEF TypeOK, WireTypeOK, HandlerTypeOK, ClientTypeOK, Init, ServerInit
<1>8. KnownInv
  <2>1. Known = {}
    BY OpsDiffer DEF Known, Init, WireInit, ServerInit, IoInit
  <2>. QED
    BY <2>1 DEF KnownInv, MayAccept, Init, ServerInit, IoInit
<1>9. HolderInv
  BY ThreadsAssumption DEF HolderInv, Nobody, Init, ServerInit, IoInit
<1>10. DataInv
  BY DEF DataInv, Init, ServerInit, PipeInit
<1>11. ReadInv
  <2>1. InProcess = 0 /\ InSend = 0
    BY DEF InProcess, InSend, Init, ServerInit, PipeInit
  <2>2. /\ Len(receiveBuffer) = 0 /\ Len(processBuffer) = 0
        /\ Len(sendBuffer) = 0 /\ Len(written) = 0
    BY <1>3 DEF Init, ServerInit, PipeInit
  <2>3. Chunks = 0
    BY <2>1, <2>2 DEF Chunks
  <2>4. Chunks <= 1
    BY <2>3
  <2>5. pending = {}
    BY DEF Init, ServerInit, IoInit
  <2>. QED
    BY <2>3, <2>4, <2>5 DEF ReadInv
<1>12. GameInv
  BY ClientsAssumption DEF GameInv, OneHandshakeOnly, Init, WireInit, Game!NetInit, Game!IoInit,
                           Game!PipeInit
<1>. QED
  BY <1>7, <1>8, <1>9, <1>10, <1>11, <1>12 DEF IInv, ServerInv

LEMMA StepIInv ==
  IInv /\ [Next]_vars => IInv'
<1>. SUFFICES ASSUME IInv, [Next]_vars
              PROVE  IInv'
  OBVIOUS
<1>1. Types'
  <2>1. CASE UNCHANGED vars
    <3>1. UNCHANGED <<wire, serverVars, gameVars>>
      BY <2>1 DEF vars
    <3>. QED
      BY <3>1, TypeParts, TypePartsNext, IoStays, PipeStays, WireStays, HandlerStays,
         ClientStays DEF IInv, serverVars
  <2>. QED
    BY <2>1, ServerStepTypes, GameStepTypes, OtherStepTypes DEF Next, IInv
<1>. QED
  BY <1>1, AgreedStays, TypesNext, ServerKeeps, GameKeeps DEF IInv

(* The invariant on which every theorem below rests.                        *)
THEOREM Inductive == Spec => []IInv
BY InitIInv, StepIInv, PTL DEF Spec

(* The variables of the service, the clients and the wire keep their types, *)
(* no client has keys without a greeting and an accepted connection, and    *)
(* nobody is in clientSockets without keys.                                 *)
THEOREM TypeCorrect == Spec => []TypeOK
<1>1. IInv => TypeOK
  BY DEF IInv
<1>. QED
  BY <1>1, Inductive, PTL

LEMMA AtMostOne ==
  ASSUME NEW S, \A c, d \in S : c = d
  PROVE  Cardinality(S) <= 1
<1>1. CASE S = {}
  BY <1>1, FS_EmptySet
<1>2. CASE S # {}
  <2>1. PICK c \in S : S = {c}
    BY <1>2
  <2>2. Cardinality({c}) = 1
    BY FS_Singleton
  <2>. QED
    BY <2>1, <2>2
<1>. QED
  BY <1>1, <1>2

(* Whoever connects, and however the clients and the service's threads      *)
(* interleave, ClientHandler agrees on keys with one client at most, hands  *)
(* one to its receiving threads, and writes one chunk in its life.          *)
THEOREM ServesOne == Spec => []ServesAtMostOneClient
<1>1. ASSUME IInv
      PROVE  ServesAtMostOneClient
  <2>1. \A c, d \in {x \in Clients : keys[x] # "none"} : c = d
    BY <1>1 DEF IInv, ServerInv, KnownInv, Known
  <2>2. \A c, d \in clientSockets : c = d
    BY <1>1 DEF IInv, ServerInv, KnownInv, Known, TypeOK
  <2>3. InProcess \in Nat /\ InSend \in Nat
    BY DEF InProcess, InSend
  <2>4. Len(written) <= 1
    BY <1>1, <2>3, ServerTypes DEF IInv, ServerInv, ReadInv, Chunks
  <2>. QED
    BY <2>1, <2>2, <2>4, AtMostOne DEF ServesAtMostOneClient
<1>. QED
  BY <1>1, Inductive, PTL

(* The send thread gets clientSocketsMutex only when the context has        *)
(* stopped: no write is ever completed.                                     *)
THEOREM WritesStopped == Spec => WritesFindItStopped
<1>1. ASSUME IInv, Next, written' # written
      PROVE  stopped
  <2>1. SendsToAll
    BY <1>1 DEF Next, ServerStep, HandlerStep, AcceptPosts, AcceptReturns, OnlyAccepter,
       PipelineStep, ProcessThread, SendThread, ReceiverRuns, ReceiverReturns, OnlyReceiver,
       AcceptHandled, AcceptFails,
       HandshakeHandled, HandshakePushes, HandshakeReturns, ReadHandled, ReadFails, Secure,
       handlerVars, serverVars
  <2>2. \A r \in Receivers : rpc[r] # "run"
    BY <1>1, <2>1, ServerTypes DEF SendsToAll, IInv, ServerInv, HolderInv
  <2>3. InSend = 1 /\ InProcess \in Nat
    BY <2>1 DEF SendsToAll, SendWrites, InSend, InProcess
  <2>4. Chunks # 0
    BY <1>1, <2>3, ServerTypes DEF IInv, Chunks
  <2>. QED
    BY <1>1, <2>2, <2>4 DEF IInv, ServerInv, ReadInv, MayRead
<1>2. IInv /\ [Next]_vars => [written' # written => stopped]_vars
  BY <1>1
<1>. QED
  BY <1>2, Inductive, PTL DEF Spec, WritesFindItStopped

(* A handshake's handler that finds clientSocketsMutex taken by a thread in *)
(* run() never gets it.                                                     *)
THEOREM StuckStays == Spec => StuckForEver
<1>1. ASSUME IInv, Next, Stuck
      PROVE  Stuck'
  <2>. USE ServerTypes, OpsDiffer
  <2>0. TypeOK
    BY <1>1 DEF IInv
  <2>1. PICK r \in Runners, c \in Clients, holder \in Receivers :
          /\ handling[r] = Handshake(c) /\ keys[c] = "agreed" /\ c \notin clientSockets
          /\ clientSocketsMutex = holder /\ rpc[holder] = "run"
    BY <1>1 DEF Stuck
  <2>2. ~stopped /\ clientSocketsMutex # Nobody
    BY <1>1, <2>0, <2>1 DEF IInv, ServerInv, HolderInv
  <2>3. SUFFICES /\ handling'[r] = Handshake(c) /\ keys'[c] = "agreed"
                 /\ c \notin clientSockets'
                 /\ clientSocketsMutex' = holder /\ rpc'[holder] = "run"
    BY DEF Stuck
  <2>4. CASE AcceptPosts \/ AcceptReturns
    BY <2>1, <2>4 DEF AcceptPosts, AcceptReturns, PostAndRun, LeaveRun, OnlyAccepter, wire
  <2>5. ASSUME NEW x \in Receivers, ReceiverRuns(x) \/ ReceiverReturns(x)
        PROVE  FALSE
    BY <2>2, <2>5 DEF ReceiverRuns, ReceiverReturns, LeaveRun
  <2>6. CASE PipelineStep
    BY <2>1, <2>6 DEF PipelineStep, ProcessThread, SendThread, ioVars, wire, handlerVars
  <2>7. CASE SendsToAll
    BY <2>2, <2>7 DEF SendsToAll
  <2>8. ASSUME NEW x \in Runners, NEW d \in Clients, AcceptFails(x) \/ AcceptHandled(x, d)
        PROVE  /\ UNCHANGED <<handling, keys, clientSockets, clientSocketsMutex, rpc>>
    BY <2>8 DEF AcceptFails, AcceptHandled, Handle, wire, handlerVars
  <2>9. ASSUME NEW x \in Runners, NEW d \in Clients, HandshakeHandled(x, d)
        PROVE  /\ UNCHANGED <<keys, clientSockets, clientSocketsMutex, rpc>>
               /\ handling'[r] = Handshake(c)
    BY <2>0, <2>1, <2>9
       DEF HandshakeHandled, BeginHandler, CanHandle, wire, handlerVars
  <2>10. ASSUME NEW x \in Runners, NEW d \in Clients, HandshakePushes(x, d)
         PROVE  FALSE
    BY <2>2, <2>10 DEF HandshakePushes
  <2>11. ASSUME NEW x \in Runners, NEW d \in Clients, HandshakeReturns(x, d)
         PROVE  /\ UNCHANGED <<keys, clientSockets, clientSocketsMutex, rpc>>
                /\ handling'[r] = Handshake(c)
    BY <2>0, <2>1, <2>11 DEF HandshakeReturns, EndHandler, handlerVars
  <2>12. ASSUME NEW x \in Runners, NEW d \in Clients, ReadHandled(x, d) \/ ReadFails(x, d)
         PROVE  /\ UNCHANGED <<handling, keys, clientSockets, clientSocketsMutex>>
                /\ rpc'[holder] = "run"
    BY <2>0, <2>1, <2>12 DEF ReadHandled, ReadFails, Handle, wire, handlerVars
  <2>13. ASSUME NEW d \in Clients, Secure(d)
         PROVE  /\ UNCHANGED <<handling, clientSockets, clientSocketsMutex, rpc>>
                /\ keys'[c] = "agreed"
    BY <2>0, <2>1, <2>13 DEF Secure, serverVars, ioVars, handlerVars
  <2>14. CASE ServerStep
    BY <2>1, <2>4, <2>5, <2>6, <2>7, <2>8, <2>9, <2>10, <2>11, <2>12, <2>13, <2>14
       DEF ServerStep, HandlerStep
  <2>15. CASE Game!GameStep /\ UNCHANGED serverVars
    BY <2>1, <2>15, GameKeepsWire DEF serverVars, ioVars, handlerVars
  <2>16. ASSUME NEW d \in Others, OtherStep(d), UNCHANGED serverVars
         PROVE  UNCHANGED <<handling, keys, clientSockets, clientSocketsMutex, rpc>>
    BY <2>16 DEF OtherStep, OtherConnects, OtherSends, OtherCloses, serverVars, ioVars,
                 handlerVars
  <2>. QED
    BY <1>1, <2>1, <2>14, <2>15, <2>16 DEF Next
<1>2. IInv /\ [Next]_vars => [Stuck => Stuck']_vars
  BY <1>1
<1>. QED
  BY <1>2, Inductive, PTL DEF Spec, StuckForEver

(* NetworkClient's threads start on a stopped context; while running holds  *)
(* the game writes nothing.                                                 *)
THEOREM DeafAndMute == Spec => []GameIsDeafAndMute
<1>1. IInv => GameIsDeafAndMute
  BY DEF IInv, GameInv, GameIsDeafAndMute
<1>. QED
  BY <1>1, Inductive, PTL

(* A context that has run a handshake has stopped by the second round.      *)
THEOREM OneHandshake == Spec => []OneHandshakeOnly
<1>1. IInv => OneHandshakeOnly
  BY DEF IInv, GameInv
<1>. QED
  BY <1>1, Inductive, PTL

(* Only a spurious wakeup moves the process thread that Stop waits for.     *)
THEOREM NeedsWakeup == Spec => StopNeedsASpuriousWakeup
<1>1. ASSUME IInv, Next, JoinsASleeper
      PROVE  mpc' = "join" /\ gPpc' \in {"asleep", "woken"}
  <2>. USE <1>1 DEF JoinsASleeper
  <2>1. CASE UNCHANGED gameVars
    BY <2>1 DEF gameVars
  <2>2. CASE \/ Game!StartThrows \/ Game!StartConnects \/ Game!ConnectReturns
             \/ Game!StartThreads \/ Game!MainSends \/ Game!MainStops \/ Game!MainJoins
             \/ Game!SecondRound
    BY <2>2 DEF Game!StartThrows, Game!StartConnects, Game!ConnectReturns, Game!StartThreads,
                Game!MainSends, Game!MainStops, Game!MainJoins, Game!SecondRound
  <2>3. CASE Game!Connects \/ Game!ConnectFails \/ Game!GreetingHandled
    BY <2>3 DEF Game!Connects, Game!ConnectFails, Game!GreetingHandled, Game!OnlyMain,
                Game!pipeVars
  <2>4. CASE Game!ConnectHandled \/ Game!ReceiveSpins
    <3>1. rcv = "loop" => gStopped
      BY DEF IInv, GameInv
    <3>. QED
      BY <2>4, <3>1
      DEF Game!ConnectHandled, Game!ReceiveSpins, Game!RunReads, Game!pipeVars, Game!clientVars
  <2>5. CASE Game!ThreadStep
    <3>1. UNCHANGED mpc
      BY <2>5 DEF Game!ThreadStep, Game!clientVars
    <3>2. UNCHANGED gPpc
      BY <2>5 DEF Game!ThreadStep, Game!ProcessStep, Game!ProcessLoops, Game!ProcessTakes,
         Game!ProcessPushes, Game!ProcessLeaves, Game!SendStep, Game!SendLoops,
         Game!SendTakes, Game!SendPushes, Game!SendWaits, Game!SendPicks, Game!SendLeaves,
         Game!OnlySend
    <3>. QED
      BY <3>1, <3>2
  <2>6. CASE Game!ThreadWakes
    BY <2>6 DEF Game!ThreadWakes, Game!SpuriousWakeup, Game!clientVars
  <2>7. CASE Game!SendsToServer
    BY <2>7 DEF Game!SendsToServer, Game!SendWrites, Game!OnlySend
  <2>. QED
    BY <2>1, <2>2, <2>3, <2>4, <2>5, <2>6, <2>7 DEF Next, Game!GameStep
<1>2. IInv /\ [Next]_vars => [JoinsASleeper => mpc' = "join" /\ gPpc' \in {"asleep", "woken"}]_vars
  BY <1>1
<1>. QED
  BY <1>2, Inductive, PTL DEF Spec, StopNeedsASpuriousWakeup
------------------------------------------------------------------------------
(***************************************************************************)
(* Whose chunks are where.                                                 *)
(***************************************************************************)
(* What is in the three queues, and in the hands of their threads, is of S. *)
CarriedIn(S) ==
  /\ receiveBuffer \in Seq(S) /\ processBuffer \in Seq(S) /\ sendBuffer \in Seq(S)
  /\ ppc = "push" => pdata \in S
  /\ spc \in {"push", "write"} => sdata \in S

CarriedInv == CarriedIn(clientSockets)

LEMMA SeqGrows ==
  ASSUME NEW S, NEW T, S \subseteq T, NEW s \in Seq(S)
  PROVE  s \in Seq(T)
<1>1. s \in [1..Len(s) -> S] /\ Len(s) \in Nat
  BY LenProperties
<1>2. s \in [1..Len(s) -> T]
  BY <1>1
<1>. QED
  BY <1>1, <1>2, IsASeq

LEMMA CarriedGrows ==
  ASSUME NEW S, NEW T, S \subseteq T, CarriedIn(S)
  PROVE  CarriedIn(T)
BY SeqGrows DEF CarriedIn

LEMMA ProcessCarries ==
  ASSUME NEW S, CarriedIn(S), ProcessStep
  PROVE  CarriedIn(S)'
<1>. USE DEF CarriedIn, OnlyProcess
<1>1. CASE ProcessLoops \/ ProcessLeaves \/ (ProcessTakes /\ receiveBuffer = <<>>)
  BY <1>1 DEF ProcessLoops, ProcessLeaves, ProcessTakes
<1>2. CASE ProcessTakes /\ receiveBuffer # <<>>
  <2>1. Head(receiveBuffer) \in S /\ Tail(receiveBuffer) \in Seq(S)
    BY <1>2, TakeHead
  <2>. QED
    BY <1>2, <2>1 DEF ProcessTakes
<1>3. CASE ProcessPushes
  <2>1. Append(processBuffer, pdata) \in Seq(S)
    BY <1>3, AppendProperties DEF ProcessPushes
  <2>. QED
    BY <1>3, <2>1 DEF ProcessPushes, Notified
<1>. QED
  BY <1>1, <1>2, <1>3 DEF ProcessStep

LEMMA SendCarries ==
  ASSUME NEW S, CarriedIn(S), SendStep \/ SendWrites
  PROVE  CarriedIn(S)'
<1>. USE DEF CarriedIn, OnlySend
<1>1. CASE \/ SendLoops \/ SendWaits \/ SendLeaves \/ SendWrites
           \/ SendTakes /\ processBuffer = <<>>
           \/ SendPicks /\ sendBuffer = <<>>
  BY <1>1 DEF SendLoops, SendWaits, SendLeaves, SendWrites, SendTakes, SendPicks
<1>2. CASE SendTakes /\ processBuffer # <<>>
  <2>1. Head(processBuffer) \in S /\ Tail(processBuffer) \in Seq(S)
    BY <1>2, TakeHead
  <2>. QED
    BY <1>2, <2>1 DEF SendTakes
<1>3. CASE SendPushes
  <2>1. Append(sendBuffer, sdata) \in Seq(S)
    BY <1>3, AppendProperties DEF SendPushes
  <2>. QED
    BY <1>3, <2>1 DEF SendPushes
<1>4. CASE SendPicks /\ sendBuffer # <<>>
  <2>1. Head(sendBuffer) \in S /\ Tail(sendBuffer) \in Seq(S)
    BY <1>4, TakeHead
  <2>. QED
    BY <1>4, <2>1 DEF SendPicks
<1>. QED
  BY <1>1, <1>2, <1>3, <1>4 DEF SendStep

LEMMA CarriedStep ==
  IInv /\ CarriedInv /\ [Next]_vars => CarriedInv'
<1>. SUFFICES ASSUME IInv, CarriedInv, [Next]_vars
              PROVE  CarriedInv'
  OBVIOUS
<1>. USE DEF CarriedInv
(* The queues stay as they are, and a client may have been added.           *)
<1>q. ASSUME UNCHANGED pipeVars, clientSockets \subseteq clientSockets'
      PROVE  CarriedInv'
  <2>1. CarriedIn(clientSockets')
    BY <1>q, CarriedGrows
  <2>. QED
    BY <1>q, <2>1 DEF CarriedIn, pipeVars
<1>1. CASE AcceptPosts \/ AcceptReturns
  BY <1>1, <1>q DEF AcceptPosts, AcceptReturns, OnlyAccepter
<1>2. ASSUME NEW r \in Receivers, ReceiverRuns(r) \/ ReceiverReturns(r)
      PROVE  CarriedInv'
  BY <1>2, <1>q DEF ReceiverRuns, ReceiverReturns, OnlyReceiver
<1>3. CASE PipelineStep
  <2>1. UNCHANGED clientSockets /\ (ProcessStep \/ SendStep)
    BY <1>3 DEF PipelineStep, ProcessThread, SendThread, handlerVars
  <2>2. CarriedIn(clientSockets)'
    BY <2>1, ProcessCarries, SendCarries DEF CarriedIn
  <2>. QED
    BY <2>2
<1>4. CASE SendsToAll
  <2>1. UNCHANGED clientSockets /\ SendWrites
    BY <1>4 DEF SendsToAll
  <2>2. CarriedIn(clientSockets)'
    BY <2>1, SendCarries DEF CarriedIn
  <2>. QED
    BY <2>2
<1>5. ASSUME NEW r \in Runners, HandlerStep(r)
      PROVE  CarriedInv'
  <2>1. ASSUME NEW c \in Clients, ReadHandled(r, c)
        PROVE  CarriedInv'
    <3>1. Read(c) \in pending
      BY <2>1 DEF ReadHandled, Handle, CanHandle
    <3>2. c \in clientSockets
      BY <3>1 DEF IInv, ServerInv, KnownInv
    <3>3. Append(receiveBuffer, c) \in Seq(clientSockets)
      BY <3>2, AppendProperties DEF CarriedIn
    <3>. QED
      BY <2>1, <3>3 DEF ReadHandled, Receive, Notified, CarriedIn
  <2>2. CASE AcceptFails(r)
    BY <1>q, <2>2 DEF AcceptFails, handlerVars
  <2>3. ASSUME NEW c \in Clients,
               \/ AcceptHandled(r, c) \/ HandshakeHandled(r, c) \/ HandshakePushes(r, c)
               \/ HandshakeReturns(r, c) \/ ReadFails(r, c)
        PROVE  CarriedInv'
    BY <1>q, <2>3
    DEF AcceptHandled, HandshakeHandled, HandshakePushes, HandshakeReturns, ReadFails,
        handlerVars
  <2>. QED
    BY <1>5, <2>1, <2>2, <2>3 DEF HandlerStep
<1>6. ASSUME NEW c \in Clients, Secure(c)
      PROVE  CarriedInv'
  BY <1>6, <1>q DEF Secure, serverVars, handlerVars
<1>7. CASE UNCHANGED serverVars
  BY <1>7, <1>q DEF serverVars, handlerVars
<1>. QED
  BY <1>1, <1>2, <1>3, <1>4, <1>5, <1>6, <1>7 DEF Next, ServerStep, vars

(* What is written goes to the one client whose chunk it is.                 *)
WritesOnlyBack == [][written' # written => clientSockets = {sdata}]_vars

(* SendData writes a chunk to everybody in clientSockets: that is always    *)
(* the client it came from, and nobody else.                                *)
THEOREM BackToSender == Spec => WritesOnlyBack
<1>1. Init => CarriedInv
  <2>1. <<>> \in Seq({})
    BY EmptySeq
  <2>. QED
    BY <2>1 DEF Init, ServerInit, PipeInit, CarriedInv, CarriedIn
<1>2. Spec => []CarriedInv
  BY <1>1, CarriedStep, Inductive, PTL DEF Spec
<1>3. ASSUME IInv, CarriedInv, Next, written' # written
      PROVE  clientSockets = {sdata}
  <2>1. SendsToAll
    BY <1>3 DEF Next, ServerStep, HandlerStep, AcceptPosts, AcceptReturns, OnlyAccepter,
       PipelineStep, ProcessThread, SendThread, ReceiverRuns, ReceiverReturns, OnlyReceiver,
       AcceptHandled, AcceptFails,
       HandshakeHandled, HandshakePushes, HandshakeReturns, ReadHandled, ReadFails, Secure,
       handlerVars, serverVars
  <2>2. sdata \in clientSockets
    BY <1>3, <2>1 DEF SendsToAll, SendWrites, CarriedInv, CarriedIn
  <2>3. \A c, d \in clientSockets : c = d
    BY <1>3 DEF IInv, ServerInv, KnownInv, Known, TypeOK
  <2>. QED
    BY <2>2, <2>3
<1>4. IInv /\ CarriedInv /\ [Next]_vars
        => [written' # written => clientSockets = {sdata}]_vars
  BY <1>3
<1>. QED
  BY <1>2, <1>4, Inductive, PTL DEF Spec, WritesOnlyBack

(* A step of a service whose context has stopped accepts, greets and reads   *)
(* nobody.                                                                   *)
StoppedServesNobody ==
  [][stopped =>
       /\ stopped' /\ UNCHANGED <<keys, clientSockets>>
       /\ \A c \in Clients : /\ link'[c] = "accepted" => link[c] = "accepted"
                             /\ input'[c] >= input[c]]_vars

(* Once its context has stopped, which takes one failed accept, the service *)
(* is dead although its threads run: it accepts nobody, agrees on keys with *)
(* nobody, and reads nothing of what it is sent.                            *)
THEOREM DeadOnceStopped == Spec => StoppedServesNobody
<1>. DEFINE Dead == /\ stopped' /\ UNCHANGED <<keys, clientSockets>>
                   /\ \A c \in Clients : /\ link'[c] = "accepted" => link[c] = "accepted"
                                         /\ input'[c] >= input[c]
<1>1. ASSUME IInv, Next, stopped
      PROVE  Dead
  <2>. USE ServerTypes, OpsDiffer
  <2>0. TypeOK /\ \A r \in Runners : handling[r] = Idle
    BY <1>1 DEF IInv, ServerInv, HolderInv
  <2>i. \A c \in Clients : input[c] \in Nat
    BY <2>0, ClientsAssumption DEF TypeOK
  <2>u. ASSUME stopped', UNCHANGED <<wire, clientSockets>>
        PROVE  Dead
    BY <1>1, <2>i, <2>u DEF wire
  <2>1. CASE AcceptPosts \/ AcceptReturns
    <3>1. stopped' /\ UNCHANGED <<wire, clientSockets>>
      BY <1>1, <2>1 DEF AcceptPosts, AcceptReturns, PostAndRun, LeaveRun, OnlyAccepter
    <3>. QED
      BY <2>u, <3>1
  <2>2. ASSUME NEW r \in Receivers, ReceiverRuns(r) \/ ReceiverReturns(r)
        PROVE  Dead
    <3>1. stopped' /\ UNCHANGED <<wire, clientSockets>>
      BY <1>1, <2>2 DEF ReceiverRuns, ReceiverReturns, PostAndRun, LeaveRun, OnlyReceiver
    <3>. QED
      BY <2>u, <3>1
  <2>3. CASE PipelineStep \/ SendsToAll
    BY <1>1, <2>3, <2>u
    DEF PipelineStep, ProcessThread, SendThread, SendsToAll, Post, ioVars, handlerVars
  <2>4. ASSUME NEW r \in Runners
        PROVE  ~HandlerStep(r)
    BY <1>1, <2>0
    DEF HandlerStep, AcceptHandled, AcceptFails, HandshakeHandled, HandshakePushes,
        HandshakeReturns, ReadHandled, ReadFails, BeginHandler, Handle, CanHandle
  <2>5. ASSUME NEW c \in Clients
        PROVE  ~Secure(c)
    BY <1>1 DEF Secure, CanHandle
  <2>6. CASE Game!GameStep /\ UNCHANGED serverVars
    <3>1. UNCHANGED <<stopped, clientSockets, keys, input>>
      BY <2>6, GameKeepsWire DEF serverVars, ioVars, handlerVars
    <3>a. \A x, v : v # "accepted" /\ link' = [link EXCEPT ![x] = v] =>
            \A c \in Clients : link'[c] = "accepted" => link[c] = "accepted"
      BY <2>0 DEF TypeOK
    <3>2. ASSUME Game!Connects \/ Game!MainJoins
          PROVE  \A c \in Clients : link'[c] = "accepted" => link[c] = "accepted"
      BY <3>a, <3>2 DEF Game!Connects, Game!MainJoins, TypeOK
    <3>3. ASSUME ~(Game!Connects \/ Game!MainJoins)
          PROVE  \A c \in Clients : link'[c] = "accepted" => link[c] = "accepted"
      <4>1. UNCHANGED link
        BY <2>6, <3>3
        DEF Game!GameStep, Game!StartThrows, Game!StartConnects, Game!ConnectHandled,
            Game!ConnectFails, Game!GreetingHandled, Game!ConnectReturns,
            Game!StartThreads, Game!ReceiveSpins, Game!MainSends, Game!MainStops,
            Game!SecondRound, Game!ThreadStep, Game!ThreadWakes, Game!SendsToServer
      <4>. QED
        BY <4>1
    <3>4. \A c \in Clients : link'[c] = "accepted" => link[c] = "accepted"
      BY <2>0, <3>2, <3>3 DEF TypeOK
    <3>. QED
      BY <1>1, <2>i, <3>1, <3>4
  <2>7. ASSUME NEW c \in Others, OtherStep(c), UNCHANGED serverVars
        PROVE  Dead
    <3>1. UNCHANGED <<stopped, clientSockets, keys>>
      BY <2>7 DEF OtherStep, OtherConnects, OtherSends, OtherCloses, serverVars,
                  ioVars, handlerVars
    <3>2. \A d \in Clients : link'[d] = "accepted" => link[d] = "accepted"
      BY <2>0, <2>7
      DEF OtherStep, OtherConnects, OtherSends, OtherCloses, TypeOK
    <3>3. \A d \in Clients : input'[d] \in {input[d], input[d] + 1}
      BY <2>0, <2>7
      DEF OtherStep, OtherConnects, OtherSends, OtherCloses, TypeOK
    <3>. QED
      BY <1>1, <2>i, <3>1, <3>2, <3>3
  <2>. QED
    BY <1>1, <2>1, <2>2, <2>3, <2>4, <2>5, <2>6, <2>7 DEF Next, ServerStep
<1>2. IInv /\ [Next]_vars => [stopped => Dead]_vars
  BY <1>1
<1>. QED
  BY <1>2, Inductive, PTL DEF Spec, StoppedServesNobody

(* A thread that sleeps on an empty queue's condition has an empty queue.    *)
NoLostWakeup ==
  /\ ppc = "asleep" => receiveBuffer = <<>>
  /\ spc = "asleep" => processBuffer = <<>>

(* No thread of the service's pipeline waits on its condition variable      *)
(* while there is something in its queue, although each chunk is announced  *)
(* once and the locks are taken and released between the tests.             *)
THEOREM NobodySleepsOnWork == Spec => []NoLostWakeup
<1>1. Init => NoLostWakeup
  BY DEF Init, ServerInit, PipeInit, NoLostWakeup
<1>2. NoLostWakeup /\ [Next]_vars => NoLostWakeup'
  <2>. SUFFICES ASSUME NoLostWakeup, [Next]_vars
                PROVE  NoLostWakeup'
    OBVIOUS
  <2>q. ASSUME UNCHANGED pipeVars
        PROVE  NoLostWakeup'
    BY <2>q DEF NoLostWakeup, pipeVars
  <2>1. CASE PipelineStep
    <3>1. CASE ProcessStep
      BY <3>1
      DEF ProcessStep, ProcessLoops, ProcessTakes, ProcessPushes, ProcessLeaves,
          OnlyProcess, Notified, NoLostWakeup
    <3>2. CASE SendStep
      BY <3>2
      DEF SendStep, SendLoops, SendTakes, SendPushes, SendWaits, SendPicks,
          SendLeaves, OnlySend, NoLostWakeup
    <3>. QED
      BY <2>1, <3>1, <3>2 DEF PipelineStep, ProcessThread, SendThread
  <2>2. CASE SendsToAll
    BY <2>2 DEF SendsToAll, SendWrites, OnlySend, NoLostWakeup
  <2>3. ASSUME NEW r \in Runners, NEW c \in Clients, ReadHandled(r, c)
        PROVE  NoLostWakeup'
    BY <2>3 DEF ReadHandled, Receive, Notified, NoLostWakeup
  <2>4. CASE AcceptPosts \/ AcceptReturns
    BY <2>4, <2>q DEF AcceptPosts, AcceptReturns, OnlyAccepter
  <2>5. ASSUME NEW r \in Receivers, ReceiverRuns(r) \/ ReceiverReturns(r)
        PROVE  NoLostWakeup'
    BY <2>5, <2>q DEF ReceiverRuns, ReceiverReturns, OnlyReceiver
  <2>6. ASSUME NEW r \in Runners, HandlerStep(r)
        PROVE  NoLostWakeup'
    BY <2>3, <2>6, <2>q
    DEF HandlerStep, AcceptHandled, AcceptFails, HandshakeHandled, HandshakePushes,
        HandshakeReturns, ReadFails
  <2>7. CASE UNCHANGED serverVars \/ \E c \in Clients : Secure(c)
    BY <2>7, <2>q DEF Secure, serverVars
  <2>. QED
    BY <2>1, <2>2, <2>4, <2>5, <2>6, <2>7 DEF Next, ServerStep, vars
<1>. QED
  BY <1>1, <1>2, PTL DEF Spec
==============================================================================
