----------------------------- MODULE ServiceLink -----------------------------
(***************************************************************************)
(* The control process's side of the link to the services                  *)
(* (src/server/control/ServiceLink.cpp): the acceptor thread with its      *)
(* connection limit, one detached handler thread per accepted connection,  *)
(* the thread that processes received messages, the thread that sends, and *)
(* the admin command that stops them (AdminConsole::Stop, main.cpp).       *)
(*                                                                         *)
(* A step is what one thread does from one access to shared state to the   *)
(* next: a mutex taken and released around one access is a step guarded by *)
(* the mutex being free; one held across several steps is a variable, TRUE *)
(* while its only long-term holder has it.  A local step (a recv, a test   *)
(* of a flag that is only ever set once) is joined to the access after it. *)
(* The peers (voice, chat, world, auth) are the environment; a connection  *)
(* waiting in the listen backlog is not told from one not yet opened.      *)
(***************************************************************************)
EXTENDS Integers, Sequences, FiniteSets

CONSTANTS
  MAX_CONNECTIONS, (* ServiceLink.hpp:24, array size and connection limit  *)
  Conns,           (* every TCP connection a peer may ever open            *)
  Svc,             (* Svc[c]: id of the service whose process opens c      *)
  Traffic,         (* bound: what the successive recv()s on c may return   *)
  StopGiven        (* bound: whether the administrator ever gives "stop"   *)

Services == 0 .. MAX_CONNECTIONS - 1

AuthId == MAX_CONNECTIONS - 1 (* 3 with 4 slots: the last index, notes.md:7 *)

None == "none"

(* One recv() result: exactly one CONNECT message, or anything else the     *)
(* service writes (a log line, two messages that TCP merged into one read). *)
Received == {"CONNECT", "OTHER"}

ASSUME ConstantsAssumption ==
  /\ MAX_CONNECTIONS \in Nat \ {0}
  /\ IsFiniteSet(Conns) /\ None \notin Conns
  /\ Svc \in [Conns -> Services]
  /\ Traffic \in [Conns -> Seq(SUBSET Received)]
  /\ StopGiven \in BOOLEAN

Fds == 1 .. Cardinality(Conns) (* descriptor numbers, reused once closed *)

Kinds == Received \cup {"DISCONNECT"}

Settings == {"dbConnString", "port"}

HandlerPcs == {"none", "start", "recv", "push", "dec", "close", "done"}

VARIABLES
  running,       (* AdminConsole::isRunning                                *)
  shuttingDown,  (* AdminConsole::isShuttingDown                           *)
  admin,         (* where AdminConsole::Stop is                            *)
  fate,          (* "up", or how the process ended                         *)
  peer,          (* peer[c]: the remote end, "none", "open" or "closed"    *)
  apc,           (* the acceptor thread (StartTcpServer)                   *)
  connLock,      (* connectionMutex: TRUE while the acceptor holds it      *)
  active,        (* activeConnections                                      *)
  hpc,           (* hpc[c]: the handler thread of c (HandleConnection)     *)
  fd,            (* fd[c]: its socket's descriptor, 0 before accept        *)
  chunk,         (* chunk[c]: what it received and has not passed on       *)
  valid,         (* valid[c]: validConnection                              *)
  nchunks,       (* nchunks[c]: non-empty results of recv() so far         *)
  messageBuffer, (* received messages, with the connection they came from  *)
  mpc,           (* the message thread (ProcessMessages)                   *)
  msg,           (* the message it is handling, else NoMessage             *)
  mempty,        (* messageBufferEmpty                                     *)
  serviceSockets,(* descriptor registered per service; 0 at start, -1 freed *)
  owner,         (* history: the connection that registered it, or None    *)
  rivals,        (* history: the service's connections let in until then   *)
  socketLock,    (* socketMutex: TRUE while the message thread holds it    *)
  sendBuffer,    (* sendBuffer[i]: messages to send to service i           *)
  sendBufLock,   (* sendBufferMutex: TRUE while the sender holds it        *)
  spc,           (* the sender thread (ProcessSendBuffer)                  *)
  idx,           (* its loop index i                                       *)
  smsg,          (* its copy of the message                                *)
  ssock,         (* its copy of the socket                                 *)
  delivered      (* history: delivered[c], what c's peer was sent          *)

envVars     == <<running, shuttingDown, admin, fate, peer>>
acceptVars  == <<apc, connLock, active>>
handlerVars == <<hpc, fd, chunk, valid, nchunks>>
inVars      == <<messageBuffer, mpc, msg, mempty,
                 serviceSockets, owner, rivals, socketLock>>
outVars     == <<sendBuffer, sendBufLock, spc, idx, smsg, ssock, delivered>>
vars == <<envVars, acceptVars, handlerVars, inVars, outVars>>

NoMessage == [kind |-> None, conn |-> None]

Init ==
  /\ running = TRUE /\ shuttingDown = FALSE /\ admin = "idle" /\ fate = "up"
  /\ peer = [c \in Conns |-> "none"]
  /\ apc = "lock" /\ connLock = FALSE /\ active = 0
  /\ hpc = [c \in Conns |-> "none"]
  /\ fd = [c \in Conns |-> 0]
  /\ chunk = [c \in Conns |-> None]
  /\ valid = [c \in Conns |-> TRUE]
  /\ nchunks = [c \in Conns |-> 0]
  /\ messageBuffer = <<>>
  /\ mpc = "loop" /\ msg = NoMessage /\ mempty = FALSE
  /\ serviceSockets = [i \in Services |-> 0]
  /\ owner = [i \in Services |-> None]
  /\ rivals = [i \in Services |-> {}]
  /\ socketLock = FALSE
  /\ sendBuffer = [i \in Services |-> <<>>]
  /\ sendBufLock = FALSE
  /\ spc = "loop" /\ idx = 0 /\ smsg = None /\ ssock = 0
  /\ delivered = [c \in Conns |-> <<>>]

SocketOpen(c) == hpc[c] \notin {"none", "done"}

GoHandler(c, from, to) ==
  /\ fate = "up"
  /\ hpc[c] = from
  /\ hpc' = [hpc EXCEPT ![c] = to]
------------------------------------------------------------------------------
(***************************************************************************)
(* The peers.                                                              *)
(***************************************************************************)

\* The peer stops, or its HandleConnection ends because we closed the socket.
PeerClose(c) ==
  /\ fate = "up"
  /\ peer[c] = "open"
  /\ peer' = [peer EXCEPT ![c] = "closed"]
  /\ UNCHANGED <<running, shuttingDown, admin, fate, acceptVars, handlerVars,
                 inVars, outVars>>
------------------------------------------------------------------------------
(***************************************************************************)
(* AdminConsole::Stop, and the end of main.                                *)
(***************************************************************************)
OnlyAdmin == UNCHANGED <<peer, connLock, active, handlerVars, inVars, outVars>>

AdminStop ==
  /\ fate = "up" /\ admin = "idle" /\ StopGiven
  /\ shuttingDown' = TRUE
  /\ admin' = "notify"
  /\ OnlyAdmin /\ UNCHANGED <<running, fate, apc>>

WakeAcceptor == apc' = IF apc = "asleep" THEN "lock" ELSE apc

\* Mutant: notify_all without locking connectionMutex.
NotifyAtOnce == TRUE

NotifyLocks == ~connLock

NotifyConnection ==
  /\ fate = "up" /\ admin = "notify"
  /\ NotifyLocks
  /\ WakeAcceptor
  /\ admin' = "timer"
  /\ OnlyAdmin /\ UNCHANGED <<running, shuttingDown, fate>>

StopTimer ==
  /\ fate = "up" /\ admin = "timer"
  /\ running' = FALSE
  /\ admin' = "stopped"
  /\ OnlyAdmin /\ UNCHANGED <<shuttingDown, fate, apc>>

ThreadsDone == spc = "done" /\ apc = "done" /\ mpc = "done"

\* main joins the three threads and the console's, which waits for ENTER.
MainReturns ==
  /\ fate = "up" /\ ThreadsDone
  /\ fate' = "exited"
  /\ OnlyAdmin /\ UNCHANGED <<running, shuttingDown, admin, apc>>
------------------------------------------------------------------------------
(***************************************************************************)
(* The acceptor: StartTcpServer's loop.                                    *)
(***************************************************************************)
\* Mutant: the wait predicate looks at the limit only.
RoomOnly == active < MAX_CONNECTIONS

HasRoom == shuttingDown \/ active < MAX_CONNECTIONS

Accepting(from) == fate = "up" /\ apc = from

\* connectionCond.wait evaluates its predicate with connectionMutex locked.
\* True: unlocked, and the loop is left at once when shutting down.
AcceptorLock ==
  /\ Accepting("lock")
  /\ ~connLock
  /\ connLock' = ~HasRoom
  /\ \/ ~HasRoom /\ apc' = "sleep"
     \/ HasRoom /\ shuttingDown /\ apc' = "done"
     \/ HasRoom /\ ~shuttingDown /\ apc' = "select"
  /\ UNCHANGED <<envVars, active, handlerVars, inVars, outVars>>

\* False: blocking, which unlocks, is a step of its own after the test.
AcceptorSleep ==
  /\ Accepting("sleep")
  /\ connLock' = FALSE
  /\ apc' = "asleep"
  /\ UNCHANGED <<envVars, active, handlerVars, inVars, outVars>>

SpuriousWakeup ==
  /\ Accepting("asleep")
  /\ apc' = "lock"
  /\ UNCHANGED <<envVars, connLock, active, handlerVars, inVars, outVars>>

SelectReturns == apc' = IF shuttingDown THEN "done" ELSE "lock"

SelectTimeout ==
  /\ Accepting("select")
  /\ SelectReturns
  /\ UNCHANGED <<envVars, connLock, active, handlerVars, inVars, outVars>>

LowestFree(f) ==
  /\ \A c \in Conns : SocketOpen(c) => fd[c] # f
  /\ \A g \in 1 .. f - 1 : \E c \in Conns : SocketOpen(c) /\ fd[c] = g

\* Whoever connects: a service started twice has two connections open.
Accept(c) ==
  /\ Accepting("select")
  /\ peer[c] = "none"
  /\ peer' = [peer EXCEPT ![c] = "open"]
  /\ \E f \in Fds : LowestFree(f) /\ fd' = [fd EXCEPT ![c] = f]
  /\ hpc' = [hpc EXCEPT ![c] = "start"]
  /\ SelectReturns
  /\ UNCHANGED <<running, shuttingDown, admin, fate, connLock, active, chunk,
                 valid, nchunks, inVars, outVars>>

AcceptorStep == AcceptorLock \/ AcceptorSleep \/ SelectTimeout
------------------------------------------------------------------------------
(***************************************************************************)
(* HandleConnection(socket), one detached thread per connection.  serviceId *)
(* is -1 until the first message, then the sender's id.                    *)
(***************************************************************************)
OnlyHandler == UNCHANGED <<envVars, apc, connLock, fd, outVars>>

\* Mutant: the handler does not count itself.
Uncounted == active' = active

Count == active' = active + 1

HandlerStart(c) ==
  /\ GoHandler(c, "start", "recv")
  /\ ~connLock
  /\ Count
  /\ OnlyHandler /\ UNCHANGED <<chunk, valid, nchunks, inVars>>

PushMessage(c, k) ==
  /\ messageBuffer' = Append(messageBuffer, [kind |-> k, conn |-> c])
  /\ UNCHANGED <<mpc, msg, mempty, serviceSockets, owner, rivals, socketLock>>

\* Mutant: an admitted connection leaves without a word.
NeverSaysDisconnect(known, validConnection) == FALSE

SaysDisconnect(known, validConnection) == known = validConnection

\* After the loop: DISCONNECT, or not, and on to "activeConnections--".
Leave(c, known, validConnection) ==
  /\ GoHandler(c, "recv", "dec")
  /\ \/ SaysDisconnect(known, validConnection) /\ PushMessage(c, "DISCONNECT")
     \/ ~SaysDisconnect(known, validConnection) /\ UNCHANGED inVars

Taken(i) == serviceSockets[i] > 0

\* Mutant: the slot is not looked at before the message is passed on.
AnySlot(c) == TRUE

SlotFree(c) == ~Taken(Svc[c])

Receive(c) ==
  /\ nchunks[c] < Len(Traffic[c])
  /\ nchunks' = [nchunks EXCEPT ![c] = @ + 1]
  /\ ~socketLock

HandlerAdmits(c) ==
  /\ GoHandler(c, "recv", "push")
  /\ Receive(c) /\ SlotFree(c)
  /\ \E k \in Traffic[c][nchunks[c] + 1] : chunk' = [chunk EXCEPT ![c] = k]
  /\ OnlyHandler /\ UNCHANGED <<active, valid, inVars>>

\* Refused when the service's slot is taken, by whichever connection.
HandlerRefuses(c) ==
  /\ Receive(c) /\ ~SlotFree(c)
  /\ valid' = [valid EXCEPT ![c] = FALSE]
  /\ Leave(c, TRUE, FALSE)
  /\ OnlyHandler /\ UNCHANGED <<active, chunk>>

EndOfStream(c) == peer[c] = "closed"

HandlerEof(c) ==
  /\ EndOfStream(c)
  /\ Leave(c, nchunks[c] > 0, valid[c])
  /\ OnlyHandler /\ UNCHANGED <<active, chunk, valid, nchunks>>

HandlerPush(c) ==
  /\ GoHandler(c, "push", "recv")
  /\ PushMessage(c, chunk[c])
  /\ chunk' = [chunk EXCEPT ![c] = None]
  /\ OnlyHandler /\ UNCHANGED <<active, valid, nchunks>>

\* The notification follows the unlock; no step of another thread between the
\* two could tell.
HandlerDec(c) ==
  /\ GoHandler(c, "dec", "close")
  /\ ~connLock
  /\ active' = active - 1
  /\ WakeAcceptor
  /\ UNCHANGED <<envVars, connLock, fd, chunk, valid, nchunks, inVars,
                 outVars>>

HandlerClose(c) ==
  /\ GoHandler(c, "close", "done")
  /\ OnlyHandler /\ UNCHANGED <<active, chunk, valid, nchunks, inVars>>

\* Everything a handler does by itself; what it reads is the peer's doing.
HandlerStep(c) ==
  \/ HandlerStart(c) \/ HandlerEof(c) \/ HandlerPush(c)
  \/ HandlerDec(c) \/ HandlerClose(c)
------------------------------------------------------------------------------
(***************************************************************************)
(* ProcessMessages and HandleMessageContent.                               *)
(***************************************************************************)
Processing(from) == fate = "up" /\ mpc = from

OnlyMessages == UNCHANGED <<envVars, acceptVars, handlerVars, sendBufLock,
                            spc, idx, smsg, ssock, delivered>>

\* Mutant: the flag is read the wrong way round.
KeepsGoingWhenEmpty == running \/ mempty

KeepsGoing == running \/ ~mempty

MessagesLoop ==
  /\ Processing("loop")
  /\ mpc' = IF KeepsGoing THEN "pop" ELSE "done"
  /\ OnlyMessages
  /\ UNCHANGED <<messageBuffer, msg, mempty, serviceSockets, owner, rivals,
                 socketLock, sendBuffer>>

MessagesPop ==
  /\ Processing("pop")
  /\ mempty' = (messageBuffer = <<>>)
  /\ \/ /\ messageBuffer # <<>>
        /\ msg' = Head(messageBuffer)
        /\ messageBuffer' = Tail(messageBuffer)
        /\ mpc' = "handle"
     \/ /\ messageBuffer = <<>>
        /\ mpc' = "loop"
        /\ UNCHANGED <<msg, messageBuffer>>
  /\ OnlyMessages
  /\ UNCHANGED <<serviceSockets, owner, rivals, socketLock, sendBuffer>>

Handled == mpc' = "loop" /\ msg' = NoMessage

\* c has had a message passed on: only the last one may have been refused.
LetIn(c) == nchunks[c] > (IF valid[c] THEN 0 ELSE 1)

Register(i, f, o) ==
  /\ serviceSockets' = [serviceSockets EXCEPT ![i] = f]
  /\ owner' = [owner EXCEPT ![i] = o]
  /\ rivals' = [rivals EXCEPT ![i] = {c \in Conns : Svc[c] = i /\ LetIn(c)}]

\* Mutant: every service is sent settings.
EveryService(i) == TRUE

GetsSettings(i) == i = AuthId

\* For the auth service socketMutex stays locked over both calls of SendData.
HandleConnect ==
  /\ Processing("handle") /\ msg.kind = "CONNECT"
  /\ ~socketLock
  /\ Register(Svc[msg.conn], fd[msg.conn], msg.conn)
  /\ \/ /\ GetsSettings(Svc[msg.conn])
        /\ socketLock' = TRUE /\ mpc' = "sendDb" /\ UNCHANGED msg
     \/ /\ ~GetsSettings(Svc[msg.conn])
        /\ Handled /\ UNCHANGED socketLock
  /\ OnlyMessages /\ UNCHANGED <<messageBuffer, mempty, sendBuffer>>

\* Mutant: urgent messages go to the front.
SendDataFirst(i, m) ==
  /\ ~sendBufLock
  /\ sendBuffer' = [sendBuffer EXCEPT ![i] = <<m>> \o @]

SendData(i, m) ==
  /\ ~sendBufLock
  /\ sendBuffer' = [sendBuffer EXCEPT ![i] = Append(@, m)]

SendDbConnString ==
  /\ Processing("sendDb")
  /\ SendData(Svc[msg.conn], "dbConnString")
  /\ mpc' = "sendPort"
  /\ OnlyMessages
  /\ UNCHANGED <<messageBuffer, msg, mempty, serviceSockets, owner, rivals,
                 socketLock>>

SendPort ==
  /\ Processing("sendPort")
  /\ SendData(Svc[msg.conn], "port")
  /\ socketLock' = FALSE
  /\ Handled
  /\ OnlyMessages
  /\ UNCHANGED <<messageBuffer, mempty, serviceSockets, owner, rivals>>

HandleDisconnect ==
  /\ Processing("handle") /\ msg.kind = "DISCONNECT"
  /\ ~socketLock
  /\ Register(Svc[msg.conn], -1, None)
  /\ Handled
  /\ OnlyMessages
  /\ UNCHANGED <<messageBuffer, mempty, socketLock, sendBuffer>>

HandleUnknown ==
  /\ Processing("handle") /\ msg.kind = "OTHER"
  /\ Handled
  /\ OnlyMessages
  /\ UNCHANGED <<messageBuffer, mempty, serviceSockets, owner, rivals,
                 socketLock, sendBuffer>>

MessagesStep ==
  \/ MessagesLoop \/ MessagesPop
  \/ HandleConnect \/ SendDbConnString \/ SendPort
  \/ HandleDisconnect \/ HandleUnknown
------------------------------------------------------------------------------
(***************************************************************************)
(* ProcessSendBuffer and SendDataFromBuffer.                               *)
(***************************************************************************)
Sending(from) == fate = "up" /\ spc = from

OnlySender == UNCHANGED <<running, shuttingDown, admin, peer, acceptVars,
                          handlerVars, inVars>>

SenderLoop ==
  /\ Sending("loop")
  /\ \/ running /\ ~sendBufLock /\ sendBufLock' = TRUE /\ spc' = "scan"
     \/ ~running /\ UNCHANGED sendBufLock /\ spc' = "done"
  /\ OnlySender /\ UNCHANGED <<fate, sendBuffer, idx, smsg, ssock, delivered>>

\* Each index is looked at under socketMutex, taken while sendBufferMutex is
\* held (until a message is picked): the order opposite to HandleConnect's.
Looking == Sending("scan") /\ idx < MAX_CONNECTIONS /\ ~socketLock

\* Mutant: a queue of one message counts as empty.
HasMoreWork == Len(sendBuffer[idx]) > 1 /\ Taken(idx)

HasWork == sendBuffer[idx] # <<>> /\ Taken(idx)

\* On to the next index, the copies of message and socket out of scope.
NextIndex ==
  /\ idx' = idx + 1 /\ spc' = "scan"
  /\ smsg' = None /\ ssock' = 0

SenderSkip ==
  /\ Looking /\ ~HasWork
  /\ NextIndex
  /\ OnlySender /\ UNCHANGED <<fate, sendBuffer, sendBufLock, delivered>>

\* bufferLock.unlock() on a lock given up earlier in the same pass throws
\* std::system_error, which nothing catches.
SenderPick ==
  /\ Looking /\ HasWork
  /\ \/ /\ sendBufLock
        /\ smsg' = Head(sendBuffer[idx])
        /\ sendBufLock' = FALSE
        /\ spc' = "sock" /\ UNCHANGED fate
     \/ /\ ~sendBufLock
        /\ fate' = "system_error" /\ UNCHANGED <<smsg, sendBufLock, spc>>
  /\ OnlySender /\ UNCHANGED <<sendBuffer, idx, ssock, delivered>>

\* Unlocked explicitly after a pass without work, and by unlock() otherwise.
SenderPassEnds ==
  /\ Sending("scan") /\ idx = MAX_CONNECTIONS
  /\ sendBufLock' = FALSE
  /\ idx' = 0
  /\ spc' = "loop"
  /\ OnlySender /\ UNCHANGED <<fate, sendBuffer, smsg, ssock, delivered>>

\* Mutant: SendDataFromBuffer looks at the first slot, not its service's.
FirstSlot(i) == serviceSockets[0]

SlotOf(i) == serviceSockets[i]

SenderSocket ==
  /\ Sending("sock")
  /\ ~socketLock
  /\ \/ /\ SlotOf(idx) > 0
        /\ ssock' = SlotOf(idx)
        /\ spc' = "send" /\ UNCHANGED <<idx, smsg>>
     \/ SlotOf(idx) <= 0 /\ NextIndex
  /\ OnlySender /\ UNCHANGED <<fate, sendBuffer, sendBufLock, delivered>>

Behind(c) == SocketOpen(c) /\ fd[c] = ssock

SendReaches(c) ==
  /\ Sending("send")
  /\ Behind(c) /\ peer[c] = "open"
  /\ delivered' = [delivered EXCEPT ![c] = Append(@, smsg)]
  /\ spc' = "erase"
  /\ OnlySender
  /\ UNCHANGED <<fate, sendBuffer, sendBufLock, idx, smsg, ssock>>

\* The peer has closed: the kernel may still take the bytes, or answer
\* ECONNRESET, or (no MSG_NOSIGNAL, no handler) raise SIGPIPE.
SendToClosedPeer(c) ==
  /\ Sending("send")
  /\ Behind(c) /\ peer[c] = "closed"
  /\ \/ spc' = "erase" /\ UNCHANGED <<fate, idx, smsg, ssock>>
     \/ NextIndex /\ UNCHANGED fate
     \/ fate' = "sigpipe" /\ UNCHANGED <<spc, idx, smsg, ssock>>
  /\ OnlySender /\ UNCHANGED <<sendBuffer, sendBufLock, delivered>>

\* The descriptor is not open any more: EBADF.
SendFails ==
  /\ Sending("send")
  /\ \A c \in Conns : ~Behind(c)
  /\ NextIndex
  /\ OnlySender /\ UNCHANGED <<fate, sendBuffer, sendBufLock, delivered>>

\* Mutant: pop_back where the front was sent.
EraseLast(i) ==
  sendBuffer' = [sendBuffer EXCEPT ![i] = SubSeq(@, 1, Len(@) - 1)]

EraseFront(i) == sendBuffer' = [sendBuffer EXCEPT ![i] = Tail(@)]

SenderErase ==
  /\ Sending("erase")
  /\ ~sendBufLock
  /\ EraseFront(idx)
  /\ NextIndex
  /\ OnlySender /\ UNCHANGED <<fate, sendBufLock, delivered>>

SenderStep ==
  \/ SenderLoop \/ SenderSkip \/ SenderPick \/ SenderPassEnds
  \/ SenderSocket
  \/ \E c \in Conns : SendReaches(c) \/ SendToClosedPeer(c)
  \/ SendFails \/ SenderErase
------------------------------------------------------------------------------
Next ==
  \/ AdminStop \/ NotifyConnection \/ StopTimer \/ MainReturns
  \/ AcceptorStep \/ SpuriousWakeup
  \/ \E c \in Conns :
       \/ PeerClose(c) \/ Accept(c)
       \/ HandlerStep(c) \/ HandlerAdmits(c) \/ HandlerRefuses(c)
  \/ MessagesStep
  \/ SenderStep

Spec == Init /\ [][Next]_vars

(***************************************************************************)
(* Every thread that can go on infinitely often goes on: the scheduler     *)
(* starves nobody, and each mutex is left for 100 ms or a 1 s select       *)
(* between two uses by the same loop.  Nothing is assumed of the peers, of *)
(* the administrator before Stop, or of spurious wakeups.                  *)
(***************************************************************************)
Fairness ==
  /\ SF_vars(NotifyConnection) /\ WF_vars(StopTimer)
  /\ SF_vars(AcceptorStep)
  /\ \A c \in Conns : SF_vars(HandlerStep(c))
  /\ SF_vars(MessagesStep)
  /\ SF_vars(SenderStep)

FairSpec == Spec /\ Fairness
------------------------------------------------------------------------------
(***************************************************************************)
(* Type invariant.                                                         *)
(***************************************************************************)
Messages == [kind : Kinds, conn : Conns]

EnvTypeOK ==
  /\ running \in BOOLEAN /\ shuttingDown \in BOOLEAN
  /\ admin \in {"idle", "notify", "timer", "stopped"}
  /\ fate \in {"up", "exited", "system_error", "sigpipe"}
  /\ peer \in [Conns -> {"none", "open", "closed"}]

AcceptTypeOK ==
  /\ apc \in {"lock", "sleep", "asleep", "select", "done"}
  /\ connLock \in BOOLEAN /\ active \in Nat

HandlerTypeOK ==
  /\ hpc \in [Conns -> HandlerPcs]
  /\ fd \in [Conns -> Fds \cup {0}]
  /\ chunk \in [Conns -> Received \cup {None}]
  /\ valid \in [Conns -> BOOLEAN]
  /\ nchunks \in [Conns -> Nat]
  /\ \A c \in Conns : hpc[c] = "push" => chunk[c] \in Received

InTypeOK ==
  /\ messageBuffer \in Seq(Messages)
  /\ mpc \in {"loop", "pop", "handle", "sendDb", "sendPort", "done"}
  /\ msg \in Messages \cup {NoMessage} /\ mempty \in BOOLEAN
  /\ mpc \in {"handle", "sendDb", "sendPort"} => msg \in Messages
  /\ serviceSockets \in [Services -> Fds \cup {0, -1}]
  /\ owner \in [Services -> Conns \cup {None}]
  /\ rivals \in [Services -> SUBSET Conns]
  /\ socketLock \in BOOLEAN

OutTypeOK ==
  /\ sendBuffer \in [Services -> Seq(Settings)] /\ sendBufLock \in BOOLEAN
  /\ spc \in {"loop", "scan", "sock", "send", "erase", "done"}
  /\ idx \in 0 .. MAX_CONNECTIONS
  /\ spc \in {"sock", "send", "erase"} => idx \in Services /\ smsg \in Settings
  /\ smsg \in Settings \cup {None} /\ ssock \in Fds \cup {0}
  /\ delivered \in [Conns -> Seq(Settings)]

TypeOK ==
  EnvTypeOK /\ AcceptTypeOK /\ HandlerTypeOK /\ InTypeOK /\ OutTypeOK
------------------------------------------------------------------------------
(***************************************************************************)
(* Safety.                                                                 *)
(***************************************************************************)

(* The sender never unlocks a sendBufferMutex it does not hold: line 42     *)
(* would throw if a second queue had work in the pass, and none has,        *)
(* because only the service at the last index is ever sent anything.        *)
NoUnlockOfUnowned == fate # "system_error"

(* The sender gives up sendBufferMutex between copying the front message    *)
(* (line 41) and erasing the front (line 46); what it erases is what it     *)
(* copied and sent, whatever was queued meanwhile.                          *)
ErasesWhatWasSent ==
  spc \in {"sock", "send", "erase"} =>
    sendBuffer[idx] # <<>> /\ Head(sendBuffer[idx]) = smsg

DisconnectPending(c) ==
  LET d == [kind |-> "DISCONNECT", conn |-> c]
  IN  \/ \E k \in 1 .. Len(messageBuffer) : messageBuffer[k] = d
      \/ mpc = "handle" /\ msg = d

Gone(c) == hpc[c] \in {"dec", "close", "done"}

(* A slot stays registered for a connection whose handler has ended only    *)
(* while its DISCONNECT is on the way, or because the handler turned its    *)
(* own connection away (lines 80-83) and so pushed none (line 97).          *)
StaleSlotOnlyAfterRefusal ==
  \A i \in Services :
    owner[i] # None /\ Gone(owner[i]) =>
      ~valid[owner[i]] \/ DisconnectPending(owner[i])

(* While the acceptor sleeps, or is about to, its predicate is false or     *)
(* someone is about to notify it: isShuttingDown is set under another mutex *)
(* than the condition's, so this rests on NotifyConnection locking it.      *)
NoLostWakeup ==
  apc \in {"sleep", "asleep"} =>
    \/ ~HasRoom
    \/ shuttingDown /\ admin = "notify"

(* Auth's settings go to another service's connection only where the        *)
(* system gave that connection the descriptor of an auth connection that    *)
(* has been closed (a slot or a copy of it outliving its socket).           *)
MisdeliveryOnlyToReusedDescriptor ==
  \A c \in Conns : delivered[c] # <<>> /\ Svc[c] # AuthId =>
    \E d \in Conns : Svc[d] = AuthId /\ hpc[d] = "done" /\ fd[d] = fd[c]

(* The slot is tested at line 80 and taken at 254, in other threads with    *)
(* any number of steps between.  What the test is worth: a registered        *)
(* connection whose peer is there loses its slot only to one that had passed *)
(* the test before it was registered; never to its own messages or to one    *)
(* that came later.                                                          *)
LiveOwnerDisplacedOnlyByRivals ==
  [][\A i \in Services :
       owner[i] # None /\ owner'[i] # owner[i] /\ peer[owner[i]] = "open" =>
         msg.conn \in rivals[i] \ {owner[i]}]_vars

(* What is queued and has not been sent: between a send and its erase the   *)
(* front of the queue has been sent already.                                *)
Unsent == IF spc = "erase" THEN [sendBuffer EXCEPT ![idx] = Tail(@)]
                           ELSE sendBuffer

Outbox == INSTANCE Mailbox WITH
  Receivers <- Conns, Payloads <- Settings,
  pending <- Unsent, received <- delivered

(* The sender and SendData together are Mailbox's queues: nothing is        *)
(* delivered twice, out of order, or after having been dropped, although    *)
(* the send and the erase are apart and messages are queued in between.     *)
OutboxSpec == Outbox!MSpec
------------------------------------------------------------------------------
(***************************************************************************)
(* Liveness, under FairSpec.                                               *)
(***************************************************************************)

(* The two mutexes taken in opposite orders: the sender holds               *)
(* sendBufferMutex and waits for socketMutex at line 37, the message thread *)
(* holds socketMutex (line 253) and waits for sendBufferMutex in SendData.  *)
LockCycle ==
  socketLock /\ sendBufLock /\ spc = "scan" /\ idx < MAX_CONNECTIONS

Stuck == LockCycle \/ fate # "up"

(* Once Stop has printed "Press ENTER to exit" (AdminConsole.cpp:669) the   *)
(* threads main joins come to their ends, so ENTER does exit.               *)
StopExits == admin = "stopped" ~> ThreadsDone \/ fate # "up"

(* The lock cycle is the only thing that keeps them from it.                *)
StopExitsUnlessCycle == admin = "stopped" ~> ThreadsDone \/ Stuck

(* Shutting down ends the acceptor and closes the listener, even if the     *)
(* limit is reached, no connection ever ends and the others are deadlocked. *)
StopClosesListener == shuttingDown ~> apc = "done" \/ fate # "up"

(* The slot of a connection that ended without having been refused is       *)
(* released, or taken by a later one.                                       *)
LeavingReleasesSlot ==
  \A i \in Services, c \in Conns :
    owner[i] = c /\ Gone(c) /\ valid[c] ~>
      owner[i] # c \/ Stuck \/ ~running

(* What is queued for a registered auth service with a live process is      *)
(* sent, unless it leaves, its slot is cleared first, or it has been turned *)
(* away for writing again after it registered.                              *)
RegisteredAuthIsServed ==
  \A c \in Conns :
    sendBuffer[AuthId] # <<>> /\ owner[AuthId] = c /\ peer[c] = "open" ~>
      \/ sendBuffer[AuthId] = <<>> \/ owner[AuthId] # c \/ peer[c] # "open"
      \/ ~valid[c] \/ Stuck \/ ~running
------------------------------------------------------------------------------
(* What the log says when a connection is turned away, "Service <id>        *)
(* already connected" (line 82), stated of the moment it is turned away: a  *)
(* different, live connection holds the slot.                               *)
AlreadyConnectedIsTrue ==
  [][\A c \in Conns : valid[c] /\ ~valid'[c] =>
       LET o == owner[Svc[c]] IN o # c /\ peer[o] = "open"]_vars
==============================================================================
