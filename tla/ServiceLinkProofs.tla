-------------------------- MODULE ServiceLinkProofs --------------------------
(***************************************************************************)
(* Theorems about ServiceLink for every number of slots, every set of      *)
(* connections and any traffic on them.                                    *)
(***************************************************************************)
EXTENDS ServiceLink, FiniteSetTheorems, SequenceTheorems, TLAPS

(* The handlers activeConnections counts: past its increment, before its    *)
(* decrement.                                                               *)
Counted == {c \in Conns : hpc[c] \in {"recv", "push", "dec"}}

CountsHandlers == active = Cardinality(Counted)

(* A connection has a handler from the moment it is accepted.               *)
HandledOnceAccepted ==
  \A c \in Conns : peer[c] = "none" <=> hpc[c] = "none"

(* Only the last index, auth's, ever has messages to send.                  *)
OnlyAuthHasQueue ==
  /\ \A i \in Services \ {AuthId} : sendBuffer[i] = <<>>
  /\ mpc \in {"sendDb", "sendPort"} => Svc[msg.conn] = AuthId

(* Until a message is picked, the scan runs with sendBufferMutex held.      *)
ScansLocked == spc = "scan" /\ idx < MAX_CONNECTIONS => sendBufLock

(* From the copy to the erase the message stays the front of auth's queue.  *)
HoldsFront ==
  spc \in {"sock", "send", "erase"} =>
    /\ idx = AuthId
    /\ sendBuffer[idx] # <<>> /\ Head(sendBuffer[idx]) = smsg

SenderInv ==
  OnlyAuthHasQueue /\ ScansLocked /\ HoldsFront /\ fate # "system_error"

TypeInv == TypeOK /\ CountsHandlers /\ HandledOnceAccepted
------------------------------------------------------------------------------
(***************************************************************************)
(* Types.                                                                  *)
(***************************************************************************)
LEMMA ConstantFacts ==
  /\ MAX_CONNECTIONS \in Nat \ {0}
  /\ AuthId \in Services
  /\ Svc \in [Conns -> Services]
  /\ 0 \in 0 .. MAX_CONNECTIONS
  /\ \A i \in Services : i + 1 \in 0 .. MAX_CONNECTIONS
BY ConstantsAssumption DEF AuthId, Services

LEMMA CountedIsFinite == IsFiniteSet(Counted)
<1>1. Counted \in SUBSET Conns
  BY DEF Counted
<1>. QED
  BY <1>1, ConstantsAssumption, FS_Subset

LEMMA TypeInit == Init => TypeInv
<1>. SUFFICES ASSUME Init PROVE TypeInv
  OBVIOUS
<1>1. TypeOK
  BY ConstantFacts, EmptySeq
     DEF Init, TypeOK, EnvTypeOK, AcceptTypeOK, HandlerTypeOK, InTypeOK,
         OutTypeOK, HandlerPcs, Kinds, Messages, NoMessage, None
<1>2. Counted = {}
  BY DEF Init, Counted
<1>. QED
  BY <1>1, <1>2, FS_EmptySet
     DEF TypeInv, CountsHandlers, HandledOnceAccepted, Init

LEMMA EnvTypeStep ==
  ASSUME TypeOK, [Next]_vars
  PROVE  EnvTypeOK'
<1>. USE DEF TypeOK, EnvTypeOK
<1>1. ASSUME NEW c \in Conns, PeerClose(c) PROVE EnvTypeOK'
  BY <1>1 DEF PeerClose
<1>2. ASSUME NEW c \in Conns, Accept(c) PROVE EnvTypeOK'
  BY <1>2 DEF Accept
<1>3. ASSUME NEW c \in Conns, HandlerStep(c) PROVE EnvTypeOK'
  BY <1>3 DEF HandlerStep, HandlerStart, HandlerEof, HandlerPush, HandlerDec,
              HandlerClose, OnlyHandler, envVars
<1>4. ASSUME NEW c \in Conns, HandlerAdmits(c) \/ HandlerRefuses(c)
      PROVE EnvTypeOK'
  BY <1>4 DEF HandlerAdmits, HandlerRefuses, OnlyHandler, envVars
<1>5. CASE AdminStop
  BY <1>5 DEF AdminStop, OnlyAdmin
<1>6. CASE NotifyConnection
  BY <1>6 DEF NotifyConnection, OnlyAdmin
<1>7. CASE StopTimer
  BY <1>7 DEF StopTimer, OnlyAdmin
<1>8. CASE MainReturns
  BY <1>8 DEF MainReturns, OnlyAdmin
<1>9. CASE AcceptorStep \/ SpuriousWakeup
  BY <1>9 DEF AcceptorStep, AcceptorLock, AcceptorSleep, SelectTimeout,
              SpuriousWakeup, envVars
<1>10. CASE MessagesStep
  BY <1>10 DEF MessagesStep, MessagesLoop, MessagesPop, HandleConnect,
               SendDbConnString, SendPort, HandleDisconnect, HandleUnknown,
               OnlyMessages, envVars
<1>11. CASE SenderStep
  BY <1>11 DEF SenderStep, SenderLoop, SenderSkip, SenderPick,
               SenderPassEnds, SenderSocket, SendReaches, SendToClosedPeer,
               SendFails, SenderErase, OnlySender
<1>12. CASE UNCHANGED vars
  BY <1>12 DEF vars, envVars
<1>. QED
  BY <1>1, <1>2, <1>3, <1>4, <1>5, <1>6, <1>7, <1>8, <1>9, <1>10, <1>11, <1>12
     DEF Next

LEMMA HandlerTypeStep ==
  ASSUME TypeOK, [Next]_vars
  PROVE  HandlerTypeOK'
<1>. USE DEF TypeOK, HandlerTypeOK, HandlerPcs
<1>1. ASSUME NEW c \in Conns, PeerClose(c) PROVE HandlerTypeOK'
  BY <1>1 DEF PeerClose, handlerVars
<1>2. ASSUME NEW c \in Conns, Accept(c) PROVE HandlerTypeOK'
  <2>1. PICK f \in Fds : fd' = [fd EXCEPT ![c] = f]
    BY <1>2 DEF Accept
  <2>. QED
    BY <1>2, <2>1 DEF Accept
<1>3. ASSUME NEW c \in Conns, HandlerStart(c) PROVE HandlerTypeOK'
  BY <1>3 DEF HandlerStart, GoHandler, OnlyHandler
<1>4. ASSUME NEW c \in Conns, HandlerAdmits(c) PROVE HandlerTypeOK'
  <2>1. Traffic[c] \in Seq(SUBSET Received)
    BY ConstantsAssumption
  <2>5. Len(Traffic[c]) \in Nat
    BY <2>1, LenProperties
  <2>6. nchunks[c] + 1 \in 1 .. Len(Traffic[c])
    BY <1>4, <2>5 DEF HandlerAdmits, Receive
  <2>2. Traffic[c][nchunks[c] + 1] \in SUBSET Received
    BY <2>1, <2>6, ElementOfSeq
  <2>3. PICK k \in Received : chunk' = [chunk EXCEPT ![c] = k]
    BY <1>4, <2>2 DEF HandlerAdmits
  <2>4. nchunks' = [nchunks EXCEPT ![c] = @ + 1]
    BY <1>4 DEF HandlerAdmits, Receive
  <2>. QED
    BY <1>4, <2>3, <2>4 DEF HandlerAdmits, GoHandler, OnlyHandler
<1>5. ASSUME NEW c \in Conns, HandlerRefuses(c) PROVE HandlerTypeOK'
  BY <1>5 DEF HandlerRefuses, Receive, Leave, GoHandler, OnlyHandler
<1>6. ASSUME NEW c \in Conns, HandlerEof(c) PROVE HandlerTypeOK'
  BY <1>6 DEF HandlerEof, Leave, GoHandler, OnlyHandler
<1>7. ASSUME NEW c \in Conns, HandlerPush(c) PROVE HandlerTypeOK'
  BY <1>7 DEF HandlerPush, GoHandler, OnlyHandler
<1>8. ASSUME NEW c \in Conns, HandlerDec(c) PROVE HandlerTypeOK'
  BY <1>8 DEF HandlerDec, GoHandler
<1>9. ASSUME NEW c \in Conns, HandlerClose(c) PROVE HandlerTypeOK'
  BY <1>9 DEF HandlerClose, GoHandler, OnlyHandler
<1>10. CASE AdminStop \/ NotifyConnection \/ StopTimer \/ MainReturns
  BY <1>10 DEF AdminStop, NotifyConnection, StopTimer, MainReturns, OnlyAdmin,
               handlerVars
<1>11. CASE AcceptorStep \/ SpuriousWakeup
  BY <1>11 DEF AcceptorStep, AcceptorLock, AcceptorSleep, SelectTimeout,
               SpuriousWakeup, handlerVars
<1>12. CASE MessagesStep
  BY <1>12 DEF MessagesStep, MessagesLoop, MessagesPop, HandleConnect,
               SendDbConnString, SendPort, HandleDisconnect, HandleUnknown,
               OnlyMessages, handlerVars
<1>13. CASE SenderStep
  BY <1>13 DEF SenderStep, SenderLoop, SenderSkip, SenderPick,
               SenderPassEnds, SenderSocket, SendReaches, SendToClosedPeer,
               SendFails, SenderErase, OnlySender, handlerVars
<1>14. CASE UNCHANGED vars
  BY <1>14 DEF vars, handlerVars
<1>. QED
  BY <1>1, <1>2, <1>3, <1>4, <1>5, <1>6, <1>7, <1>8, <1>9, <1>10, <1>11,
     <1>12, <1>13, <1>14 DEF Next, HandlerStep

(* Only three steps of a handler change the set of counted handlers, and    *)
(* each changes activeConnections with it.                                  *)
LEMMA AcceptTypeStep ==
  ASSUME TypeInv, [Next]_vars
  PROVE  AcceptTypeOK' /\ CountsHandlers'
<1>. USE DEF TypeInv, TypeOK, AcceptTypeOK, HandlerTypeOK, HandlerPcs,
             CountsHandlers
<1>2. ASSUME NEW c \in Conns, PeerClose(c)
      PROVE  AcceptTypeOK' /\ CountsHandlers'
  BY <1>2 DEF PeerClose, handlerVars, acceptVars, Counted
<1>3. ASSUME NEW c \in Conns, Accept(c)
      PROVE  AcceptTypeOK' /\ CountsHandlers'
  <2>1. hpc[c] = "none"
    BY <1>3 DEF Accept, HandledOnceAccepted
  <2>2. Counted' = Counted
    BY <1>3, <2>1 DEF Accept, Counted
  <2>. QED
    BY <1>3, <2>2 DEF Accept, SelectReturns
<1>4. ASSUME NEW c \in Conns, HandlerStart(c)
      PROVE  AcceptTypeOK' /\ CountsHandlers'
  <2>1. Counted' = Counted \cup {c} /\ c \notin Counted
    BY <1>4 DEF HandlerStart, GoHandler, Counted
  <2>2. Cardinality(Counted') = Cardinality(Counted) + 1
    BY <2>1, CountedIsFinite, FS_AddElement
  <2>. QED
    BY <1>4, <2>2 DEF HandlerStart, Count, OnlyHandler
<1>5. ASSUME NEW c \in Conns,
             HandlerAdmits(c) \/ HandlerRefuses(c) \/ HandlerEof(c)
                \/ HandlerPush(c) \/ HandlerClose(c)
      PROVE  AcceptTypeOK' /\ CountsHandlers'
  <2>1. Counted' = Counted
    BY <1>5 DEF HandlerAdmits, HandlerRefuses, HandlerEof, HandlerPush,
                HandlerClose, Leave, GoHandler, Counted
  <2>. QED
    BY <1>5, <2>1 DEF HandlerAdmits, HandlerRefuses, HandlerEof, HandlerPush,
                      HandlerClose, OnlyHandler
<1>6. ASSUME NEW c \in Conns, HandlerDec(c)
      PROVE  AcceptTypeOK' /\ CountsHandlers'
  <2>1. Counted' = Counted \ {c} /\ c \in Counted
    BY <1>6 DEF HandlerDec, GoHandler, Counted
  <2>2. /\ Cardinality(Counted') = Cardinality(Counted) - 1
        /\ Cardinality(Counted') \in Nat
    BY <2>1, CountedIsFinite, FS_RemoveElement, FS_CardinalityType
  <2>. QED
    BY <1>6, <2>2 DEF HandlerDec, WakeAcceptor
<1>7. CASE AdminStop \/ NotifyConnection \/ StopTimer \/ MainReturns
  BY <1>7 DEF AdminStop, NotifyConnection, StopTimer, MainReturns, OnlyAdmin,
              WakeAcceptor, handlerVars, Counted
<1>8. CASE AcceptorStep \/ SpuriousWakeup
  BY <1>8 DEF AcceptorStep, AcceptorLock, AcceptorSleep, SelectTimeout,
              SelectReturns, SpuriousWakeup, HasRoom, handlerVars, Counted
<1>9. CASE MessagesStep
  BY <1>9 DEF MessagesStep, MessagesLoop, MessagesPop, HandleConnect,
              SendDbConnString, SendPort, HandleDisconnect, HandleUnknown,
              OnlyMessages, handlerVars, acceptVars, Counted
<1>10. CASE SenderStep
  BY <1>10 DEF SenderStep, SenderLoop, SenderSkip, SenderPick,
               SenderPassEnds, SenderSocket, SendReaches, SendToClosedPeer,
               SendFails, SenderErase, OnlySender, handlerVars, acceptVars,
               Counted
<1>11. CASE UNCHANGED vars
  BY <1>11 DEF vars, handlerVars, acceptVars, Counted
<1>. QED
  BY <1>2, <1>3, <1>4, <1>5, <1>6, <1>7, <1>8, <1>9, <1>10, <1>11
     DEF Next, HandlerStep

LEMMA HandledOnceAcceptedStep ==
  ASSUME TypeInv, [Next]_vars
  PROVE  HandledOnceAccepted'
<1>. USE DEF TypeInv, TypeOK, EnvTypeOK, HandlerTypeOK, HandlerPcs,
             HandledOnceAccepted
<1>1. ASSUME NEW c \in Conns, PeerClose(c) PROVE HandledOnceAccepted'
  BY <1>1 DEF PeerClose, handlerVars
<1>2. ASSUME NEW c \in Conns, Accept(c) PROVE HandledOnceAccepted'
  BY <1>2 DEF Accept
<1>3. ASSUME NEW c \in Conns,
             HandlerStep(c) \/ HandlerAdmits(c) \/ HandlerRefuses(c)
      PROVE  HandledOnceAccepted'
  BY <1>3 DEF HandlerStep, HandlerStart, HandlerEof, HandlerPush, HandlerDec,
              HandlerClose, HandlerAdmits, HandlerRefuses, Leave, GoHandler,
              OnlyHandler, envVars
<1>4. CASE AdminStop \/ NotifyConnection \/ StopTimer \/ MainReturns
  BY <1>4 DEF AdminStop, NotifyConnection, StopTimer, MainReturns, OnlyAdmin,
              handlerVars
<1>5. CASE AcceptorStep \/ SpuriousWakeup
  BY <1>5 DEF AcceptorStep, AcceptorLock, AcceptorSleep, SelectTimeout,
              SpuriousWakeup, handlerVars, envVars
<1>6. CASE MessagesStep
  BY <1>6 DEF MessagesStep, MessagesLoop, MessagesPop, HandleConnect,
              SendDbConnString, SendPort, HandleDisconnect, HandleUnknown,
              OnlyMessages, handlerVars, envVars
<1>7. CASE SenderStep
  BY <1>7 DEF SenderStep, SenderLoop, SenderSkip, SenderPick,
              SenderPassEnds, SenderSocket, SendReaches, SendToClosedPeer,
              SendFails, SenderErase, OnlySender, handlerVars
<1>8. CASE UNCHANGED vars
  BY <1>8 DEF vars, handlerVars, envVars
<1>. QED
  BY <1>1, <1>2, <1>3, <1>4, <1>5, <1>6, <1>7, <1>8 DEF Next

LEMMA PushTypes ==
  ASSUME TypeOK, NEW c \in Conns, NEW k \in Kinds, PushMessage(c, k)
  PROVE  InTypeOK'
<1>1. [kind |-> k, conn |-> c] \in Messages
  BY DEF Messages
<1>2. messageBuffer' \in Seq(Messages)
  BY <1>1, AppendProperties DEF TypeOK, InTypeOK, PushMessage
<1>. QED
  BY <1>2 DEF TypeOK, InTypeOK, PushMessage

LEMMA InTypeStep ==
  ASSUME TypeOK, [Next]_vars
  PROVE  InTypeOK'
<1>. USE DEF TypeOK, InTypeOK
<1>1. ASSUME inVars' = inVars PROVE InTypeOK'
  BY <1>1 DEF inVars
<1>2. ASSUME NEW c \in Conns, PeerClose(c) \/ Accept(c) PROVE InTypeOK'
  BY <1>1, <1>2 DEF PeerClose, Accept
<1>3. ASSUME NEW c \in Conns,
             HandlerStart(c) \/ HandlerAdmits(c) \/ HandlerDec(c)
               \/ HandlerClose(c)
      PROVE  InTypeOK'
  BY <1>1, <1>3 DEF HandlerStart, HandlerAdmits, HandlerDec, HandlerClose
<1>4. ASSUME NEW c \in Conns, HandlerRefuses(c) \/ HandlerEof(c)
      PROVE  InTypeOK'
  BY <1>1, <1>4, PushTypes DEF HandlerRefuses, HandlerEof, Leave, Kinds
<1>5. ASSUME NEW c \in Conns, HandlerPush(c) PROVE InTypeOK'
  <2>1. chunk[c] \in Kinds
    BY <1>5 DEF HandlerPush, GoHandler, HandlerTypeOK, Kinds
  <2>. QED
    BY <1>5, <2>1, PushTypes DEF HandlerPush
<1>6. CASE AdminStop \/ NotifyConnection \/ StopTimer \/ MainReturns
  BY <1>1, <1>6 DEF AdminStop, NotifyConnection, StopTimer, MainReturns,
                    OnlyAdmin
<1>7. CASE AcceptorStep \/ SpuriousWakeup
  BY <1>1, <1>7 DEF AcceptorStep, AcceptorLock, AcceptorSleep, SelectTimeout,
                    SpuriousWakeup
<1>8. CASE MessagesLoop
  BY <1>8 DEF MessagesLoop, Processing
<1>9. CASE MessagesPop
  <2>1. CASE messageBuffer = <<>>
    BY <1>9, <2>1 DEF MessagesPop, Processing
  <2>2. CASE messageBuffer # <<>>
    <3>1. Head(messageBuffer) \in Messages /\ Tail(messageBuffer) \in Seq(Messages)
      BY <2>2, HeadTailProperties
    <3>. QED
      BY <1>9, <2>2, <3>1 DEF MessagesPop
  <2>. QED
    BY <2>1, <2>2
<1>10. CASE HandleConnect
  <2>1. msg \in Messages /\ msg.conn \in Conns
    BY <1>10 DEF HandleConnect, Processing, Messages
  <2>2. Svc[msg.conn] \in Services /\ fd[msg.conn] \in Fds \cup {0, -1}
    BY <2>1, ConstantsAssumption DEF HandlerTypeOK
  <2>. QED
    BY <1>10, <2>1, <2>2 DEF HandleConnect, Register, Handled
<1>11. CASE HandleDisconnect
  BY <1>11 DEF HandleDisconnect, Register, Handled
<1>12. CASE SendDbConnString
  BY <1>12 DEF SendDbConnString, Processing
<1>13. CASE SendPort
  BY <1>13 DEF SendPort, Handled
<1>14. CASE HandleUnknown
  BY <1>14 DEF HandleUnknown, Handled
<1>15. CASE SenderStep
  BY <1>1, <1>15 DEF SenderStep, SenderLoop, SenderSkip, SenderPick,
                     SenderPassEnds, SenderSocket, SendReaches,
                     SendToClosedPeer, SendFails, SenderErase, OnlySender
<1>16. CASE UNCHANGED vars
  BY <1>1, <1>16 DEF vars
<1>. QED
  BY <1>2, <1>3, <1>4, <1>5, <1>6, <1>7, <1>8, <1>9, <1>10, <1>11, <1>12,
     <1>13, <1>14, <1>15, <1>16 DEF Next, HandlerStep, MessagesStep

LEMMA SendDataTypes ==
  ASSUME TypeOK, NEW i \in Services, NEW m \in Settings, SendData(i, m)
  PROVE  sendBuffer' \in [Services -> Seq(Settings)]
<1>1. Append(sendBuffer[i], m) \in Seq(Settings)
  BY AppendProperties DEF TypeOK, OutTypeOK
<1>. QED
  BY <1>1 DEF TypeOK, OutTypeOK, SendData

LEMMA OutTypeStep ==
  ASSUME TypeOK, SenderInv, [Next]_vars
  PROVE  OutTypeOK'
<1>. USE DEF TypeOK, OutTypeOK
<1>1. ASSUME outVars' = outVars PROVE OutTypeOK'
  BY <1>1 DEF outVars
<1>2. ASSUME NEW c \in Conns, PeerClose(c) \/ Accept(c) PROVE OutTypeOK'
  BY <1>1, <1>2 DEF PeerClose, Accept
<1>3. ASSUME NEW c \in Conns,
             HandlerStep(c) \/ HandlerAdmits(c) \/ HandlerRefuses(c)
      PROVE  OutTypeOK'
  BY <1>1, <1>3 DEF HandlerStep, HandlerStart, HandlerEof, HandlerPush,
                    HandlerDec, HandlerClose, HandlerAdmits, HandlerRefuses,
                    OnlyHandler
<1>4. CASE AdminStop \/ NotifyConnection \/ StopTimer \/ MainReturns
  BY <1>1, <1>4 DEF AdminStop, NotifyConnection, StopTimer, MainReturns,
                    OnlyAdmin
<1>5. CASE AcceptorStep \/ SpuriousWakeup
  BY <1>1, <1>5 DEF AcceptorStep, AcceptorLock, AcceptorSleep, SelectTimeout,
                    SpuriousWakeup
<1>6. CASE MessagesLoop \/ MessagesPop \/ HandleConnect \/ HandleDisconnect
             \/ HandleUnknown
  BY <1>1, <1>6 DEF MessagesLoop, MessagesPop, HandleConnect,
                    HandleDisconnect, HandleUnknown, OnlyMessages, outVars
<1>7. CASE SendDbConnString \/ SendPort
  <2>1. Svc[msg.conn] \in Services
    BY <1>7, ConstantsAssumption
       DEF SendDbConnString, SendPort, Processing, InTypeOK, Messages
  <2>2. \E m \in Settings : SendData(Svc[msg.conn], m)
    BY <1>7 DEF SendDbConnString, SendPort, Settings
  <2>3. sendBuffer' \in [Services -> Seq(Settings)]
    BY <2>1, <2>2, SendDataTypes
  <2>. QED
    BY <1>7, <2>3 DEF SendDbConnString, SendPort, OnlyMessages
<1>8. CASE SenderLoop
  BY <1>8 DEF SenderLoop
<1>9. ASSUME NextIndex, sendBuffer' \in [Services -> Seq(Settings)],
             sendBufLock' = sendBufLock, delivered' = delivered,
             idx \in Services
      PROVE  OutTypeOK'
  BY <1>9, ConstantFacts DEF NextIndex
<1>10. CASE SenderSkip
  BY <1>9, <1>10, ConstantsAssumption DEF SenderSkip, Looking, Services
<1>11. CASE SenderPick
  <2>1. idx \in Services
    BY <1>11, ConstantsAssumption DEF SenderPick, Looking, Services
  <2>2. Head(sendBuffer[idx]) \in Settings
    BY <1>11, <2>1, HeadTailProperties DEF SenderPick, HasWork
  <2>. QED
    BY <1>11, <2>1, <2>2 DEF SenderPick
<1>12. CASE SenderPassEnds
  BY <1>12, ConstantFacts DEF SenderPassEnds
<1>13. CASE SenderSocket
  <2>1. idx \in Services
    BY <1>13 DEF SenderSocket, Sending
  <2>2. CASE NextIndex
    BY <1>13, <1>9, <2>1, <2>2 DEF SenderSocket
  <2>3. CASE ~NextIndex
    <3>1. SlotOf(idx) \in Fds \cup {0}
      BY <1>13, <2>1, <2>3 DEF SenderSocket, SlotOf, InTypeOK
    <3>. QED
      BY <1>13, <2>1, <2>3, <3>1 DEF SenderSocket, Sending
  <2>. QED
    BY <2>2, <2>3
<1>14. ASSUME NEW c \in Conns, SendReaches(c) PROVE OutTypeOK'
  <2>1. smsg \in Settings /\ idx \in Services
    BY <1>14 DEF SendReaches, Sending
  <2>2. Append(delivered[c], smsg) \in Seq(Settings)
    BY <2>1, AppendProperties
  <2>. QED
    BY <1>14, <2>1, <2>2 DEF SendReaches
<1>15. ASSUME NEW c \in Conns, SendToClosedPeer(c) PROVE OutTypeOK'
  <2>1. idx \in Services /\ smsg \in Settings
    BY <1>15 DEF SendToClosedPeer, Sending
  <2>2. CASE NextIndex
    BY <1>15, <1>9, <2>1, <2>2 DEF SendToClosedPeer
  <2>3. CASE ~NextIndex
    BY <1>15, <2>1, <2>3 DEF SendToClosedPeer
  <2>. QED
    BY <2>2, <2>3
<1>16. CASE SendFails
  BY <1>9, <1>16 DEF SendFails, Sending
<1>17. CASE SenderErase
  <2>1. idx \in Services /\ sendBuffer[idx] # <<>>
    BY <1>17 DEF SenderErase, Sending, SenderInv, HoldsFront
  <2>2. Tail(sendBuffer[idx]) \in Seq(Settings)
    BY <2>1, HeadTailProperties
  <2>. QED
    BY <1>9, <1>17, <2>1, <2>2 DEF SenderErase, EraseFront
<1>18. CASE UNCHANGED vars
  BY <1>1, <1>18 DEF vars
<1>. QED
  BY <1>2, <1>3, <1>4, <1>5, <1>6, <1>7, <1>8, <1>10, <1>11, <1>12, <1>13,
     <1>14, <1>15, <1>16, <1>17, <1>18 DEF Next, MessagesStep, SenderStep
------------------------------------------------------------------------------
(***************************************************************************)
(* What the sender may rely on between letting go of sendBufferMutex and   *)
(* taking it again.                                                        *)
(***************************************************************************)
LEMMA SenderInit == Init => SenderInv
BY DEF Init, SenderInv, OnlyAuthHasQueue, ScansLocked, HoldsFront

LEMMA SenderStepInv ==
  ASSUME TypeOK, SenderInv, [Next]_vars
  PROVE  SenderInv'
<1>. USE DEF SenderInv, OnlyAuthHasQueue, ScansLocked, HoldsFront
<1>1. ASSUME outVars' = outVars, fate' = fate, mpc' = mpc, msg' = msg
      PROVE  SenderInv'
  BY <1>1 DEF outVars
<1>2. ASSUME NEW c \in Conns, PeerClose(c) \/ Accept(c) PROVE SenderInv'
  BY <1>1, <1>2 DEF PeerClose, Accept, inVars
<1>3. ASSUME NEW c \in Conns,
             HandlerStep(c) \/ HandlerAdmits(c) \/ HandlerRefuses(c)
      PROVE  SenderInv'
  BY <1>1, <1>3 DEF HandlerStep, HandlerStart, HandlerEof, HandlerPush,
                    HandlerDec, HandlerClose, HandlerAdmits, HandlerRefuses,
                    Leave, PushMessage, OnlyHandler, inVars, envVars
<1>4. CASE AdminStop \/ NotifyConnection \/ StopTimer
  BY <1>1, <1>4 DEF AdminStop, NotifyConnection, StopTimer, OnlyAdmin, inVars
<1>5. CASE MainReturns
  BY <1>5 DEF MainReturns, OnlyAdmin, inVars, outVars
<1>6. CASE AcceptorStep \/ SpuriousWakeup
  BY <1>1, <1>6 DEF AcceptorStep, AcceptorLock, AcceptorSleep, SelectTimeout,
                    SpuriousWakeup, inVars, envVars
<1>7. CASE MessagesLoop \/ MessagesPop \/ HandleDisconnect \/ HandleUnknown
  BY <1>7 DEF MessagesLoop, MessagesPop, HandleDisconnect, HandleUnknown,
              Handled, OnlyMessages, envVars
<1>8. CASE HandleConnect
  BY <1>8 DEF HandleConnect, GetsSettings, Handled, OnlyMessages, envVars
<1>9. CASE SendDbConnString \/ SendPort
  <2>1. Svc[msg.conn] = AuthId /\ AuthId \in Services
    BY <1>9, ConstantFacts DEF SendDbConnString, SendPort, Processing
  <2>2. PICK m \in Settings :
          sendBuffer' = [sendBuffer EXCEPT ![AuthId] = Append(@, m)]
    BY <1>9, <2>1 DEF SendDbConnString, SendPort, SendData, Settings
  <2>3. /\ Append(sendBuffer[AuthId], m) # <<>>
        /\ sendBuffer[AuthId] # <<>> =>
             Head(Append(sendBuffer[AuthId], m)) = Head(sendBuffer[AuthId])
    BY <2>1, AppendProperties, HeadTailAppend DEF TypeOK, OutTypeOK
  <2>. QED
    BY <1>9, <2>1, <2>2, <2>3
       DEF SendDbConnString, SendPort, Handled, OnlyMessages, envVars,
           TypeOK, OutTypeOK
<1>10. CASE SenderLoop \/ SenderPassEnds
  BY <1>10 DEF SenderLoop, SenderPassEnds, OnlySender, inVars
<1>11. CASE SenderSkip
  BY <1>11, ConstantsAssumption
     DEF SenderSkip, Looking, Sending, NextIndex, OnlySender, inVars, TypeOK,
         OutTypeOK
<1>12. CASE SenderPick
  <2>1. idx \in Services /\ idx < MAX_CONNECTIONS /\ spc = "scan"
    BY <1>12, ConstantsAssumption
       DEF SenderPick, Looking, Sending, Services, TypeOK, OutTypeOK
  <2>2. sendBufLock
    BY <2>1
  <2>3. idx = AuthId
    BY <1>12, <2>1 DEF SenderPick, HasWork
  <2>. QED
    BY <1>12, <2>1, <2>2, <2>3 DEF SenderPick, HasWork, OnlySender, inVars
<1>13. ASSUME NextIndex, idx = AuthId, sendBufLock' = sendBufLock,
              fate' = fate, UNCHANGED inVars, OnlyAuthHasQueue'
       PROVE  SenderInv'
  BY <1>13, ConstantsAssumption DEF NextIndex, AuthId, inVars
<1>14. CASE SenderSocket
  <2>1. CASE NextIndex
    BY <1>13, <1>14, <2>1 DEF SenderSocket, Sending, OnlySender, inVars
  <2>2. CASE ~NextIndex
    BY <1>14, <2>2 DEF SenderSocket, Sending, OnlySender, inVars
  <2>. QED
    BY <2>1, <2>2
<1>15. ASSUME NEW c \in Conns, SendReaches(c) PROVE SenderInv'
  BY <1>15 DEF SendReaches, Sending, OnlySender, inVars
<1>16. ASSUME NEW c \in Conns, SendToClosedPeer(c) PROVE SenderInv'
  <2>1. CASE NextIndex /\ fate' = fate
    BY <1>13, <1>16, <2>1 DEF SendToClosedPeer, Sending, OnlySender, inVars
  <2>2. CASE ~(NextIndex /\ fate' = fate)
    BY <1>16, <2>2 DEF SendToClosedPeer, Sending, OnlySender, inVars
  <2>. QED
    BY <2>1, <2>2
<1>17. CASE SendFails
  BY <1>13, <1>17 DEF SendFails, Sending, OnlySender, inVars
<1>18. CASE SenderErase
  <2>1. idx = AuthId
    BY <1>18 DEF SenderErase, Sending
  <2>2. OnlyAuthHasQueue'
    BY <1>18, <2>1 DEF SenderErase, EraseFront, OnlySender, inVars, TypeOK,
                       OutTypeOK
  <2>. QED
    BY <1>13, <1>18, <2>1, <2>2 DEF SenderErase, OnlySender
<1>19. CASE UNCHANGED vars
  BY <1>1, <1>19 DEF vars, inVars, envVars
<1>. QED
  BY <1>2, <1>3, <1>4, <1>5, <1>6, <1>7, <1>8, <1>9, <1>10, <1>11, <1>12,
     <1>14, <1>15, <1>16, <1>17, <1>18, <1>19
     DEF Next, MessagesStep, SenderStep
------------------------------------------------------------------------------
IInv == TypeInv /\ SenderInv

LEMMA Invariance == Spec => []IInv
<1>1. Init => IInv
  BY TypeInit, SenderInit DEF IInv
<1>2. IInv /\ [Next]_vars => IInv'
  BY EnvTypeStep, AcceptTypeStep, HandlerTypeStep, InTypeStep, OutTypeStep,
     HandledOnceAcceptedStep, SenderStepInv DEF IInv, TypeInv, TypeOK
<1>. QED
  BY <1>1, <1>2, PTL DEF Spec

(* Every variable keeps its type; in particular activeConnections, which a  *)
(* handler decrements only after having incremented it, is never negative.  *)
THEOREM TypeCorrect == Spec => []TypeOK
<1>1. IInv => TypeOK
  BY DEF IInv, TypeInv
<1>. QED
  BY <1>1, Invariance, PTL

(* bufferLock.unlock() at ServiceLink.cpp:42 never throws: with only auth   *)
(* being sent anything, and auth last, no pass picks two messages.          *)
THEOREM SenderOwnsWhatItUnlocks == Spec => []NoUnlockOfUnowned
<1>1. IInv => NoUnlockOfUnowned
  BY DEF IInv, SenderInv, NoUnlockOfUnowned
<1>. QED
  BY <1>1, Invariance, PTL

(* The element erased at ServiceLink.cpp:46 is the one copied at line 41,   *)
(* although sendBufferMutex was free in between.                            *)
THEOREM EraseMatchesSend == Spec => []ErasesWhatWasSent
<1>1. IInv => ErasesWhatWasSent
  BY DEF IInv, SenderInv, HoldsFront, ErasesWhatWasSent
<1>. QED
  BY <1>1, Invariance, PTL
------------------------------------------------------------------------------
(***************************************************************************)
(* The acceptor's sleep.                                                   *)
(***************************************************************************)
HoldsToSleep == connLock <=> apc = "sleep"

WakeInv == HoldsToSleep /\ NoLostWakeup

LEMMA WakeStep ==
  ASSUME TypeOK, WakeInv, [Next]_vars
  PROVE  WakeInv'
<1>. USE DEF WakeInv, HoldsToSleep, NoLostWakeup, HasRoom
<1>1. ASSUME UNCHANGED <<apc, connLock, active, shuttingDown, admin>>
      PROVE  WakeInv'
  BY <1>1
<1>2. ASSUME NEW c \in Conns, PeerClose(c) PROVE WakeInv'
  BY <1>1, <1>2 DEF PeerClose, acceptVars
<1>3. ASSUME NEW c \in Conns, Accept(c) PROVE WakeInv'
  BY <1>3 DEF Accept, Accepting, SelectReturns
<1>4. ASSUME NEW c \in Conns, HandlerStart(c) PROVE WakeInv'
  <2>1. active' < MAX_CONNECTIONS => active < MAX_CONNECTIONS
    BY <1>4, ConstantsAssumption DEF HandlerStart, Count, TypeOK, AcceptTypeOK
  <2>. QED
    BY <1>4, <2>1 DEF HandlerStart, OnlyHandler, envVars
<1>5. ASSUME NEW c \in Conns, HandlerDec(c) PROVE WakeInv'
  BY <1>5 DEF HandlerDec, WakeAcceptor, envVars
<1>6. ASSUME NEW c \in Conns,
             HandlerAdmits(c) \/ HandlerRefuses(c) \/ HandlerEof(c)
                \/ HandlerPush(c) \/ HandlerClose(c)
      PROVE  WakeInv'
  BY <1>1, <1>6 DEF HandlerAdmits, HandlerRefuses, HandlerEof, HandlerPush,
                    HandlerClose, OnlyHandler, envVars
<1>7. CASE AdminStop
  BY <1>7 DEF AdminStop, OnlyAdmin
<1>8. CASE NotifyConnection
  BY <1>8 DEF NotifyConnection, NotifyLocks, WakeAcceptor, OnlyAdmin
<1>9. CASE StopTimer \/ MainReturns
  BY <1>9 DEF StopTimer, MainReturns, OnlyAdmin
<1>10. CASE AcceptorLock
  BY <1>10 DEF AcceptorLock, envVars
<1>11. CASE AcceptorSleep \/ SelectTimeout \/ SpuriousWakeup
  BY <1>11 DEF AcceptorSleep, SelectTimeout, SelectReturns, SpuriousWakeup,
               Accepting, envVars
<1>12. CASE MessagesStep
  BY <1>1, <1>12
     DEF MessagesStep, MessagesLoop, MessagesPop, HandleConnect,
         SendDbConnString, SendPort, HandleDisconnect, HandleUnknown,
         OnlyMessages, acceptVars, envVars
<1>13. CASE SenderStep
  BY <1>1, <1>13
     DEF SenderStep, SenderLoop, SenderSkip, SenderPick, SenderPassEnds,
         SenderSocket, SendReaches, SendToClosedPeer, SendFails, SenderErase,
         OnlySender, acceptVars
<1>14. CASE UNCHANGED vars
  BY <1>1, <1>14 DEF vars, acceptVars, envVars
<1>. QED
  BY <1>2, <1>3, <1>4, <1>5, <1>6, <1>7, <1>8, <1>9, <1>10, <1>11, <1>12,
     <1>13, <1>14 DEF Next, HandlerStep, AcceptorStep

(* An acceptor that sleeps has no reason to run, or is about to be told:    *)
(* no wakeup is lost between testing the predicate and blocking.            *)
THEOREM WakeupsAreKept == Spec => []NoLostWakeup
<1>1. Init => WakeInv
  BY DEF Init, WakeInv, HoldsToSleep, NoLostWakeup
<1>2. TypeOK /\ WakeInv /\ [Next]_vars => WakeInv'
  BY WakeStep
<1>3. WakeInv => NoLostWakeup
  BY DEF WakeInv
<1>. QED
  BY <1>1, <1>2, <1>3, TypeCorrect, PTL DEF Spec
------------------------------------------------------------------------------
(***************************************************************************)
(* The outgoing queues implement Mailbox.                                  *)
(***************************************************************************)
LEMMA OutboxInit == Init => Outbox!MInit
BY DEF Init, Outbox!MInit, Unsent

(* Queueing a message appends it to what is unsent, even while the front is *)
(* waiting to be erased.                                                    *)
LEMMA SendDataEnqueues ==
  ASSUME IInv, NEW i \in Services, NEW m \in Settings, SendData(i, m),
         UNCHANGED <<spc, idx, delivered>>
  PROVE  Outbox!MNext
<1>. USE DEF IInv, TypeInv, TypeOK, OutTypeOK, SenderInv
<1>1. Unsent' = [Unsent EXCEPT ![i] = Append(@, m)]
  <2>1. CASE spc # "erase"
    BY <2>1 DEF Unsent, SendData
  <2>2. CASE spc = "erase"
    <3>1. idx \in Services /\ sendBuffer[idx] # <<>>
      BY <2>2 DEF HoldsFront
    <3>2. Tail(Append(sendBuffer[idx], m)) = Append(Tail(sendBuffer[idx]), m)
      BY <3>1, HeadTailAppend
    <3>. QED
      BY <2>2, <3>1, <3>2 DEF Unsent, SendData
  <2>. QED
    BY <2>1, <2>2
<1>. QED
  BY <1>1 DEF Outbox!MNext, Outbox!Enqueue

LEMMA OutboxStep ==
  ASSUME IInv, [Next]_vars
  PROVE  [Outbox!MNext]_(Outbox!mvars)
<1>. USE DEF IInv, TypeInv, TypeOK, OutTypeOK, SenderInv
<1>1. ASSUME UNCHANGED <<sendBuffer, spc, idx, delivered>>
      PROVE  UNCHANGED Outbox!mvars
  BY <1>1 DEF Outbox!mvars, Unsent
<1>2. ASSUME NEW c \in Conns, PeerClose(c) \/ Accept(c)
      PROVE  UNCHANGED Outbox!mvars
  BY <1>1, <1>2 DEF PeerClose, Accept, outVars
<1>3. ASSUME NEW c \in Conns,
             HandlerStep(c) \/ HandlerAdmits(c) \/ HandlerRefuses(c)
      PROVE  UNCHANGED Outbox!mvars
  BY <1>1, <1>3 DEF HandlerStep, HandlerStart, HandlerEof, HandlerPush,
                    HandlerDec, HandlerClose, HandlerAdmits, HandlerRefuses,
                    OnlyHandler, outVars
<1>4. ASSUME AdminStop \/ NotifyConnection \/ StopTimer \/ MainReturns
      PROVE  UNCHANGED Outbox!mvars
  BY <1>1, <1>4 DEF AdminStop, NotifyConnection, StopTimer, MainReturns,
                    OnlyAdmin, outVars
<1>5. ASSUME AcceptorStep \/ SpuriousWakeup
      PROVE  UNCHANGED Outbox!mvars
  BY <1>1, <1>5 DEF AcceptorStep, AcceptorLock, AcceptorSleep, SelectTimeout,
                    SpuriousWakeup, outVars
<1>6. ASSUME MessagesLoop \/ MessagesPop \/ HandleConnect \/ HandleDisconnect
               \/ HandleUnknown
      PROVE  UNCHANGED Outbox!mvars
  BY <1>1, <1>6 DEF MessagesLoop, MessagesPop, HandleConnect,
                    HandleDisconnect, HandleUnknown, OnlyMessages
<1>7. ASSUME SendDbConnString \/ SendPort
      PROVE  Outbox!MNext
  <2>1. Svc[msg.conn] \in Services
    BY <1>7, ConstantsAssumption
       DEF SendDbConnString, SendPort, Processing, InTypeOK, Messages
  <2>2. \E m \in Settings : SendData(Svc[msg.conn], m)
    BY <1>7 DEF SendDbConnString, SendPort, Settings
  <2>3. UNCHANGED <<spc, idx, delivered>>
    BY <1>7 DEF SendDbConnString, SendPort, OnlyMessages
  <2>. QED
    BY <2>1, <2>2, <2>3, SendDataEnqueues
<1>8. ASSUME sendBuffer' = sendBuffer, delivered' = delivered,
             spc # "erase", spc' # "erase"
      PROVE  UNCHANGED Outbox!mvars
  BY <1>8 DEF Outbox!mvars, Unsent
<1>9. ASSUME SenderLoop \/ SenderSkip \/ SenderPick \/ SenderPassEnds
               \/ SenderSocket \/ SendFails
      PROVE  UNCHANGED Outbox!mvars
  BY <1>8, <1>9 DEF SenderLoop, SenderSkip, SenderPick, SenderPassEnds,
                    SenderSocket, SendFails, Looking, Sending, NextIndex
<1>10. ASSUME spc = "send", spc' = "erase", UNCHANGED <<sendBuffer, idx>>
       PROVE  /\ idx \in Services /\ Unsent[idx] # <<>>
              /\ Head(Unsent[idx]) = smsg
              /\ Unsent' = [Unsent EXCEPT ![idx] = Tail(@)]
  BY <1>10 DEF Unsent, HoldsFront
<1>11. ASSUME NEW c \in Conns, SendReaches(c)
       PROVE  Outbox!MNext
  <2>1. spc = "send" /\ spc' = "erase" /\ UNCHANGED <<sendBuffer, idx>>
    BY <1>11 DEF SendReaches, Sending
  <2>2. Outbox!Deliver(idx, c)
    BY <1>10, <1>11, <2>1 DEF SendReaches, Outbox!Deliver
  <2>. QED
    BY <1>10, <2>1, <2>2 DEF Outbox!MNext
<1>12. ASSUME NEW c \in Conns, SendToClosedPeer(c)
       PROVE  [Outbox!MNext]_(Outbox!mvars)
  <2>1. CASE spc' = "erase"
    <3>1. spc = "send" /\ UNCHANGED <<sendBuffer, idx, delivered>>
      BY <1>12, <2>1 DEF SendToClosedPeer, Sending, NextIndex
    <3>2. Outbox!Lose(idx)
      BY <1>10, <2>1, <3>1 DEF Outbox!Lose
    <3>. QED
      BY <1>10, <2>1, <3>1, <3>2 DEF Outbox!MNext
  <2>2. CASE spc' # "erase"
    BY <1>8, <1>12, <2>2 DEF SendToClosedPeer, Sending
  <2>. QED
    BY <2>1, <2>2
<1>13. ASSUME SenderErase
       PROVE  UNCHANGED Outbox!mvars
  BY <1>13 DEF SenderErase, Sending, EraseFront, NextIndex, Unsent,
               Outbox!mvars
<1>14. ASSUME UNCHANGED vars
       PROVE  UNCHANGED Outbox!mvars
  BY <1>1, <1>14 DEF vars, outVars
<1>. QED
  BY <1>2, <1>3, <1>4, <1>5, <1>6, <1>7, <1>9, <1>11, <1>12, <1>13, <1>14
     DEF Next, MessagesStep, SenderStep

(* ServiceLink's outgoing side implements Mailbox: for every service the    *)
(* messages handed to SendData leave once each, in the order of the calls.  *)
THEOREM OutboxRefinement == Spec => OutboxSpec
<1>1. IInv /\ [Next]_vars => [Outbox!MNext]_(Outbox!mvars)
  BY OutboxStep
<1>. QED
  BY <1>1, OutboxInit, Invariance, PTL DEF Spec, OutboxSpec, Outbox!MSpec
==============================================================================
