------------------------ MODULE ServiceLinkGuarantees ------------------------
(***************************************************************************)
(* Theorems about ServiceLink as its services see it: what the lock cycle  *)
(* does to all of them, and what auth's queue may hold.                    *)
(***************************************************************************)
EXTENDS ServiceLinkSlotProofs

(* socketMutex is held over more than one step only while auth's two        *)
(* settings are queued.                                                     *)
Registering ==
  /\ mpc \in {"sendDb", "sendPort"}
  /\ msg.kind = "CONNECT" /\ Svc[msg.conn] = AuthId

(* A process that has ended did not end in the middle of a scan.            *)
LockInv ==
  /\ socketLock <=> mpc \in {"sendDb", "sendPort"}
  /\ mpc \in {"sendDb", "sendPort"} => Registering
  /\ fate # "up" => spc \in {"send", "done"}

LEMMA LockInit == Init => LockInv
BY DEF Init, LockInv

LEMMA LockStep == IInv /\ LockInv /\ [Next]_vars => LockInv'
<1>. SUFFICES ASSUME IInv, LockInv, [Next]_vars PROVE LockInv'
  OBVIOUS
<1>. USE DEF LockInv, Registering
<1>1. ASSUME UNCHANGED <<socketLock, mpc, msg, spc, fate>> PROVE LockInv'
  BY <1>1
<1>2. ASSUME NEW c \in Conns,
             \/ PeerClose(c) \/ Accept(c) \/ HandlerStep(c)
             \/ HandlerAdmits(c) \/ HandlerRefuses(c)
      PROVE  LockInv'
  BY <1>1, <1>2 DEF PeerClose, Accept, HandlerStep, HandlerStart, HandlerEof,
       HandlerPush, HandlerDec, HandlerClose, HandlerAdmits, HandlerRefuses,
       Leave, PushMessage, OnlyHandler, inVars, outVars, envVars
<1>3. CASE AdminStop \/ NotifyConnection \/ StopTimer \/ AcceptorStep
             \/ SpuriousWakeup \/ UNCHANGED vars
  BY <1>1, <1>3 DEF AdminStop, NotifyConnection, StopTimer, OnlyAdmin,
       AcceptorStep, AcceptorLock, AcceptorSleep, SelectTimeout,
       SpuriousWakeup, vars, inVars, outVars, envVars
<1>4. CASE MainReturns
  BY <1>4 DEF MainReturns, ThreadsDone, OnlyAdmin, inVars, outVars
<1>5. CASE MessagesLoop \/ MessagesPop \/ HandleDisconnect \/ HandleUnknown
  BY <1>5 DEF MessagesLoop, MessagesPop, HandleDisconnect, HandleUnknown,
       Handled, Processing, OnlyMessages, envVars
<1>6. CASE HandleConnect
  BY <1>6 DEF HandleConnect, GetsSettings, Handled, Processing, OnlyMessages,
       envVars
<1>7. CASE SendDbConnString \/ SendPort
  BY <1>7 DEF SendDbConnString, SendPort, Handled, Processing, OnlyMessages,
       envVars
<1>8. CASE SenderStep
  <2>1. fate = "up" /\ UNCHANGED <<socketLock, mpc, msg>>
    BY <1>8 DEF SenderStep, SenderLoop, SenderSkip, SenderPick,
         SenderPassEnds, SenderSocket, SendReaches, SendToClosedPeer,
         SendFails, SenderErase, Looking, Sending, OnlySender, inVars
  <2>2. fate' # "system_error"
    BY SenderStepInv DEF IInv, TypeInv, SenderInv
  <2>3. fate' = "up" \/ (spc' = spc /\ spc = "send")
    BY <1>8, <2>1, <2>2 DEF SenderStep, SenderLoop, SenderSkip, SenderPick,
         SenderPassEnds, SenderSocket, SendReaches, SendToClosedPeer,
         SendFails, SenderErase, Looking, Sending, OnlySender
  <2>. QED
    BY <2>1, <2>3
<1>. QED
  BY <1>2, <1>3, <1>4, <1>5, <1>6, <1>7, <1>8 DEF Next, MessagesStep

LEMMA LockInvariance == Spec => []LockInv
BY LockInit, LockStep, Invariance, PTL DEF Spec
------------------------------------------------------------------------------
(***************************************************************************)
(* The lock cycle.                                                         *)
(***************************************************************************)

(* The two mutexes are only ever taken against each other while auth is     *)
(* being registered: with any other service the threads do not deadlock.    *)
OnlyAuthDeadlocks == LockCycle => Registering

(* By LockInv: the message thread holds socketMutex from one step to the     *)
(* next only where it queues auth's settings.                                *)
THEOREM DeadlockIsAuths == Spec => []OnlyAuthDeadlocks
<1>1. LockInv => OnlyAuthDeadlocks
  BY DEF LockInv, OnlyAuthDeadlocks, LockCycle
<1>. QED
  BY <1>1, LockInvariance, PTL

(* What the services could notice of the control process.                   *)
Service == <<fate, nchunks, serviceSockets, owner, sendBuffer, delivered, mpc, msg, spc>>

(* Once in the cycle the process receives nothing from any service,         *)
(* registers and releases none, queues nothing and sends nothing; neither   *)
(* thread takes a step.                                                     *)
CycleFreezes == [][LockCycle => LockCycle' /\ UNCHANGED Service]_vars

LEMMA CycleStep ==
  IInv /\ LockInv /\ LockCycle /\ [Next]_vars => LockCycle' /\ UNCHANGED Service
<1>. SUFFICES ASSUME IInv, LockInv, LockCycle, [Next]_vars
              PROVE  LockCycle' /\ UNCHANGED Service
  OBVIOUS
<1>1. /\ socketLock /\ sendBufLock /\ spc = "scan" /\ idx < MAX_CONNECTIONS
      /\ mpc \in {"sendDb", "sendPort"} /\ fate = "up" /\ idx # MAX_CONNECTIONS
  BY ConstantsAssumption
     DEF LockCycle, LockInv, IInv, TypeInv, TypeOK, OutTypeOK
<1>2. ASSUME UNCHANGED <<Service, socketLock, sendBufLock, idx>>
      PROVE  LockCycle' /\ UNCHANGED Service
  BY <1>1, <1>2 DEF LockCycle, Service
<1>3. ASSUME NEW c \in Conns, PeerClose(c) \/ Accept(c)
      PROVE  UNCHANGED <<Service, socketLock, sendBufLock, idx>>
  BY <1>3 DEF PeerClose, Accept, handlerVars, inVars, outVars, Service
<1>4. ASSUME NEW c \in Conns, HandlerStep(c)
      PROVE  UNCHANGED <<Service, socketLock, sendBufLock, idx>>
  BY <1>4 DEF HandlerStep, HandlerStart, HandlerEof, HandlerPush, HandlerDec,
       HandlerClose, Leave, PushMessage, OnlyHandler, envVars, inVars, outVars,
       Service
<1>5. ASSUME NEW c \in Conns PROVE ~HandlerAdmits(c) /\ ~HandlerRefuses(c)
  BY <1>1 DEF HandlerAdmits, HandlerRefuses, Receive
<1>6. ASSUME AdminStop \/ NotifyConnection \/ StopTimer \/ AcceptorStep
               \/ SpuriousWakeup \/ UNCHANGED vars
      PROVE  UNCHANGED <<Service, socketLock, sendBufLock, idx>>
  BY <1>6 DEF AdminStop, NotifyConnection, StopTimer, OnlyAdmin, AcceptorStep,
       AcceptorLock, AcceptorSleep, SelectTimeout, SpuriousWakeup, vars,
       envVars, handlerVars, inVars, outVars, Service
<1>7. ~MainReturns
  BY <1>1 DEF MainReturns, ThreadsDone
<1>8. ~MessagesStep
  BY <1>1 DEF MessagesStep, MessagesLoop, MessagesPop, HandleConnect,
       SendDbConnString, SendPort, HandleDisconnect, HandleUnknown,
       Processing, SendData
<1>9. ~SenderStep
  BY <1>1 DEF SenderStep, SenderLoop, SenderSkip, SenderPick, SenderPassEnds,
       SenderSocket, SendReaches, SendToClosedPeer, SendFails, SenderErase,
       Looking, Sending
<1>. QED
  BY <1>2, <1>3, <1>4, <1>5, <1>6, <1>7, <1>8, <1>9 DEF Next

(* Every thread that could change something needs one of the two mutexes.    *)
THEOREM DeadlockFreezes == Spec => CycleFreezes
<1>1. IInv /\ LockInv /\ [Next]_vars
        => [LockCycle => LockCycle' /\ UNCHANGED Service]_vars
  BY CycleStep
<1>. QED
  BY <1>1, Invariance, LockInvariance, PTL DEF Spec, CycleFreezes

(* The cycle is never left, and with it the process does not end: however   *)
(* often the administrator presses ENTER, main joins threads that are not   *)
(* done.  This is why StopExits fails, for every instance.                  *)
CycleIsForEver == LockCycle => [](fate = "up" /\ ~ThreadsDone)

(* From DeadlockFreezes, and that neither of the two threads is done.        *)
THEOREM DeadlockIsForEver == Spec => []CycleIsForEver
<1>1. IInv /\ LockInv /\ LockCycle /\ [Next]_vars => LockCycle'
  BY CycleStep
<1>2. LockInv /\ LockCycle => fate = "up" /\ ~ThreadsDone
  BY DEF LockInv, LockCycle, ThreadsDone
<1>. QED
  BY <1>1, <1>2, Invariance, LockInvariance, PTL DEF Spec, CycleIsForEver
------------------------------------------------------------------------------
(***************************************************************************)
(* What auth's queue holds.                                                *)
(***************************************************************************)
Alternates(q) == \A k \in 1 .. Len(q) - 1 : q[k] # q[k + 1]

LEMMA AppendAlternates ==
  ASSUME NEW q \in Seq(Settings), NEW s \in Settings, Alternates(q),
         q # <<>> => q[Len(q)] # s
  PROVE  /\ Append(q, s) # <<>> /\ Append(q, s)[Len(Append(q, s))] = s
         /\ Alternates(Append(q, s))
<1>. DEFINE n == Len(q)  a == Append(q, s)
<1>1. /\ n \in Nat /\ Len(a) = n + 1 /\ a[n + 1] = s
      /\ \A k \in 1 .. n : a[k] = q[k]
  BY AppendProperties, LenProperties
<1>2. a # <<>>
  BY AppendProperties
<1>3. n # 0 => q # <<>>
  BY EmptySeq
<1>. HIDE DEF a
<1>4. ASSUME NEW k \in 1 .. n PROVE a[k] # a[k + 1]
  <2>1. CASE k = n
    BY <1>1, <1>3, <2>1
  <2>2. CASE k # n
    <3>1. k \in 1 .. n - 1 /\ k + 1 \in 1 .. n
      BY <1>1, <2>2
    <3>. QED
      BY <1>1, <3>1 DEF Alternates
  <2>. QED
    BY <2>1, <2>2
<1>5. Len(a) - 1 = n
  BY <1>1
<1>6. Alternates(a)
  BY <1>4, <1>5 DEF Alternates
<1>. QED
  BY <1>1, <1>2, <1>6 DEF a

LEMMA TailAlternates ==
  ASSUME NEW q \in Seq(Settings), q # <<>>, Alternates(q)
  PROVE  /\ Alternates(Tail(q))
         /\ Tail(q) # <<>> => Tail(q)[Len(Tail(q))] = q[Len(q)]
<1>. DEFINE n == Len(q)  t == Tail(q)
<1>1. /\ n \in Nat \ {0} /\ Len(t) = n - 1 /\ t \in Seq(Settings)
      /\ \A k \in 1 .. n - 1 : t[k] = q[k + 1]
  BY HeadTailProperties, EmptySeq, LenProperties
<1>2. t # <<>> => n - 1 # 0
  BY <1>1, EmptySeq
<1>. HIDE DEF t
<1>3. ASSUME NEW k \in 1 .. n - 2 PROVE t[k] # t[k + 1]
  <2>1. k \in 1 .. n - 1 /\ k + 1 \in 1 .. n - 1
    BY <1>1
  <2>. QED
    BY <1>1, <2>1 DEF Alternates
<1>4. Len(t) - 1 = n - 2
  BY <1>1
<1>5. Alternates(t)
  BY <1>3, <1>4 DEF Alternates
<1>6. t # <<>> => t[n - 1] = q[n - 1 + 1] /\ n - 1 + 1 = n
  BY <1>1, <1>2
<1>. QED
  BY <1>1, <1>5, <1>6 DEF t

(* Whatever of several registrations is queued and however much has been    *)
(* sent: auth's queue alternates the two settings, and ends with the port   *)
(* except while a registration has queued only its connection string.  So   *)
(* what an auth process that goes away leaves behind for the next one is    *)
(* one of the queues ClientServiceLink starts from.                         *)
SettingsAlternate ==
  LET q == sendBuffer[AuthId]
  IN  /\ Alternates(q)
      /\ q # <<>> =>
           q[Len(q)] = IF mpc = "sendPort" THEN "dbConnString" ELSE "port"

LEMMA SettingsStep ==
  IInv /\ LockInv /\ SettingsAlternate /\ [Next]_vars => SettingsAlternate'
<1>. SUFFICES ASSUME IInv, LockInv, SettingsAlternate, [Next]_vars
              PROVE  SettingsAlternate'
  OBVIOUS
<1>. DEFINE q == sendBuffer[AuthId]
<1>0. /\ q \in Seq(Settings) /\ AuthId \in Services /\ Alternates(q)
      /\ sendBuffer \in [Services -> Seq(Settings)]
      /\ q # <<>> => q[Len(q)] = IF mpc = "sendPort" THEN "dbConnString" ELSE "port"
  BY ConstantFacts DEF SettingsAlternate, IInv, TypeInv, TypeOK, OutTypeOK
<1>1. ASSUME UNCHANGED sendBuffer, mpc' = "sendPort" <=> mpc = "sendPort"
      PROVE  SettingsAlternate'
  BY <1>0, <1>1 DEF SettingsAlternate, Alternates
<1>2. CASE SendDbConnString
  <2>1. /\ mpc = "sendDb" /\ mpc' = "sendPort" /\ Svc[msg.conn] = AuthId
        /\ sendBuffer' = [sendBuffer EXCEPT ![AuthId] = Append(q, "dbConnString")]
    BY <1>2 DEF SendDbConnString, SendData, Processing, LockInv, Registering
  <2>2. q # <<>> => q[Len(q)] # "dbConnString"
    BY <1>0, <2>1
  <2>3. sendBuffer'[AuthId] = Append(q, "dbConnString")
    BY <1>0, <2>1
  <2>. HIDE DEF q
  <2>. QED
    BY <1>0, <2>1, <2>2, <2>3, AppendAlternates DEF SettingsAlternate, Settings
<1>3. CASE SendPort
  <2>1. /\ mpc = "sendPort" /\ mpc' = "loop" /\ Svc[msg.conn] = AuthId
        /\ sendBuffer' = [sendBuffer EXCEPT ![AuthId] = Append(q, "port")]
    BY <1>3 DEF SendPort, SendData, Processing, Handled, LockInv, Registering
  <2>2. q # <<>> => q[Len(q)] # "port"
    BY <1>0, <2>1
  <2>3. sendBuffer'[AuthId] = Append(q, "port")
    BY <1>0, <2>1
  <2>. HIDE DEF q
  <2>. QED
    BY <1>0, <2>1, <2>2, <2>3, AppendAlternates DEF SettingsAlternate, Settings
<1>4. CASE SenderErase
  <2>1. /\ q # <<>> /\ UNCHANGED mpc
        /\ sendBuffer' = [sendBuffer EXCEPT ![AuthId] = Tail(q)]
    BY <1>4 DEF SenderErase, Sending, EraseFront, OnlySender, inVars, IInv, SenderInv,
                HoldsFront
  <2>2. sendBuffer'[AuthId] = Tail(q)
    BY <1>0, <2>1
  <2>. HIDE DEF q
  <2>. QED
    BY <1>0, <2>1, <2>2, TailAlternates DEF SettingsAlternate
<1>5. ASSUME NEW c \in Conns,
             \/ PeerClose(c) \/ Accept(c) \/ HandlerStep(c)
             \/ HandlerAdmits(c) \/ HandlerRefuses(c)
      PROVE  SettingsAlternate'
  BY <1>1, <1>5 DEF PeerClose, Accept, HandlerStep, HandlerStart, HandlerEof,
       HandlerPush, HandlerDec, HandlerClose, HandlerAdmits, HandlerRefuses,
       Leave, PushMessage, OnlyHandler, inVars, outVars
<1>6. CASE AdminStop \/ NotifyConnection \/ StopTimer \/ MainReturns \/ AcceptorStep
             \/ SpuriousWakeup \/ UNCHANGED vars
  BY <1>1, <1>6 DEF AdminStop, NotifyConnection, StopTimer, MainReturns, OnlyAdmin,
       AcceptorStep, AcceptorLock, AcceptorSleep, SelectTimeout,
       SpuriousWakeup, vars, inVars, outVars
<1>7. CASE MessagesLoop \/ MessagesPop \/ HandleConnect \/ HandleDisconnect
             \/ HandleUnknown
  BY <1>1, <1>7 DEF MessagesLoop, MessagesPop, HandleConnect, HandleDisconnect,
       HandleUnknown, Handled, Processing
<1>8. CASE SenderStep /\ ~SenderErase
  BY <1>1, <1>8 DEF SenderStep, SenderLoop, SenderSkip, SenderPick, SenderPassEnds,
       SenderSocket, SendReaches, SendToClosedPeer, SendFails, OnlySender, inVars
<1>. QED
  BY <1>2, <1>3, <1>4, <1>5, <1>6, <1>7, <1>8 DEF Next, MessagesStep

(* By the invariant that follows a registration from one setting to the      *)
(* other.                                                                    *)
THEOREM SettingsInOrder == Spec => []SettingsAlternate
<1>1. Init => SettingsAlternate
  <2>1. ASSUME Init PROVE sendBuffer[AuthId] = <<>>
    BY <2>1, ConstantFacts DEF Init
  <2>2. Len(<<>>) = 0 /\ 1 .. 0 - 1 = {}
    OBVIOUS
  <2>. QED
    BY <2>1, <2>2 DEF SettingsAlternate, Alternates
<1>. QED
  BY <1>1, SettingsStep, Invariance, LockInvariance, PTL DEF Spec
==============================================================================
