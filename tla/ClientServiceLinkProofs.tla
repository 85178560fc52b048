----------------------- MODULE ClientServiceLinkProofs -----------------------
(***************************************************************************)
(* Theorems about ClientServiceLink for any number of reconnects, log      *)
(* lines and settings left over from an earlier auth process.              *)
(***************************************************************************)
EXTENDS ClientServiceLink, FiniteSetTheorems, SequenceTheorems, TLAPS

(* Every connection was made with a socket of its own.                      *)
SocketPerConnection ==
  nconn <= sockets /\ (mpc = "connect" => nconn < sockets)

(* The one connected descriptor is the one sock holds, between the connect  *)
(* and the close.                                                           *)
OnlySockConnected ==
  \A f \in Fds : fd[f] > 0 => f = sock /\ mpc \in {"queue", "recv", "close"}

(* From the copy to the erase the message stays the front of the queue.     *)
HoldsFront ==
  spc \in {"sock", "send", "erase"} =>
    sendBuffer # <<>> /\ Head(sendBuffer) = smsg

IInv == TypeOK /\ SocketPerConnection /\ OnlySockConnected /\ HoldsFront
------------------------------------------------------------------------------
(***************************************************************************)
(* The inductive invariant, one lemma for each part of Next.               *)
(***************************************************************************)
LEMMA Initially == Init => IInv
<1>. SUFFICES ASSUME Init PROVE IInv
  OBVIOUS
<1>. USE BoundsAssumption DEF Init, Fds, Connections
<1>1. MainTypeOK
  BY DEF MainTypeOK, Free
<1>2. SenderTypeOK
  BY EmptySeq DEF SenderTypeOK, None
<1>3. ControlTypeOK
  <2>1. ASSUME NEW n \in 0 .. MaxLeftOver PROVE LeftOver(n) \in Seq(Settings)
    <3>1. n \in Nat
      OBVIOUS
    <3>. QED
      BY <3>1, IsASeq DEF LeftOver, Settings
  <2>2. owed \in [{"auth"} -> Seq(Settings)]
    BY <2>1
  <2>. QED
    BY <2>2, EmptySeq DEF ControlTypeOK
<1>4. AuthTypeOK
  BY EmptySeq DEF AuthTypeOK
<1>5. SocketPerConnection /\ OnlySockConnected /\ HoldsFront
  BY DEF SocketPerConnection, OnlySockConnected, HoldsFront, Free
<1>. QED
  BY <1>1, <1>2, <1>3, <1>4, <1>5 DEF IInv, TypeOK

LEMMA ControlKeeps ==
  ASSUME IInv, ControlStep
  PROVE  IInv'
<1>. USE DEF IInv, TypeOK, OnlyControl
<1>1. UNCHANGED <<fate, mainVars, sendBuffer, senderVars, inVars, authVars, logs>>
  BY DEF ControlStep, ControlCloses, ControlRegisters, ControlSends
<1>2. SenderTypeOK' /\ AuthTypeOK' /\ SocketPerConnection'
         /\ OnlySockConnected' /\ HoldsFront'
  BY <1>1 DEF mainVars, senderVars, inVars, authVars, SenderTypeOK, AuthTypeOK,
              SocketPerConnection, OnlySockConnected, HoldsFront
<1>3. MainTypeOK'
  BY <1>1 DEF ControlStep, ControlCloses, ControlRegisters, ControlSends,
              mainVars, MainTypeOK
<1>4. ControlTypeOK'
  <2>. USE DEF ControlTypeOK
  <2>1. CASE ControlCloses
    BY <2>1 DEF ControlCloses, ctrlVars
  <2>2. CASE ControlRegisters
    <3>1. PICK m \in Settings : Control!Enqueue("auth", m)
      BY <2>2 DEF ControlRegisters, Settings
    <3>2. Append(owed["auth"], m) \in Seq(Settings)
      BY AppendProperties
    <3>. QED
      BY <2>2, <3>1, <3>2 DEF ControlRegisters, Control!Enqueue
  <2>3. CASE ControlSends
    <3>1. owed["auth"] # <<>>
      BY <2>3 DEF ControlSends, Control!Lose, Control!Deliver
    <3>2. /\ Head(owed["auth"]) \in Settings
          /\ Tail(owed["auth"]) \in Seq(Settings)
      BY <3>1, HeadTailProperties
    <3>3. CASE Control!Lose("auth")
      BY <2>3, <3>2, <3>3 DEF ControlSends, Control!Lose
    <3>4. ASSUME NEW c \in Connections, Control!Deliver("auth", c)
          PROVE  ControlTypeOK'
      <4>1. Append(given[c], Head(owed["auth"])) \in Seq(Settings)
        BY <3>2, AppendProperties
      <4>. QED
        BY <2>3, <3>2, <3>4, <4>1 DEF ControlSends, Control!Deliver
    <3>. QED
      BY <2>3, <3>3, <3>4 DEF ControlSends
  <2>. QED
    BY <2>1, <2>2, <2>3 DEF ControlStep
<1>. QED
  BY <1>2, <1>3, <1>4

LEMMA PushKeeps ==
  ASSUME IInv, NEW m \in Outgoing, Push(m), UNCHANGED senderVars
  PROVE  SenderTypeOK' /\ HoldsFront'
<1>1. /\ Append(sendBuffer, m) \in Seq(Outgoing)
      /\ Append(sendBuffer, m) # <<>>
      /\ sendBuffer # <<>> => Head(Append(sendBuffer, m)) = Head(sendBuffer)
  BY AppendProperties, HeadTailAppend DEF IInv, TypeOK, SenderTypeOK
<1>. QED
  BY <1>1 DEF IInv, TypeOK, SenderTypeOK, HoldsFront, Push, senderVars

LEMMA MainKeeps ==
  ASSUME IInv, MainStep
  PROVE  IInv'
<1>. USE BoundsAssumption DEF IInv, TypeOK, MainTypeOK, SocketPerConnection,
         OnlySockConnected, Fds, Connections, Free, Fresh, OnlyMain, Main
<1>1. ControlTypeOK'
  BY DEF MainStep, CreateSocket, ConnectSucceeds, ConnectFails, QueueConnect,
         Receive, ReceiveFails, Disconnect, ctrlVars, ControlTypeOK
<1>2. ASSUME UNCHANGED <<sendBuffer, senderVars>>
      PROVE  SenderTypeOK' /\ HoldsFront'
  BY <1>2 DEF senderVars, SenderTypeOK, HoldsFront
<1>3. ASSUME UNCHANGED <<authVars, logs, inVars>>
      PROVE  AuthTypeOK'
  BY <1>3 DEF authVars, inVars, AuthTypeOK
<1>4. CASE CreateSocket
  BY <1>1, <1>2, <1>3, <1>4 DEF CreateSocket
<1>5. CASE ConnectSucceeds
  <2>1. AuthTypeOK'
    BY <1>5 DEF ConnectSucceeds, authVars, AuthTypeOK
  <2>. QED
    BY <1>1, <1>2, <1>5, <2>1 DEF ConnectSucceeds
<1>6. CASE ConnectFails
  BY <1>1, <1>2, <1>3, <1>6 DEF ConnectFails
<1>7. CASE QueueConnect
  <2>1. SenderTypeOK' /\ HoldsFront'
    BY <1>7, PushKeeps DEF QueueConnect, Outgoing
  <2>. QED
    BY <1>1, <1>3, <1>7, <2>1 DEF QueueConnect
<1>8. CASE Receive
  <2>1. PICK n \in nread + 1 .. Len(given[nconn]) :
          /\ messageBuffer' =
               Append(messageBuffer, SubSeq(given[nconn], nread + 1, n))
          /\ merged' = (merged \/ n > nread + 1)
          /\ nread' = n
    BY <1>8 DEF Receive
  <2>2. given[nconn] \in Seq(Settings) /\ nread \in Nat
    BY <1>8 DEF Receive, ControlTypeOK, AuthTypeOK
  <2>3. \A i \in nread + 1 .. n : given[nconn][i] \in Settings
    BY <2>1, <2>2, LenProperties, ElementOfSeq
  <2>4. SubSeq(given[nconn], nread + 1, n) \in Seq(Settings) \ {<<>>}
    <3>1. nread + 1 \in Int /\ n \in Int /\ nread + 1 <= n
      BY <2>1, <2>2, LenProperties
    <3>2. SubSeq(given[nconn], nread + 1, n) \in Seq(Settings)
      BY <2>3, <3>1, SubSeqProperties
    <3>3. Len(SubSeq(given[nconn], nread + 1, n)) = n - nread
      BY <2>2, <2>3, <3>1, SubSeqProperties
    <3>. QED
      BY <2>2, <3>1, <3>2, <3>3, EmptySeq
  <2>5. messageBuffer' \in Seq(Seq(Settings) \ {<<>>})
    BY <2>1, <2>4, AppendProperties DEF AuthTypeOK
  <2>6. nread' \in Nat
    BY <2>1, <2>2, LenProperties
  <2>7. AuthTypeOK'
    BY <1>8, <2>1, <2>5, <2>6 DEF Receive, authVars, AuthTypeOK
  <2>. QED
    BY <1>1, <1>2, <1>8, <2>7 DEF Receive
<1>9. CASE ReceiveFails
  BY <1>1, <1>2, <1>3, <1>9 DEF ReceiveFails
<1>10. CASE Disconnect
  BY <1>1, <1>2, <1>3, <1>10 DEF Disconnect
<1>. QED
  BY <1>4, <1>5, <1>6, <1>7, <1>8, <1>9, <1>10 DEF MainStep

LEMMA SenderKeeps ==
  ASSUME IInv, SenderStep
  PROVE  IInv'
<1>. USE DEF IInv, TypeOK, OnlySender, Sender
<1>1. UNCHANGED <<mainVars, peer, inVars, authVars, ctrlVars, logs>>
  BY DEF SenderStep, Look, Pick, Rest, CopySocket, SendReaches,
         SendToClosedPeer, SendFails, SendKills, Erase
<1>2. ControlTypeOK' /\ AuthTypeOK' /\ SocketPerConnection'
        /\ OnlySockConnected'
  BY <1>1 DEF mainVars, inVars, authVars, ctrlVars, ControlTypeOK, AuthTypeOK,
              SocketPerConnection, OnlySockConnected
<1>3. fate' \in {"up", "sigpipe"}
  BY DEF SenderStep, Look, Pick, Rest, CopySocket, SendReaches,
         SendToClosedPeer, SendFails, SendKills, Erase, MainTypeOK
<1>4. MainTypeOK'
  BY <1>1, <1>3 DEF mainVars, MainTypeOK
<1>5. SenderTypeOK' /\ HoldsFront'
  <2>. USE DEF SenderTypeOK, HoldsFront
  <2>1. CASE Look
    BY <2>1 DEF Look, MainTypeOK
  <2>2. CASE Pick
    <3>1. Head(sendBuffer) \in Outgoing /\ sendBuffer # <<>>
      BY <2>2, HeadTailProperties DEF Pick, HasWork
    <3>. QED
      BY <2>2, <3>1 DEF Pick
  <2>3. CASE Rest
    BY <2>3 DEF Rest
  <2>4. CASE CopySocket
    BY <2>4 DEF CopySocket, MainTypeOK, Fds
  <2>5. CASE SendReaches
    <3>1. PICK c \in Connections : sent' = [sent EXCEPT ![c] = Append(@, smsg)]
      BY <2>5 DEF SendReaches
    <3>2. smsg \in Outgoing /\ Append(sent[c], smsg) \in Seq(Outgoing)
      BY <2>5, AppendProperties DEF SendReaches
    <3>. QED
      BY <2>5, <3>1, <3>2 DEF SendReaches
  <2>6. CASE SendToClosedPeer \/ SendFails \/ SendKills
    BY <2>6 DEF SendToClosedPeer, SendFails, SendKills
  <2>7. CASE Erase
    <3>1. Tail(sendBuffer) \in Seq(Outgoing)
      BY <2>7, HeadTailProperties DEF Erase
    <3>. QED
      BY <2>7, <3>1 DEF Erase
  <2>. QED
    BY <2>1, <2>2, <2>3, <2>4, <2>5, <2>6, <2>7 DEF SenderStep
<1>. QED
  BY <1>2, <1>4, <1>5

LEMMA AuthKeeps ==
  ASSUME IInv, HandleMessage \/ AuthStarts \/ LogError
  PROVE  IInv'
<1>. USE DEF IInv, TypeOK, OnlyAuth
<1>1. UNCHANGED <<fate, mainVars, peer, senderVars, nread, merged, ctrlVars>>
  BY DEF HandleMessage, AuthStarts, LogError
<1>2. MainTypeOK' /\ ControlTypeOK' /\ SocketPerConnection'
        /\ OnlySockConnected'
  BY <1>1 DEF mainVars, ctrlVars, MainTypeOK, ControlTypeOK,
              SocketPerConnection, OnlySockConnected
<1>3. SenderTypeOK' /\ HoldsFront'
  <2>1. CASE LogError
    BY <1>1, <2>1, PushKeeps DEF LogError, Outgoing
  <2>2. CASE HandleMessage \/ AuthStarts
    BY <1>1, <2>2 DEF HandleMessage, AuthStarts, senderVars, SenderTypeOK,
                      HoldsFront
  <2>. QED
    BY <2>1, <2>2
<1>4. AuthTypeOK'
  <2>. USE DEF AuthTypeOK
  <2>1. CASE HandleMessage
    <3>1. Tail(messageBuffer) \in Seq(Seq(Settings) \ {<<>>})
      BY <2>1, HeadTailProperties DEF HandleMessage
    <3>2. received' \in [Settings -> BOOLEAN]
      BY <2>1 DEF HandleMessage
    <3>3. db' \in {"unset", "whole", "merged"}
      BY <2>1 DEF HandleMessage
    <3>. QED
      BY <1>1, <2>1, <3>1, <3>2, <3>3 DEF HandleMessage
  <2>2. CASE AuthStarts
    BY <1>1, <2>2 DEF AuthStarts
  <2>3. CASE LogError
    BY <1>1, <2>3 DEF LogError, authVars
  <2>. QED
    BY <2>1, <2>2, <2>3
<1>. QED
  BY <1>2, <1>3, <1>4

LEMMA Invariance == Spec => []IInv
<1>1. ASSUME IInv, UNCHANGED vars PROVE IInv'
  BY <1>1 DEF IInv, TypeOK, MainTypeOK, SenderTypeOK, ControlTypeOK,
              AuthTypeOK, SocketPerConnection, OnlySockConnected, HoldsFront,
              vars, mainVars, senderVars, inVars, authVars, ctrlVars
<1>2. IInv /\ [Next]_vars => IInv'
  BY <1>1, ControlKeeps, MainKeeps, SenderKeeps, AuthKeeps DEF Next
<1>. QED
  BY <1>2, Initially, PTL DEF Spec

(* Every variable keeps its type: the sender uses no descriptor it has not  *)
(* tested (line 111) and no message it has not taken from the queue.        *)
THEOREM TypeCorrect == Spec => []TypeOK
<1>1. IInv => TypeOK
  BY DEF IInv
<1>. QED
  BY <1>1, Invariance, PTL

(* The service has at most one connected descriptor, whatever connects have *)
(* failed before: it takes two processes of a service to have two.          *)
OneConnectionAtATime ==
  \A f, g \in Fds : fd[f] > 0 /\ fd[g] > 0 => f = g

(* However many connects fail or connections end, a service never has two   *)
(* connections at once.                                                     *)
THEOREM OneConnection == Spec => []OneConnectionAtATime
<1>1. IInv => OneConnectionAtATime
  BY DEF IInv, OnlySockConnected, OneConnectionAtATime
<1>. QED
  BY <1>1, Invariance, PTL
------------------------------------------------------------------------------
(***************************************************************************)
(* The service's queue implements Mailbox.                                 *)
(***************************************************************************)
LEMMA OutboxInit == Init => Outbox!MInit
BY DEF Init, Outbox!MInit, Unsent

LEMMA PushAppends ==
  ASSUME IInv, NEW m \in Outgoing, Push(m), UNCHANGED senderVars
  PROVE  Unsent' = [Unsent EXCEPT !["control"] = Append(@, m)]
<1>. USE DEF IInv, TypeOK, SenderTypeOK, senderVars
<1>1. CASE spc # "erase"
  BY <1>1 DEF Unsent, Push
<1>2. CASE spc = "erase"
  <2>1. Tail(Append(sendBuffer, m)) = Append(Tail(sendBuffer), m)
    BY <1>2, HeadTailAppend DEF HoldsFront
  <2>. QED
    BY <1>2, <2>1 DEF Unsent, Push
<1>. QED
  BY <1>1, <1>2

LEMMA PushEnqueues ==
  ASSUME IInv, NEW m \in Outgoing, Push(m), UNCHANGED senderVars
  PROVE  Outbox!MNext
<1>1. sent' = sent
  BY DEF senderVars
<1>. QED
  BY <1>1, PushAppends DEF Outbox!MNext, Outbox!Enqueue

LEMMA OutboxStep ==
  ASSUME IInv, [Next]_vars
  PROVE  [Outbox!MNext]_(Outbox!mvars)
<1>. USE DEF IInv
<1>1. ASSUME UNCHANGED <<sendBuffer, senderVars>>
      PROVE  UNCHANGED Outbox!mvars
  BY <1>1 DEF Outbox!mvars, Unsent, senderVars
<1>2. CASE ControlStep
  BY <1>1, <1>2 DEF ControlStep, ControlCloses, ControlRegisters,
                    ControlSends, OnlyControl
<1>3. CASE MainStep
  <2>1. CASE QueueConnect
    BY <2>1, PushEnqueues DEF QueueConnect, OnlyMain, Outgoing
  <2>2. CASE ~QueueConnect
    BY <1>1, <1>3, <2>2 DEF MainStep, CreateSocket, ConnectSucceeds,
         ConnectFails, Receive, ReceiveFails, Disconnect, OnlyMain
  <2>. QED
    BY <2>1, <2>2
<1>4. CASE HandleMessage \/ AuthStarts
  BY <1>1, <1>4 DEF HandleMessage, AuthStarts, OnlyAuth
<1>5. CASE LogError
  BY <1>5, PushEnqueues DEF LogError, OnlyAuth, Outgoing
<1>6. ASSUME sendBuffer' = sendBuffer, sent' = sent,
             spc # "erase", spc' # "erase"
      PROVE  UNCHANGED Outbox!mvars
  BY <1>6 DEF Outbox!mvars, Unsent
<1>7. CASE Look \/ Pick \/ Rest \/ CopySocket \/ SendFails \/ SendKills
  BY <1>6, <1>7 DEF Look, Pick, Rest, CopySocket, SendFails, SendKills, Sender
<1>8. ASSUME spc = "send", spc' = "erase", sendBuffer' = sendBuffer
      PROVE  /\ Unsent["control"] # <<>> /\ Head(Unsent["control"]) = smsg
             /\ Unsent' = [Unsent EXCEPT !["control"] = Tail(@)]
  BY <1>8 DEF Unsent, HoldsFront
<1>9. CASE SendReaches
  <2>1. PICK c \in Connections : sent' = [sent EXCEPT ![c] = Append(@, smsg)]
    BY <1>9 DEF SendReaches
  <2>2. Outbox!Deliver("control", c)
    BY <1>8, <1>9, <2>1 DEF SendReaches, Sender, Outbox!Deliver
  <2>. QED
    BY <2>2 DEF Outbox!MNext
<1>10. CASE SendToClosedPeer
  <2>1. CASE spc' = "erase"
    <3>1. Outbox!Lose("control")
      BY <1>8, <1>10, <2>1 DEF SendToClosedPeer, Sender, Outbox!Lose
    <3>. QED
      BY <3>1 DEF Outbox!MNext
  <2>2. CASE spc' # "erase"
    BY <1>6, <1>10, <2>2 DEF SendToClosedPeer, Sender
  <2>. QED
    BY <2>1, <2>2
<1>11. CASE Erase
  BY <1>11 DEF Erase, Sender, Unsent, Outbox!mvars
<1>12. CASE UNCHANGED vars
  BY <1>1, <1>12 DEF vars
<1>. QED
  BY <1>2, <1>3, <1>4, <1>5, <1>7, <1>9, <1>10, <1>11, <1>12
     DEF Next, SenderStep

(* What a service queues reaches the control process in order and at most   *)
(* once, across any number of reconnects.                                   *)
THEOREM OutboxRefinement == Spec => OutboxSpec
<1>1. IInv /\ [Next]_vars => [Outbox!MNext]_(Outbox!mvars)
  BY OutboxStep
<1>. QED
  BY <1>1, OutboxInit, Invariance, PTL DEF Spec, OutboxSpec, Outbox!MSpec
------------------------------------------------------------------------------
(***************************************************************************)
(* Counting CONNECTs.                                                      *)
(***************************************************************************)
Positions(q) == {k \in 1 .. Len(q) : q[k] = "CONNECT"}

Sendings(s, last) ==
  {p \in (1 .. last) \X (1 .. MaxSockets + MaxLogs) :
     p[2] <= Len(s[p[1]]) /\ s[p[1]][p[2]] = "CONNECT"}

Waiting == Cardinality(Positions(Unsent["control"]))

Coming == IF mpc = "queue" THEN 1 ELSE 0

ConnectedIsLatest == \A f \in Fds : fd[f] > 0 => fd[f] = nconn

NothingBeforeConnect == \A c \in Connections : c > nconn => sent[c] = <<>>

(* Each connection made pays for one CONNECT, sent, queued or to be queued. *)
OnePerConnection == ConnectsSent(nconn) + Waiting + Coming <= nconn

EarlierOnes == \A c \in Connections : c < nconn => ConnectsSent(c) <= c

CountInv ==
  ConnectedIsLatest /\ NothingBeforeConnect /\ OnePerConnection /\ EarlierOnes

LEMMA SendingsFinite ==
  ASSUME NEW s, NEW last \in Nat
  PROVE  IsFiniteSet(Sendings(s, last)) /\ Cardinality(Sendings(s, last)) \in Nat
<1>1. IsFiniteSet((1 .. last) \X (1 .. MaxSockets + MaxLogs))
  <2>1. MaxSockets + MaxLogs \in Int
    BY BoundsAssumption
  <2>2. IsFiniteSet(1 .. last) /\ IsFiniteSet(1 .. MaxSockets + MaxLogs)
    BY <2>1, FS_Interval
  <2>. QED
    BY <2>2, FS_Product
<1>2. Sendings(s, last) \in SUBSET ((1 .. last) \X (1 .. MaxSockets + MaxLogs))
  BY DEF Sendings
<1>3. IsFiniteSet(Sendings(s, last))
  BY <1>1, <1>2, FS_Subset
<1>. QED
  BY <1>3, FS_CardinalityType

LEMMA PositionsFinite ==
  ASSUME NEW q \in Seq(Outgoing)
  PROVE  IsFiniteSet(Positions(q)) /\ Cardinality(Positions(q)) \in Nat
<1>1. IsFiniteSet(1 .. Len(q))
  BY LenProperties, FS_Interval
<1>2. Positions(q) \in SUBSET (1 .. Len(q))
  BY DEF Positions
<1>3. IsFiniteSet(Positions(q))
  BY <1>1, <1>2, FS_Subset
<1>. QED
  BY <1>3, FS_CardinalityType

LEMMA PositionsAppend ==
  ASSUME NEW q \in Seq(Outgoing), NEW m \in Outgoing
  PROVE  Cardinality(Positions(Append(q, m))) <=
           Cardinality(Positions(q)) + (IF m = "CONNECT" THEN 1 ELSE 0)
<1>. DEFINE n == Len(q)  a == Append(q, m)
<1>1. /\ n \in Nat /\ Len(a) = n + 1 /\ a[n + 1] = m
      /\ \A k \in 1 .. n : a[k] = q[k]
  BY AppendProperties, LenProperties
<1>2. \A k \in 1 .. n + 1 : k \in 1 .. n \/ k = n + 1
  BY <1>1
<1>3. n + 1 \in 1 .. n + 1 /\ \A k \in 1 .. n : k \in 1 .. n + 1
  BY <1>1
<1>4. Positions(a) = IF m = "CONNECT" THEN Positions(q) \cup {n + 1} ELSE Positions(q)
  BY <1>1, <1>2, <1>3 DEF Positions
<1>. HIDE DEF a, n
<1>5. /\ IsFiniteSet(Positions(q)) /\ Cardinality(Positions(q)) \in Nat
      /\ Cardinality(Positions(q) \cup {n + 1}) =
           IF n + 1 \in Positions(q) THEN Cardinality(Positions(q))
                                     ELSE Cardinality(Positions(q)) + 1
  BY PositionsFinite, FS_AddElement
<1>6. Cardinality(Positions(a)) <=
           Cardinality(Positions(q)) + (IF m = "CONNECT" THEN 1 ELSE 0)
  BY <1>4, <1>5
<1>. QED
  BY <1>6 DEF a

LEMMA PositionsTail ==
  ASSUME NEW q \in Seq(Outgoing), q # <<>>
  PROVE  Cardinality(Positions(Tail(q))) + (IF Head(q) = "CONNECT" THEN 1 ELSE 0)
           <= Cardinality(Positions(q))
<1>. DEFINE n == Len(q)  t == Tail(q)  R == Positions(q) \ {1}
<1>1. /\ n \in Nat \ {0} /\ Len(t) = n - 1 /\ Head(q) = q[1]
      /\ \A k \in 1 .. n - 1 : t[k] = q[k + 1]
  BY HeadTailProperties, EmptySeq, LenProperties
<1>. DEFINE f == [k \in Positions(t) |-> k + 1]
<1>2. \A k \in Positions(t) : k \in Nat /\ k + 1 \in R
  BY <1>1 DEF Positions
<1>3. f \in Injection(Positions(t), R)
  BY <1>2 DEF Injection, IsInjective
<1>4. /\ IsFiniteSet(Positions(q)) /\ Cardinality(Positions(q)) \in Nat
      /\ IsFiniteSet(R)
      /\ Cardinality(R) = IF 1 \in Positions(q) THEN Cardinality(Positions(q)) - 1
                                                 ELSE Cardinality(Positions(q))
  BY PositionsFinite, FS_RemoveElement
<1>5. IsFiniteSet(Positions(t)) /\ Cardinality(Positions(t)) <= Cardinality(R)
  BY <1>3, <1>4, FS_Injection
<1>6. Cardinality(Positions(t)) \in Nat
  BY <1>5, FS_CardinalityType
<1>7. 1 \in Positions(q) <=> Head(q) = "CONNECT"
  BY <1>1 DEF Positions
<1>. HIDE DEF R, t
<1>8. Cardinality(Positions(t)) + (IF Head(q) = "CONNECT" THEN 1 ELSE 0)
           <= Cardinality(Positions(q))
  BY <1>4, <1>5, <1>6, <1>7
<1>. QED
  BY <1>8 DEF t

(* What is sent to a connection counts from that connection on.             *)
LEMMA SendingsAppend ==
  ASSUME NEW s \in [Connections -> Seq(Outgoing)], NEW c \in Connections,
         NEW m \in Outgoing
  PROVE  LET t == [s EXCEPT ![c] = Append(@, m)]
         IN  /\ \A last \in 0 .. c - 1 : Sendings(t, last) = Sendings(s, last)
             /\ Cardinality(Sendings(t, c)) <=
                  Cardinality(Sendings(s, c)) + (IF m = "CONNECT" THEN 1 ELSE 0)
<1>. DEFINE t == [s EXCEPT ![c] = Append(@, m)]  n == Len(s[c])
<1>1. /\ n \in Nat /\ Len(t[c]) = n + 1 /\ t[c][n + 1] = m
      /\ \A k \in 1 .. n : t[c][k] = s[c][k]
  BY AppendProperties, LenProperties
<1>2. \A d \in Connections : d # c => t[d] = s[d]
  OBVIOUS
<1>. HIDE DEF t, n
<1>3. ASSUME NEW last \in 0 .. c - 1 PROVE Sendings(t, last) = Sendings(s, last)
  <2>1. \A d \in 1 .. last : d \in Connections /\ d # c
    BY BoundsAssumption DEF Connections
  <2>. QED
    BY <1>2, <2>1 DEF Sendings
<1>4. c \in Nat /\ \A d \in 1 .. c : d \in Connections
  BY BoundsAssumption DEF Connections
<1>5. Sendings(t, c) \in
        SUBSET (IF m = "CONNECT" THEN Sendings(s, c) \cup {<<c, n + 1>>} ELSE Sendings(s, c))
  <2>1. ASSUME NEW d \in 1 .. c, NEW k \in 1 .. MaxSockets + MaxLogs,
               k <= Len(t[d]), t[d][k] = "CONNECT"
        PROVE  \/ k <= Len(s[d]) /\ s[d][k] = "CONNECT"
               \/ d = c /\ k = n + 1 /\ m = "CONNECT"
    <3>1. CASE d # c
      <4>1. t[d] = s[d]
        BY <1>2, <1>4, <3>1
      <4>. QED
        BY <2>1, <4>1
    <3>2. CASE d = c
      <4>1. k \in Nat /\ k >= 1 /\ (k \in 1 .. n \/ k = n + 1)
        BY <1>1, <2>1, <3>2
      <4>2. CASE k \in 1 .. n
        <5>1. s[d][k] = "CONNECT" /\ k <= n
          BY <1>1, <2>1, <3>2, <4>2
        <5>. QED
          BY <3>2, <5>1 DEF n
      <4>3. CASE k = n + 1
        BY <1>1, <2>1, <3>2, <4>3
      <4>. QED
        BY <4>1, <4>2, <4>3
    <3>. QED
      BY <3>1, <3>2
  <2>. QED
    BY <2>1 DEF Sendings
<1>6. /\ IsFiniteSet(Sendings(s, c)) /\ Cardinality(Sendings(s, c)) \in Nat
      /\ Cardinality(Sendings(t, c)) \in Nat
  BY <1>4, SendingsFinite
<1>7. Cardinality(Sendings(t, c)) <=
        Cardinality(Sendings(s, c)) + (IF m = "CONNECT" THEN 1 ELSE 0)
  <2>1. CASE m = "CONNECT"
    <3>1. /\ IsFiniteSet(Sendings(s, c) \cup {<<c, n + 1>>})
          /\ Cardinality(Sendings(s, c) \cup {<<c, n + 1>>}) \in
               {Cardinality(Sendings(s, c)), Cardinality(Sendings(s, c)) + 1}
      BY <1>6, FS_AddElement
    <3>2. Cardinality(Sendings(t, c)) <= Cardinality(Sendings(s, c) \cup {<<c, n + 1>>})
      BY <1>5, <2>1, <3>1, FS_Subset
    <3>. QED
      BY <1>6, <2>1, <3>1, <3>2
  <2>2. CASE m # "CONNECT"
    <3>1. Cardinality(Sendings(t, c)) <= Cardinality(Sendings(s, c))
      BY <1>5, <1>6, <2>2, FS_Subset
    <3>. QED
      BY <1>6, <2>2, <3>1
  <2>. QED
    BY <2>1, <2>2
<1>. QED
  BY <1>3, <1>7 DEF t

LEMMA ConnectionNumbers ==
  /\ MaxSockets \in Nat
  /\ \A c \in Connections : c \in Nat /\ c >= 1 /\ c <= MaxSockets
  /\ \A c \in Nat : c >= 1 /\ c <= MaxSockets => c \in Connections
BY BoundsAssumption DEF Connections

LEMMA UnsentType == IInv => Unsent["control"] \in Seq(Outgoing)
<1>. SUFFICES ASSUME IInv PROVE Unsent["control"] \in Seq(Outgoing)
  OBVIOUS
<1>. USE DEF IInv, TypeOK, SenderTypeOK
<1>1. CASE spc = "erase"
  BY <1>1, HeadTailProperties DEF Unsent, HoldsFront
<1>2. CASE spc # "erase"
  BY <1>2 DEF Unsent
<1>. QED
  BY <1>1, <1>2

LEMMA CountTypes == IInv => nconn \in Nat /\ Waiting \in Nat /\ Coming \in {0, 1}
BY UnsentType, PositionsFinite DEF IInv, TypeOK, MainTypeOK, Waiting, Coming

LEMMA CountTypesNext == IInv' => nconn' \in Nat /\ Waiting' \in Nat /\ Coming' \in {0, 1}
<1>1. (IInv => nconn \in Nat /\ Waiting \in Nat /\ Coming \in {0, 1})'
  BY CountTypes, PTL
<1>. QED
  BY <1>1

LEMMA SentTypes ==
  ASSUME NEW last \in Nat
  PROVE  /\ ConnectsSent(last) = Cardinality(Sendings(sent, last))
         /\ ConnectsSent(last) \in Nat
BY SendingsFinite DEF ConnectsSent, Sendings

LEMMA CountInit == Init => CountInv
<1>. SUFFICES ASSUME Init PROVE CountInv
  OBVIOUS
<1>1. Waiting = 0
  <2>1. Positions(<<>>) = {}
    BY EmptySeq DEF Positions
  <2>. QED
    BY <2>1, FS_EmptySet DEF Init, Waiting, Unsent
<1>2. ConnectsSent(0) = 0
  <2>1. (1 .. 0) \X (1 .. MaxSockets + MaxLogs) = {}
    OBVIOUS
  <2>2. Sendings(sent, 0) = {}
    BY <2>1 DEF Sendings
  <2>. QED
    BY <2>2, FS_EmptySet DEF ConnectsSent, Sendings
<1>. QED
  BY <1>1, <1>2, BoundsAssumption
     DEF Init, CountInv, ConnectedIsLatest, NothingBeforeConnect, OnePerConnection,
         EarlierOnes, Coming, Connections, Free

LEMMA CountStays ==
  ASSUME CountInv, UNCHANGED <<sent, nconn>>, Unsent' = Unsent,
         mpc' = mpc \/ (mpc # "queue" /\ mpc' # "queue"),
         \A f \in Fds : fd'[f] > 0 => fd'[f] = fd[f]
  PROVE  CountInv'
BY DEF CountInv, ConnectedIsLatest, NothingBeforeConnect, OnePerConnection,
       EarlierOnes, ConnectsSent, Waiting, Coming

(* What is put in the queue, or taken from it unsent.                       *)
LEMMA CountQueue ==
  ASSUME IInv, IInv', CountInv, UNCHANGED <<sent, nconn, fd>>,
         Waiting' + Coming' <= Waiting + Coming
  PROVE  CountInv'
<1>1. ConnectsSent(nconn)' = ConnectsSent(nconn) /\ ConnectsSent(nconn) \in Nat
  BY CountTypes, SentTypes DEF ConnectsSent
<1>2. OnePerConnection'
  BY <1>1, CountTypes, CountTypesNext DEF CountInv, OnePerConnection
<1>. QED
  BY <1>2 DEF CountInv, ConnectedIsLatest, NothingBeforeConnect, EarlierOnes, ConnectsSent

LEMMA CountConnect ==
  ASSUME IInv, IInv', CountInv, ConnectSucceeds
  PROVE  CountInv'
<1>. USE CountTypes, CountTypesNext, ConnectionNumbers
<1>1. /\ mpc = "connect" /\ mpc' = "queue" /\ nconn' = nconn + 1
      /\ fd' = [fd EXCEPT ![sock] = nconn + 1] /\ sent' = sent /\ Unsent' = Unsent
  BY DEF ConnectSucceeds, Main, OnlyMain, senderVars, Unsent
<1>2. nconn + 1 \in Connections
  BY <1>1 DEF IInv, TypeOK, MainTypeOK
<1>3. ConnectedIsLatest'
  BY <1>1 DEF IInv, OnlySockConnected, TypeOK, MainTypeOK, ConnectedIsLatest
<1>4. NothingBeforeConnect'
  BY <1>1 DEF CountInv, NothingBeforeConnect
<1>5. Sendings(sent, nconn + 1) = Sendings(sent, nconn)
  <2>1. sent[nconn + 1] = <<>> /\ Len(sent[nconn + 1]) = 0
    BY <1>2, EmptySeq DEF CountInv, NothingBeforeConnect
  <2>2. \A d \in 1 .. nconn + 1 : d \in 1 .. nconn \/ d = nconn + 1
    OBVIOUS
  <2>3. \A d \in 1 .. nconn : d \in 1 .. nconn + 1
    OBVIOUS
  <2>. QED
    BY <2>1, <2>2, <2>3 DEF Sendings
<1>6. Waiting' = Waiting /\ Coming = 0 /\ Coming' = 1
  BY <1>1 DEF Waiting, Coming
<1>7. ConnectsSent(nconn)' = ConnectsSent(nconn)
  <2>1. ConnectsSent(nconn)' = Cardinality(Sendings(sent, nconn + 1))
    BY <1>1 DEF ConnectsSent, Sendings
  <2>2. ConnectsSent(nconn) = Cardinality(Sendings(sent, nconn))
    BY SentTypes
  <2>. QED
    BY <1>5, <2>1, <2>2
<1>8. OnePerConnection'
  BY <1>1, <1>6, <1>7, SentTypes DEF CountInv, OnePerConnection
<1>9. EarlierOnes'
  <2>1. ASSUME NEW c \in Connections, c < nconn + 1 PROVE ConnectsSent(c) <= c
    <3>1. CASE c < nconn
      BY <3>1 DEF CountInv, EarlierOnes
    <3>2. CASE c = nconn
      BY <3>2, SentTypes DEF CountInv, OnePerConnection
    <3>. QED
      BY <2>1, <3>1, <3>2
  <2>. QED
    BY <1>1, <2>1 DEF EarlierOnes, ConnectsSent
<1>. QED
  BY <1>3, <1>4, <1>8, <1>9 DEF CountInv

LEMMA CountSend ==
  ASSUME IInv, IInv', CountInv, SendReaches
  PROVE  CountInv'
<1>. USE CountTypes, CountTypesNext, ConnectionNumbers
<1>1. PICK c \in Connections : fd[ssock] = c /\ sent' = [sent EXCEPT ![c] = Append(@, smsg)]
  BY DEF SendReaches
<1>0. sent \in [Connections -> Seq(Outgoing)]
  BY DEF IInv, TypeOK, SenderTypeOK
<1>2. /\ UNCHANGED <<mpc, nconn, fd>>
      /\ Unsent["control"] # <<>> /\ Head(Unsent["control"]) = smsg
      /\ Unsent'["control"] = Tail(Unsent["control"])
      /\ smsg \in Outgoing /\ ssock \in Fds
  BY DEF SendReaches, Sender, OnlySender, mainVars, Unsent, IInv, HoldsFront, TypeOK,
         SenderTypeOK
<1>3. c = nconn
  BY <1>1, <1>2 DEF CountInv, ConnectedIsLatest
<1>4. ConnectedIsLatest' /\ NothingBeforeConnect'
  BY <1>1, <1>2, <1>3 DEF CountInv, ConnectedIsLatest, NothingBeforeConnect
<1>5. /\ \A last \in 0 .. nconn - 1 : Sendings(sent', last) = Sendings(sent, last)
      /\ Cardinality(Sendings(sent', nconn)) <=
           Cardinality(Sendings(sent, nconn)) + (IF smsg = "CONNECT" THEN 1 ELSE 0)
  <2>1. /\ \A last \in 0 .. c - 1 :
             Sendings([sent EXCEPT ![c] = Append(@, smsg)], last) = Sendings(sent, last)
        /\ Cardinality(Sendings([sent EXCEPT ![c] = Append(@, smsg)], c)) <=
             Cardinality(Sendings(sent, c)) + (IF smsg = "CONNECT" THEN 1 ELSE 0)
    BY ONLY <1>0, <1>2, SendingsAppend
  <2>. QED
    BY <1>1, <1>3, <2>1
<1>6. Waiting' + (IF smsg = "CONNECT" THEN 1 ELSE 0) <= Waiting
  BY <1>2, UnsentType, PositionsTail DEF Waiting
<1>7. \A last \in Nat : ConnectsSent(last)' = Cardinality(Sendings(sent', last))
  BY DEF ConnectsSent, Sendings
<1>8. OnePerConnection'
  <2>1. ConnectsSent(nconn)' = Cardinality(Sendings(sent', nconn))
    BY <1>2 DEF ConnectsSent, Sendings
  <2>2. Coming' = Coming /\ Cardinality(Sendings(sent', nconn)) \in Nat
    BY <1>2, SendingsFinite DEF Coming
  <2>3. ConnectsSent(nconn) = Cardinality(Sendings(sent, nconn)) /\ ConnectsSent(nconn) \in Nat
    BY SentTypes
  <2>. QED
    BY <1>2, <1>5, <1>6, <2>1, <2>2, <2>3 DEF CountInv, OnePerConnection
<1>9. EarlierOnes'
  <2>1. ASSUME NEW d \in Connections, d < nconn
        PROVE  Cardinality(Sendings(sent', d)) <= d
    <3>1. d \in 0 .. nconn - 1
      BY <2>1
    <3>2. ConnectsSent(d) <= d /\ ConnectsSent(d) = Cardinality(Sendings(sent, d))
      BY <2>1, SentTypes DEF CountInv, EarlierOnes
    <3>. QED
      BY <1>5, <3>1, <3>2
  <2>. QED
    BY <1>2, <2>1 DEF EarlierOnes, ConnectsSent, Sendings
<1>. QED
  BY <1>4, <1>8, <1>9 DEF CountInv

LEMMA CountStep ==
  ASSUME IInv, IInv', CountInv, [Next]_vars
  PROVE  CountInv'
<1>. USE CountTypes, CountTypesNext, ConnectionNumbers
<1>1. CASE ControlStep \/ HandleMessage \/ AuthStarts \/ UNCHANGED vars
  <2>1. UNCHANGED <<sent, nconn, mpc, fd, Unsent>>
    BY <1>1 DEF ControlStep, ControlCloses, ControlRegisters, ControlSends, OnlyControl,
         HandleMessage, AuthStarts, OnlyAuth, vars, mainVars, senderVars, Unsent
  <2>. QED
    BY <2>1, CountStays
<1>2. CASE MainStep
  <2>1. CASE ConnectSucceeds
    BY <2>1, CountConnect
  <2>2. CASE QueueConnect
    <3>1. /\ UNCHANGED <<sent, nconn, fd>> /\ mpc = "queue" /\ mpc' = "recv"
          /\ Unsent' = [Unsent EXCEPT !["control"] = Append(@, "CONNECT")]
      BY <2>2, PushAppends DEF QueueConnect, Main, OnlyMain, Outgoing, senderVars
    <3>2. Unsent'["control"] = Append(Unsent["control"], "CONNECT")
      BY <3>1 DEF Unsent
    <3>3. Waiting' <= Waiting + 1
      BY <3>2, UnsentType, PositionsAppend DEF Waiting, Outgoing
    <3>4. Coming = 1 /\ Coming' = 0 /\ Waiting' \in Nat
      BY <3>1 DEF Coming
    <3>. QED
      BY <3>1, <3>3, <3>4, CountQueue
  <2>3. CASE CreateSocket \/ ConnectFails \/ Receive \/ ReceiveFails \/ Disconnect
    <3>1. /\ UNCHANGED <<sent, nconn, Unsent>> /\ mpc # "queue" /\ mpc' # "queue"
          /\ \A f \in Fds : fd'[f] > 0 => fd'[f] = fd[f]
      BY <2>3 DEF CreateSocket, ConnectFails, Receive, ReceiveFails, Disconnect, Main,
           OnlyMain, senderVars, Unsent, IInv, TypeOK, MainTypeOK, Free, Fresh
    <3>. QED
      BY <3>1, CountStays
  <2>. QED
    BY <1>2, <2>1, <2>2, <2>3 DEF MainStep
<1>3. CASE LogError
  <2>1. /\ UNCHANGED <<sent, nconn, fd, mpc>>
        /\ Unsent' = [Unsent EXCEPT !["control"] = Append(@, "L")]
    BY <1>3, PushAppends DEF LogError, OnlyAuth, Outgoing, mainVars, senderVars
  <2>2. Unsent'["control"] = Append(Unsent["control"], "L")
    BY <2>1 DEF Unsent
  <2>3. Waiting' <= Waiting + 0
    BY <2>2, UnsentType, PositionsAppend DEF Waiting, Outgoing
  <2>4. Coming' = Coming /\ Waiting' \in Nat
    BY <2>1 DEF Coming
  <2>. QED
    BY <2>1, <2>3, <2>4, CountQueue
<1>4. CASE SenderStep
  <2>1. CASE SendReaches
    BY <2>1, CountSend
  <2>2. CASE SendToClosedPeer /\ spc' = "erase"
    <3>1. /\ UNCHANGED <<sent, nconn, fd, mpc>> /\ Unsent["control"] # <<>>
          /\ Unsent'["control"] = Tail(Unsent["control"])
      BY <2>2 DEF SendToClosedPeer, Sender, OnlySender, mainVars, Unsent, IInv, HoldsFront
    <3>2. Waiting' <= Waiting
      <4>1. /\ Waiting' \in Nat
            /\ Waiting' + (IF Head(Unsent["control"]) = "CONNECT" THEN 1 ELSE 0) <= Waiting
        BY <3>1, UnsentType, PositionsTail DEF Waiting
      <4>. QED
        BY <4>1
    <3>3. Coming' = Coming /\ Waiting' \in Nat
      BY <3>1 DEF Coming
    <3>. QED
      BY <3>1, <3>2, <3>3, CountQueue
  <2>3. CASE ~SendReaches /\ ~(SendToClosedPeer /\ spc' = "erase")
    <3>1. UNCHANGED <<sent, nconn, mpc, fd, Unsent>>
      BY <1>4, <2>3 DEF SenderStep, Look, Pick, Rest, CopySocket, SendToClosedPeer,
           SendFails, SendKills, Erase, Sender, OnlySender, mainVars, Unsent
    <3>. QED
      BY <3>1, CountStays
  <2>. QED
    BY <2>1, <2>2, <2>3
<1>. QED
  BY <1>1, <1>2, <1>3, <1>4 DEF Next

(* ConnectsNotEarly holds: each connection pays for one CONNECT, so those   *)
(* sent on the first c of them are at most c, for any number of reconnects. *)
THEOREM NotEarly == Spec => []ConnectsNotEarly
<1>1. ASSUME IInv, CountInv PROVE ConnectsNotEarly
  <2>. USE CountTypes, ConnectionNumbers, <1>1 DEF CountInv
  <2>. SUFFICES ASSUME NEW c \in Connections PROVE ConnectsSent(c) <= c
    BY DEF ConnectsNotEarly
  <2>1. CASE c < nconn
    BY <2>1 DEF EarlierOnes
  <2>2. CASE c >= nconn
    <3>1. \A d \in 1 .. c : d \in 1 .. nconn \/ Len(sent[d]) = 0
      BY EmptySeq DEF NothingBeforeConnect
    <3>2. \A d \in 1 .. nconn : d \in 1 .. c
      BY <2>2
    <3>3. Sendings(sent, c) = Sendings(sent, nconn)
      BY <3>1, <3>2 DEF Sendings
    <3>4. ConnectsSent(c) = ConnectsSent(nconn) /\ ConnectsSent(nconn) <= nconn
      BY <3>3, SentTypes DEF OnePerConnection
    <3>. QED
      BY <2>2, <3>4, SentTypes
  <2>. QED
    BY <2>1, <2>2
<1>2. IInv /\ IInv' /\ CountInv /\ [Next]_vars => CountInv'
  BY CountStep
<1>. QED
  BY <1>1, <1>2, CountInit, Invariance, PTL DEF Spec
------------------------------------------------------------------------------
(***************************************************************************)
(* Whether auth starts with what it was sent.                              *)
(***************************************************************************)
Unmerged ==
  ~merged =>
    /\ received["dbConnString"] => db = "whole"
    /\ \A k \in 1 .. Len(messageBuffer) : Len(messageBuffer[k]) = 1

LEMMA UnmergedStep == IInv /\ Unmerged /\ [Next]_vars => Unmerged'
<1>. SUFFICES ASSUME IInv, Unmerged, [Next]_vars PROVE Unmerged'
  OBVIOUS
<1>0. /\ messageBuffer \in Seq(Seq(Settings) \ {<<>>}) /\ merged \in BOOLEAN
      /\ received \in [Settings -> BOOLEAN]
      /\ given \in [Connections -> Seq(Settings)] /\ nread \in Nat
  BY DEF IInv, TypeOK, AuthTypeOK, ControlTypeOK
<1>1. ASSUME UNCHANGED <<messageBuffer, merged, received, db>>
      PROVE  Unmerged'
  BY <1>1 DEF Unmerged
<1>2. CASE Receive
  <2>1. nconn \in Connections
    BY <1>2 DEF Receive, Main, IInv, TypeOK, MainTypeOK
  <2>2. PICK n \in nread + 1 .. Len(given[nconn]) :
          /\ messageBuffer' =
               Append(messageBuffer, SubSeq(given[nconn], nread + 1, n))
          /\ merged' = (merged \/ n > nread + 1)
    BY <1>2 DEF Receive
  <2>3. UNCHANGED <<received, db>>
    BY <1>2 DEF Receive, OnlyMain, authVars
  <2>4. CASE merged'
    BY <2>4 DEF Unmerged
  <2>5. CASE ~merged'
    <3>. DEFINE c == SubSeq(given[nconn], nread + 1, n)
    <3>0. given[nconn] \in Seq(Settings) /\ Len(given[nconn]) \in Nat
      BY <1>0, <2>1, LenProperties
    <3>1. ~merged /\ n = nread + 1
      <4>1. ~merged /\ ~(n > nread + 1)
        BY <1>0, <2>2, <2>5
      <4>2. n \in Int /\ nread + 1 \in Int /\ n >= nread + 1
        BY <1>0, <3>0
      <4>. QED
        BY <4>1, <4>2
    <3>2. n \in Nat /\ given[nconn][n] \in Settings
      BY <1>0, <3>0, <3>1, LenProperties, ElementOfSeq
    <3>3. c \in Seq(Settings) /\ Len(c) = 1
      <4>1. \A i \in nread + 1 .. n : given[nconn][i] \in Settings
        BY <1>0, <3>1, <3>2
      <4>2. nread + 1 \in Int /\ n \in Int /\ nread + 1 <= n /\ n - (nread + 1) + 1 = 1
        BY <1>0, <3>1, <3>2
      <4>. QED
        BY <4>1, <4>2, SubSeqProperties
    <3>. HIDE DEF c
    <3>4. c \in Seq(Settings) \ {<<>>}
      BY <3>3, EmptySeq
    <3>5. /\ Len(messageBuffer') = Len(messageBuffer) + 1
          /\ Len(messageBuffer) \in Nat
          /\ \A k \in 1 .. Len(messageBuffer) : messageBuffer'[k] = messageBuffer[k]
          /\ messageBuffer'[Len(messageBuffer) + 1] = c
      <4>1. messageBuffer' = Append(messageBuffer, c)
        BY <2>2 DEF c
      <4>. QED
        BY <1>0, <3>4, <4>1, AppendProperties, LenProperties
    <3>6. ASSUME NEW k \in 1 .. Len(messageBuffer) + 1
          PROVE  Len(messageBuffer'[k]) = 1
      <4>1. k \in 1 .. Len(messageBuffer) \/ k = Len(messageBuffer) + 1
        BY <3>5
      <4>. QED
        BY <3>1, <3>3, <3>5, <4>1 DEF Unmerged
    <3>. QED
      BY <2>3, <3>1, <3>5, <3>6 DEF Unmerged
  <2>. QED
    BY <2>4, <2>5
<1>3. CASE HandleMessage
  <2>. DEFINE c == Head(messageBuffer)
  <2>1. /\ messageBuffer # <<>> /\ messageBuffer' = Tail(messageBuffer)
        /\ UNCHANGED merged
        /\ received' = [received EXCEPT ![Head(c)] = TRUE]
        /\ db' = IF Head(c) = "port" THEN db
                  ELSE IF Len(c) = 1 THEN "whole" ELSE "merged"
    BY <1>3 DEF HandleMessage, OnlyAuth, Flag
  <2>2. /\ Len(messageBuffer) \in Nat \ {0} /\ c = messageBuffer[1]
        /\ c \in Seq(Settings) \ {<<>>}
        /\ Len(Tail(messageBuffer)) = Len(messageBuffer) - 1
        /\ \A k \in 1 .. Len(messageBuffer) - 1 :
             Tail(messageBuffer)[k] = messageBuffer[k + 1]
    BY <1>0, <2>1, HeadTailProperties, EmptySeq, LenProperties
  <2>3. Head(c) \in Settings
    BY <2>2, HeadTailProperties
  <2>. SUFFICES ASSUME ~merged PROVE Unmerged'
    BY <2>1 DEF Unmerged
  <2>4. 1 \in 1 .. Len(messageBuffer)
    BY <2>2
  <2>5. Len(c) = 1
    BY <2>2, <2>4 DEF Unmerged
  <2>. HIDE DEF c
  <2>6. received'["dbConnString"] => db' = "whole"
    BY <1>0, <2>1, <2>3, <2>5 DEF Unmerged, Settings
  <2>7. ASSUME NEW k \in 1 .. Len(messageBuffer) - 1
        PROVE  Len(Tail(messageBuffer)[k]) = 1
    <3>1. k + 1 \in 1 .. Len(messageBuffer)
      BY <2>2
    <3>. QED
      BY <2>2, <3>1 DEF Unmerged
  <2>. QED
    BY <2>1, <2>2, <2>6, <2>7 DEF Unmerged
<1>4. CASE ControlStep \/ SenderStep \/ AuthStarts \/ LogError \/ UNCHANGED vars
  BY <1>1, <1>4 DEF ControlStep, ControlCloses, ControlRegisters, ControlSends,
       OnlyControl, SenderStep, Look, Pick, Rest, CopySocket, SendReaches,
       SendToClosedPeer, SendFails, SendKills, Erase, OnlySender, AuthStarts, LogError,
       OnlyAuth, authVars, inVars, vars
<1>5. CASE MainStep /\ ~Receive
  BY <1>1, <1>5 DEF MainStep, CreateSocket, ConnectSucceeds, ConnectFails, QueueConnect,
       ReceiveFails, Disconnect, OnlyMain, authVars, inVars
<1>. QED
  BY <1>2, <1>3, <1>4, <1>5 DEF Next

(* While nothing was merged, every message auth has is one setting whole:   *)
(* auth starts with anything else only after two came out of one read.      *)
THEOREM MergedOnly == Spec => StartsWrongOnlyWhenMerged
<1>1. Init => Unmerged
  <2>1. ASSUME Init PROVE Len(messageBuffer) = 0 /\ ~received["dbConnString"]
    BY <2>1 DEF Init, Settings
  <2>. QED
    BY <2>1 DEF Unmerged
<1>2. ASSUME IInv, Unmerged, [Next]_vars, ~started, started'
      PROVE  db = "whole" \/ merged
  <2>1. AuthStarts
    BY <1>2 DEF Next, ControlStep, ControlCloses, ControlRegisters, ControlSends,
         OnlyControl, SenderStep, Look, Pick, Rest, CopySocket, SendReaches,
         SendToClosedPeer, SendFails, SendKills, Erase, OnlySender, MainStep,
         CreateSocket, ConnectSucceeds, ConnectFails, QueueConnect, Receive,
         ReceiveFails, Disconnect, OnlyMain, HandleMessage, LogError, authVars, vars
  <2>. QED
    BY <1>2, <2>1 DEF AuthStarts, AllSettingsReceived, Unmerged, Settings
<1>3. IInv /\ Unmerged /\ [Next]_vars => [~started /\ started' => db = "whole" \/ merged]_vars
  BY <1>2
<1>. QED
  BY <1>1, <1>3, UnmergedStep, Invariance, PTL DEF Spec, StartsWrongOnlyWhenMerged
------------------------------------------------------------------------------
(***************************************************************************)
(* What may kill the process.                                              *)
(***************************************************************************)
NotConnectedYet == \A c \in Connections : c > nconn => peer[c] = "none"

IdleBeforeConnect ==
  nconn = 0 =>
    /\ sendBuffer = <<>> /\ messageBuffer = <<>> /\ ~started
    /\ \A s \in Settings : ~received[s]

NoneClosed == \A c \in Connections : peer[c] # "closed"

(* Until a connection has been closed there is at most one, which is the    *)
(* one the sender uses.                                                     *)
FirstConnection ==
  NoneClosed =>
    /\ fate = "up" /\ nconn \in {0, 1}
    /\ nconn = 1 => mpc \in {"queue", "recv"} /\ fd[sock] = 1
    /\ spc = "send" => ssock = sock

KillInv == NotConnectedYet /\ IdleBeforeConnect /\ FirstConnection

LEMMA KillInit == Init => KillInv
<1>. SUFFICES ASSUME Init PROVE KillInv
  OBVIOUS
<1>. QED
  BY DEF Init, KillInv, NotConnectedYet, IdleBeforeConnect, FirstConnection

LEMMA KillStep == IInv /\ KillInv /\ [Next]_vars => KillInv'
<1>. SUFFICES ASSUME IInv, KillInv, [Next]_vars PROVE KillInv'
  OBVIOUS
<1>. USE DEF KillInv
<1>0. /\ NotConnectedYet /\ IdleBeforeConnect /\ FirstConnection
      /\ peer \in [Connections -> {"none", "open", "closed"}]
      /\ nconn \in Nat /\ Connections = 1 .. MaxSockets /\ MaxSockets \in Nat \ {0}
      /\ fd \in [Fds -> Connections \cup {Free, Fresh}]
      /\ mpc \in {"queue", "recv", "close"} => nconn \in Connections
      /\ mpc \in {"connect", "queue", "recv", "close"} => sock \in Fds
      /\ received \in [Settings -> BOOLEAN]
  BY BoundsAssumption
     DEF IInv, TypeOK, MainTypeOK, AuthTypeOK, Connections
<1>1. ASSUME UNCHANGED <<fate, mpc, sock, fd, nconn, peer, spc, ssock>>
      PROVE  NotConnectedYet' /\ FirstConnection'
  BY <1>0, <1>1 DEF NotConnectedYet, FirstConnection, NoneClosed
<1>2. ASSUME UNCHANGED <<nconn, sendBuffer, messageBuffer, started, received>>
      PROVE  IdleBeforeConnect'
  BY <1>0, <1>2 DEF IdleBeforeConnect
<1>3. CASE ControlStep
  <2>1. UNCHANGED <<fate, mainVars, sendBuffer, senderVars, inVars, authVars>>
    BY <1>3 DEF ControlStep, ControlCloses, ControlRegisters, ControlSends, OnlyControl
  <2>2. CASE UNCHANGED peer
    BY <1>1, <1>2, <2>1, <2>2 DEF mainVars, senderVars, inVars, authVars
  <2>3. ASSUME NEW c \in Connections, peer[c] = "open",
               peer' = [peer EXCEPT ![c] = "closed"]
        PROVE  KillInv'
    <3>1. ~NoneClosed'
      BY <1>0, <2>3 DEF NoneClosed
    <3>2. NotConnectedYet'
      BY <1>0, <2>1, <2>3 DEF NotConnectedYet, mainVars
    <3>. QED
      BY <1>2, <2>1, <3>1, <3>2 DEF FirstConnection, mainVars, inVars, authVars
  <2>. QED
    BY <1>3, <2>2, <2>3 DEF ControlStep, ControlCloses, ControlRegisters, ControlSends
<1>4. CASE CreateSocket \/ ConnectFails
  <2>1. /\ UNCHANGED <<fate, nconn, peer, sendBuffer, messageBuffer, started, received,
                       spc, ssock>>
        /\ mpc \in {"socket", "connect"}
    BY <1>4 DEF CreateSocket, ConnectFails, OnlyMain, Main, senderVars, authVars, inVars
  <2>2. NoneClosed => nconn = 0 /\ spc # "send"
    BY <1>0, <2>1 DEF FirstConnection, IdleBeforeConnect, IInv, HoldsFront
  <2>3. NoneClosed' => FirstConnection'
    BY <1>0, <2>1, <2>2 DEF FirstConnection, NoneClosed
  <2>. QED
    BY <1>0, <1>2, <2>1, <2>3 DEF NotConnectedYet, FirstConnection
<1>5. CASE ConnectSucceeds
  <2>1. /\ UNCHANGED <<fate, sendBuffer, messageBuffer, started, received, sock, spc,
                       ssock>>
        /\ mpc = "connect" /\ mpc' = "queue" /\ nconn' = nconn + 1
        /\ fd' = [fd EXCEPT ![sock] = nconn + 1]
        /\ peer' = [peer EXCEPT ![nconn + 1] = "open"]
    BY <1>5 DEF ConnectSucceeds, OnlyMain, Main, senderVars, authVars, inVars
  <2>2. peer[nconn + 1] # "closed" \/ nconn + 1 \notin Connections
    BY <1>0 DEF NotConnectedYet
  <2>3. NoneClosed' => NoneClosed
    BY <1>0, <2>1, <2>2 DEF NoneClosed
  <2>4. NoneClosed => nconn = 0 /\ spc # "send"
    BY <1>0, <2>1 DEF FirstConnection, IdleBeforeConnect, IInv, HoldsFront
  <2>5. FirstConnection'
    BY <1>0, <2>1, <2>3, <2>4 DEF FirstConnection
  <2>6. NotConnectedYet' /\ IdleBeforeConnect'
    BY <1>0, <2>1 DEF NotConnectedYet, IdleBeforeConnect
  <2>. QED
    BY <2>5, <2>6
<1>6. CASE QueueConnect \/ Receive
  <2>1. /\ UNCHANGED <<fate, nconn, sock, fd, peer, spc, ssock>>
        /\ mpc \in {"queue", "recv"} /\ mpc' = "recv"
    BY <1>6 DEF QueueConnect, Receive, OnlyMain, Main, senderVars
  <2>2. nconn # 0
    BY <1>0, <2>1
  <2>. QED
    BY <1>0, <2>1, <2>2 DEF NotConnectedYet, IdleBeforeConnect, FirstConnection, NoneClosed
<1>7. CASE ReceiveFails \/ Disconnect
  <2>1. /\ UNCHANGED <<nconn, peer, sendBuffer, messageBuffer, started, received>>
        /\ mpc \in {"recv", "close"}
        /\ ReceiveFails => peer[nconn] = "closed"
    BY <1>7 DEF ReceiveFails, Disconnect, OnlyMain, Main, senderVars, authVars, inVars
  <2>2. ~NoneClosed
    BY <1>0, <1>7, <2>1 DEF Disconnect, Main, FirstConnection, NoneClosed
  <2>. QED
    BY <1>0, <1>2, <2>1, <2>2 DEF NotConnectedYet, FirstConnection, NoneClosed
<1>8. CASE SenderStep
  <2>1. UNCHANGED <<mpc, sock, fd, nconn, peer, messageBuffer, started, received>>
    BY <1>8 DEF SenderStep, Look, Pick, Rest, CopySocket, SendReaches, SendToClosedPeer,
         SendFails, SendKills, Erase, OnlySender, mainVars, inVars, authVars
  <2>2. NotConnectedYet'
    BY <1>0, <2>1 DEF NotConnectedYet
  <2>3. IdleBeforeConnect'
    <3>1. sendBuffer' = sendBuffer \/ (sendBuffer # <<>>)
      BY <1>8 DEF SenderStep, Look, Pick, Rest, CopySocket, SendReaches,
           SendToClosedPeer, SendFails, SendKills, Erase, Sender, IInv, HoldsFront
    <3>. QED
      BY <1>0, <2>1, <3>1 DEF IdleBeforeConnect
  <2>4. ASSUME NoneClosed PROVE ~SendKills
    <3>1. CASE spc # "send"
      BY <3>1 DEF SendKills, Sender
    <3>2. CASE spc = "send"
      <4>1. nconn # 0
        BY <1>0, <3>2 DEF IdleBeforeConnect, IInv, HoldsFront
      <4>2. fd[ssock] = 1 /\ 1 \in Connections /\ peer[1] # "closed"
        BY <1>0, <2>4, <3>2, <4>1 DEF FirstConnection, NoneClosed
      <4>. QED
        BY <4>2 DEF SendKills
    <3>. QED
      BY <3>1, <3>2
  <2>5. ASSUME NoneClosed
        PROVE  UNCHANGED fate /\ (spc' = "send" => ssock' = sock)
    <3>1. fate' = fate
      BY <1>8, <2>4, <2>5 DEF SenderStep, Look, Pick, Rest, CopySocket, SendReaches,
           SendToClosedPeer, SendFails, Erase
    <3>2. spc = "send" => ssock = sock
      BY <1>0, <2>5 DEF FirstConnection
    <3>3. spc' = "send" => ssock' = sock
      BY <1>8, <2>4, <2>5, <3>2 DEF SenderStep, Look, Pick, Rest, CopySocket,
           SendReaches, SendToClosedPeer, SendFails, Erase, Sender
    <3>. QED
      BY <3>1, <3>3
  <2>6. FirstConnection'
    BY <1>0, <2>1, <2>5 DEF FirstConnection, NoneClosed
  <2>. QED
    BY <2>2, <2>3, <2>6
<1>9. CASE HandleMessage \/ AuthStarts \/ LogError
  <2>1. UNCHANGED <<mpc, sock, fd, nconn, peer, spc, ssock, fate>>
    BY <1>9 DEF HandleMessage, AuthStarts, LogError, OnlyAuth, mainVars, senderVars
  <2>2. nconn # 0
    BY <1>0, <1>9 DEF HandleMessage, AuthStarts, LogError, IdleBeforeConnect,
         AllSettingsReceived, Settings
  <2>3. IdleBeforeConnect'
    BY <2>1, <2>2 DEF IdleBeforeConnect
  <2>. QED
    BY <1>1, <2>1, <2>3
<1>10. CASE UNCHANGED vars
  BY <1>1, <1>2, <1>10 DEF vars, mainVars, senderVars, inVars, authVars
<1>. QED
  BY <1>3, <1>4, <1>5, <1>6, <1>7, <1>8, <1>9, <1>10 DEF Next, MainStep

(* RetrySurvives fails on a small instance; it takes a connection that was  *)
(* made and closed.  However often the first connect is retried, with a new *)
(* socket set in sock each time, the sender does not kill the process.      *)
KilledOnlyAfterAClose ==
  fate = "sigpipe" => \E c \in Connections : peer[c] = "closed"

(* Before the first connect returns the sender finds an empty queue; then,   *)
(* until its peer closes, there is a connection and sock is its descriptor.  *)
THEOREM KilledAfterClose == Spec => []KilledOnlyAfterAClose
<1>1. KillInv => KilledOnlyAfterAClose
  BY DEF KillInv, FirstConnection, NoneClosed, KilledOnlyAfterAClose
<1>. QED
  BY <1>1, KillInit, KillStep, Invariance, PTL DEF Spec
==============================================================================
