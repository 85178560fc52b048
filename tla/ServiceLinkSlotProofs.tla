----------------------- MODULE ServiceLinkSlotProofs -----------------------
(***************************************************************************)
(* Theorems about the slots of ServiceLink: who holds one, who loses it,   *)
(* and where what is sent through it goes.                                 *)
(***************************************************************************)
EXTENDS ServiceLinkProofs

Says(m, k, c) == m.kind = k /\ m.conn = c

Elements(b) == {b[j] : j \in 1 .. Len(b)}

Holds(b, k, c) == \E j \in 1 .. Len(b) : Says(b[j], k, c)

(* Behind every CONNECT of c comes a DISCONNECT of c.                       *)
Followed(b, c) ==
  \A k \in 1 .. Len(b) : Says(b[k], "CONNECT", c) =>
    \E j \in k + 1 .. Len(b) : Says(b[j], "DISCONNECT", c)

Handling(k, c) == mpc = "handle" /\ Says(msg, k, c)

(* A message comes from a connection that was let in; a DISCONNECT from one *)
(* that its peer has closed and whose handler has left.                     *)
Genuine(m) ==
  /\ LetIn(m.conn)
  /\ m.kind = "DISCONNECT" => Gone(m.conn) /\ peer[m.conn] = "closed"

MessagesGenuine ==
  /\ \A m \in Elements(messageBuffer) : Genuine(m)
  /\ mpc \in {"handle", "sendDb", "sendPort"} => Genuine(msg)

OwnersSpoke ==
  \A i \in Services : owner[i] # None => Svc[owner[i]] = i /\ nchunks[owner[i]] > 0

HandlersAgree ==
  \A c \in Conns :
    /\ hpc[c] = "push" => nchunks[c] > 0
    /\ nchunks[c] > 0 => hpc[c] \notin {"none", "start"}
    /\ ~valid[c] => Gone(c)

(* Once a connection has left unrefused its DISCONNECT is behind its        *)
(* CONNECT, and on the way for as long as it holds a slot.                  *)
DisconnectFollows ==
  \A c \in Conns : Gone(c) /\ valid[c] =>
    /\ Followed(messageBuffer, c)
    /\ Handling("CONNECT", c) => Holds(messageBuffer, "DISCONNECT", c)

SlotsAwaited ==
  \A i \in Services : owner[i] # None /\ Gone(owner[i]) /\ valid[owner[i]] =>
    Holds(messageBuffer, "DISCONNECT", owner[i]) \/ Handling("DISCONNECT", owner[i])

SlotInv ==
  /\ MessagesGenuine /\ OwnersSpoke /\ HandlersAgree
  /\ DisconnectFollows /\ SlotsAwaited
------------------------------------------------------------------------------
(***************************************************************************)
(* Buffers of messages.                                                    *)
(***************************************************************************)
LEMMA AppendElements ==
  ASSUME NEW b \in Seq(Messages), NEW m \in Messages
  PROVE  Elements(Append(b, m)) = Elements(b) \cup {m}
<1>. DEFINE n == Len(b)  a == Append(b, m)
<1>1. /\ n \in Nat /\ Len(a) = n + 1 /\ a[n + 1] = m
      /\ \A k \in 1 .. n : a[k] = b[k]
  BY AppendProperties, LenProperties
<1>2. n + 1 \in 1 .. n + 1 /\ \A k \in 1 .. n : k \in 1 .. n + 1
  BY <1>1
<1>3. \A k \in 1 .. n + 1 : k \in 1 .. n \/ k = n + 1
  BY <1>1
<1>. QED
  BY <1>1, <1>2, <1>3 DEF Elements

LEMMA AppendFollowed ==
  ASSUME NEW b \in Seq(Messages), NEW m \in Messages, NEW c \in Conns
  PROVE  /\ Holds(b, "DISCONNECT", c) => Holds(Append(b, m), "DISCONNECT", c)
         /\ Says(m, "DISCONNECT", c) =>
              Holds(Append(b, m), "DISCONNECT", c) /\ Followed(Append(b, m), c)
         /\ m.conn # c /\ Followed(b, c) => Followed(Append(b, m), c)
<1>. DEFINE n == Len(b)  a == Append(b, m)
<1>1. /\ n \in Nat /\ Len(a) = n + 1 /\ a[n + 1] = m
      /\ \A k \in 1 .. n : a[k] = b[k]
  BY AppendProperties, LenProperties
<1>2. n + 1 \in 1 .. n + 1 /\ \A k \in 1 .. n : k \in 1 .. n + 1
  BY <1>1
<1>3. \A k \in 1 .. n + 1 : k \in 1 .. n \/ k = n + 1
  BY <1>1
<1>4. Holds(b, "DISCONNECT", c) => Holds(a, "DISCONNECT", c)
  BY <1>1, <1>2 DEF Holds
<1>5. ASSUME Says(m, "DISCONNECT", c)
      PROVE  Holds(a, "DISCONNECT", c) /\ Followed(a, c)
  <2>1. Says(a[n + 1], "DISCONNECT", c)
    BY <1>1, <1>5
  <2>2. ASSUME NEW k \in 1 .. n + 1, Says(a[k], "CONNECT", c)
        PROVE  n + 1 \in k + 1 .. n + 1
    <3>1. k # n + 1
      BY <1>1, <1>5, <2>2 DEF Says
    <3>. QED
      BY <1>1, <3>1
  <2>. HIDE DEF a
  <2>. QED
    BY <1>1, <1>2, <2>1, <2>2 DEF Holds, Followed
<1>6. ASSUME m.conn # c, Followed(b, c)
      PROVE  Followed(a, c)
  <2>1. ASSUME NEW k \in 1 .. n + 1, Says(a[k], "CONNECT", c)
        PROVE  \E j \in k + 1 .. n + 1 : Says(a[j], "DISCONNECT", c)
    <3>1. k \in 1 .. n
      BY <1>1, <1>3, <1>6, <2>1 DEF Says
    <3>2. PICK j \in k + 1 .. n : Says(b[j], "DISCONNECT", c)
      BY <1>1, <1>6, <2>1, <3>1 DEF Followed
    <3>3. j \in 1 .. n /\ j \in k + 1 .. n + 1
      BY <1>1, <3>1
    <3>. QED
      BY <1>1, <3>2, <3>3
  <2>. HIDE DEF a
  <2>. QED
    BY <1>1, <2>1 DEF Followed
<1>. QED
  BY <1>4, <1>5, <1>6

LEMMA TailFollowed ==
  ASSUME NEW b \in Seq(Messages), b # <<>>
  PROVE  /\ Head(b) \in Elements(b) /\ Elements(Tail(b)) \subseteq Elements(b)
         /\ \A c \in Conns :
              /\ Holds(b, "DISCONNECT", c) =>
                   Says(Head(b), "DISCONNECT", c) \/ Holds(Tail(b), "DISCONNECT", c)
              /\ Followed(b, c) =>
                   /\ Followed(Tail(b), c)
                   /\ Says(Head(b), "CONNECT", c) => Holds(Tail(b), "DISCONNECT", c)
<1>. DEFINE n == Len(b)  t == Tail(b)
<1>1. /\ n \in Nat \ {0} /\ Len(t) = n - 1 /\ Head(b) = b[1]
      /\ \A k \in 1 .. n - 1 : t[k] = b[k + 1]
  BY HeadTailProperties, EmptySeq, LenProperties
<1>2. 1 \in 1 .. n /\ \A k \in 1 .. n - 1 : k + 1 \in 1 .. n
  BY <1>1
<1>3. \A j \in 2 .. n : j - 1 \in 1 .. n - 1 /\ t[j - 1] = b[j]
  BY <1>1
<1>4. \A j \in 1 .. n : j = 1 \/ j \in 2 .. n
  BY <1>1
<1>. HIDE DEF t
<1>5. Head(b) \in Elements(b) /\ Elements(t) \subseteq Elements(b)
  BY <1>1, <1>2 DEF Elements
<1>6. ASSUME NEW c \in Conns, Holds(b, "DISCONNECT", c)
      PROVE  Says(Head(b), "DISCONNECT", c) \/ Holds(t, "DISCONNECT", c)
  <2>1. PICK j \in 1 .. n : Says(b[j], "DISCONNECT", c)
    BY <1>6 DEF Holds
  <2>. QED
    BY <1>1, <1>3, <1>4, <2>1 DEF Holds
<1>7. ASSUME NEW c \in Conns, Followed(b, c)
      PROVE  /\ Followed(t, c)
             /\ Says(Head(b), "CONNECT", c) => Holds(t, "DISCONNECT", c)
  <2>1. ASSUME NEW k \in 1 .. n - 1, Says(t[k], "CONNECT", c)
        PROVE  \E j \in k + 1 .. n - 1 : Says(t[j], "DISCONNECT", c)
    <3>1. k + 1 \in 1 .. n /\ Says(b[k + 1], "CONNECT", c)
      BY <1>1, <1>2, <2>1
    <3>2. PICK j \in (k + 1) + 1 .. n : Says(b[j], "DISCONNECT", c)
      BY <1>7, <3>1 DEF Followed
    <3>3. j \in 2 .. n /\ j - 1 \in k + 1 .. n - 1
      BY <1>1, <3>2
    <3>4. Says(t[j - 1], "DISCONNECT", c)
      BY <1>3, <3>2, <3>3
    <3>. QED
      BY <3>3, <3>4
  <2>2. ASSUME Says(b[1], "CONNECT", c)
        PROVE  Holds(t, "DISCONNECT", c)
    <3>1. PICK j \in 1 + 1 .. n : Says(b[j], "DISCONNECT", c)
      BY <1>2, <1>7, <2>2 DEF Followed
    <3>2. j \in 2 .. n
      BY <3>1
    <3>3. j - 1 \in 1 .. n - 1 /\ Says(t[j - 1], "DISCONNECT", c)
      BY <1>3, <3>1, <3>2
    <3>. QED
      BY <1>1, <3>3 DEF Holds
  <2>. QED
    BY <1>1, <2>1, <2>2 DEF Followed
<1>. QED
  BY <1>5, <1>6, <1>7 DEF t

LEMMA ElementsAreMessages ==
  ASSUME NEW b \in Seq(Messages)
  PROVE  Elements(b) \subseteq Messages
BY LenProperties, ElementOfSeq DEF Elements
------------------------------------------------------------------------------
(***************************************************************************)
(* The invariant is kept.                                                  *)
(***************************************************************************)
LEMMA SlotTypes ==
  ASSUME IInv
  PROVE  /\ hpc \in [Conns -> HandlerPcs] /\ valid \in [Conns -> BOOLEAN]
         /\ nchunks \in [Conns -> Nat] /\ chunk \in [Conns -> Received \cup {None}]
         /\ peer \in [Conns -> {"none", "open", "closed"}]
         /\ messageBuffer \in Seq(Messages) /\ Elements(messageBuffer) \subseteq Messages
         /\ msg \in Messages \cup {NoMessage}
         /\ mpc \in {"handle", "sendDb", "sendPort"} => msg \in Messages
         /\ owner \in [Services -> Conns \cup {None}]
         /\ \A c \in Conns : peer[c] = "none" <=> hpc[c] = "none"
         /\ Svc \in [Conns -> Services] /\ None \notin Conns
         /\ \A c \in Conns : hpc[c] = "push" => chunk[c] \in Received
<1>1. TypeOK /\ HandledOnceAccepted
  BY DEF IInv, TypeInv
<1>2. messageBuffer \in Seq(Messages)
  BY <1>1 DEF TypeOK, InTypeOK
<1>3. Elements(messageBuffer) \subseteq Messages
  BY <1>2, ElementsAreMessages
<1>. QED
  BY <1>1, <1>2, <1>3, ConstantsAssumption
     DEF TypeOK, EnvTypeOK, HandlerTypeOK, InTypeOK, HandledOnceAccepted

(* Who was let in was read from, so its handler has started.                *)
LEMMA LetInWasRead ==
  ASSUME IInv, HandlersAgree, NEW c \in Conns, LetIn(c)
  PROVE  nchunks[c] > 0 /\ hpc[c] \notin {"none", "start"}
<1>1. nchunks[c] > 0
  BY SlotTypes DEF LetIn
<1>. QED
  BY <1>1 DEF HandlersAgree

LEMMA SlotInit == Init => SlotInv
<1>. SUFFICES ASSUME Init PROVE SlotInv
  OBVIOUS
<1>1. Len(messageBuffer) = 0 /\ 1 .. 0 = {}
  BY EmptySeq DEF Init
<1>. QED
  BY <1>1 DEF Init, SlotInv, MessagesGenuine, OwnersSpoke, HandlersAgree,
              DisconnectFollows, SlotsAwaited, Gone, Elements

(* What does not change the parts the invariant is about keeps it.          *)
LEMMA SlotStays ==
  SlotInv /\ UNCHANGED <<peer, hpc, valid, nchunks, messageBuffer, mpc, msg, owner>>
    => SlotInv'
BY DEF SlotInv, MessagesGenuine, Genuine, LetIn, OwnersSpoke, HandlersAgree,
       DisconnectFollows, SlotsAwaited, Handling, Says, Holds, Followed, Elements, Gone

(* A step of the peer or of the handler's thread that sends no message.     *)
LEMMA SlotQuiet ==
  ASSUME IInv, SlotInv, NEW c \in Conns,
         UNCHANGED <<messageBuffer, mpc, msg, owner>>,
         \A d \in Conns : d # c => /\ hpc'[d] = hpc[d] /\ peer'[d] = peer[d]
                                   /\ valid'[d] = valid[d] /\ nchunks'[d] = nchunks[d],
         nchunks[c] > 0 => nchunks'[c] > 0, LetIn(c) => LetIn(c)',
         Gone(c) => Gone(c)',
         peer[c] = "closed" => peer'[c] = "closed",
         (Gone(c) /\ valid[c])' =>
           (Gone(c) /\ valid[c]) \/ nchunks[c] = 0,
         HandlersAgree'
  PROVE  SlotInv'
<1>. USE SlotTypes DEF SlotInv, Gone
<1>1. \A d \in Conns : /\ nchunks[d] > 0 => nchunks'[d] > 0
                       /\ LetIn(d) => LetIn(d)'
                       /\ Gone(d) => Gone(d)'
                       /\ peer[d] = "closed" => peer'[d] = "closed"
                       /\ (Gone(d) /\ valid[d])' => (Gone(d) /\ valid[d]) \/ nchunks[d] = 0
  BY DEF LetIn
<1>2. \A m \in Messages : Genuine(m) => Genuine(m)'
  BY <1>1 DEF Genuine, Messages
<1>3. MessagesGenuine'
  BY <1>2 DEF MessagesGenuine
<1>4. OwnersSpoke'
  BY <1>1 DEF OwnersSpoke
<1>5. ASSUME NEW d \in Conns, Gone(d)', valid'[d]
      PROVE  /\ Followed(messageBuffer, d)
             /\ Handling("CONNECT", d) => Holds(messageBuffer, "DISCONNECT", d)
  <2>1. CASE nchunks[d] = 0
    <3>0. ~LetIn(d)
      BY <2>1 DEF LetIn
    <3>1. \A m \in Elements(messageBuffer) : m.conn # d
      BY <3>0 DEF MessagesGenuine, Genuine
    <3>2. Followed(messageBuffer, d)
      BY <3>1 DEF Followed, Says, Elements
    <3>3. ~Handling("CONNECT", d)
      BY <3>0 DEF MessagesGenuine, Genuine, Handling, Says
    <3>. QED
      BY <3>2, <3>3
  <2>2. CASE nchunks[d] # 0
    BY <1>1, <1>5, <2>2 DEF DisconnectFollows
  <2>. QED
    BY <2>1, <2>2
<1>6. DisconnectFollows'
  BY <1>5 DEF DisconnectFollows, Handling
<1>7. ASSUME NEW i \in Services, owner[i] # None, Gone(owner[i])', valid'[owner[i]]
      PROVE  Holds(messageBuffer, "DISCONNECT", owner[i]) \/ Handling("DISCONNECT", owner[i])
  <2>1. owner[i] \in Conns /\ nchunks[owner[i]] > 0
    BY <1>7 DEF OwnersSpoke
  <2>2. Gone(owner[i]) /\ valid[owner[i]]
    BY <1>1, <1>7, <2>1
  <2>. QED
    BY <1>7, <2>2 DEF SlotsAwaited
<1>8. SlotsAwaited'
  BY <1>7 DEF SlotsAwaited, Handling
<1>. QED
  BY <1>3, <1>4, <1>6, <1>8

(* A step that puts a message at the end of messageBuffer.                  *)
LEMMA SlotAppend ==
  ASSUME IInv, SlotInv, NEW c \in Conns, NEW m \in Messages, m.conn = c,
         messageBuffer' = Append(messageBuffer, m), UNCHANGED <<mpc, msg, owner, peer>>,
         \A d \in Conns : d # c => hpc'[d] = hpc[d],
         UNCHANGED <<valid, nchunks>>, ~Gone(c), Genuine(m)',
         Gone(c)' => m.kind = "DISCONNECT",
         HandlersAgree'
  PROVE  SlotInv'
<1>. USE SlotTypes DEF SlotInv, Gone
<1>1. \A d \in Conns : d # c => (Gone(d)' <=> Gone(d))
  OBVIOUS
<1>2. \A x \in Messages : Genuine(x) => Genuine(x)'
  BY <1>1 DEF Genuine, LetIn, Messages
<1>3. Elements(messageBuffer') = Elements(messageBuffer) \cup {m}
  BY AppendElements
<1>4. MessagesGenuine'
  BY <1>2, <1>3 DEF MessagesGenuine
<1>5. OwnersSpoke'
  BY DEF OwnersSpoke
<1>6. \A d \in Conns :
        /\ Holds(messageBuffer, "DISCONNECT", d) => Holds(messageBuffer', "DISCONNECT", d)
        /\ Says(m, "DISCONNECT", d) =>
             Holds(messageBuffer', "DISCONNECT", d) /\ Followed(messageBuffer', d)
        /\ m.conn # d /\ Followed(messageBuffer, d) => Followed(messageBuffer', d)
  BY AppendFollowed
<1>7. ASSUME NEW d \in Conns, Gone(d)', valid'[d]
      PROVE  /\ Followed(messageBuffer', d)
             /\ Handling("CONNECT", d) => Holds(messageBuffer', "DISCONNECT", d)
  <2>1. CASE d = c
    BY <1>6, <1>7, <2>1 DEF Says
  <2>2. CASE d # c
    BY <1>1, <1>6, <1>7, <2>2 DEF DisconnectFollows
  <2>. QED
    BY <2>1, <2>2
<1>8. DisconnectFollows'
  BY <1>7 DEF DisconnectFollows, Handling
<1>9. ASSUME NEW i \in Services, owner[i] # None, Gone(owner[i])', valid[owner[i]]
      PROVE  Holds(messageBuffer', "DISCONNECT", owner[i]) \/ Handling("DISCONNECT", owner[i])
  <2>1. owner[i] \in Conns
    BY <1>9
  <2>2. CASE owner[i] = c
    BY <1>6, <1>9, <2>1, <2>2 DEF Says
  <2>3. CASE owner[i] # c
    BY <1>1, <1>6, <1>9, <2>1, <2>3 DEF SlotsAwaited
  <2>. QED
    BY <2>2, <2>3
<1>10. SlotsAwaited'
  BY <1>9 DEF SlotsAwaited, Handling
<1>. QED
  BY <1>4, <1>5, <1>8, <1>10

(* The message thread takes the first message.                              *)
LEMMA SlotPop ==
  ASSUME IInv, SlotInv, MessagesPop
  PROVE  SlotInv'
<1>. USE SlotTypes DEF SlotInv
<1>0. UNCHANGED <<peer, hpc, valid, nchunks, owner>> /\ mpc = "pop"
  BY DEF MessagesPop, OnlyMessages, Processing, envVars, handlerVars
<1>1. /\ OwnersSpoke' /\ HandlersAgree'
      /\ \A m : Genuine(m)' = Genuine(m)
      /\ \A c : Gone(c)' = Gone(c)
  BY <1>0 DEF OwnersSpoke, HandlersAgree, Genuine, LetIn, Gone
<1>2. CASE messageBuffer = <<>>
  <2>1. UNCHANGED <<messageBuffer, msg>> /\ mpc' = "loop"
    BY <1>2 DEF MessagesPop
  <2>. QED
    BY <1>0, <1>1, <2>1 DEF MessagesGenuine, DisconnectFollows, SlotsAwaited, Handling
<1>3. CASE messageBuffer # <<>>
  <2>1. /\ msg' = Head(messageBuffer) /\ messageBuffer' = Tail(messageBuffer)
        /\ mpc' = "handle"
    BY <1>3 DEF MessagesPop
  <2>2. /\ msg' \in Elements(messageBuffer)
        /\ Elements(messageBuffer') \subseteq Elements(messageBuffer)
        /\ \A c \in Conns :
             /\ Holds(messageBuffer, "DISCONNECT", c) =>
                  Says(msg', "DISCONNECT", c) \/ Holds(messageBuffer', "DISCONNECT", c)
             /\ Followed(messageBuffer, c) =>
                  /\ Followed(messageBuffer', c)
                  /\ Says(msg', "CONNECT", c) => Holds(messageBuffer', "DISCONNECT", c)
    BY <1>3, <2>1, TailFollowed
  <2>3. MessagesGenuine'
    BY <1>1, <2>2 DEF MessagesGenuine
  <2>4. DisconnectFollows'
    BY <1>0, <1>1, <2>2 DEF DisconnectFollows, Handling
  <2>5. SlotsAwaited'
    BY <1>0, <1>1, <2>1, <2>2 DEF SlotsAwaited, Handling
  <2>. QED
    BY <1>1, <2>3, <2>4, <2>5
<1>. QED
  BY <1>2, <1>3

(* The message thread handles a message.                                    *)
LEMMA SlotHandle ==
  ASSUME IInv, SlotInv,
         MessagesLoop \/ HandleConnect \/ SendDbConnString \/ SendPort
           \/ HandleDisconnect \/ HandleUnknown
  PROVE  SlotInv'
<1>. USE SlotTypes DEF SlotInv
<1>0. UNCHANGED <<peer, hpc, valid, nchunks, messageBuffer>>
  BY DEF MessagesLoop, HandleConnect, SendDbConnString, SendPort, HandleDisconnect,
         HandleUnknown, OnlyMessages, envVars, handlerVars
<1>1. /\ HandlersAgree'
      /\ \A m : Genuine(m)' = Genuine(m)
      /\ \A c : Gone(c)' = Gone(c)
  BY <1>0 DEF HandlersAgree, Genuine, LetIn, Gone
<1>2. mpc' # "handle" /\ (mpc' \in {"sendDb", "sendPort"} =>
                            msg' = msg /\ mpc \in {"handle", "sendDb", "sendPort"})
  BY DEF MessagesLoop, HandleConnect, SendDbConnString, SendPort, HandleDisconnect,
         HandleUnknown, Handled, Processing
<1>3. MessagesGenuine'
  BY <1>0, <1>1, <1>2 DEF MessagesGenuine
<1>4. DisconnectFollows'
  BY <1>0, <1>1, <1>2 DEF DisconnectFollows, Handling
<1>5. CASE MessagesLoop \/ SendDbConnString \/ SendPort \/ HandleUnknown
  <2>1. /\ UNCHANGED owner
        /\ mpc = "handle" => msg.kind = "OTHER"
    BY <1>5 DEF MessagesLoop, SendDbConnString, SendPort, HandleUnknown, Processing
  <2>. QED
    BY <1>0, <1>1, <1>2, <1>3, <1>4, <2>1 DEF OwnersSpoke, SlotsAwaited, Handling, Says
<1>6. CASE HandleConnect
  <2>1. /\ mpc = "handle" /\ msg.kind = "CONNECT" /\ msg \in Messages
        /\ owner' = [owner EXCEPT ![Svc[msg.conn]] = msg.conn]
    BY <1>6 DEF HandleConnect, Processing, Register
  <2>2. msg.conn \in Conns /\ nchunks[msg.conn] > 0
    BY <2>1 DEF MessagesGenuine, Genuine, LetIn, Messages
  <2>3. \A i \in Services : owner'[i] = IF i = Svc[msg.conn] THEN msg.conn ELSE owner[i]
    BY <2>1
  <2>4. OwnersSpoke'
    BY <1>0, <2>2, <2>3 DEF OwnersSpoke
  <2>5. ASSUME NEW i \in Services, owner'[i] # None, Gone(owner'[i]), valid[owner'[i]]
        PROVE  Holds(messageBuffer, "DISCONNECT", owner'[i])
    <3>1. CASE i = Svc[msg.conn]
      BY <2>1, <2>2, <2>3, <2>5, <3>1 DEF DisconnectFollows, Handling, Says
    <3>2. CASE i # Svc[msg.conn]
      BY <2>1, <2>3, <2>5, <3>2 DEF SlotsAwaited, Handling, Says
    <3>. QED
      BY <3>1, <3>2
  <2>6. SlotsAwaited'
    BY <1>0, <1>1, <2>5 DEF SlotsAwaited
  <2>. QED
    BY <1>1, <1>3, <1>4, <2>4, <2>6
<1>7. CASE HandleDisconnect
  <2>1. /\ mpc = "handle" /\ msg.kind = "DISCONNECT" /\ msg \in Messages
        /\ owner' = [owner EXCEPT ![Svc[msg.conn]] = None]
    BY <1>7 DEF HandleDisconnect, Processing, Register
  <2>2. msg.conn \in Conns
    BY <2>1 DEF Messages
  <2>3. \A i \in Services : owner'[i] = IF i = Svc[msg.conn] THEN None ELSE owner[i]
    BY <2>1
  <2>4. OwnersSpoke'
    BY <1>0, <2>3 DEF OwnersSpoke
  <2>5. ASSUME NEW i \in Services, owner'[i] # None, Gone(owner'[i]), valid[owner'[i]]
        PROVE  Holds(messageBuffer, "DISCONNECT", owner'[i])
    <3>1. i # Svc[msg.conn] /\ owner'[i] = owner[i]
      BY <2>3, <2>5
    <3>2. msg.conn # owner[i]
      BY <2>5, <3>1 DEF OwnersSpoke
    <3>. QED
      BY <2>5, <3>1, <3>2 DEF SlotsAwaited, Handling, Says
  <2>6. SlotsAwaited'
    BY <1>0, <1>1, <2>5 DEF SlotsAwaited
  <2>. QED
    BY <1>1, <1>3, <1>4, <2>4, <2>6
<1>. QED
  BY <1>5, <1>6, <1>7

(* The handler's thread of c.                                               *)
LEMMA SlotHandler ==
  ASSUME IInv, SlotInv, NEW c \in Conns,
         HandlerStep(c) \/ HandlerAdmits(c) \/ HandlerRefuses(c)
  PROVE  SlotInv'
<1>. USE SlotTypes DEF HandlerPcs
<1>0. HandlersAgree
  BY DEF SlotInv
<1>1. /\ UNCHANGED <<peer, mpc, msg, owner>>
      /\ \A d \in Conns : d # c => /\ hpc'[d] = hpc[d] /\ valid'[d] = valid[d]
                                   /\ nchunks'[d] = nchunks[d]
  BY DEF HandlerStep, HandlerStart, HandlerEof, HandlerPush, HandlerDec, HandlerClose,
         HandlerAdmits, HandlerRefuses, GoHandler, OnlyHandler, Leave, Receive,
         PushMessage, inVars, envVars
<1>3. CASE HandlerStart(c) \/ HandlerDec(c) \/ HandlerClose(c)
  <2>1. /\ UNCHANGED <<messageBuffer, valid, nchunks>>
        /\ \/ hpc[c] = "start" /\ hpc'[c] = "recv"
           \/ hpc[c] = "dec" /\ hpc'[c] = "close"
           \/ hpc[c] = "close" /\ hpc'[c] = "done"
    BY <1>3 DEF HandlerStart, HandlerDec, HandlerClose, GoHandler, OnlyHandler, inVars
  <2>2. HandlersAgree'
    BY <1>0, <1>1, <2>1 DEF HandlersAgree, Gone
  <2>. QED
    BY <1>1, <2>1, <2>2, SlotQuiet DEF Gone, LetIn
<1>4. CASE HandlerAdmits(c)
  <2>1. /\ UNCHANGED <<messageBuffer, valid>> /\ hpc[c] = "recv" /\ hpc'[c] = "push"
        /\ nchunks'[c] = nchunks[c] + 1
    BY <1>4 DEF HandlerAdmits, Receive, GoHandler, OnlyHandler, inVars
  <2>2. HandlersAgree'
    BY <1>0, <1>1, <2>1 DEF HandlersAgree, Gone
  <2>3. /\ nchunks'[c] > 0 /\ ~Gone(c) /\ ~(Gone(c) /\ valid[c])'
        /\ LetIn(c) => LetIn(c)'
    BY <2>1 DEF Gone, LetIn
  <2>. QED
    BY <1>1, <2>1, <2>2, <2>3, SlotQuiet
<1>5. CASE HandlerRefuses(c)
  <2>1. /\ UNCHANGED messageBuffer /\ hpc[c] = "recv" /\ hpc'[c] = "dec"
        /\ nchunks'[c] = nchunks[c] + 1 /\ valid'[c] = FALSE
    BY <1>5 DEF HandlerRefuses, Receive, Leave, GoHandler, OnlyHandler, SaysDisconnect,
                inVars
  <2>2. HandlersAgree'
    BY <1>0, <1>1, <2>1 DEF HandlersAgree, Gone
  <2>3. /\ nchunks'[c] > 0 /\ ~Gone(c) /\ ~(Gone(c) /\ valid[c])'
        /\ LetIn(c) => LetIn(c)'
    BY <2>1 DEF Gone, LetIn
  <2>. QED
    BY <1>1, <2>1, <2>2, <2>3, SlotQuiet
<1>6. CASE HandlerEof(c)
  <2>1. /\ UNCHANGED <<valid, nchunks>> /\ hpc[c] = "recv" /\ hpc'[c] = "dec"
        /\ peer[c] = "closed"
    BY <1>6 DEF HandlerEof, EndOfStream, Leave, GoHandler, OnlyHandler
  <2>2. valid[c] = TRUE
    BY <1>0, <2>1 DEF HandlersAgree, Gone
  <2>3. HandlersAgree'
    BY <1>0, <1>1, <2>1 DEF HandlersAgree, Gone
  <2>4. CASE nchunks[c] > 0
    <3>. DEFINE m == [kind |-> "DISCONNECT", conn |-> c]
    <3>1. messageBuffer' = Append(messageBuffer, m)
      BY <1>6, <2>2, <2>4 DEF HandlerEof, Leave, SaysDisconnect, PushMessage
    <3>2. m \in Messages /\ m.kind = "DISCONNECT" /\ m.conn = c
      BY DEF Messages, Kinds
    <3>3. Genuine(m)' /\ ~Gone(c)
      BY <1>1, <2>1, <2>2, <2>4 DEF Genuine, LetIn, Gone
    <3>. HIDE DEF m
    <3>. QED
      BY <1>1, <2>1, <2>3, <3>1, <3>2, <3>3, SlotAppend
  <2>5. CASE ~(nchunks[c] > 0)
    <3>1. nchunks[c] = 0 /\ ~SaysDisconnect(nchunks[c] > 0, valid[c])
      <4>1. nchunks[c] = 0
        BY <2>5
      <4>2. (nchunks[c] > 0) = FALSE
        BY <2>5
      <4>3. ~SaysDisconnect(nchunks[c] > 0, valid[c])
        BY ONLY <2>2, <4>2, Zenon DEF SaysDisconnect
      <4>. QED
        BY <4>1, <4>3
    <3>2. UNCHANGED messageBuffer
      BY <1>6, <3>1 DEF HandlerEof, Leave, inVars
    <3>. QED
      BY <1>1, <2>1, <2>3, <3>1, <3>2, SlotQuiet DEF Gone, LetIn
  <2>. QED
    BY <2>4, <2>5
<1>7. CASE HandlerPush(c)
  <2>1. /\ UNCHANGED <<valid, nchunks>> /\ hpc[c] = "push" /\ hpc'[c] = "recv"
        /\ messageBuffer' = Append(messageBuffer, [kind |-> chunk[c], conn |-> c])
    BY <1>7 DEF HandlerPush, PushMessage, GoHandler, OnlyHandler
  <2>2. PICK m \in Messages : /\ messageBuffer' = Append(messageBuffer, m)
                              /\ m.kind # "DISCONNECT" /\ m.conn = c
    <3>1. chunk[c] \in Received
      BY <2>1
    <3>2. [kind |-> chunk[c], conn |-> c] \in Messages /\ chunk[c] # "DISCONNECT"
      BY <3>1 DEF Messages, Kinds, Received
    <3>. QED
      BY <2>1, <3>2
  <2>3. HandlersAgree' /\ nchunks[c] > 0
    BY <1>0, <1>1, <2>1 DEF HandlersAgree, Gone
  <2>4. Genuine(m)' /\ ~Gone(c) /\ ~Gone(c)'
    BY <1>0, <2>1, <2>2, <2>3 DEF HandlersAgree, Genuine, LetIn, Gone
  <2>. QED
    BY <1>1, <2>1, <2>2, <2>3, <2>4, SlotAppend
<1>. QED
  BY <1>3, <1>4, <1>5, <1>6, <1>7 DEF HandlerStep

(* The peer of c opens or closes it.                                        *)
LEMMA SlotPeer ==
  ASSUME IInv, SlotInv, NEW c \in Conns, PeerClose(c) \/ Accept(c)
  PROVE  SlotInv'
<1>. USE SlotTypes DEF HandlerPcs
<1>0. HandlersAgree
  BY DEF SlotInv
<1>1. CASE PeerClose(c)
  <2>1. /\ UNCHANGED <<messageBuffer, mpc, msg, owner, hpc, valid, nchunks>>
        /\ peer' = [peer EXCEPT ![c] = "closed"]
    BY <1>1 DEF PeerClose, inVars, handlerVars
  <2>2. HandlersAgree'
    BY <1>0, <2>1 DEF HandlersAgree, Gone
  <2>. QED
    BY <2>1, <2>2, SlotQuiet DEF Gone, LetIn
<1>2. CASE Accept(c)
  <2>1. /\ UNCHANGED <<messageBuffer, mpc, msg, owner, valid, nchunks>>
        /\ peer' = [peer EXCEPT ![c] = "open"] /\ hpc' = [hpc EXCEPT ![c] = "start"]
        /\ peer[c] = "none"
    BY <1>2 DEF Accept, inVars
  <2>2. hpc[c] = "none" /\ ~(nchunks[c] > 0) /\ nchunks[c] = 0
    BY <1>0, <2>1 DEF HandlersAgree
  <2>3. HandlersAgree'
    BY <1>0, <2>1, <2>2 DEF HandlersAgree, Gone
  <2>. QED
    BY <2>1, <2>2, <2>3, SlotQuiet DEF Gone, LetIn
<1>. QED
  BY <1>1, <1>2

LEMMA SlotFrame ==
  ASSUME AdminStop \/ NotifyConnection \/ StopTimer \/ MainReturns \/ AcceptorStep
           \/ SpuriousWakeup \/ SenderStep \/ UNCHANGED vars
  PROVE  UNCHANGED <<peer, hpc, valid, nchunks, messageBuffer, mpc, msg, owner>>
BY DEF AdminStop, NotifyConnection, StopTimer, MainReturns, OnlyAdmin, AcceptorStep,
       AcceptorLock, AcceptorSleep, SelectTimeout, SpuriousWakeup, SenderStep,
       SenderLoop, SenderSkip, SenderPick, SenderPassEnds, SenderSocket, SendReaches,
       SendToClosedPeer, SendFails, SenderErase, OnlySender, vars, envVars,
       handlerVars, inVars

LEMMA SlotStep == IInv /\ SlotInv /\ [Next]_vars => SlotInv'
<1>. SUFFICES ASSUME IInv, SlotInv, [Next]_vars PROVE SlotInv'
  OBVIOUS
<1>1. CASE \/ AdminStop \/ NotifyConnection \/ StopTimer \/ MainReturns
           \/ AcceptorStep \/ SpuriousWakeup \/ SenderStep \/ UNCHANGED vars
  BY <1>1, SlotFrame, SlotStays
<1>2. ASSUME NEW c \in Conns, PeerClose(c) \/ Accept(c) PROVE SlotInv'
  BY <1>2, SlotPeer
<1>3. ASSUME NEW c \in Conns, HandlerStep(c) \/ HandlerAdmits(c) \/ HandlerRefuses(c)
      PROVE  SlotInv'
  BY <1>3, SlotHandler
<1>4. CASE MessagesStep
  BY <1>4, SlotPop, SlotHandle DEF MessagesStep
<1>. QED
  BY <1>1, <1>2, <1>3, <1>4 DEF Next

LEMMA SlotInvariance == Spec => []SlotInv
<1>. QED
  BY SlotInit, SlotStep, Invariance, PTL DEF Spec
------------------------------------------------------------------------------
(* StaleSlotOnlyAfterRefusal holds: a slot outlives its connection only     *)
(* while the DISCONNECT is on the way, or because the handler refused it.   *)
THEOREM SlotsReleased == Spec => []StaleSlotOnlyAfterRefusal
<1>1. ASSUME IInv, SlotInv PROVE StaleSlotOnlyAfterRefusal
  <2>. USE SlotTypes
  <2>. SUFFICES ASSUME NEW i \in Services, owner[i] # None, Gone(owner[i]), valid[owner[i]]
                PROVE  DisconnectPending(owner[i])
    BY DEF StaleSlotOnlyAfterRefusal
  <2>. DEFINE c == owner[i]
  <2>1. \A m \in Messages : Says(m, "DISCONNECT", c) =>
           m = [kind |-> "DISCONNECT", conn |-> c]
    BY DEF Says, Messages
  <2>2. Holds(messageBuffer, "DISCONNECT", c) \/ Handling("DISCONNECT", c)
    BY <1>1 DEF SlotInv, SlotsAwaited
  <2>3. CASE Handling("DISCONNECT", c)
    <3>1. mpc = "handle" /\ msg \in Messages /\ Says(msg, "DISCONNECT", c)
      BY <1>1, <2>3 DEF Handling
    <3>2. mpc = "handle" /\ msg = [kind |-> "DISCONNECT", conn |-> c]
      BY <2>1, <3>1
    <3>. QED
      BY <3>2 DEF DisconnectPending
  <2>4. CASE Holds(messageBuffer, "DISCONNECT", c)
    <3>1. PICK j \in 1 .. Len(messageBuffer) : Says(messageBuffer[j], "DISCONNECT", c)
      BY <2>4 DEF Holds
    <3>2. messageBuffer[j] \in Messages
      BY <1>1, <3>1 DEF Elements
    <3>. QED
      BY <2>1, <3>1, <3>2 DEF DisconnectPending
  <2>. QED
    BY <2>2, <2>3, <2>4
<1>. QED
  BY <1>1, SlotInvariance, Invariance, PTL
------------------------------------------------------------------------------
(***************************************************************************)
(* Where what is sent goes.                                                *)
(***************************************************************************)
(* f was, or is, the descriptor of an accepted connection of service i.     *)
Given(f, i) == \E d \in Conns : Svc[d] = i /\ hpc[d] # "none" /\ fd[d] = f

SlotsGiven == \A i \in Services : serviceSockets[i] > 0 => Given(serviceSockets[i], i)

CopyGiven == spc = "send" => Given(ssock, AuthId)

OpenDistinct ==
  \A c, d \in Conns : SocketOpen(c) /\ SocketOpen(d) /\ fd[c] = fd[d] => c = d

DeliveredToAccepted == \A c \in Conns : delivered[c] # <<>> => hpc[c] # "none"

DescriptorInv ==
  SlotsGiven /\ CopyGiven /\ OpenDistinct /\ DeliveredToAccepted
    /\ MisdeliveryOnlyToReusedDescriptor

LEMMA DescriptorTypes ==
  ASSUME IInv
  PROVE  /\ hpc \in [Conns -> HandlerPcs] /\ fd \in [Conns -> Fds \cup {0}]
         /\ serviceSockets \in [Services -> Fds \cup {0, -1}]
         /\ delivered \in [Conns -> Seq(Settings)]
         /\ AuthId \in Services
         /\ spc \in {"sock", "send", "erase"} => idx = AuthId
BY ConstantFacts DEF IInv, TypeInv, TypeOK, HandlerTypeOK, InTypeOK, OutTypeOK,
                     SenderInv, HoldsFront

LEMMA DescriptorInit == Init => DescriptorInv
BY DEF Init, DescriptorInv, SlotsGiven, CopyGiven, OpenDistinct, DeliveredToAccepted,
       MisdeliveryOnlyToReusedDescriptor, SocketOpen, Services

(* A descriptor keeps meaning what it meant while no connection is accepted.*)
LEMMA DescriptorKept ==
  ASSUME IInv, DescriptorInv, UNCHANGED fd,
         \A d \in Conns : /\ hpc[d] = "none" <=> hpc'[d] = "none"
                          /\ hpc[d] = "done" => hpc'[d] = "done",
         SlotsGiven', CopyGiven',
         \A c \in Conns : delivered'[c] # delivered[c] =>
           /\ hpc[c] # "none"
           /\ Svc[c] # AuthId =>
                \E d \in Conns : Svc[d] = AuthId /\ hpc[d] = "done" /\ fd[d] = fd[c]
  PROVE  DescriptorInv'
<1>. USE DEF DescriptorInv
<1>1. OpenDistinct'
  BY DEF OpenDistinct, SocketOpen
<1>2. DeliveredToAccepted'
  BY DEF DeliveredToAccepted
<1>3. ASSUME NEW c \in Conns, delivered'[c] # <<>>, Svc[c] # AuthId
      PROVE  \E d \in Conns : Svc[d] = AuthId /\ hpc'[d] = "done" /\ fd[d] = fd[c]
  <2>1. PICK d \in Conns : Svc[d] = AuthId /\ hpc[d] = "done" /\ fd[d] = fd[c]
    BY <1>3 DEF MisdeliveryOnlyToReusedDescriptor
  <2>. QED
    BY <2>1
<1>4. MisdeliveryOnlyToReusedDescriptor'
  BY <1>3 DEF MisdeliveryOnlyToReusedDescriptor
<1>. QED
  BY <1>1, <1>2, <1>4

LEMMA GivenKept ==
  ASSUME SlotsGiven, CopyGiven, UNCHANGED <<serviceSockets, spc, ssock>>,
         \A d \in Conns : hpc[d] # "none" => hpc'[d] # "none" /\ fd'[d] = fd[d]
  PROVE  SlotsGiven' /\ CopyGiven'
<1>1. ASSUME NEW f, NEW i, Given(f, i)
      PROVE  \E d \in Conns : Svc[d] = i /\ hpc'[d] # "none" /\ fd'[d] = f
  BY <1>1 DEF Given
<1>2. SlotsGiven'
  BY <1>1 DEF SlotsGiven, Given
<1>3. CopyGiven'
  BY <1>1 DEF CopyGiven, Given
<1>. QED
  BY <1>2, <1>3

LEMMA DescriptorStep == IInv /\ SlotInv /\ DescriptorInv /\ [Next]_vars => DescriptorInv'
<1>. SUFFICES ASSUME IInv, SlotInv, DescriptorInv, [Next]_vars PROVE DescriptorInv'
  OBVIOUS
<1>. USE DescriptorTypes DEF HandlerPcs
<1>0. SlotsGiven /\ CopyGiven /\ OpenDistinct
  BY DEF DescriptorInv
<1>1. CASE \/ AdminStop \/ NotifyConnection \/ StopTimer \/ MainReturns
           \/ AcceptorStep \/ SpuriousWakeup \/ UNCHANGED vars
           \/ (\E c \in Conns : PeerClose(c))
  <2>1. UNCHANGED <<fd, hpc, serviceSockets, spc, ssock, delivered>>
    BY <1>1 DEF AdminStop, NotifyConnection, StopTimer, MainReturns, OnlyAdmin,
         AcceptorStep, AcceptorLock, AcceptorSleep, SelectTimeout, SpuriousWakeup,
         PeerClose, vars, handlerVars, inVars, outVars
  <2>2. SlotsGiven' /\ CopyGiven'
    BY <1>0, <2>1, GivenKept
  <2>. QED
    BY <2>1, <2>2, DescriptorKept
<1>2. ASSUME NEW c \in Conns, HandlerStep(c) \/ HandlerAdmits(c) \/ HandlerRefuses(c)
      PROVE  DescriptorInv'
  <2>1. /\ UNCHANGED <<fd, serviceSockets, spc, ssock, delivered>>
        /\ hpc[c] \notin {"none", "done"} /\ hpc'[c] # "none"
        /\ \A d \in Conns : d # c => hpc'[d] = hpc[d]
    BY <1>2 DEF HandlerStep, HandlerStart, HandlerEof, HandlerPush, HandlerDec,
         HandlerClose, HandlerAdmits, HandlerRefuses, GoHandler, OnlyHandler, Leave,
         PushMessage, inVars, outVars
  <2>2. SlotsGiven' /\ CopyGiven'
    BY <1>0, <2>1, GivenKept
  <2>. QED
    BY <2>1, <2>2, DescriptorKept
<1>3. ASSUME NEW c \in Conns, Accept(c)
      PROVE  DescriptorInv'
  <2>1. PICK f \in Fds : LowestFree(f) /\ fd' = [fd EXCEPT ![c] = f]
    BY <1>3 DEF Accept
  <2>2. /\ UNCHANGED <<serviceSockets, spc, ssock, delivered>>
        /\ hpc' = [hpc EXCEPT ![c] = "start"] /\ hpc[c] = "none"
    BY <1>3, SlotTypes DEF Accept, inVars, outVars
  <2>3. \A d \in Conns : hpc[d] # "none" =>
           d # c /\ hpc'[d] = hpc[d] /\ fd'[d] = fd[d]
    BY <2>1, <2>2
  <2>5. SlotsGiven' /\ CopyGiven'
    BY <1>0, <2>2, <2>3, GivenKept
  <2>6. OpenDistinct'
    BY <1>0, <2>1, <2>2 DEF OpenDistinct, LowestFree, SocketOpen
  <2>7. DeliveredToAccepted' /\ MisdeliveryOnlyToReusedDescriptor'
    <3>1. DeliveredToAccepted'
      BY <2>2, <2>3 DEF DescriptorInv, DeliveredToAccepted
    <3>2. ASSUME NEW a \in Conns, delivered[a] # <<>>, Svc[a] # AuthId
          PROVE  \E d \in Conns : Svc[d] = AuthId /\ hpc'[d] = "done" /\ fd'[d] = fd'[a]
      <4>1. PICK d \in Conns : Svc[d] = AuthId /\ hpc[d] = "done" /\ fd[d] = fd[a]
        BY <3>2 DEF DescriptorInv, MisdeliveryOnlyToReusedDescriptor
      <4>2. hpc[a] # "none"
        BY <3>2 DEF DescriptorInv, DeliveredToAccepted
      <4>. QED
        BY <2>3, <4>1, <4>2
    <3>3. MisdeliveryOnlyToReusedDescriptor'
      BY <2>2, <3>2 DEF MisdeliveryOnlyToReusedDescriptor
    <3>. QED
      BY <3>1, <3>3
  <2>. QED
    BY <2>5, <2>6, <2>7 DEF DescriptorInv
<1>4. CASE MessagesStep
  <2>1. UNCHANGED <<fd, hpc, spc, ssock, delivered>>
    BY <1>4 DEF MessagesStep, MessagesLoop, MessagesPop, HandleConnect,
         SendDbConnString, SendPort, HandleDisconnect, HandleUnknown, OnlyMessages,
         handlerVars
  <2>2. CopyGiven'
    BY <1>0, <2>1 DEF CopyGiven, Given
  <2>3. SlotsGiven'
    <3>1. CASE HandleConnect
      <4>1. /\ mpc = "handle" /\ msg \in Messages
            /\ serviceSockets' = [serviceSockets EXCEPT ![Svc[msg.conn]] = fd[msg.conn]]
        BY <3>1, SlotTypes DEF HandleConnect, Processing, Register
      <4>2. msg.conn \in Conns /\ hpc[msg.conn] # "none"
        BY <4>1, LetInWasRead DEF SlotInv, MessagesGenuine, Genuine, Messages
      <4>3. Given(fd[msg.conn], Svc[msg.conn])
        BY <4>2 DEF Given
      <4>. QED
        BY <1>0, <2>1, <4>1, <4>2, <4>3 DEF SlotsGiven, Given
    <3>2. CASE HandleDisconnect
      BY <1>0, <2>1, <3>2 DEF HandleDisconnect, Register, SlotsGiven, Given
    <3>3. CASE ~HandleConnect /\ ~HandleDisconnect
      <4>1. UNCHANGED serviceSockets
        BY <1>4, <3>3 DEF MessagesStep, MessagesLoop, MessagesPop, SendDbConnString,
             SendPort, HandleUnknown
      <4>. QED
        BY <1>0, <2>1, <4>1 DEF SlotsGiven, Given
    <3>. QED
      BY <3>1, <3>2, <3>3
  <2>. QED
    BY <2>1, <2>2, <2>3, DescriptorKept
<1>5. CASE SenderStep
  <2>1. UNCHANGED <<fd, hpc, serviceSockets>>
    BY <1>5 DEF SenderStep, SenderLoop, SenderSkip, SenderPick, SenderPassEnds,
         SenderSocket, SendReaches, SendToClosedPeer, SendFails, SenderErase,
         OnlySender, handlerVars, inVars
  <2>2. SlotsGiven'
    BY <1>0, <2>1 DEF SlotsGiven, Given
  <2>3. ASSUME NEW c \in Conns, SendReaches(c) PROVE DescriptorInv'
    <3>1. /\ spc = "send" /\ spc' = "erase" /\ SocketOpen(c) /\ fd[c] = ssock
          /\ delivered' = [delivered EXCEPT ![c] = Append(@, smsg)]
      BY <2>3 DEF SendReaches, Sending, Behind
    <3>2. PICK d \in Conns : Svc[d] = AuthId /\ hpc[d] # "none" /\ fd[d] = fd[c]
      BY <1>0, <3>1 DEF CopyGiven, Given
    <3>3. Svc[c] # AuthId => hpc[d] = "done"
      BY <1>0, <3>1, <3>2 DEF OpenDistinct, SocketOpen
    <3>4. CopyGiven'
      BY <3>1 DEF CopyGiven
    <3>5. \A a \in Conns : delivered'[a] # delivered[a] => a = c
      BY <3>1
    <3>6. hpc[c] # "none"
      BY <3>1 DEF SocketOpen
    <3>. QED
      BY <2>1, <2>2, <3>2, <3>3, <3>4, <3>5, <3>6, DescriptorKept
  <2>4. CASE ~(\E c \in Conns : SendReaches(c))
    <3>1. UNCHANGED delivered
      BY <1>5, <2>4 DEF SenderStep, SenderLoop, SenderSkip, SenderPick, SenderPassEnds,
           SenderSocket, SendToClosedPeer, SendFails, SenderErase
    <3>2. CASE SenderSocket
      <4>1. spc' = "send" => ssock' = serviceSockets[AuthId] /\ serviceSockets[AuthId] > 0
        BY <3>2 DEF SenderSocket, Sending, SlotOf, NextIndex
      <4>2. CopyGiven'
        BY <1>0, <2>1, <4>1 DEF CopyGiven, SlotsGiven, Given
      <4>. QED
        BY <2>1, <2>2, <3>1, <4>2, DescriptorKept
    <3>3. CASE ~SenderSocket
      <4>1. spc' = "send" => spc = "send" /\ ssock' = ssock
        BY <1>5, <2>4, <3>3 DEF SenderStep, SenderLoop, SenderSkip, SenderPick,
             SenderPassEnds, SendToClosedPeer, SendFails, SenderErase, NextIndex, Sending
      <4>2. CopyGiven'
        BY <1>0, <2>1, <4>1 DEF CopyGiven, Given
      <4>. QED
        BY <2>1, <2>2, <3>1, <4>2, DescriptorKept
    <3>. QED
      BY <3>2, <3>3
  <2>. QED
    BY <2>3, <2>4
<1>. QED
  BY <1>1, <1>2, <1>3, <1>4, <1>5 DEF Next

(* MisdeliveryOnlyToReusedDescriptor holds: what is sent to auth reaches    *)
(* another service only behind a descriptor that a closed connection of     *)
(* auth had.                                                                *)
THEOREM Misdelivery == Spec => []MisdeliveryOnlyToReusedDescriptor
<1>1. DescriptorInv => MisdeliveryOnlyToReusedDescriptor
  BY DEF DescriptorInv
<1>. QED
  BY <1>1, DescriptorInit, DescriptorStep, SlotInvariance, Invariance, PTL DEF Spec
------------------------------------------------------------------------------
(***************************************************************************)
(* Who displaces a registered connection.                                  *)
(***************************************************************************)
(* A slot is taken in the handlers' eyes exactly while it has an owner.     *)
TakenWhenOwned == \A i \in Services : Taken(i) <=> owner[i] # None

AcceptedHasDescriptor == \A c \in Conns : hpc[c] # "none" => fd[c] \in Fds

OwnedInv == TakenWhenOwned /\ AcceptedHasDescriptor

LEMMA FdsPositive == \A f \in Fds : f \in Nat /\ f > 0
BY ConstantsAssumption, FS_CardinalityType DEF Fds

LEMMA OwnedInit == Init => OwnedInv
BY DEF Init, OwnedInv, TakenWhenOwned, AcceptedHasDescriptor, Taken

LEMMA OwnedStep == IInv /\ SlotInv /\ OwnedInv /\ [Next]_vars => OwnedInv'
<1>. SUFFICES ASSUME IInv, SlotInv, OwnedInv, [Next]_vars PROVE OwnedInv'
  OBVIOUS
<1>. USE SlotTypes, DescriptorTypes
<1>0. TakenWhenOwned /\ AcceptedHasDescriptor
  BY DEF OwnedInv
<1>1. ASSUME UNCHANGED <<fd, serviceSockets, owner>>,
             \A c \in Conns : hpc[c] = "none" => hpc'[c] = "none"
      PROVE  OwnedInv'
  BY <1>0, <1>1 DEF OwnedInv, TakenWhenOwned, AcceptedHasDescriptor, Taken
<1>2. CASE \/ AdminStop \/ NotifyConnection \/ StopTimer \/ MainReturns
           \/ AcceptorStep \/ SpuriousWakeup \/ UNCHANGED vars
           \/ (\E c \in Conns : PeerClose(c))
  BY <1>1, <1>2 DEF AdminStop, NotifyConnection, StopTimer, MainReturns, OnlyAdmin,
       AcceptorStep, AcceptorLock, AcceptorSleep, SelectTimeout, SpuriousWakeup,
       PeerClose, vars, handlerVars, inVars
<1>3. ASSUME NEW c \in Conns, HandlerStep(c) \/ HandlerAdmits(c) \/ HandlerRefuses(c)
      PROVE  OwnedInv'
  <2>1. UNCHANGED <<fd, serviceSockets, owner>> /\ hpc[c] # "none"
        /\ \A d \in Conns : d # c => hpc'[d] = hpc[d]
    BY <1>3 DEF HandlerStep, HandlerStart, HandlerEof, HandlerPush, HandlerDec,
         HandlerClose, HandlerAdmits, HandlerRefuses, GoHandler, OnlyHandler, Leave,
         PushMessage, inVars
  <2>. QED
    BY <1>1, <2>1
<1>4. ASSUME NEW c \in Conns, Accept(c)
      PROVE  OwnedInv'
  <2>1. PICK f \in Fds : fd' = [fd EXCEPT ![c] = f]
    BY <1>4 DEF Accept
  <2>2. UNCHANGED <<serviceSockets, owner>> /\ hpc' = [hpc EXCEPT ![c] = "start"]
    BY <1>4 DEF Accept, inVars
  <2>3. AcceptedHasDescriptor'
    BY <1>0, <2>1, <2>2 DEF AcceptedHasDescriptor
  <2>4. TakenWhenOwned'
    BY <1>0, <2>2 DEF TakenWhenOwned, Taken
  <2>. QED
    BY <2>3, <2>4 DEF OwnedInv
<1>5. CASE MessagesStep /\ ~HandleConnect /\ ~HandleDisconnect
  BY <1>1, <1>5 DEF MessagesStep, MessagesLoop, MessagesPop, SendDbConnString,
       SendPort, HandleUnknown, OnlyMessages, handlerVars
<1>6. CASE HandleConnect
  <2>1. /\ mpc = "handle" /\ msg \in Messages /\ UNCHANGED <<fd, hpc>>
        /\ serviceSockets' = [serviceSockets EXCEPT ![Svc[msg.conn]] = fd[msg.conn]]
        /\ owner' = [owner EXCEPT ![Svc[msg.conn]] = msg.conn]
    BY <1>6 DEF HandleConnect, Processing, Register, OnlyMessages, handlerVars
  <2>2. msg.conn \in Conns /\ hpc[msg.conn] # "none"
    BY <2>1, LetInWasRead DEF SlotInv, MessagesGenuine, Genuine, Messages
  <2>3. fd[msg.conn] \in Nat /\ fd[msg.conn] > 0 /\ msg.conn # None
    BY <1>0, <2>2, FdsPositive DEF AcceptedHasDescriptor
  <2>4. TakenWhenOwned'
    BY <1>0, <2>1, <2>3 DEF TakenWhenOwned, Taken
  <2>. QED
    BY <1>0, <2>1, <2>4 DEF OwnedInv, AcceptedHasDescriptor
<1>7. CASE HandleDisconnect
  <2>1. /\ UNCHANGED <<fd, hpc>>
        /\ serviceSockets' = [serviceSockets EXCEPT ![Svc[msg.conn]] = -1]
        /\ owner' = [owner EXCEPT ![Svc[msg.conn]] = None]
    BY <1>7 DEF HandleDisconnect, Register, OnlyMessages, handlerVars
  <2>2. TakenWhenOwned'
    BY <1>0, <2>1 DEF TakenWhenOwned, Taken
  <2>. QED
    BY <1>0, <2>1, <2>2 DEF OwnedInv, AcceptedHasDescriptor
<1>8. CASE SenderStep
  BY <1>1, <1>8 DEF SenderStep, SenderLoop, SenderSkip, SenderPick, SenderPassEnds,
       SenderSocket, SendReaches, SendToClosedPeer, SendFails, SenderErase, OnlySender,
       handlerVars, inVars
<1>. QED
  BY <1>2, <1>3, <1>4, <1>5, <1>6, <1>7, <1>8 DEF Next

(* No connection of a service is let in while its slot is taken.            *)
RivalsInv ==
  \A i \in Services : owner[i] # None =>
    \A c \in Conns : Svc[c] = i /\ LetIn(c) => c \in rivals[i]

(* A step after which nobody is newly let in where a slot is taken.         *)
LEMMA RivalsKept ==
  ASSUME IInv, RivalsInv, UNCHANGED <<owner, rivals>>,
         \A c \in Conns : LetIn(c)' /\ owner[Svc[c]] # None => LetIn(c)
  PROVE  RivalsInv'
BY SlotTypes DEF RivalsInv

LEMMA RivalsStep == IInv /\ SlotInv /\ OwnedInv /\ RivalsInv /\ [Next]_vars => RivalsInv'
<1>. SUFFICES ASSUME IInv, SlotInv, OwnedInv, RivalsInv, [Next]_vars PROVE RivalsInv'
  OBVIOUS
<1>. USE SlotTypes
<1>1. ASSUME UNCHANGED <<owner, rivals, nchunks, valid>> PROVE RivalsInv'
  BY <1>1, RivalsKept DEF LetIn
<1>2. CASE \/ AdminStop \/ NotifyConnection \/ StopTimer \/ MainReturns
           \/ AcceptorStep \/ SpuriousWakeup \/ SenderStep \/ UNCHANGED vars
           \/ (\E c \in Conns : PeerClose(c) \/ Accept(c) \/ HandlerStep(c))
  BY <1>1, <1>2 DEF AdminStop, NotifyConnection, StopTimer, MainReturns, OnlyAdmin,
       AcceptorStep, AcceptorLock, AcceptorSleep, SelectTimeout, SpuriousWakeup,
       SenderStep, SenderLoop, SenderSkip, SenderPick, SenderPassEnds, SenderSocket,
       SendReaches, SendToClosedPeer, SendFails, SenderErase, OnlySender, PeerClose,
       Accept, HandlerStep, HandlerStart, HandlerEof, HandlerPush, HandlerDec,
       HandlerClose, Leave, PushMessage, OnlyHandler, vars, handlerVars, inVars
<1>3. ASSUME NEW c \in Conns, HandlerAdmits(c)
      PROVE  RivalsInv'
  <2>1. /\ UNCHANGED <<owner, rivals, valid>>
        /\ nchunks' = [nchunks EXCEPT ![c] = @ + 1] /\ ~Taken(Svc[c])
    BY <1>3 DEF HandlerAdmits, Receive, SlotFree, OnlyHandler, inVars
  <2>2. owner[Svc[c]] = None
    BY <2>1 DEF OwnedInv, TakenWhenOwned
  <2>. QED
    BY <2>1, <2>2, RivalsKept DEF LetIn
<1>4. ASSUME NEW c \in Conns, HandlerRefuses(c)
      PROVE  RivalsInv'
  <2>1. /\ UNCHANGED <<owner, rivals>> /\ hpc[c] = "recv"
        /\ nchunks' = [nchunks EXCEPT ![c] = @ + 1]
        /\ valid' = [valid EXCEPT ![c] = FALSE]
    BY <1>4 DEF HandlerRefuses, Receive, Leave, GoHandler, SaysDisconnect, OnlyHandler,
                inVars
  <2>2. valid[c]
    BY <2>1 DEF SlotInv, HandlersAgree, Gone
  <2>. QED
    BY <2>1, <2>2, RivalsKept DEF LetIn
<1>5. CASE MessagesStep /\ ~HandleConnect /\ ~HandleDisconnect
  BY <1>1, <1>5 DEF MessagesStep, MessagesLoop, MessagesPop, SendDbConnString,
       SendPort, HandleUnknown, OnlyMessages, handlerVars
<1>6. CASE HandleConnect \/ HandleDisconnect
  <2>. DEFINE R(j) == {c \in Conns : Svc[c] = j /\ LetIn(c)}
  <2>1. PICK o \in Conns \cup {None}, j \in Services :
          owner' = [owner EXCEPT ![j] = o] /\ rivals' = [rivals EXCEPT ![j] = R(j)]
    <3>1. mpc = "handle" /\ msg \in Messages /\ msg.conn \in Conns
      BY <1>6 DEF HandleConnect, HandleDisconnect, Processing, Messages
    <3>2. /\ \/ owner' = [owner EXCEPT ![Svc[msg.conn]] = msg.conn]
             \/ owner' = [owner EXCEPT ![Svc[msg.conn]] = None]
          /\ rivals' = [rivals EXCEPT ![Svc[msg.conn]] = R(Svc[msg.conn])]
      BY <1>6 DEF HandleConnect, HandleDisconnect, Register
    <3>. HIDE DEF R
    <3>. QED
      BY <3>1, <3>2
  <2>2. UNCHANGED <<nchunks, valid>>
    BY <1>6 DEF HandleConnect, HandleDisconnect, OnlyMessages, handlerVars
  <2>3. rivals \in [Services -> SUBSET Conns]
    BY DEF IInv, TypeInv, TypeOK, InTypeOK
  <2>4. \A c \in Conns : LetIn(c)' <=> LetIn(c)
    BY <2>2 DEF LetIn
  <2>. QED
    BY <2>1, <2>3, <2>4 DEF RivalsInv
<1>. QED
  BY <1>2, <1>3, <1>4, <1>5, <1>6 DEF Next

(* LiveOwnerDisplacedOnlyByRivals holds: the test at line 80 keeps out      *)
(* whoever comes after a registration, and only them.                       *)
THEOREM LiveOwner == Spec => LiveOwnerDisplacedOnlyByRivals
<1>. DEFINE Displaced(i) == owner[i] # None /\ owner'[i] # owner[i] /\ peer[owner[i]] = "open"
            Rival(i) == msg.conn \in rivals[i] \ {owner[i]}
<1>1. ASSUME IInv, SlotInv, RivalsInv, [Next]_vars, NEW i \in Services, Displaced(i)
      PROVE  Rival(i)
  <2>. USE SlotTypes
  <2>1. HandleConnect \/ HandleDisconnect
    <3>1. ~UNCHANGED owner
      BY <1>1
    <3>2. ~(\/ AdminStop \/ NotifyConnection \/ StopTimer \/ MainReturns
            \/ AcceptorStep \/ SpuriousWakeup \/ SenderStep \/ UNCHANGED vars)
      BY <3>1, SlotFrame
    <3>3. ASSUME NEW c \in Conns, \/ PeerClose(c) \/ Accept(c) \/ HandlerStep(c)
                                  \/ HandlerAdmits(c) \/ HandlerRefuses(c)
          PROVE  UNCHANGED owner
      BY <3>3 DEF PeerClose, Accept, HandlerStep, HandlerStart, HandlerEof, HandlerPush,
           HandlerDec, HandlerClose, HandlerAdmits, HandlerRefuses, OnlyHandler, Leave,
           PushMessage, inVars
    <3>4. MessagesStep
      BY <1>1, <3>1, <3>2, <3>3 DEF Next
    <3>. QED
      BY <3>1, <3>4 DEF MessagesStep, MessagesLoop, MessagesPop, SendDbConnString,
           SendPort, HandleUnknown
  <2>2. /\ mpc = "handle" /\ msg \in Messages
        /\ \/ msg.kind = "CONNECT" /\ owner' = [owner EXCEPT ![Svc[msg.conn]] = msg.conn]
           \/ msg.kind = "DISCONNECT" /\ owner' = [owner EXCEPT ![Svc[msg.conn]] = None]
    BY <1>1, <2>1 DEF HandleConnect, HandleDisconnect, Processing, Register
  <2>3. msg.conn \in Conns /\ Genuine(msg)
    BY <1>1, <2>2 DEF SlotInv, MessagesGenuine, Messages
  <2>4. i = Svc[msg.conn]
    BY <1>1, <2>2, <2>3
  <2>5. msg.conn \in rivals[i]
    BY <1>1, <2>3, <2>4 DEF RivalsInv, Genuine
  <2>6. msg.conn # owner[i]
    BY <1>1, <2>2, <2>3, <2>4 DEF Genuine
  <2>. QED
    BY <2>5, <2>6
<1>2. IInv /\ SlotInv /\ RivalsInv /\ [Next]_vars
        => [\A i \in Services : Displaced(i) => Rival(i)]_vars
  BY <1>1
<1>3. Init => RivalsInv
  BY DEF Init, RivalsInv
<1>. QED
  BY <1>2, <1>3, RivalsStep, OwnedInit, OwnedStep, SlotInvariance, Invariance, PTL
     DEF Spec, LiveOwnerDisplacedOnlyByRivals
=============================================================================
