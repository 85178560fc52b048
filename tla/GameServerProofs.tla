-------------------------- MODULE GameServerProofs --------------------------
(***************************************************************************)
(* Theorems about GameServer for any clients, names and number of tries.   *)
(***************************************************************************)
EXTENDS GameServer, TLAPS

(* A client that is out has no connection, and the one that is being served *)
(* is in no other place.                                                    *)
OnePlaceEach ==
  /\ UIDs \in [Open -> Int]
  /\ \A c \in Clients : cpc[c] = "out" => c \notin Open \cup backlog
  /\ pc \in {"handshake", "getUid", "read", "write"} => cpc[current] # "out"
  /\ pc = "handshake" => current \notin backlog
  /\ pc \in {"getUid", "read", "write"} => current \notin todo

(* Only registering, or a login, makes a UID positive.                      *)
PositiveIsRegistered ==
  ~noDb => \A c \in Open : UIDs[c] > 0 => \E n \in Names : <<n, c>> \in users

(* mapMutex stays locked from one step to the next only after the right     *)
(* login of a client that has registered, and after each such login.        *)
LoginsHang ==
  /\ mapLocked => /\ pc \in {"getUid", "exited"}
                  /\ ~noDb /\ response = "l" /\ UIDs[current] = LoggedIn
                  /\ \E n \in Names : <<n, current>> \in users
  /\ ~noDb /\ response = "l" => mapLocked

AnswerPending == response # None => pc \in {"write", "exited"} \/ mapLocked

IInv == /\ TypeOK /\ OnePlaceEach /\ PositiveIsRegistered /\ LoginsHang /\ AnswerPending
        /\ TriesAreLimited /\ OnlyRegisteredAreServed
------------------------------------------------------------------------------
LEMMA Initially == Init => IInv
<1>. SUFFICES ASSUME Init
              PROVE  IInv
  OBVIOUS
<1>1. ~mapLocked /\ mapLocked \in BOOLEAN
  BY DEF Init
<1>2. TypeOK /\ OnePlaceEach
  BY <1>1 DEF Init, TypeOK, OnePlaceEach, ClientStates, Open, None, NoRequest
<1>3. LoginsHang /\ AnswerPending
  BY <1>1 DEF Init, LoginsHang, AnswerPending, None
<1>4. PositiveIsRegistered /\ TriesAreLimited /\ OnlyRegisteredAreServed
  BY DEF Init, PositiveIsRegistered, TriesAreLimited, OnlyRegisteredAreServed, Open
<1>. QED
  BY <1>2, <1>3, <1>4 DEF IInv

LEMMA ClientKeeps ==
  ASSUME IInv, NEW c \in Clients, ClientStep(c)
  PROVE  IInv'
<1>. USE DEF IInv
<1>1. UNCHANGED <<noDb, UIDs, users, pc, todo, current, mapLocked, response, stopPc>>
  BY DEF ClientStep, Connects, Greets, Sends, RestArrives, Stalls, Drops, ComesBack,
         OnlyClients, stopVars
<1>2. /\ PositiveIsRegistered' /\ TriesAreLimited' /\ OnlyRegisteredAreServed'
      /\ LoginsHang' /\ AnswerPending'
  BY <1>1 DEF PositiveIsRegistered, TriesAreLimited, OnlyRegisteredAreServed, LoginsHang,
              AnswerPending, Open
<1>3. TypeOK' /\ OnePlaceEach'
  <2>. USE <1>1 DEF TypeOK, ClientStates, OnePlaceEach, Open
  <2>1. CASE Connects(c)
    BY <2>1 DEF Connects
  <2>2. CASE Greets(c)
    BY <2>2 DEF Greets
  <2>3. CASE Sends(c)
    BY <2>3 DEF Sends
  <2>4. CASE RestArrives(c)
    BY <2>4 DEF RestArrives
  <2>5. CASE Drops(c)
    BY <2>5 DEF Drops
  <2>6. CASE ComesBack(c)
    BY <2>6 DEF ComesBack
  <2>7. CASE Stalls(c)
    BY <2>7 DEF Stalls
  <2>. QED
    BY <2>1, <2>2, <2>3, <2>4, <2>5, <2>6, <2>7 DEF ClientStep
<1>. QED
  BY <1>2, <1>3

LEMMA StopKeeps ==
  ASSUME IInv, StopStep
  PROVE  IInv'
<1>1. UNCHANGED <<noDb, cpc, request, backlog, UIDs, users, todo, current, mapLocked, response>>
  BY DEF StopStep, StopGiven, StopShutsDown, StopClosesServer, StopExits, OnlyStop, clientVars
<1>2. /\ pc' = pc \/ pc' = "exited"
      /\ stopPc' \in {"sleeping", "saving", "closed", "gone"}
  BY DEF StopStep, StopGiven, StopShutsDown, StopClosesServer, StopExits
<1>. QED
  BY <1>1, <1>2
  DEF IInv, TypeOK, OnePlaceEach, PositiveIsRegistered, LoginsHang, AnswerPending,
      TriesAreLimited, OnlyRegisteredAreServed, Open
------------------------------------------------------------------------------
(***************************************************************************)
(* The server's thread.                                                    *)
(***************************************************************************)
LoopStep ==
  \/ LoopBegins \/ SelectReturns \/ SelectFails \/ AcceptTakes \/ AcceptFails
  \/ HandshakeFails \/ Skips \/ BrokenLeaves \/ ScanPicks

LEMMA LoopKeeps ==
  ASSUME IInv, LoopStep
  PROVE  IInv'
<1>. USE DEF IInv
<1>1. UNCHANGED <<noDb, cpc, request, UIDs, users, mapLocked, response, stopPc>>
  BY DEF LoopStep, LoopBegins, SelectReturns, SelectFails, AcceptTakes, AcceptFails,
         HandshakeFails, Skips, BrokenLeaves, ScanPicks, OnlyLoop, clientVars, stopVars
<1>2. /\ pc \notin {"getUid", "write", "crashed", "exited"}
      /\ pc' \notin {"write", "crashed", "exited"}
  BY DEF LoopStep, LoopBegins, SelectReturns, SelectFails, AcceptTakes, AcceptFails,
         HandshakeFails, Skips, BrokenLeaves, ScanPicks
<1>3. ~mapLocked /\ response = None
  BY <1>2 DEF LoginsHang, AnswerPending
<1>4. /\ PositiveIsRegistered' /\ TriesAreLimited' /\ OnlyRegisteredAreServed'
      /\ LoginsHang' /\ AnswerPending'
  BY <1>1, <1>2, <1>3 DEF PositiveIsRegistered, TriesAreLimited, OnlyRegisteredAreServed,
                          LoginsHang, AnswerPending, None, Open
<1>5. TypeOK' /\ OnePlaceEach'
  <2>. USE <1>1 DEF TypeOK, OnePlaceEach, Open
  <2>1. CASE LoopBegins \/ Skips \/ BrokenLeaves \/ SelectFails
    BY <2>1 DEF LoopBegins, Skips, BrokenLeaves, SelectFails
  <2>2. CASE SelectReturns
    BY <2>2 DEF SelectReturns, Readable
  <2>3. CASE AcceptTakes
    BY <2>3 DEF AcceptTakes
  <2>4. CASE AcceptFails
    BY <2>4 DEF AcceptFails
  <2>5. CASE HandshakeFails
    BY <2>5 DEF HandshakeFails
  <2>6. CASE ScanPicks
    BY <2>6 DEF ScanPicks
  <2>. QED
    BY <2>1, <2>2, <2>3, <2>4, <2>5, <2>6 DEF LoopStep
<1>. QED
  BY <1>4, <1>5

(* getUID finds mapMutex free at the beginning of handleConnection.         *)
LEMMA GetUIDKeeps ==
  ASSUME IInv, GetUID
  PROVE  IInv'
<1>. USE DEF IInv, GetUID, OnlyHandler
<1>1. /\ pc' = "read"
      /\ UNCHANGED <<noDb, cpc, request, backlog, UIDs, users, todo, current, mapLocked,
                     response, stopPc>>
  BY DEF AnswerPending, clientVars, stopVars
<1>2. /\ PositiveIsRegistered' /\ TriesAreLimited' /\ OnlyRegisteredAreServed'
      /\ LoginsHang' /\ AnswerPending'
  BY <1>1 DEF PositiveIsRegistered, TriesAreLimited, OnlyRegisteredAreServed, LoginsHang,
              AnswerPending, Open
<1>3. TypeOK' /\ OnePlaceEach'
  BY <1>1 DEF TypeOK, OnePlaceEach, Open
<1>. QED
  BY <1>2, <1>3

LEMMA HandshakeKeeps ==
  ASSUME IInv, HandshakeEnds
  PROVE  IInv'
<1>. USE LoginAttemptsAssumption DEF IInv, HandshakeEnds, WithUID
<1>1. /\ current \in Clients \ Open /\ Open' = Open \cup {current}
      /\ \A c \in Open : UIDs'[c] = UIDs[c]
      /\ UIDs'[current] \in Int /\ ~noDb => UIDs'[current] = 0
      /\ UNCHANGED <<noDb, backlog, users, todo, mapLocked, response, stopPc>>
      /\ pc' \in {"scan", "broken"}
  BY DEF TypeOK, Open, LoggedIn, stopVars
<1>2. TypeOK' /\ OnePlaceEach'
  BY <1>1 DEF TypeOK, ClientStates, OnePlaceEach, LoggedIn, Open
<1>3. ~mapLocked /\ response = None
  BY DEF AnswerPending
<1>4. /\ PositiveIsRegistered' /\ TriesAreLimited' /\ OnlyRegisteredAreServed'
      /\ LoginsHang' /\ AnswerPending'
  BY <1>1, <1>3 DEF PositiveIsRegistered, TriesAreLimited, OnlyRegisteredAreServed,
                    LoginsHang, AnswerPending, OnePlaceEach, None
<1>. QED
  BY <1>2, <1>4

(* Closing a connection, whatever the loop then finds where the erased      *)
(* element was.                                                             *)
LEMMA CleanupKeeps ==
  ASSUME IInv, pc \in {"read", "write"}, Cleanup,
         UNCHANGED <<noDb, backlog, users, stopPc>>,
         cpc' \in [Clients -> ClientStates],
         \A c \in Clients : cpc'[c] = "out" => cpc[c] = "out",
         request' \in [Clients -> Requests \cup {NoRequest}]
  PROVE  IInv'
<1>. USE DEF IInv
<1>1. /\ Open' = Open \ {current} /\ \A c \in Open' : UIDs'[c] = UIDs[c]
      /\ pc' \in {"scan", "skipped", "crashed"} /\ todo' = todo
      /\ current' = None /\ response' = None /\ ~mapLocked'
  BY DEF Cleanup, Without, Open
<1>2. TypeOK' /\ OnePlaceEach'
  BY <1>1 DEF Cleanup, Without, TypeOK, OnePlaceEach, Open
<1>3. PositiveIsRegistered' /\ OnlyRegisteredAreServed' /\ LoginsHang' /\ AnswerPending'
  BY <1>1 DEF PositiveIsRegistered, OnlyRegisteredAreServed, LoginsHang, AnswerPending, None
<1>4. TriesAreLimited'
  BY <1>1 DEF TriesAreLimited
<1>. QED
  BY <1>2, <1>3, <1>4

LEMMA FailureKeeps ==
  ASSUME IInv, ReadFails \/ ReadBreaks \/ WriteFails
  PROVE  IInv'
<1>1. CASE ReadFails \/ WriteFails
  BY <1>1, CleanupKeeps
  DEF ReadFails, WriteFails, OnlyHandler, clientVars, stopVars, IInv, TypeOK
<1>2. CASE ReadBreaks
  BY <1>2, CleanupKeeps DEF ReadBreaks, OnlyHandler, stopVars, IInv, TypeOK, ClientStates
<1>. QED
  BY <1>1, <1>2

LEMMA WriteKeeps ==
  ASSUME IInv, WriteAnswers \/ WriteGivesUp
  PROVE  IInv'
<1>0. PICK next \in {"in", "unanswered"} : pc = "write" /\ Answered(next)
  BY DEF WriteAnswers, WriteGivesUp
<1>. USE <1>0 DEF IInv, Answered
<1>1. /\ UNCHANGED <<noDb, backlog, users, stopPc>> /\ pc = "write"
      /\ cpc' \in [Clients -> ClientStates]
      /\ \A c \in Clients : cpc'[c] = "out" => cpc[c] = "out"
      /\ request' \in [Clients -> Requests \cup {NoRequest}]
  BY DEF OnlyHandler, stopVars, TypeOK, ClientStates
<1>2. CASE response \in Closing
  BY <1>1, <1>2, CleanupKeeps
<1>3. CASE response \notin Closing
  <2>1. pc' = "scan" /\ UNCHANGED <<UIDs, todo, mapLocked>> /\ response' = None /\ ~mapLocked
    BY <1>3 DEF LoginsHang
  <2>2. TypeOK' /\ OnePlaceEach'
    BY <1>1, <2>1 DEF TypeOK, OnePlaceEach, Open
  <2>3. /\ PositiveIsRegistered' /\ OnlyRegisteredAreServed' /\ TriesAreLimited'
        /\ LoginsHang' /\ AnswerPending'
    BY <1>1, <1>3, <2>1
    DEF PositiveIsRegistered, OnlyRegisteredAreServed, TriesAreLimited, LoginsHang,
        AnswerPending, None, Open, Closing
  <2>. QED
    BY <2>2, <2>3
<1>. QED
  BY <1>2, <1>3
------------------------------------------------------------------------------
(***************************************************************************)
(* A request and its answer.                                               *)
(***************************************************************************)
LEMMA RegistrationFacts ==
  ASSUME TypeOK, NEW c \in Clients, NEW name \in Names, NEW uid \in Int,
         NEW o \in Registration(c, name, uid)
  PROVE  /\ o.reply \in {"r", "e"}
         /\ o.table \subseteq Names \X Clients /\ users \subseteq o.table
         /\ ~noDb => \/ o.uid = 1 /\ o.reply = "r" /\ <<name, c>> \in o.table
                     \/ o.uid = uid /\ o.reply = "e"
         /\ o.uid \in {uid, 1}
  BY DEF Registration, Outcome, LoggedIn, TypeOK

LEMMA LoginFacts ==
  ASSUME TypeOK, NEW c \in Clients, NEW name \in Names, NEW uid \in Int,
         NEW o \in Login(c, name, uid)
  PROVE  /\ o.reply \in {"l", "f", "w"} /\ o.table = users
         /\ o.uid \in {uid, 1}
         /\ ~noDb => \/ o.uid = 1 /\ o.reply = "l" /\ <<name, c>> \in users
                     \/ o.uid = uid /\ o.reply \in {"f", "w"}
<1>1. CASE noDb
  BY <1>1 DEF Login, Outcome, LoggedIn
<1>2. CASE ~noDb
  <2>1. \A u \in users : u[1] = name /\ u[2] = c => <<name, c>> \in users
    BY DEF TypeOK
  <2>2. \/ o = Outcome("f", uid, users) \/ o = Outcome("w", uid, users)
        \/ \E u \in users : /\ u[1] = name
                            /\ o = IF u[2] = c THEN Outcome("l", LoggedIn, users)
                                   ELSE Outcome("w", uid, users)
    BY <1>2 DEF Login
  <2>. QED
    BY <1>2, <2>1, <2>2 DEF Outcome, LoggedIn
<1>. QED
  BY <1>1, <1>2

LEMMA AnswersFacts ==
  ASSUME TypeOK, NEW c \in Clients, NEW r \in Requests, NEW uid \in Int,
         NEW o \in Answers(c, r, uid)
  PROVE  /\ o.reply \in {"r", "l", "e", "w", "f", "S", "c", "E"}
         /\ o.table \subseteq Names \X Clients /\ users \subseteq o.table
         /\ o.uid \in {uid, 1}
         /\ ~noDb => \/ /\ o.uid = 1 /\ o.reply \in {"r", "l"}
                        /\ \E n \in Names : <<n, c>> \in o.table
                     \/ o.uid = uid /\ o.reply \notin {"r", "l"}
         /\ o.reply = "S" => r.kind \notin {"r", "l"}
<1>1. r.kind \in {"r", "l"} => r.name \in Names
  BY DEF Requests
<1>2. CASE r.kind = "r"
  <2>1. o \in Registration(c, r.name, uid)
    BY <1>2 DEF Answers
  <2>2. /\ o.reply \in {"r", "e"}
        /\ o.table \subseteq Names \X Clients /\ users \subseteq o.table
        /\ ~noDb => \/ o.uid = 1 /\ o.reply = "r" /\ <<r.name, c>> \in o.table
                    \/ o.uid = uid /\ o.reply = "e"
        /\ o.uid \in {uid, 1}
    BY <1>1, <1>2, <2>1, RegistrationFacts
  <2>. QED
    BY <1>1, <1>2, <2>2
<1>3. CASE r.kind = "l"
  <2>1. o \in Login(c, r.name, uid)
    BY <1>3 DEF Answers
  <2>2. /\ o.reply \in {"l", "f", "w"} /\ o.table = users
        /\ o.uid \in {uid, 1}
        /\ ~noDb => \/ o.uid = 1 /\ o.reply = "l" /\ <<r.name, c>> \in users
                    \/ o.uid = uid /\ o.reply \in {"f", "w"}
    BY <1>1, <1>3, <2>1, LoginFacts
  <2>3. users \subseteq Names \X Clients
    BY DEF TypeOK
  <2>. QED
    BY <1>1, <1>3, <2>2, <2>3
<1>4. CASE r.kind \notin {"r", "l"}
  <2>1. o \in {Outcome("S", uid, users), Outcome("c", uid, users), Outcome("E", uid, users)}
    BY <1>4 DEF Answers
  <2>2. users \subseteq Names \X Clients
    BY DEF TypeOK
  <2>. QED
    BY <1>4, <2>1, <2>2 DEF Outcome
<1>. QED
  BY <1>2, <1>3, <1>4

LEMMA HandleMsgKeeps ==
  ASSUME IInv, HandleMsg
  PROVE  IInv'
<1>. USE LoginAttemptsAssumption
<1>0. /\ TypeOK /\ OnePlaceEach /\ PositiveIsRegistered /\ LoginsHang /\ AnswerPending
      /\ TriesAreLimited /\ OnlyRegisteredAreServed
  BY DEF IInv
<1>. DEFINE r == request[current]
            uid == IF Tries(UIDs[current]) THEN UIDs[current] - 1 ELSE UIDs[current]
<1>1. /\ pc = "read" /\ current \in Open /\ current \in Clients
      /\ r \in Requests /\ UIDs[current] \in Int /\ uid \in Int
      /\ UNCHANGED <<noDb, cpc, request, backlog, todo, current, stopPc>>
  BY <1>0 DEF HandleMsg, Arrived, OnlyHandler, clientVars, stopVars, TypeOK, OnePlaceEach
<1>2. ~noDb => uid >= -LoginAttempts - 1 /\ uid <= UIDs[current]
  BY <1>0, <1>1 DEF TriesAreLimited, Tries
(* What either branch leaves, from which the invariant follows.             *)
<1>3. ASSUME NEW u \in Int, UIDs' = WithUID(current, u), mapLocked' \in BOOLEAN,
             pc' = IF mapLocked' THEN "getUid" ELSE "write",
             response' \in {"r", "l", "e", "w", "f", "S", "c", "E"},
             users \subseteq users', users' \subseteq Names \X Clients,
             ~noDb /\ u > 0 => \E n \in Names : <<n, current>> \in users',
             ~noDb => u >= -LoginAttempts \/ (response' = "c" /\ pc' = "write"),
             ~noDb /\ response' = "S" => u > 0,
             mapLocked' <=> ~noDb /\ response' = "l",
             mapLocked' => u = LoggedIn
      PROVE  IInv'
  <2>1. /\ Open' = Open /\ UIDs' \in [Open' -> Int] /\ UIDs'[current] = u
        /\ \A c \in Open \ {current} : UIDs'[c] = UIDs[c]
    BY <1>0, <1>1, <1>3 DEF WithUID, OnePlaceEach, Open
  <2>2. TypeOK' /\ OnePlaceEach'
    BY <1>0, <1>1, <1>3, <2>1 DEF TypeOK, OnePlaceEach
  <2>3. PositiveIsRegistered'
    BY <1>0, <1>1, <1>3, <2>1 DEF PositiveIsRegistered
  <2>4. TriesAreLimited'
    BY <1>0, <1>1, <1>3, <2>1 DEF TriesAreLimited
  <2>5. OnlyRegisteredAreServed'
    BY <1>0, <1>1, <1>3, <2>1 DEF OnlyRegisteredAreServed
  <2>6. LoginsHang' /\ AnswerPending'
    <3>1. noDb' = noDb /\ current' = current
      BY <1>1
    <3>2. mapLocked' => pc' = "getUid"
      BY <1>3
    <3>3. ~mapLocked' => pc' = "write"
      BY <1>3
    <3>4. mapLocked' => /\ ~noDb /\ response' = "l" /\ UIDs'[current] = LoggedIn
                        /\ \E n \in Names : <<n, current>> \in users'
      <4>1. mapLocked' => ~noDb /\ response' = "l" /\ u = LoggedIn
        BY <1>3
      <4>2. u = LoggedIn => u > 0
        BY DEF LoggedIn
      <4>. QED
        BY <1>3, <2>1, <4>1, <4>2
    <3>5. ~noDb /\ response' = "l" => mapLocked'
      BY <1>3
    <3>. QED
      BY <3>1, <3>2, <3>3, <3>4, <3>5 DEF LoginsHang, AnswerPending
  <2>. QED
    BY <2>2, <2>3, <2>4, <2>5, <2>6 DEF IInv
<1>4. ~noDb /\ uid > 0 => \E n \in Names : <<n, current>> \in users
  <2>1. ~noDb /\ uid > 0 => UIDs[current] > 0
    BY <1>1, <1>2
  <2>. QED
    BY <1>0, <1>1, <2>1 DEF PositiveIsRegistered
<1>5. CASE RefusedUnknown(UIDs[current], r.kind)
  <2>1. /\ UIDs' = WithUID(current, uid) /\ response' = "c" /\ pc' = "write"
        /\ UNCHANGED <<users, mapLocked>>
    BY <1>5 DEF HandleMsg
  <2>2. ~mapLocked' /\ mapLocked' \in BOOLEAN /\ users \subseteq Names \X Clients
    BY <1>0, <2>1 DEF HandleMsg, TypeOK
  <2>. QED
    BY <1>1, <1>2, <1>3, <1>4, <2>1, <2>2
<1>6. CASE ~RefusedUnknown(UIDs[current], r.kind)
  <2>1. PICK o \in Answers(current, r, uid) :
          /\ UIDs' = WithUID(current, o.uid)
          /\ users' = o.table
          /\ response' = IF TooManyTries(uid, o.reply) THEN "c" ELSE o.reply
          /\ mapLocked' = (~noDb /\ o.reply = "l")
          /\ pc' = IF mapLocked' THEN "getUid" ELSE "write"
    BY <1>6 DEF HandleMsg
  <2>2. /\ o.reply \in {"r", "l", "e", "w", "f", "S", "c", "E"}
        /\ o.table \subseteq Names \X Clients /\ users \subseteq o.table
        /\ o.uid \in {uid, 1}
        /\ ~noDb => \/ /\ o.uid = 1 /\ o.reply \in {"r", "l"}
                       /\ \E n \in Names : <<n, current>> \in o.table
                    \/ o.uid = uid /\ o.reply \notin {"r", "l"}
        /\ o.reply = "S" => r.kind \notin {"r", "l"}
    <3>1. TypeOK /\ current \in Clients /\ r \in Requests /\ uid \in Int
      BY <1>0, <1>1
    <3>. HIDE DEF r, uid
    <3>. QED
      BY <3>1, AnswersFacts
  <2>3. ~noDb /\ o.uid > 0 => \E n \in Names : <<n, current>> \in users'
    BY <1>4, <2>1, <2>2
  <2>4. ~noDb => o.uid >= -LoginAttempts \/ response' = "c"
    BY <1>1, <1>2, <2>1, <2>2 DEF TooManyTries
  <2>5. ~noDb /\ response' = "S" => o.uid > 0
    BY <1>1, <1>6, <2>1, <2>2 DEF RefusedUnknown, Tries
  <2>6. CASE ~noDb /\ o.reply = "l"
    <3>1. /\ mapLocked' = TRUE /\ response' = "l" /\ o.uid = LoggedIn
          /\ o.uid >= -LoginAttempts /\ o.uid \in Int
      <4>1. mapLocked' = TRUE
        BY <2>1, <2>6
      <4>2. response' = "l"
        BY <2>1, <2>6 DEF TooManyTries
      <4>3. o.uid = 1
        BY <2>2, <2>6
      <4>4. o.uid = LoggedIn /\ o.uid >= -LoginAttempts /\ o.uid \in Int
        BY <4>3 DEF LoggedIn
      <4>. QED
        BY <4>1, <4>2, <4>4
    <3>. QED
      BY <1>3, <2>1, <2>2, <2>3, <2>5, <2>6, <3>1
  <2>7. CASE ~(~noDb /\ o.reply = "l")
    <3>1. mapLocked' = FALSE /\ pc' = "write"
      BY <2>1, <2>7
    <3>2. ~(~noDb /\ response' = "l")
      BY <2>1, <2>2, <2>7
    <3>3. response' \in {"r", "l", "e", "w", "f", "S", "c", "E"} /\ o.uid \in Int
      BY <1>1, <2>1, <2>2
    <3>. QED
      BY <1>3, <2>1, <2>2, <2>3, <2>4, <2>5, <3>1, <3>2, <3>3
  <2>. QED
    BY <2>6, <2>7
<1>. QED
  BY <1>5, <1>6
------------------------------------------------------------------------------
LEMMA Inductive == Spec => []IInv
<1>1. IInv /\ [Next]_vars => IInv'
  <2>. SUFFICES ASSUME IInv, [Next]_vars PROVE IInv'
    OBVIOUS
  <2>1. CASE UNCHANGED vars
    <3>1. UNCHANGED <<noDb, cpc, request, backlog, UIDs, users, pc, todo, current, mapLocked,
                      response, stopPc>>
      BY <2>1 DEF vars, clientVars, stopVars
    <3>2. Open' = Open
      BY <3>1 DEF Open
    <3>3. TypeOK' /\ OnePlaceEach'
      BY <3>1, <3>2 DEF IInv, TypeOK, OnePlaceEach
    <3>4. PositiveIsRegistered' /\ TriesAreLimited' /\ OnlyRegisteredAreServed'
      BY <3>1, <3>2 DEF IInv, PositiveIsRegistered, TriesAreLimited, OnlyRegisteredAreServed
    <3>5. LoginsHang' /\ AnswerPending'
      BY <3>1 DEF IInv, LoginsHang, AnswerPending
    <3>. QED
      BY <3>3, <3>4, <3>5 DEF IInv
  <2>2. CASE Next
    BY <2>2, ClientKeeps, StopKeeps, LoopKeeps, GetUIDKeeps, HandshakeKeeps, FailureKeeps,
       WriteKeeps, HandleMsgKeeps DEF Next, ServerStep, ErrorStep, LoopStep
  <2>. QED
    BY <2>1, <2>2
<1>. QED
  BY Initially, <1>1, PTL DEF Spec

(* The types, and that the connection being served is open, whatever the    *)
(* clients send and wherever the loop goes on after a clean-up.             *)
THEOREM TypeCorrect == Spec => []TypeOK
  BY Inductive, PTL DEF IInv

(* However requests are mixed, an open connection has failed to log in at   *)
(* most LoginAttempts times: handleMsg's counting down, its test and what a *)
(* success puts in the counter's place agree.                               *)
THEOREM Tried == Spec => []TriesAreLimited
  BY Inductive, PTL DEF IInv

(* In the build with the database nobody is served who has not registered.  *)
THEOREM Served == Spec => []OnlyRegisteredAreServed
  BY Inductive, PTL DEF IInv
------------------------------------------------------------------------------
(* getUID finds mapMutex taken by its own thread after a right login in the *)
(* build with the database, after every one, and nowhere else: not in       *)
(* handleConnection, handleMsg, acceptClient or cleanupConnection, whatever *)
(* is sent and whatever fails before.                                       *)
THEOREM HungByLogin == Spec => []LoginsHang
  BY Inductive, PTL DEF IInv

(* What a request is answered with, and what becomes of the connection's    *)
(* UID: that of no other connection changes.                                *)
LEMMA HandleMsgFacts ==
  ASSUME IInv, HandleMsg
  PROVE  /\ current \in Open /\ Open' = Open /\ UNCHANGED <<noDb, current>>
         /\ \A c \in Open \ {current} : UIDs'[c] = UIDs[c]
         /\ ~noDb => \/ UIDs'[current] <= UIDs[current]
                     \/ /\ UIDs'[current] = LoggedIn
                        /\ \E n \in Names : <<n, current>> \in users'
<1>. USE DEF IInv
<1>. DEFINE r == request[current]
            uid == IF Tries(UIDs[current]) THEN UIDs[current] - 1 ELSE UIDs[current]
<1>1. /\ current \in Open /\ current \in Clients
      /\ r \in Requests /\ UIDs[current] \in Int /\ uid \in Int
      /\ uid <= UIDs[current]
      /\ UNCHANGED <<noDb, current>>
  BY DEF HandleMsg, Arrived, OnlyHandler, TypeOK, OnePlaceEach
<1>2. ASSUME NEW u, UIDs' = WithUID(current, u)
      PROVE  /\ Open' = Open /\ UIDs'[current] = u
             /\ \A c \in Open \ {current} : UIDs'[c] = UIDs[c]
  BY <1>1, <1>2 DEF WithUID, Open
<1>3. CASE RefusedUnknown(UIDs[current], r.kind)
  <2>1. UIDs' = WithUID(current, uid)
    BY <1>3 DEF HandleMsg
  <2>. QED
    BY <1>1, <1>2, <2>1
<1>4. CASE ~RefusedUnknown(UIDs[current], r.kind)
  <2>1. PICK o \in Answers(current, r, uid) :
          UIDs' = WithUID(current, o.uid) /\ users' = o.table
    BY <1>4 DEF HandleMsg
  <2>2. ~noDb => \/ /\ o.uid = 1
                    /\ \E n \in Names : <<n, current>> \in o.table
                 \/ o.uid = uid /\ o.reply \notin {"r", "l"}
    BY <1>1, AnswersFacts
  <2>. QED
    BY <1>1, <1>2, <2>1, <2>2 DEF LoggedIn
<1>. QED
  BY <1>3, <1>4

(* The steps of the clients and of "stop" leave the counters.               *)
LEMMA OthersLeave ==
  StopStep \/ (\E c \in Clients : ClientStep(c))
    => UNCHANGED UIDs
BY DEF StopStep, StopGiven, StopShutsDown, StopClosesServer, StopExits, OnlyStop,
       ClientStep, Connects, Greets, Sends, RestArrives, Stalls, Drops, ComesBack, OnlyClients

(* A UID that rises on an open connection becomes a user's.                  *)
NoTryIsGivenBack ==
  [][~noDb => \A c \in Open \cap Open' : UIDs'[c] > UIDs[c] =>
       UIDs'[c] = LoggedIn /\ \E n \in Names : <<n, c>> \in users']_vars

(* On one connection a counter of tries only goes down, but for a success:  *)
(* neither other requests nor other clients give a try back.                *)
THEOREM TriesOnlyFall == Spec => NoTryIsGivenBack
<1>. DEFINE Falls ==
       ~noDb => \A c \in Open \cap Open' : UIDs'[c] > UIDs[c] =>
         UIDs'[c] = LoggedIn /\ \E n \in Names : <<n, c>> \in users'
<1>1. ASSUME IInv, Next
      PROVE  Falls
  <2>0. /\ \A c \in Open : UIDs[c] \in Int
        /\ pc = "handshake" => current \notin Open
    BY <1>1 DEF IInv, TypeOK, OnePlaceEach
  <2>u. ASSUME \A c \in Open \cap Open' : UIDs'[c] = UIDs[c]
        PROVE  Falls
    BY <2>0, <2>u
  <2>1. CASE HandleMsg
    <3>1. /\ \A c \in Open \ {current} : UIDs'[c] = UIDs[c]
          /\ ~noDb => \/ UIDs'[current] <= UIDs[current]
                      \/ /\ UIDs'[current] = LoggedIn
                         /\ \E n \in Names : <<n, current>> \in users'
      BY <1>1, <2>1, HandleMsgFacts
    <3>2. UIDs'[current] \in Int
      BY <1>1, <2>1, HandleMsgKeeps, HandleMsgFacts DEF IInv, OnePlaceEach
    <3>. QED
      BY <1>1, <2>0, <2>1, <3>1, <3>2, HandleMsgFacts
  <2>2. CASE HandshakeEnds
    <3>1. \A c \in Open \cap Open' : UIDs'[c] = UIDs[c]
      BY <2>0, <2>2 DEF HandshakeEnds, WithUID, Open
    <3>. QED
      BY <2>u, <3>1
  <2>3. CASE ReadFails \/ ReadBreaks \/ WriteAnswers \/ WriteGivesUp \/ WriteFails
    <3>1. \A c \in Open \cap Open' : UIDs'[c] = UIDs[c]
      BY <2>3 DEF ReadFails, ReadBreaks, WriteAnswers, WriteGivesUp, Answered, WriteFails,
                  Cleanup, Without, Open
    <3>. QED
      BY <2>u, <3>1
  <2>4. CASE LoopStep \/ GetUID
    <3>1. UNCHANGED UIDs
      BY <2>4 DEF LoopStep, LoopBegins, SelectReturns, SelectFails, AcceptTakes, AcceptFails,
                  HandshakeFails, Skips, BrokenLeaves, ScanPicks, GetUID
    <3>. QED
      BY <2>u, <3>1
  <2>5. CASE StopStep \/ \E c \in Clients : ClientStep(c)
    BY <2>5, <2>u, OthersLeave
  <2>. QED
    BY <1>1, <2>1, <2>2, <2>3, <2>4, <2>5 DEF Next, ServerStep, ErrorStep, LoopStep
<1>2. IInv /\ [Next]_vars => [Falls]_vars
  BY <1>1
<1>3. Spec => [][Falls]_vars
  BY <1>2, Inductive, PTL DEF Spec
<1>. QED
  BY <1>3 DEF NoTryIsGivenBack
==============================================================================
