----------------------------- MODULE GameServer -----------------------------
(***************************************************************************)
(* The game server of src/src/.old: one thread that selects, accepts,      *)
(* reads, answers and closes (Server::handleClients, ClientHandler), the   *)
(* thread that AdminConsole's "stop" detaches, and the clients of          *)
(* .old/account, which send a request and wait for its answer.             *)
(*                                                                         *)
(* There are two builds: without NO_DB users are in a database and a       *)
(* connection's UID counts its tries downwards until somebody is logged in *)
(* on it; with NO_DB everybody is logged in.                               *)
(***************************************************************************)
EXTENDS Integers, Sequences, FiniteSets

CONSTANTS
  Clients,
  Names,
  Kinds,         (* Kinds[c]: the kinds of request that c may make *)
  LoginAttempts  (* Config::loginAttempts *)

ASSUME LoginAttemptsAssumption == LoginAttempts \in Nat \ {0}

VARIABLES
  noDb,
  cpc,       (* the clients                                          *)
  request,   (* what a client has sent, wholly or in part            *)
  backlog,   (* connections the kernel has and accept does not       *)
  UIDs,      (* the UID of each open connection                      *)
  users,     (* the database: pairs of a name and whose password     *)
  pc,        (* the server's thread                                  *)
  watching,  (* serverSocket was put in the set of the select        *)
  todo,      (* the readable connections of this pass                *)
  current,
  mapLocked, (* mapMutex, which only this thread takes               *)
  response,
  isShuttingDown, shutdown,
  stopPc

clientVars == <<cpc, request>>
stopVars == <<isShuttingDown, shutdown, stopPc>>
vars == <<noDb, clientVars, backlog, UIDs, users, pc, watching, todo, current,
          mapLocked, response, stopVars>>

None == "none"
LoggedIn == 1  \* any UID that the database, or the descriptor, gives
NoRequest == [kind |-> None, name |-> None]
\* "other" is an identifier that handleMsg does not know, or an "s" of the
\* wrong size.
Requests == [kind : {"r", "l"}, name : Names]
            \cup [kind : {"s", "c", "other"}, name : {None}]

Init ==
  /\ noDb \in BOOLEAN
  /\ cpc = [c \in Clients |-> "out"]
  /\ request = [c \in Clients |-> NoRequest]
  /\ backlog = {}
  /\ UIDs = <<>>
  /\ users = {}
  /\ pc = "loop" /\ watching = FALSE /\ todo = {} /\ current = None
  /\ mapLocked = FALSE /\ response = None
  /\ isShuttingDown = FALSE /\ shutdown = FALSE /\ stopPc = "none"

Open == DOMAIN UIDs
WithUID(c, uid) == [d \in Open \cup {c} |-> IF d = c THEN uid ELSE UIDs[d]]
Without(c) == [d \in Open \ {c} |-> UIDs[d]]

------------------------------------------------------------------------------
(* The clients. *)

OnlyClients ==
  UNCHANGED <<noDb, UIDs, users, pc, watching, todo, current, mapLocked, response, stopVars>>

\* NetworkManager::connectToServer.  A client that is "mute" has connected
\* and has not begun the handshake.
Connects(c) ==
  /\ cpc[c] = "out" /\ stopPc # "closed"
  /\ \E state \in {"mute", "greeting"} : cpc' = [cpc EXCEPT ![c] = state]
  /\ backlog' = backlog \cup {c}
  /\ UNCHANGED request /\ OnlyClients

Greets(c) ==
  /\ cpc[c] = "mute" /\ cpc' = [cpc EXCEPT ![c] = "greeting"]
  /\ UNCHANGED <<request, backlog>> /\ OnlyClients

\* NetworkManager::sendData.  What it writes may arrive in two parts.
Sends(c) ==
  /\ cpc[c] = "in"
  /\ \E state \in {"partly", "waiting"} : cpc' = [cpc EXCEPT ![c] = state]
  /\ \E r \in Requests : r.kind \in Kinds[c] /\ request' = [request EXCEPT ![c] = r]
  /\ UNCHANGED backlog /\ OnlyClients

RestArrives(c) ==
  /\ cpc[c] = "partly" /\ cpc' = [cpc EXCEPT ![c] = "waiting"]
  /\ UNCHANGED <<request, backlog>> /\ OnlyClients

\* It stops taking what it is sent, or goes on.
Stalls(c) ==
  /\ cpc[c] \in {"waiting", "deaf"}
  /\ cpc' = [cpc EXCEPT ![c] = IF @ = "deaf" THEN "waiting" ELSE "deaf"]
  /\ UNCHANGED <<request, backlog>> /\ OnlyClients

\* What has arrived wholly can still be read.
Drops(c) ==
  /\ cpc[c] \notin {"out", "over"} /\ cpc' = [cpc EXCEPT ![c] = "over"]
  /\ request' = IF cpc[c] \in {"waiting", "deaf"} THEN request ELSE [request EXCEPT ![c] = NoRequest]
  /\ UNCHANGED backlog /\ OnlyClients

\* A client is here one connection at a time: the next one, when the server
\* is through with the last.
ComesBack(c) ==
  /\ cpc[c] = "over" /\ cpc' = [cpc EXCEPT ![c] = "out"]
  /\ c \notin Open \cup backlog /\ c # current
  /\ request' = [request EXCEPT ![c] = NoRequest]
  /\ UNCHANGED backlog /\ OnlyClients

ClientStep(c) ==
  \/ Connects(c) \/ Greets(c) \/ Sends(c) \/ RestArrives(c) \/ Stalls(c) \/ Drops(c)
  \/ ComesBack(c)

------------------------------------------------------------------------------
(* Server::handleClients and acceptClient. *)

OnlyLoop == UNCHANGED <<noDb, clientVars, users, mapLocked, response, stopVars>>

LoopBegins ==
  /\ pc = "loop"
  /\ pc' = IF shutdown THEN "left" ELSE "select"
  /\ watching' = ~isShuttingDown
  /\ UNCHANGED <<backlog, UIDs, todo, current>> /\ OnlyLoop

Readable == {c \in Open : cpc[c] \in {"partly", "waiting", "deaf", "over"}}

SelectReturns ==
  /\ pc = "select"
  /\ Readable # {} \/ (watching /\ backlog # {} /\ stopPc # "closed")
  /\ todo' = Readable
  /\ pc' = IF watching /\ backlog # {} /\ ~isShuttingDown THEN "accept" ELSE "scan"
  /\ watching' = FALSE
  /\ UNCHANGED <<backlog, UIDs, current>> /\ OnlyLoop

SelectFails ==
  /\ pc = "select" /\ pc' = "skipped"
  /\ watching' = FALSE
  /\ UNCHANGED <<backlog, UIDs, todo, current>> /\ OnlyLoop

\* accept, and the beginning of SSL_accept, which blocks.
AcceptTakes ==
  /\ pc = "accept" /\ pc' = "handshake"
  /\ \E c \in backlog : current' = c /\ backlog' = backlog \ {c}
  /\ UNCHANGED <<UIDs, watching, todo>> /\ OnlyLoop

\* accept itself fails, or what SSL_accept needs: the key, the certificate,
\* SSL_new.  The socket of a connection that was accepted is not closed.
AcceptFails ==
  /\ pc = "accept" /\ pc' = "skipped"
  /\ backlog' \in {backlog} \cup {backlog \ {c} : c \in backlog}
  /\ UNCHANGED <<UIDs, watching, todo, current>> /\ OnlyLoop

\* If the socket cannot be made non-blocking it is closed and stays in UIDs:
\* from then on select fails.
HandshakeEnds ==
  /\ pc = "handshake" /\ cpc[current] = "greeting" /\ ~mapLocked
  /\ UIDs' = WithUID(current, IF noDb THEN LoggedIn ELSE 0)
  /\ \/ pc' = "scan" /\ cpc' = [cpc EXCEPT ![current] = "in"]
     \/ pc' = "broken" /\ cpc' = [cpc EXCEPT ![current] = "over"]
  /\ current' = None
  /\ UNCHANGED <<noDb, request, backlog, users, watching, todo, mapLocked, response, stopVars>>

\* The client is gone, or the handshake fails.  The socket is not closed.
HandshakeFails ==
  /\ pc = "handshake" /\ cpc[current] \in {"greeting", "over"}
  /\ pc' = "skipped" /\ current' = None
  /\ UNCHANGED <<backlog, UIDs, watching, todo>> /\ OnlyLoop

\* continue: the readable connections of this pass are passed over.
Skips ==
  /\ pc = "skipped" /\ pc' = "loop" /\ todo' = {}
  /\ UNCHANGED <<backlog, UIDs, watching, current>> /\ OnlyLoop

\* Every select fails, until the loop finds that it is over.
BrokenLeaves ==
  /\ pc = "broken" /\ shutdown /\ pc' = "left"
  /\ UNCHANGED <<backlog, UIDs, watching, todo, current>> /\ OnlyLoop

\* Mutant: the connection is not marked as served.
ScanPicksAgain ==
  /\ pc = "scan"
  /\ IF todo = {} THEN pc' = "loop" /\ UNCHANGED <<todo, current>>
     ELSE \E c \in todo : todo' = todo /\ current' = c /\ pc' = "getUid"
  /\ UNCHANGED <<backlog, UIDs, watching>> /\ OnlyLoop

ScanPicks ==
  /\ pc = "scan"
  /\ IF todo = {} THEN pc' = "loop" /\ UNCHANGED <<todo, current>>
     ELSE \E c \in todo : todo' = todo \ {c} /\ current' = c /\ pc' = "getUid"
  /\ UNCHANGED <<backlog, UIDs, watching>> /\ OnlyLoop

------------------------------------------------------------------------------
(* ClientHandler. *)

OnlyHandler == UNCHANGED <<noDb, backlog, watching, stopVars>>

\* getUID, as handleConnection begins, and in loginUser, which has mapMutex:
\* the mutex is not recursive.
GetUID ==
  /\ pc = "getUid" /\ ~mapLocked
  /\ pc' = IF response = None THEN "read" ELSE "write"
  /\ UNCHANGED <<UIDs, todo, current, mapLocked, response, clientVars, users>> /\ OnlyHandler

\* Mutant: the loop leaves the pass after it.
CleanupEndsPass ==
  /\ ~mapLocked
  /\ UIDs' = Without(current)
  /\ pc' = "loop" /\ todo' = {}
  /\ current' = None
  /\ response' = None
  /\ UNCHANGED mapLocked

\* cleanupConnection erases the element of UIDs that the loop of
\* handleClients stands on.  The loop then goes on from the freed element:
\* to the next one if its links are intact, past the last, or nowhere.
Cleanup ==
  /\ ~mapLocked
  /\ UIDs' = Without(current)
  /\ pc' \in {"scan", "skipped", "crashed"}
  /\ current' = None
  /\ response' = None
  /\ UNCHANGED <<todo, mapLocked>>

\* SSL_read is retried until all of the request is there: nothing else is
\* done meanwhile.
ReadFails ==
  /\ pc = "read" /\ cpc[current] = "over"
  /\ Cleanup
  /\ UNCHANGED <<clientVars, users>> /\ OnlyHandler

\* What a client that is still there has sent is not TLS.
ReadBreaks ==
  /\ pc = "read" /\ cpc[current] # "over"
  /\ Cleanup
  /\ cpc' = [cpc EXCEPT ![current] = "over"]
  /\ request' = [request EXCEPT ![current] = NoRequest]
  /\ UNCHANGED users /\ OnlyHandler

\* registerUser and loginUser: the answer, and what becomes of the UID and
\* the database.
Outcome(reply, uid, table) == [reply |-> reply, uid |-> uid, table |-> table]

Registration(c, name, uid) ==
  IF noDb THEN {Outcome("r", LoggedIn, users)}
  ELSE {Outcome("r", LoggedIn, users \cup {<<name, c>>}), Outcome("e", uid, users)}

Login(c, name, uid) ==
  LET rows == {u \in users : u[1] = name} IN
  IF noDb THEN {Outcome("l", LoggedIn, users)}
  ELSE {Outcome("f", uid, users)}
       \cup (IF rows = {} THEN {Outcome("w", uid, users)} ELSE {})
       \cup {IF u[2] = c THEN Outcome("l", LoggedIn, users)
             ELSE Outcome("w", uid, users) : u \in rows}

\* handleMsg.
Tries(uid) == ~noDb /\ uid <= 0

Answers(c, r, uid) ==
  CASE r.kind = "r" -> Registration(c, r.name, uid)
    [] r.kind = "l" -> Login(c, r.name, uid)
    [] r.kind = "s" -> {Outcome("S", uid, users)}
    [] r.kind = "c" -> {Outcome("c", uid, users)}
    [] OTHER       -> {Outcome("E", uid, users)}

\* Mutant: one try too many.
TooManyTriesLate(uid, reply) == ~noDb /\ uid < -LoginAttempts - 1 /\ reply \notin {"r", "l"}

TooManyTries(uid, reply) == ~noDb /\ uid < -LoginAttempts /\ reply \notin {"r", "l"}

\* Mutant: any request is served.
RefusedUnknownNever(uid, kind) == FALSE

RefusedUnknown(uid, kind) == Tries(uid) /\ kind \notin {"r", "l"}

Arrived(c) == cpc[c] \in {"waiting", "deaf", "over"} /\ request[c] # NoRequest

\* A login that succeeds in the build with the database calls getUID with
\* mapMutex taken.
HandleMsg ==
  /\ pc = "read" /\ Arrived(current) /\ ~mapLocked
  /\ LET r == request[current]
         uid == IF Tries(UIDs[current]) THEN UIDs[current] - 1 ELSE UIDs[current] IN
     IF RefusedUnknown(UIDs[current], r.kind)
     THEN /\ UIDs' = WithUID(current, uid)
          /\ response' = "c" /\ pc' = "write" /\ UNCHANGED <<users, mapLocked>>
     ELSE \E o \in Answers(current, r, uid) :
          /\ UIDs' = WithUID(current, o.uid)
          /\ users' = o.table
          /\ response' = IF TooManyTries(uid, o.reply) THEN "c" ELSE o.reply
          /\ mapLocked' = (~noDb /\ o.reply = "l")
          /\ pc' = IF mapLocked' THEN "getUid" ELSE "write"
  /\ UNCHANGED <<clientVars, todo, current>> /\ OnlyHandler

Closing == {"c", "E"}

Answered(next) ==
  /\ request' = [request EXCEPT ![current] = NoRequest]
  /\ cpc' = [cpc EXCEPT ![current] = IF @ = "over" \/ response \in Closing THEN "over" ELSE next]
  /\ IF response \in Closing THEN Cleanup
     ELSE /\ pc' = "scan" /\ current' = None /\ response' = None
          /\ UNCHANGED <<UIDs, todo, mapLocked>>
  /\ UNCHANGED users /\ OnlyHandler

\* To a client that takes nothing the write is tried again ...
WriteAnswers ==
  /\ pc = "write" /\ cpc[current] # "deaf"
  /\ Answered("in")

\* ... or is not: continue goes to the loop's condition, which then reads
\* bytesSent before it has a value.
WriteGivesUp ==
  /\ pc = "write" /\ cpc[current] = "deaf"
  /\ Answered("unanswered")

WriteFails ==
  /\ pc = "write" /\ cpc[current] = "over"
  /\ Cleanup
  /\ UNCHANGED <<clientVars, users>> /\ OnlyHandler

ServerStep ==
  \/ LoopBegins \/ SelectReturns \/ AcceptTakes \/ AcceptFails \/ HandshakeEnds
  \/ HandshakeFails \/ Skips \/ BrokenLeaves \/ ScanPicks \/ GetUID \/ ReadFails
  \/ HandleMsg \/ WriteAnswers \/ WriteFails

\* What may happen to the server's thread and need not.
ErrorStep == SelectFails \/ ReadBreaks \/ WriteGivesUp

------------------------------------------------------------------------------
(* AdminConsole::stop. *)

OnlyStop ==
  UNCHANGED <<noDb, clientVars, backlog, UIDs, users, watching, todo, current, mapLocked,
              response>>

StopGiven ==
  /\ stopPc = "none" /\ stopPc' = "sleeping"
  /\ isShuttingDown' = TRUE
  /\ UNCHANGED <<shutdown, pc>> /\ OnlyStop

StopShutsDown ==
  /\ stopPc = "sleeping" /\ stopPc' = "saving"
  /\ shutdown' = TRUE
  /\ UNCHANGED <<isShuttingDown, pc>> /\ OnlyStop

StopClosesServer ==
  /\ stopPc = "saving" /\ stopPc' = "closed"
  /\ UNCHANGED <<isShuttingDown, shutdown, pc>> /\ OnlyStop

StopExits ==
  /\ stopPc = "closed" /\ stopPc' = "gone"
  /\ pc' = "exited"
  /\ UNCHANGED <<isShuttingDown, shutdown>> /\ OnlyStop

StopStep == StopGiven \/ StopShutsDown \/ StopClosesServer \/ StopExits

\* What becomes of the clients of a process that has ended is left out.
Ended == pc \in {"crashed", "exited"}

Next ==
  /\ ~Ended
  /\ ServerStep \/ ErrorStep \/ StopStep \/ \E c \in Clients : ClientStep(c)

Spec == Init /\ [][Next]_vars

\* The server's thread runs.  Nothing is assumed of the clients.
FairSpec == Spec /\ WF_vars(ServerStep)

------------------------------------------------------------------------------

ClientStates == {"out", "mute", "greeting", "in", "partly", "waiting", "deaf", "unanswered", "over"}

\* The types of the variables, and that the connection being served is open.
TypeOK ==
  /\ cpc \in [Clients -> ClientStates]
  /\ request \in [Clients -> Requests \cup {NoRequest}]
  /\ response \in {"r", "l", "e", "w", "f", "S", "c", "E", None}
  /\ Open \subseteq Clients /\ backlog \subseteq Clients \ Open
  /\ users \subseteq Names \X Clients
  /\ pc \in {"loop", "select", "accept", "handshake", "skipped", "broken", "scan", "getUid",
             "read", "write", "left", "crashed", "exited"}
  /\ mapLocked \in BOOLEAN
  /\ todo \subseteq Open
  /\ pc \in {"getUid", "read", "write"} => current \in Open
  /\ pc = "handshake" => current \in Clients \ Open
  /\ stopPc \in {"none", "sleeping", "saving", "closed", "gone"}

\* A connection that is left open has failed to log in at most LoginAttempts
\* times; the try after that ends it, unless it is the right one.
TriesAreLimited ==
  ~noDb => \A c \in Open :
    UIDs[c] >= -LoginAttempts \/ (c = current /\ pc \in {"write", "crashed", "exited"} /\ response = "c")

\* In the build with the database "s" is served only to a client that has
\* registered.
OnlyRegisteredAreServed ==
  ~noDb /\ pc = "write" /\ response = "S" => \E n \in Names : <<n, current>> \in users

\* One thread serves everybody.  A client waits for ever only if the server
\* is gone, hung or broken, is held by a client that has begun something and
\* does not finish it, or goes on giving up passes (after an error, a refused
\* connection, or a clean-up after which the loop finds itself at the end).
Hung == pc = "getUid" /\ mapLocked
Down == pc \in {"crashed", "exited", "left", "broken"} \/ Hung
Held ==
  \/ pc = "handshake" /\ cpc[current] = "mute"
  \/ pc = "read" /\ cpc[current] = "partly"
  \/ pc = "write"  \* to one that is deaf, again and again
AnsweredUnlessHeld ==
  \A c \in Clients :
    <>[](cpc[c] = "waiting") => <>[]Down \/ <>[]Held \/ []<>(pc = "skipped")

\* notes.md: the answer to a login that succeeds is "l".
SuccessfulLoginIsAnswered ==
  response = "l" ~> (pc = "write" /\ response = "l") \/ Ended
==============================================================================
