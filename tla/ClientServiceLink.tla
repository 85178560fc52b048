-------------------------- MODULE ClientServiceLink --------------------------
(***************************************************************************)
(* A service's end of the link to the control process                      *)
(* (src/server/shared/ClientServiceLink.cpp) as auth uses it: the thread   *)
(* that connects and receives (StartClient, HandleConnection), the thread  *)
(* that sends, the thread that handles what was received, and auth's main, *)
(* which waits for its settings (auth/main.cpp, messageHandler.cpp).       *)
(*                                                                         *)
(* The control process is the environment.  It may close a connection at   *)
(* any time; what it sends comes out of a Mailbox, which is what           *)
(* ServiceLink is proved to implement, filled with the two settings for    *)
(* every CONNECT it gets.                                                  *)
(***************************************************************************)
EXTENDS Integers, Sequences, FiniteSets

CONSTANTS
  MaxSockets, (* bound: how many times the service calls socket()     *)
  MaxLogs,    (* bound: how many log lines ClientHandler queues        *)
  MaxLeftOver (* bound: settings an earlier auth process was not sent  *)

ASSUME BoundsAssumption ==
  MaxSockets \in Nat \ {0} /\ MaxLogs \in Nat /\ MaxLeftOver \in Nat

Fds == 1 .. MaxSockets

Connections == 1 .. MaxSockets (* successful connects, in order *)

Settings == {"dbConnString", "port"}

Outgoing == {"CONNECT", "L"}

VARIABLES
  fate,          (* "up", or "sigpipe"                                     *)
  mpc,           (* the main thread: StartClient's loop                    *)
  sock,          (* ClientServiceLink::sock                                *)
  sockets,       (* bound: sockets created so far                          *)
  fd,            (* fd[f]: Free, Fresh (not connected) or a connection     *)
  nconn,         (* connections made so far                                *)
  peer,          (* peer[c]: the control end, "none", "open" or "closed"   *)
  sendBuffer,    (* messages to the control process                        *)
  spc,           (* the sender thread (ProcessSendBuffer)                  *)
  seen,          (* its first copy of sock (line 86)                       *)
  smsg,          (* its copy of the message                                *)
  ssock,         (* its second copy of sock (line 109)                     *)
  sent,          (* history: sent[c], what the control end of c was given  *)
  owed,          (* the control process's Mailbox: not yet sent to auth    *)
  given,         (* given[c]: what it has written to c                     *)
  served,        (* settings it has queued, two for each CONNECT           *)
  nread,         (* how much of given[nconn] has been read                 *)
  messageBuffer, (* reads not yet handled, each a sequence of messages     *)
  received,      (* allSettingsReceivedArray                               *)
  db,            (* settings.dbConnString: "unset", "whole" or "merged"    *)
  started,       (* auth's main has left its wait and started to serve     *)
  logs,          (* bound: log lines queued so far                         *)
  merged         (* history: some read returned more than one message      *)

mainVars   == <<mpc, sock, sockets, fd, nconn>>
senderVars == <<spc, seen, smsg, ssock, sent>>
inVars     == <<nread, messageBuffer, merged>>
authVars   == <<received, db, started>>
ctrlVars   == <<owed, given, served>>
vars == <<fate, mainVars, peer, sendBuffer, senderVars, inVars, authVars,
          ctrlVars, logs>>

None == "none"

Free == -1

Fresh == 0

\* What is left of the pairs queued for an earlier auth process: the last n
\* (a port only queued after Init looks to auth like one queued before it).
LeftOver(n) ==
  [k \in 1 .. n |-> IF (n - k) % 2 = 0 THEN "port" ELSE "dbConnString"]

Init ==
  /\ fate = "up"
  /\ mpc = "socket" /\ sock = 0 /\ sockets = 0 /\ nconn = 0
  /\ fd = [f \in Fds |-> Free]
  /\ peer = [c \in Connections |-> "none"]
  /\ sendBuffer = <<>>
  /\ spc = "look" /\ seen = 0 /\ smsg = None /\ ssock = 0
  /\ sent = [c \in Connections |-> <<>>]
  /\ \E n \in 0 .. MaxLeftOver : owed = [s \in {"auth"} |-> LeftOver(n)]
  /\ served = 0
  /\ given = [c \in Connections |-> <<>>]
  /\ nread = 0 /\ messageBuffer = <<>> /\ merged = FALSE
  /\ received = [s \in Settings |-> FALSE]
  /\ db = "unset" /\ started = FALSE
  /\ logs = 0
------------------------------------------------------------------------------
(***************************************************************************)
(* The control process.                                                    *)
(***************************************************************************)
Control == INSTANCE Mailbox WITH
  Services <- {"auth"}, Receivers <- Connections, Payloads <- Settings,
  pending <- owed, received <- given

OnlyControl == UNCHANGED <<fate, mainVars, sendBuffer, senderVars, inVars,
                           authVars, logs>>

ConnectsSent(last) ==
  Cardinality({p \in (1 .. last) \X (1 .. MaxSockets + MaxLogs) :
                 p[2] <= Len(sent[p[1]]) /\ sent[p[1]][p[2]] = "CONNECT"})

ControlCloses ==
  /\ \E c \in Connections :
       /\ peer[c] = "open"
       /\ peer' = [peer EXCEPT ![c] = "closed"]
  /\ OnlyControl /\ UNCHANGED ctrlVars

\* ServiceLink's HandleConnect for auth queues both settings, in this order.
ControlRegisters ==
  /\ served < 2 * ConnectsSent(MaxSockets)
  /\ served' = served + 1
  /\ Control!Enqueue("auth", IF served % 2 = 0 THEN "dbConnString" ELSE "port")
  /\ OnlyControl /\ UNCHANGED peer

ControlSends ==
  /\ \/ Control!Lose("auth")
     \/ \E c \in Connections : peer[c] = "open" /\ Control!Deliver("auth", c)
  /\ OnlyControl /\ UNCHANGED <<peer, served>>

ControlStep == ControlCloses \/ ControlRegisters \/ ControlSends
------------------------------------------------------------------------------
(***************************************************************************)
(* The main thread: StartClient.                                           *)
(***************************************************************************)
Main(from, to) == fate = "up" /\ mpc = from /\ mpc' = to

OnlyMain == UNCHANGED <<fate, senderVars, authVars, ctrlVars, logs>>

\* sock is set before there is a connection.
CreateSocket ==
  /\ Main("socket", "connect")
  /\ sockets < MaxSockets
  /\ sockets' = sockets + 1
  /\ \E f \in Fds :
       /\ fd[f] = Free /\ \A g \in 1 .. f - 1 : fd[g] # Free
       /\ sock' = f
       /\ fd' = [fd EXCEPT ![f] = Fresh]
  /\ OnlyMain /\ UNCHANGED <<nconn, peer, sendBuffer, inVars>>

ConnectSucceeds ==
  /\ Main("connect", "queue")
  /\ nconn' = nconn + 1
  /\ fd' = [fd EXCEPT ![sock] = nconn']
  /\ peer' = [peer EXCEPT ![nconn'] = "open"]
  /\ nread' = 0
  /\ OnlyMain
  /\ UNCHANGED <<sock, sockets, sendBuffer, messageBuffer, merged>>

\* Mutant: CONNECT is queued whether connect succeeds or not.
ConnectFailsQueues ==
  /\ Main("connect", "socket")
  /\ sendBuffer' = Append(sendBuffer, "CONNECT")
  /\ OnlyMain /\ UNCHANGED <<sock, sockets, fd, nconn, peer, inVars>>

\* Neither closed nor forgotten: tried again with another socket in 5 s.
ConnectFails ==
  /\ Main("connect", "socket")
  /\ OnlyMain
  /\ UNCHANGED <<sock, sockets, fd, nconn, peer, sendBuffer, inVars>>

Push(m) == sendBuffer' = Append(sendBuffer, m)

QueueConnect ==
  /\ Main("queue", "recv")
  /\ Push("CONNECT")
  /\ OnlyMain /\ UNCHANGED <<sock, sockets, fd, nconn, peer, inVars>>

\* TCP keeps no boundaries: one recv returns whatever has come so far.
Receive ==
  /\ Main("recv", "recv")
  /\ \E n \in nread + 1 .. Len(given[nconn]) :
       /\ messageBuffer' =
            Append(messageBuffer, SubSeq(given[nconn], nread + 1, n))
       /\ merged' = (merged \/ n > nread + 1)
       /\ nread' = n
  /\ OnlyMain /\ UNCHANGED <<sock, sockets, fd, nconn, peer, sendBuffer>>

ReceiveFails ==
  /\ Main("recv", "close")
  /\ peer[nconn] = "closed"
  /\ OnlyMain
  /\ UNCHANGED <<sock, sockets, fd, nconn, peer, sendBuffer, inVars>>

Disconnect ==
  /\ Main("close", "socket")
  /\ fd' = [fd EXCEPT ![sock] = Free]
  /\ sock' = 0
  /\ OnlyMain /\ UNCHANGED <<sockets, nconn, peer, sendBuffer, inVars>>

MainStep ==
  \/ CreateSocket \/ ConnectSucceeds \/ ConnectFails \/ QueueConnect
  \/ Receive \/ ReceiveFails \/ Disconnect
------------------------------------------------------------------------------
(***************************************************************************)
(* The sender: ProcessSendBuffer and SendDataFromBuffer.                   *)
(***************************************************************************)
Sender(from, to) == fate = "up" /\ spc = from /\ spc' = to

OnlySender == UNCHANGED <<mainVars, peer, inVars, authVars, ctrlVars, logs>>

Look ==
  /\ Sender("look", "check")
  /\ seen' = sock
  /\ OnlySender /\ UNCHANGED <<fate, sendBuffer, smsg, ssock, sent>>

\* Mutant: a queue of one message counts as empty.
HasMoreWork == Len(sendBuffer) > 1 /\ seen > 0

HasWork == sendBuffer # <<>> /\ seen > 0

Pick ==
  /\ HasWork
  /\ Sender("check", "sock")
  /\ smsg' = Head(sendBuffer)
  /\ OnlySender /\ UNCHANGED <<fate, sendBuffer, seen, ssock, sent>>

Rest ==
  /\ ~HasWork
  /\ Sender("check", "look")
  /\ OnlySender /\ UNCHANGED <<fate, sendBuffer, seen, smsg, ssock, sent>>

\* Mutant: the second copy is not tested (line 111).
CopySocketUntested ==
  /\ Sender("sock", "send")
  /\ ssock' = sock
  /\ OnlySender /\ UNCHANGED <<fate, sendBuffer, seen, smsg, sent>>

CopySocket ==
  /\ \/ Sender("sock", "send") /\ sock > 0
     \/ Sender("sock", "look") /\ sock <= 0
  /\ ssock' = sock
  /\ OnlySender /\ UNCHANGED <<fate, sendBuffer, seen, smsg, sent>>

SendReaches ==
  /\ Sender("send", "erase")
  /\ \E c \in Connections :
       /\ fd[ssock] = c /\ peer[c] = "open"
       /\ sent' = [sent EXCEPT ![c] = Append(@, smsg)]
  /\ OnlySender /\ UNCHANGED <<fate, sendBuffer, seen, smsg, ssock>>

\* The control process has closed: taken and lost, or refused.
SendToClosedPeer ==
  /\ \/ Sender("send", "erase") \/ Sender("send", "look")
  /\ \E c \in Connections : fd[ssock] = c /\ peer[c] = "closed"
  /\ OnlySender /\ UNCHANGED <<fate, sendBuffer, seen, smsg, ssock, sent>>

\* A closed descriptor: EBADF.
SendFails ==
  /\ Sender("send", "look")
  /\ fd[ssock] = Free
  /\ OnlySender /\ UNCHANGED <<fate, sendBuffer, seen, smsg, ssock, sent>>

\* A socket never connected, or reset by the peer: SIGPIPE, not handled.
SendKills ==
  /\ Sender("send", "send")
  /\ fd[ssock] # Free
  /\ \A c \in Connections : fd[ssock] = c => peer[c] = "closed"
  /\ fate' = "sigpipe"
  /\ OnlySender /\ UNCHANGED <<sendBuffer, seen, smsg, ssock, sent>>

\* Mutant: pop_back where the front was sent.
EraseLast ==
  /\ Sender("erase", "look")
  /\ sendBuffer' = SubSeq(sendBuffer, 1, Len(sendBuffer) - 1)
  /\ OnlySender /\ UNCHANGED <<fate, seen, smsg, ssock, sent>>

Erase ==
  /\ Sender("erase", "look")
  /\ sendBuffer' = Tail(sendBuffer)
  /\ OnlySender /\ UNCHANGED <<fate, seen, smsg, ssock, sent>>

SenderStep ==
  \/ Look \/ Pick \/ Rest \/ CopySocket
  \/ SendReaches \/ SendToClosedPeer \/ SendFails \/ SendKills \/ Erase
------------------------------------------------------------------------------
(***************************************************************************)
(* The message thread (ProcessMessages, auth's handleMessageContent), and  *)
(* auth's main.                                                            *)
(***************************************************************************)
OnlyAuth == UNCHANGED <<mainVars, peer, senderVars, nread, merged, ctrlVars>>

\* Mutant: both settings set the first flag.
FirstFlag(action) == "dbConnString"

Flag(action) == action

\* The text up to the first separator names the action, all the rest is its
\* value: a second message in the same read ends up in the first one's value.
HandleMessage ==
  /\ fate = "up" /\ messageBuffer # <<>>
  /\ messageBuffer' = Tail(messageBuffer)
  /\ LET chunk == Head(messageBuffer)
     IN  /\ received' = [received EXCEPT ![Flag(Head(chunk))] = TRUE]
         /\ db' = IF Head(chunk) = "port" THEN db
                  ELSE IF Len(chunk) = 1 THEN "whole" ELSE "merged"
  /\ OnlyAuth /\ UNCHANGED <<fate, sendBuffer, started, logs>>

\* Mutant: the loop begins with the second flag.
LastSettingReceived == received["port"]

AllSettingsReceived == \A s \in Settings : received[s]

AuthStarts ==
  /\ fate = "up" /\ ~started /\ AllSettingsReceived
  /\ started' = TRUE
  /\ OnlyAuth /\ UNCHANGED <<fate, sendBuffer, messageBuffer, received, db, logs>>

\* ClientHandler::SendData reports an error to the control process.
LogError ==
  /\ fate = "up" /\ started
  /\ logs < MaxLogs
  /\ logs' = logs + 1
  /\ Push("L")
  /\ OnlyAuth /\ UNCHANGED <<fate, messageBuffer, authVars>>
------------------------------------------------------------------------------
Next ==
  ControlStep \/ MainStep \/ SenderStep \/ HandleMessage \/ AuthStarts \/ LogError

Spec == Init /\ [][Next]_vars

(***************************************************************************)
(* Each thread of the service goes on while it can.  Nothing is assumed of *)
(* the control process or of the outcome of a connect.                     *)
(***************************************************************************)
Fairness ==
  /\ WF_vars(MainStep) /\ WF_vars(SenderStep)
  /\ WF_vars(HandleMessage) /\ WF_vars(AuthStarts)

FairSpec == Spec /\ Fairness
------------------------------------------------------------------------------
(***************************************************************************)
(* Type invariant.                                                         *)
(***************************************************************************)
MainTypeOK ==
  /\ fate \in {"up", "sigpipe"}
  /\ mpc \in {"socket", "connect", "queue", "recv", "close"}
  /\ sock \in Fds \cup {0} /\ sockets \in 0 .. MaxSockets
  /\ fd \in [Fds -> Connections \cup {Free, Fresh}]
  /\ nconn \in 0 .. MaxSockets
  /\ peer \in [Connections -> {"none", "open", "closed"}]
  /\ mpc \in {"connect", "queue", "recv", "close"} => sock \in Fds
  /\ mpc \in {"queue", "recv", "close"} => nconn \in Connections

SenderTypeOK ==
  /\ sendBuffer \in Seq(Outgoing)
  /\ spc \in {"look", "check", "sock", "send", "erase"}
  /\ seen \in Fds \cup {0} /\ ssock \in Fds \cup {0}
  /\ smsg \in Outgoing \cup {None}
  /\ spc \in {"sock", "send", "erase"} => smsg \in Outgoing
  /\ spc = "send" => ssock \in Fds
  /\ sent \in [Connections -> Seq(Outgoing)]

ControlTypeOK ==
  /\ owed \in [{"auth"} -> Seq(Settings)] /\ served \in Nat
  /\ given \in [Connections -> Seq(Settings)]

AuthTypeOK ==
  /\ nread \in Nat /\ messageBuffer \in Seq(Seq(Settings) \ {<<>>})
  /\ merged \in BOOLEAN /\ started \in BOOLEAN
  /\ received \in [Settings -> BOOLEAN]
  /\ db \in {"unset", "whole", "merged"}
  /\ logs \in Nat

TypeOK == MainTypeOK /\ SenderTypeOK /\ ControlTypeOK /\ AuthTypeOK
------------------------------------------------------------------------------
(***************************************************************************)
(* Safety.                                                                 *)
(***************************************************************************)

(* The first c connections carry at most c CONNECTs between them, although  *)
(* one that could not be sent stays queued for a later connection: a        *)
(* connection gets a second CONNECT only if an earlier one got none.        *)
ConnectsNotEarly == \A c \in Connections : ConnectsSent(c) <= c

Unsent ==
  [s \in {"control"} |-> IF spc = "erase" THEN Tail(sendBuffer) ELSE sendBuffer]

Outbox == INSTANCE Mailbox WITH
  Services <- {"control"}, Receivers <- Connections, Payloads <- Outgoing,
  pending <- Unsent, received <- sent

(* What the service queues leaves in order and at most once, through        *)
(* whichever connection there is when its turn comes.                       *)
OutboxSpec == Outbox!MSpec
------------------------------------------------------------------------------
(***************************************************************************)
(* Liveness, under FairSpec.                                               *)
(***************************************************************************)
Connected == mpc = "recv" /\ peer[nconn] = "open"

(* Once a connection lasts, everything queued is sent, what was left over   *)
(* from earlier connections included.                                       *)
QueueDrains == <>[](Connected /\ fate = "up") => <>[](sendBuffer = <<>>)

(* Auth starts to serve once both settings were written to a connection     *)
(* that lasts, unless two of them were ever read as one message.            *)
StartsOnceConfigured ==
  \A c \in Connections :
    (\A s \in Settings : \E k \in 1 .. Len(given[c]) : given[c][k] = s) ~>
      \/ started \/ merged \/ peer[c] = "closed" \/ fate # "up"

(* "All settings received." (auth/main.cpp:19): at that moment auth has the *)
(* connection string the control process sent, unless two messages ever     *)
(* came out of one read.  Everything else that may go wrong on the way -    *)
(* reconnects, settings lost, sent twice or left over from before - leaves  *)
(* what auth starts with right.                                             *)
StartsWrongOnlyWhenMerged ==
  [][~started /\ started' => db = "whole" \/ merged]_vars
------------------------------------------------------------------------------
(* "Can not connect to server. Retrying in 5 seconds..." (line 136): the    *)
(* process is still there to retry.                                         *)
Retrying == mpc = "socket" /\ sock # 0

RetrySurvives == Retrying => fate # "sigpipe"
==============================================================================
