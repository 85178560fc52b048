# Verification of InsertName's services

InsertName is a game: a Vulkan client, a control process with an admin console,
and four services (voice 0, chat 1, world 2, auth 3, `src/src/server/notes.md`)
that connect to the control process over TCP. This directory holds TLA+ models
of the parts that have concurrency and state, the TLC configurations that check
them, and TLAPS proofs of their main invariants. An earlier game server, no
longer built, is kept under `.old` and modelled too. Paths below are relative to
`src/src/`.

## 1. Inventory

| part | state | operations | hard behaviour |
|---|---|---|---|
| control `ServiceLink` | `activeConnections`, `serviceSockets`, `messageBuffer`, `sendBuffer`, a mutex each, `connectionCond` | acceptor loop, one detached handler per connection, message thread, send thread, `SendData`, `NotifyConnection` | lock order, condition variable, stale slots and descriptors, mutex given up in the middle of a pass |
| control `AdminConsole` | `isShuttingDown`, `isRunning`; line, cursor, selection, history | `Stop`, `ReadLine`, `ProcessKey`, `ProcessLine` | stop against a full server; editor state that outlives the line |
| control `Log` | `logsBuffer`, `mutex`, `dbMutex`, the table | `Print`, `SendLogsToDatabase`, `Destroy` | `save` flushes without the buffer's mutex; a transaction throws; a crash |
| control `AdvancedSettingsManager` | `config`, the file, `mutex` | load, save, set one, get | a file truncated before it is written; key names and types that do not match |
| `ClientServiceLink` (in every service) | `sock`, `messageBuffer`, `sendBuffer` | connect/retry loop, send thread, message thread | reconnects against queued messages, TCP merging messages |
| auth start-up | `settings`, `allSettingsReceivedArray` | wait until all settings came | a setting that is never recognised |
| auth `ClientHandler` | `clientSockets`, three queues, `io_context` | accept, receive, process, send threads | a mutex held while running the event loop; a context that stops for good |
| auth `Auth` | none | stubs | none yet |
| client `NetworkClient` | three queues, `running`, a static `io_context` | `Start`, `Stop`, `SendMessage`, pipeline threads | waits nobody notifies, a second start |
| legacy game server (`.old`) | `UIDs`, the users' table, the select set | accept, handshake, register, login, serve, clean up, stop | one thread that blocks, a list erased while it is walked, tries counted in the UID |
| client settings, engine, renderer, installer | - | set-up code | none modelled |

How they interact: `control/main.cpp` starts the acceptor, message, send and
console threads. A service connects, sends `CONNECT`, and its handler in the
control process pushes the message to `messageBuffer`; the message thread
registers the connection's descriptor in `serviceSockets` and, for auth, queues
two settings in `sendBuffer`; the send thread sends them. The console's `stop`
sets `isShuttingDown`, wakes the acceptor, and later clears `isRunning`, which
the other loops poll; `main` joins them. The thread that `stop` detaches, which
nobody joins, then saves the settings and flushes the log. Once auth has its
settings it starts `ClientHandler`, to which the game's `NetworkClient` connects
over TLS, once before its window opens and once after it is closed.

What makes each part correct: the link registers live connections only, sends
each service its messages once and in order, never blocks for ever and stops
when told to; the log keeps what it has not yet written; settings survive a
save and a load; the editor's indices stay inside the line; auth starts serving
once it has been configured; the pipelines deliver what they were given and
stop; the game server answers whoever has sent a request, and serves only those
who may be served.

## 2. Modules

| module | models |
|---|---|
| `ServiceLink` | `control/ServiceLink.cpp/.hpp`, with `AdminConsole::Stop` and the joins of `control/main.cpp`; the services are its environment |
| `ClientServiceLink` | `shared/ClientServiceLink.cpp/.hpp` as `auth` uses it, with `auth/main.cpp` and `auth/messageHandler.cpp`; the control process is its environment |
| `Mailbox` | abstract specification of the outgoing queues of both ends |
| `LineEditor` | `ReadLine`, `FilterKey` and `ProcessKey` of `control/AdminConsole.cpp` |
| `Log` | `control/Log.cpp`, as steps of whichever thread calls it |
| `AdvancedSettings` | `control/AdvancedSettingsManager.cpp` and the tests of values in `ProcessLine` |
| `AdminConsole` | the commands (`ProcessLine`, `Stop`), the threads that print and save, `main`, crash and restart; extends `Log` and `AdvancedSettings` |
| `Journal` | abstract specification of the log |
| `IoContext` | `boost::asio::io_context` as both users of it call it (external) |
| `Pipeline` | the process and send threads that `ClientHandler` and `NetworkClient` share |
| `ClientHandler` | `auth/ClientHandler.cpp`; extends `IoContext` and `Pipeline` |
| `NetworkClient` | `client/network/NetworkClient.cpp`, with `networkTemp` of `client/main.cpp`; extends `IoContext` and `Pipeline` |
| `AuthClients` | the composition: one `ClientHandler`, an instance of `NetworkClient`, other clients |
| `GameServer` | `.old/Server.cpp`, `.old/ClientHandler.cpp`, `stop` of `.old/AdminConsole.cpp`, and the client in `.old/account` |
| `MCServiceLink`, `MCLineEditor`, `MCAdminConsole`, `MCAuthClients`, `MCGameServer` | instances for TLC |
| `ServiceLinkProofs`, `ServiceLinkSlotProofs`, `ServiceLinkGuarantees`, `ClientServiceLinkProofs`, `LineEditorProofs`, `AdminConsoleProofs`, `AuthClientsProofs`, `GameServerProofs` | theorems for all constants |

The two ends of the link are modelled apart, each with the other as its
environment, and meet in three places. Both are shown to implement `Mailbox`
for what they send. `ClientServiceLink` takes its input from a `Mailbox`, the
one `ServiceLink` implements. One process of a service has one connection at a
time (theorem `OneConnection`); `ServiceLink` does not assume it, since a service
may be started twice.

### ServiceLink

One action per step of a thread between two accesses to shared state.

| thread | code | control variable | actions |
|---|---|---|---|
| acceptor | `StartTcpServer` | `apc` | `AcceptorLock`, `AcceptorSleep`, `SpuriousWakeup`, `SelectTimeout`, `Accept` |
| handlers | `HandleConnection` | `hpc[c]` | `HandlerStart`, `HandlerAdmits`, `HandlerRefuses`, `HandlerEof`, `HandlerPush`, `HandlerDec`, `HandlerClose` |
| messages | `ProcessMessages`, `HandleMessageContent` | `mpc` | `MessagesLoop`, `MessagesPop`, `HandleConnect`, `SendDbConnString`, `SendPort`, `HandleDisconnect`, `HandleUnknown` |
| sender | `ProcessSendBuffer`, `SendDataFromBuffer` | `spc` | `SenderLoop`, `SenderSkip`, `SenderPick`, `SenderPassEnds`, `SenderSocket`, `SendReaches`, `SendToClosedPeer`, `SendFails`, `SenderErase` |
| console, main | `Stop`, `main` | `admin`, `fate` | `AdminStop`, `NotifyConnection`, `StopTimer`, `MainReturns` |
| peers | the services | `peer[c]` | `PeerClose`, and their side of `Accept`, `HandlerAdmits`, `HandlerRefuses` |

Mutexes. `connectionMutex`, `socketMutex` and `sendBufferMutex` each have one
thread that holds them across more than one step; `connLock`, `socketLock` and
`sendBufLock` say whether it does. All other uses lock, do one access and
unlock: they are one step that requires the variable to be FALSE. `bufferMutex`,
`isRunningMutex` and `isShuttingDownMutex` are never held across anything and
need no variable. `std::condition_variable` is `apc = "asleep"`; the test of
the predicate and the blocking are two steps, with the mutex held in between.

Merged steps. `recv` and the slot check that follows it are one step: receiving
touches nothing another thread reads, so it moves next to the lock of line 79.
The loop tests of `IsShuttingDown` and `IsRunning` join the step before or
after: the flags are set once and never reset, so reading them later only
delays the thread by one iteration, which the separate step already allows. The
decrement of line 103 and the notification of line 106 are one step: between
them no other thread can both see the decrement and be missed by the
notification, since a thread that tests its predicate after the decrement finds
room. The listen backlog is not told from a connection not yet opened.

Data. A received chunk is `"CONNECT"` if it is exactly that message, else
`"OTHER"` (a log line, several messages that arrived in one `recv`). The two
settings sent to auth are `"dbConnString"` and `"port"`. Descriptors are
numbers, given lowest-free first and reused after `close`, as POSIX requires:
that reuse is what makes a stale copy dangerous. `Accept`, like
`StartTcpServer`, takes whoever connects: a service started twice has two live
connections, the case the test of lines 80-82 is there for. `owner` and
`rivals` are history: the connection that registered the descriptor of a slot,
and the connections of its service that had passed the test of line 80 by then.

Ends of the process: `"exited"` (main returned), `"system_error"` (an unlock of
a mutex not held, line 42), `"sigpipe"` (line 24).

### ClientServiceLink

| thread | code | control variable | actions |
|---|---|---|---|
| main | `StartClient`, `HandleConnection` | `mpc` | `CreateSocket`, `ConnectSucceeds`, `ConnectFails`, `QueueConnect`, `Receive`, `ReceiveFails`, `Disconnect` |
| sender | `ProcessSendBuffer`, `SendDataFromBuffer` | `spc` | `Look`, `Pick`, `Rest`, `CopySocket`, `SendReaches`, `SendToClosedPeer`, `SendFails`, `SendKills`, `Erase` |
| messages | `ProcessMessages`, `handleMessageContent` | - | `HandleMessage` |
| auth's main | the wait of `auth/main.cpp` | `started` | `AuthStarts` |
| auth's clients | `ClientHandler::SendData` reporting an error | - | `LogError` |
| control process | environment | - | `ControlCloses`, `ControlRegisters`, `ControlSends` |

`sock` and `sendBuffer` are each locked for one access at a time, so no mutex
needs a variable; what matters is that the sender reads `sock` twice
(`seen`, `ssock`) and reads and erases the front of the queue in two critical
sections. `connect` runs under `socketMutex`, so it is one step that the sender
cannot fall into; a `sock` that failed to connect is left set and open, and the
sender can use it from then until the retry replaces it. A descriptor is
`Free`, `Fresh` (a socket never connected) or the number of its connection.

`Receive` returns any non-empty part of what has arrived, whole messages only
(a split message is not modelled), and one element of `messageBuffer` is one
`recv`. `HandleMessage` takes the text up to the first separator as the
setting's name and all that follows as its value, so of a merged read the first
name gets a value that contains the rest: `db = "merged"`.
`allSettingsReceivedArray` is written and polled without a mutex; its flags are
only ever set and main polls them for ever, so a late read is a late
`AuthStarts`. `ControlRegisters` is what `HandleConnect` of `ServiceLink` does
for auth: both settings, in this order, for each CONNECT that arrived. The
control process's queue outlives auth: settings an earlier auth process was not
sent come first (`LeftOver`). They are the last of alternating pairs, as
`SettingsAlternate` of `ServiceLinkGuarantees` says of that queue.

### LineEditor

One action per key, named for the comment at its `case`; `Enter` is the end of
`ReadLine` and the start of the next call. Positions are those of the code and
`Npos = -1` is `std::string::npos`, the greatest `size_t` where the code
compares (`Ordered`). Every key ends in the redraw of lines 440-468, which
orders the selection and may throw itself. `Throws` is an access outside the
line before that: `std::out_of_range` is not caught in the console thread, so
`fate` becomes `"threw"` and nothing follows. Reading past the end with
`operator[]` (the word keys) gives the terminating NUL and then whatever is in
memory: any characters (`Readable`). `OtherKey` is a key that is neither a
command nor typed. Left out: the ncurses output, and
`FilterKey` rewriting escape sequences typed as text. `stale` is a history
variable: a selection was begun at the edge of a line, where `selectionEnd` is
not set, or was still there when a line was entered, which resets the line and
not the selection. `line` is also read by `Log`'s redraw of the prompt, which
only affects what is shown.

### Log, AdvancedSettings, AdminConsole

| thread | code | actions |
|---|---|---|
| console | `ProcessLine` | `EnterLine`, `Stop`, `ProcessSetting`, `SettingRaces`, `ProcessSave`, `ProcessAnswers`, `ConsoleLoops`, `EnterAfterStop`; then `SaveSettings`, `Flush` |
| detached by `stop` | `Stop` | `StopPrints`, `StopClearsRunning`, `SaveSettings`, `StopDestroys`, `Flush` |
| the threads of `ServiceLink`, as one | callers of `Log::Print` and `GetSettings` | `ServicesPrint`, `Flush`, `ServicesGet`, `ServicesGot`, `ServicesLeave` |
| main | the joins and the return | `MainReturns`, `Start`, `StartThrows`; `Crash` |

`pc[t]` is where a thread is. `Print` and `Destroy` go on in
`SendLogsToDatabase`, and `ret[t]` says where it returns to. A flush is three
steps: the inserts (`FlushBegins`), the commit or the exception
(`FlushCommits`, `FlushThrows`), and `clear` (`FlushClears`); entries are
numbered in the order they were printed. `PrintRaces` is the data race of a
`push_back` during a `save`, `SettingRaces` that of a string assigned while
another thread copies it, in `SaveSettings` or in `GetSettings`: from there the
outcome is undefined (`fate`).

`SaveSettings` is four steps: it locks, truncates the file, prints "Settings
saved to" and, with the destructor of the `ofstream`, writes the file. Opening
or writing it may fail, which the code does not look at: nothing is saved, or
`text`, which is "whole" after a write that succeeds, is "part". The
twelve values are copied in one step (`SaveTruncates`): a value set meanwhile is
copied before or after, and a string set meanwhile is `SettingRaces`. `config`
maps the number of a setting to a word; the file maps keys to words, and the
port's two keys are told apart (`LoadKey`). A line is a sequence of pieces of
text with the space and the quote as pieces, split as `ProcessLine` does. The
commands that only answer are one action. `isShuttingDown`, and when the
services see it, belong to `ServiceLink`; here `ServicesLeave` follows
`isRunning`.

`told`, `saved`, `exposed` and `first` are history: what the administrator was
told a setting is, that at the time the file was composed, the entries printed
while a `save` was writing, and how many were printed before this run.

### IoContext, Pipeline, ClientHandler, NetworkClient, AuthClients

| thread | code | control variable | actions |
|---|---|---|---|
| auth, accepting | `AcceptConnections` | `acceptPc` | `AcceptPosts`, `AcceptReturns`, handlers |
| auth, receiving | `ReceiveData` | `rpc[r]` | `ReceiverRuns`, `ReceiverReturns`, handlers |
| handlers | the callbacks | `handling[r]` | `AcceptHandled`, `AcceptFails`, `HandshakeHandled`, `HandshakePushes`, `HandshakeReturns`, `ReadHandled`, `ReadFails` |
| processing, sending | `ProcessData`, `SendData` | `ppc`, `spc` | `ProcessStep`, `SendStep`, with `SendsToAll` or `SendsToServer` |
| game, main | `networkTemp`, `Start`, `Stop` | `mpc` | `StartConnects`, `ConnectHandled`, ..., `MainSends`, `MainStops`, `MainJoins`, `SecondRound` |
| game, receiving | `ReceiveData` | `rcv` | `ReceiveSpins` |

The context is external: `pending` are the operations started, `inRun` the
threads in `run`, `handling` the callbacks in progress. It stops when there is
no work, and nothing in either program calls `restart`, so what is started
afterwards is not recorded. A handler that waits for nothing is one step
(`Handle`); the handshake's waits for `clientSocketsMutex` and is three. A
receiving thread holds that mutex as long as it is in `run`. The queues'
mutexes are held for one access each, except `processBufferMutex`, which
`SendData` keeps while it empties `sendBuffer` (`HoldsProcessBuffer`). A
condition variable is the label `"asleep"`; a notification or a spurious wakeup
leads to `"woken"`, where the predicate is tested again.

The wire (`link`, `hello`, `keys`, `input`) is shared: `AuthClients` gives the
game's two connections and any other client the same four variables.

### GameServer

One action per step of the server's thread between two calls that block or
touch what clients or `stop` also touch: `LoopBegins`, `SelectReturns`,
`AcceptTakes`, `HandshakeEnds` or `HandshakeFails`, `ScanPicks`, `GetUID`,
`HandleMsg` or `ReadFails`, `WriteAnswers` or `WriteFails`. `HandleMsg` is the
whole of `handleMsg` with `registerUser` or `loginUser`. The clients connect,
greet (begin the handshake), send, stop taking answers ("deaf") and drop; a
request may arrive in two parts, and `SSL_read` is retried until the rest is
there. `StopGiven`, `StopShutsDown`, `StopClosesServer` and `StopExits` are the
detached thread of `stop`. `noDb` is the build, `Kinds[c]` the kinds of request
that client c makes.

Calls that fail: `accept` and what `SSL_accept` needs (`AcceptFails`), the
handshake, `select` (`SelectFails`), a read of what is not TLS (`ReadBreaks`).
The first three give up the pass (`pc = "skipped"`, then `Skips`). If a new
socket cannot be made non-blocking it is closed and stays in `UIDs`
(`.old/Server.cpp:220-226`): every later `select` fails (`pc = "broken"`).
`WriteGivesUp` is `continue` in a do-while (`.old/ClientHandler.cpp:85`), which
goes to a condition that reads `bytesSent` before it has a value: the answer may
be dropped.

`cleanupConnection` erases the element of `UIDs` that the range-for of
`handleClients` (`.old/Server.cpp:231`) stands on; `Cleanup` lets the loop go on
to the next element, past the last, or crash. `mapLocked` is `mapMutex`, which
only this thread ever takes, where a step ends with it taken; every action that
locks it waits for it to be free. A `std::mutex` is not recursive: a thread that
locks the one it holds waits for ever (with glibc; the standard leaves it
undefined). The tries are those of `Config::loginAttempts`, taken as a constant:
the legacy console's command that changes it while clients are connected is not
modelled.

## 3. Runs

| run | instance | checks |
|---|---|---|
| `link_reconnect` | 1 slot, two connections of auth, each sends one chunk, symmetry | `ErasesWhatWasSent`, `LiveOwnerDisplacedOnlyByRivals`, `OutboxSpec` |
| `link_services` | 2 slots, one connection of auth with two messages, one of service 0 | `TypeOK`, `NoUnlockOfUnowned`, `StaleSlotOnlyAfterRefusal`, `MisdeliveryOnlyToReusedDescriptor` |
| `link_stop` | 1 slot, one connection, `stop`, fairness | `NoLostWakeup`, `StopExitsUnlessCycle`, `StopClosesListener`, `LeavingReleasesSlot`, `RegisteredAuthIsServed` |
| `link_stop_hangs` | same | `StopExits`: violated |
| `link_refusal` | 1 slot, one connection with two messages | `AlreadyConnectedIsTrue`: violated |
| `client_link` | two sockets, one log line, fairness | `TypeOK`, `ConnectsNotEarly`, `OutboxSpec`, `QueueDrains`, `StartsOnceConfigured`, `StartsWrongOnlyWhenMerged` |
| `client_link_retry` | three sockets | `RetrySurvives`: violated |
| `line_editor` | a letter and a space, two commands, one history entry | `TypeOK`, `EditorSafe`, `CutThenPasteRestores`, `CompletionExtends` |
| `control` | two stop threads, two entries of the services, two lines out of seven, two starts, a buffer of two, fairness | `TypeOK`, `LostOnlyDuringSave`, `JournalSpec`, `SavedSettingsSurvive`, `StopFinishes`, `DoneMeansStored` |
| `clients` | two receiving threads, the game's two connections, one other client with one chunk on its way, fairness | `TypeOK`, `ServesAtMostOneClient`, `GameIsDeafAndMute`, `OneHandshakeOnly`, `WritesFindItStopped`, `StuckForEver`, `StopNeedsASpuriousWakeup`, `WhatIsReadIsTakenToSend` |
| `game_server` | both builds, three clients (one makes every request, one only sends `s`, one only connects and leaves), one name, one try, fairness | `TypeOK`, `TriesAreLimited`, `OnlyRegisteredAreServed`, `AnsweredUnlessHeld` |
| `game_login` | one client, one name, fairness | `SuccessfulLoginIsAnswered`: violated |

Bounds. `MAX_CONNECTIONS` is 4 in the code. What depends on it is the limit (one
slot reaches it with one connection) and whether a service is the last index
(two slots have one that is and one that is not); the proofs cover every value.
`Conns` is every connection ever opened: two are enough for a reconnect, for a
reused descriptor and for a message of an old connection overtaken by a new
one. `Traffic` bounds what a peer writes; two chunks are enough for the second
message that gets a connection refused. `StopGiven` turns the command off where
a run is about something else; `stop` is given at most once. Deadlock is not
checked: the system stops when the process ends, and its peers may go quiet.

`MaxSockets` bounds how often a service calls `socket()`. With two, a CONNECT
left over from a connection that ended meets the second connection; a failed
connect between the two takes a third (`client_link_retry`). The theorems hold
for any number. `MaxLogs` is the number of messages other than CONNECT.
`MaxLeftOver = 1` is a port left over from an earlier auth process, which comes
before the pair of the first CONNECT; the theorems hold for any number. In
`LineEditor`, `MaxLine` is the code's own limit on typing (`COLS` less the
prompt); two characters make a word, a word and a space, and a position strictly
inside a line, and Tab makes lines of up to four. `MaxPaste`, `MaxEntry` (the
longest line entered) and `MaxHistory` only keep the state finite. The letter
and the space are what the word keys and completion tell apart; the commands
`s` and `ss`, the first with a parameter `s`, give no match, one match, several
matches and an unknown first word.

In `control` the services print only while fewer than `MaxPrinted` entries are
printed; the threads of `stop` print in any case. The buffer's limit is 2, from
the file of the first start: it is reached by every second entry, and an entry
may be left over for `Destroy`. `MaxLines = 2` gives every pair of commands,
among them a `save` next to a `stop` and two `stop`s; each of the seven lines
reaches a branch of its own (a value with a space, the port, a value out of
range, the prompt). `MaxStarts = 2` is one restart. In `clients`, two receiving
threads are what it takes for one to hold `clientSocketsMutex` and another to
wait; the third client is there to come before, between or after the game's
connections. In `game_server` it takes three clients to see who may be passed
over: two can take turns to connect and to leave while the third waits, each
pass ended by the clean-up of the other. What the second and third may ask is
limited to keep the instance small (`MCKinds`): that one client registers a name
and another logs in with it is left to the proofs. With one try the limit is
passed by the second request. A client has one connection at a time, and may
connect again.

Fairness. Every thread of the control process is strongly fair as a whole
(`AcceptorStep`, `HandlerStep(c)`, `MessagesStep`, `SenderStep`): the scheduler
starves no thread, and `std::mutex` gives a waiting thread its turn since every
loop leaves its mutexes for 100 ms or a 1 s select between two uses. Nothing is
assumed of the peers (so `HandlerAdmits` and `HandlerRefuses`, which wait for
one to write, are not in `HandlerStep`), of the administrator, or of spurious
wakeups. In `ClientServiceLink` each thread of the service is weakly fair
(`MainStep`, `SenderStep`, `HandleMessage`, `AuthStarts`): once it can go on, it
stays so until it does. Nothing is assumed of the control process, or of whether
a connect succeeds: both liveness properties are about a connection that lasts.
`LineEditor` has no liveness: it waits for keys. In `control` each stop thread,
the console and the services are strongly fair, for the same reason as in
`ServiceLink`; nothing is assumed of the administrator, of when the services
print, or of crashes. In `clients` only the process thread and the send thread
are fair, and only in steps that wait for no mutex of another thread
(`ProcessThread`, `SendThread`): `ReceiveData` locks `clientSocketsMutex`, runs
and unlocks with no pause (lines 66-84), also on a context that has stopped, and
`std::mutex` promises the sender, which waits for it at line 133, no turn. So
`WhatIsReadIsTakenToSend` ends where that wait begins. In the runs of
`GameServer` the server's thread runs (`WF_vars(ServerStep)`), and what may go
wrong and need not (`ErrorStep`) is not made to; nothing is assumed of the
clients.

## 4. What the checks show

* `stop` can hang. The sender locks `sendBufferMutex` and then `socketMutex`;
  handling a CONNECT of auth locks them the other way round. `link_stop_hangs`
  shows the cycle, `DeadlockIsForEver` that it is never left;
  `StopExitsUnlessCycle` shows that nothing else (no lost wakeup, no full server,
  no stuck peer) keeps the process from ending.
* A connection can be refused because of itself. The check at line 80 is made
  for every message. `link_refusal` shows it; `StaleSlotOnlyAfterRefusal` shows
  that this is the only way a slot outlives its connection, `LeavingReleasesSlot`
  that in every other case it is released in the end.
* Auth's settings can reach another service only through a reused descriptor
  (`MisdeliveryOnlyToReusedDescriptor`).
* Two live connections of one service can both pass the test of line 80, and the
  second one registered takes the slot of the first, which is told nothing.
  `LiveOwnerDisplacedOnlyByRivals` says what the test is worth: a
  registered connection whose peer is there loses its slot only to a message of
  one that had passed the test before it was registered, never to a later one
  or to its own. This and the point before weaken what one would like to say to
  what the code does.
* A service can end while it waits to retry (`client_link_retry`): `sock` is set
  before `connect` and kept when it fails, so a message left over from an
  earlier connection is sent on a socket that was never connected.
* Auth can start with a connection string that has another message in it, after
  two messages came out of one read, and only then
  (`StartsWrongOnlyWhenMerged`). It starts whenever both settings
  reach a connection that lasts (`StartsOnceConfigured`), although a CONNECT may
  be sent later than the connection it was queued for (`ConnectsNotEarly`).
* Three keys can end the control process: Shift+Left on an empty line, Right,
  and a letter. `EditorSafe` shows that only a selection begun at the edge of a
  line, or one that outlived its line (`stale`), leads to an access outside the
  line.
* `save` loses log entries. `SendLogsToDatabase` is called there without
  `Log::mutex`, so what is printed between the inserts and `clear` is dropped,
  or worse (`PrintRaces`). `LostOnlyDuringSave` shows that this is the only way
  a running process loses an entry, `DoneMeansStored` that `stop` loses none
  otherwise, `JournalSpec` that none is stored twice or out of order whatever
  throws or crashes. `Journal` gives up what is pending at any time, as a crash
  does: it is not what shows that nothing is lost, and neither is `Mailbox`,
  which may lose any message.
* "Settings saved to" (`control/AdvancedSettingsManager.cpp:106`) is printed
  before the file is written. `main` does not join the thread that saves, so the
  process may end in between, and so may a crash: the file is then empty and the
  next start throws (`StartThrows`), as it does after a write that failed. A
  start that succeeds has the values that were composed last
  (`SavedSettingsSurvive`), but for the control port, saved under a key that is
  not looked for, and the prompt, reported and not set.
* Auth serves at most one client in its life (`ServesAtMostOneClient`): its
  `io_context` runs out of work and is never restarted. What it writes, it
  writes to a stopped context (`WritesFindItStopped`). A handshake handled while
  a receiving thread is in `run` waits for a mutex that this thread holds: from
  then on no client is served (`StuckForEver`).
* The game hears nothing and says nothing (`GameIsDeafAndMute`): its threads
  start once the context has stopped, and the sending thread waits for an
  answer first. Its second connection never begins a handshake
  (`OneHandshakeOnly`), and `Stop` joins a thread that only a spurious wakeup
  can wake (`StopNeedsASpuriousWakeup`). A connect to a service that does not
  answer leaves `main` in `run` with no time limit.
* The legacy game server answers every request unless it is down, held by a
  client that does not finish what it began, or giving up passes again and again
  (`AnsweredUnlessHeld`). `SSL_accept`, the retried `SSL_read` and the retried
  write hold everybody up. A refused connection costs the others the pass, and
  so may a clean-up, after which the loop can find itself past the last
  connection: two clients that come and go in turn can keep a third waiting for
  ever, which is why the property excuses passes given up without end.
* In the build with the database a login that succeeds hangs the server:
  `loginUser` calls `getUID` with `mapMutex` taken
  (`.old/ClientHandler.cpp:269`), so `l`, which `.old/notes.md:6-7` lists, is not
  sent (`game_login`). `notes.md` also has `f` for an unknown name where the code
  answers `w`, `e` for a name that exists where nothing makes names unique, and
  `E` for a request it does not recognise where a client that is not logged in
  gets `c`. A connection has one try more than `loginAttempts`. A failed
  handshake leaves its socket open.

## 5. Proofs

`ServiceLinkProofs` proves, for every number of slots, every finite set of
connections and any traffic (`ConstantsAssumption`):

* `TypeCorrect`: `Spec => []TypeOK`
* `SenderOwnsWhatItUnlocks`: `Spec => []NoUnlockOfUnowned`
* `EraseMatchesSend`: `Spec => []ErasesWhatWasSent`
* `WakeupsAreKept`: `Spec => []NoLostWakeup`
* `OutboxRefinement`: `Spec => OutboxSpec`

The inductive invariant is `IInv == TypeInv /\ SenderInv`. `TypeOK` alone is not
inductive: `activeConnections` stays in `Nat` only because it equals the number
of handlers between their increment and their decrement (`CountsHandlers`),
which in turn needs that a connection not yet accepted has no handler
(`HandledOnceAccepted`). `SenderInv` carries the argument about the sender's
mutex: only auth's queue is ever filled (`OnlyAuthHasQueue`), auth is the last
index, so once a message was picked the scan ends (`ScansLocked`), and until
the erase only appends reach the queue, so its front is still the copy
(`HoldsFront`). `NoLostWakeup` needs in addition that `connectionMutex` is held
exactly while the acceptor is between its test and its sleep
(`HoldsToSleep`). The refinement maps `pending` to the queues minus a front that
has been sent but not yet erased (`Unsent`).

`ServiceLinkSlotProofs` proves, from the same assumption:

* `SlotsReleased`: `Spec => []StaleSlotOnlyAfterRefusal`
* `LiveOwner`: `Spec => LiveOwnerDisplacedOnlyByRivals`
* `Misdelivery`: `Spec => []MisdeliveryOnlyToReusedDescriptor`

It adds to `IInv` two more invariants. `SlotInv`: every message received is of
a connection that has spoken, a DISCONNECT of one that its peer has closed
(`MessagesGenuine`), and behind each CONNECT of a connection that has left
unrefused comes its DISCONNECT (`DisconnectFollows`), so a slot it holds, or is
about to get, will be released (`SlotsAwaited`). `DescriptorInv`: a registered
descriptor, or the sender's copy of one,
was given to a connection of that service (`SlotsGiven`, `CopyGiven`), and no
two open connections have the same (`OpenDistinct`); so where the sender
reaches another service's connection, the one the descriptor was for is closed.
`LiveOwner` adds `OwnedInv`, a slot has a descriptor exactly while it has an
owner, and `RivalsInv`: all connections of a service let in so far, while its
slot is taken, had been let in before it was taken. Nothing is assumed of how
many connections of a service are open.

`ServiceLinkGuarantees` proves, from the same assumption, what no run has as a
property: consequences of the invariants that say what a service, or an
administrator, may count on.

* `DeadlockIsAuths`: `Spec => []OnlyAuthDeadlocks`. The lock cycle is met only
  while auth is registered.
* `DeadlockFreezes`: `Spec => CycleFreezes`, and `DeadlockIsForEver`:
  `Spec => []CycleIsForEver`. In the cycle neither thread moves again, nothing
  is registered or sent, and the process does not end: why `StopExits` fails,
  for every instance.
* `SettingsInOrder`: `Spec => []SettingsAlternate`. However many registrations
  overlap, auth's queue is alternately a connection string and a port.

`LockInv` is where `socketMutex` is held, exactly (while auth's two settings are
queued), and that a process that has ended did not end in the middle of a scan,
which is needed for the cycle to be one of a running process. For
`SettingsInOrder` the invariant follows a registration from one setting to the
next: the last queued is a port, but between the two.

`ClientServiceLinkProofs` proves, for any number of sockets and log lines
(`BoundsAssumption`):

* `TypeCorrect`: `Spec => []TypeOK`
* `OneConnection`: `Spec => []OneConnectionAtATime`
* `OutboxRefinement`: `Spec => OutboxSpec`
* `NotEarly`: `Spec => []ConnectsNotEarly`
* `MergedOnly`: `Spec => StartsWrongOnlyWhenMerged`
* `KilledAfterClose`: `Spec => []KilledOnlyAfterAClose`

`MergedOnly` names the one way to a wrong start, and `KilledAfterClose` the one
way to what `client_link_retry` finds. `IInv` is `TypeOK` with three parts. `OnlySockConnected`: a connected
descriptor is `sock`'s, and there is none before `connect` returned, which is
what makes `OneConnectionAtATime` inductive. `SocketPerConnection`: there are
never more connections than sockets, so connections stay in range.
`HoldsFront`: from the pick to the erase the front of the queue is the sender's
copy, since every other thread only appends. `NotEarly` adds `CountInv`: the
CONNECTs sent, queued and about to be queued are never more than the
connections made (`OnePerConnection`), and what is sent goes to the latest
connection (`ConnectedIsLatest`), so the counts of the earlier ones are final.
`MergedOnly` needs that while nothing was merged every chunk auth has read, and
not handled, is one setting, and the connection string it has is whole
(`Unmerged`). `KilledAfterClose` needs `KillInv`: before the first connect
returns there is nothing to send, and until a connection has been closed the
first is the only one and the sender's descriptor is its own.

`LineEditorProofs` proves, for every alphabet, command table and length
(`EditorAssumption`):

* `TypeCorrect`: `Spec => []TypeOK`, which includes that `currentCommand` is an
  entry of the history
* `SafeUnlessStale`: `Spec => []EditorSafe`
* `CutAndPaste`: `Spec => CutThenPasteRestores`
* `Completion`: `Spec => CompletionExtends`

Its `IInv` is `TypeOK /\ SelectionInv`: while `stale` is FALSE the cursor is in
the line, a selection has both ends set and in the line, and the ordered pair
is the selection in order; with that, no guard of `Throws` holds. `CutAndPaste`
needs only that the ordered pair is in order, stale or not (`OrderedInv`), and
a fact about strings (`InsertErased`).

`AdminConsoleProofs` proves, for any number of stop threads, any lines, limits
and starts (`ConsoleAssumption`, and `FirstFileAssumption`: the process can
start with the file it finds first):

* `TypeCorrect`: `Spec => []TypeOK`
* `LossBounded`: `Spec => []LostOnlyDuringSave`
* `SavedSurvive`: `Spec => SavedSettingsSurvive`
* `DoneStored`: `Spec => DoneMeansStored`
* `Refines`: `Spec => JournalSpec`
* `NoCircularWait`: `Spec => []NoLockCycle`
* `TruncatedOnlyMidSave`: `Spec => []TruncatedOnlySaving`
* `ExposedBySave`: `Spec => OnlySaveExposes`

Its `IInv` is `TypeOK /\ LogInv /\ SettingsInv`. `MutexInv`: a thread is
between the inserts and `clear` exactly while it has `dbMutex`, and one that
flushes has `mutex` unless it is the console; so a print, which needs `mutex`,
meets no flush but the console's. `PrefixInv`: what was inserted is a prefix of
the buffer, the rest was printed since; with it the refinement maps `pending` to
that rest (`Unwritten`). `EntriesInv`: what the buffer has and the transaction
has not is in `exposed`, so `clear` drops nothing else. `SettingsInv` follows a
value from `told` to `config`, to what was composed, to the file and back; that
the limit of the buffer reads as an int is a part of it, without which `TypeOK`
is not inductive. The steps are first sorted by what they do to the log
(`Steps`), and each sort keeps `LogInv`.

The last three rest on `LocksInv`: where each of the three mutexes is held,
exactly, also by the threads of a process that has ended. From it follows the
order in which they are taken (the settings' before `Log::mutex` before
`dbMutex`), so that unlike in `ServiceLink` no circle of threads can wait for
each other; that the file is truncated and not yet written only while one thread
is between the two, or because the process ended there; and that entries can be
lost only to the command `save`, never to a flush of a full buffer or of a stop.

`AuthClientsProofs` proves, for any clients, receiving threads and chunks on
their way (`ThreadsAssumption`, `ClientsAssumption`):

* `TypeCorrect`: `Spec => []TypeOK`
* `ServesOne`: `Spec => []ServesAtMostOneClient`
* `WritesStopped`: `Spec => WritesFindItStopped`
* `StuckStays`: `Spec => StuckForEver`
* `DeafAndMute`: `Spec => []GameIsDeafAndMute`
* `OneHandshake`: `Spec => []OneHandshakeOnly`
* `NeedsWakeup`: `Spec => StopNeedsASpuriousWakeup`
* `BackToSender`: `Spec => WritesOnlyBack`
* `DeadOnceStopped`: `Spec => StoppedServesNobody`
* `NobodySleepsOnWork`: `Spec => []NoLostWakeup`

Its `IInv` is `TypeOK /\ ServerInv /\ GameInv`. `KnownInv`: all traces of a
client in the service (a pending or running handshake, keys, a place in
`clientSockets`) are of the same client, and there are none while an accept may
still be handled; the accept is posted once. `HolderInv`: a receiving thread is
in `run` exactly while it has `clientSocketsMutex`, and a stopped context
executes no handler. `ReadInv` counts the chunks in the three queues, in the
hands of the two threads and written (`Chunks`): at most one, and none while a
read may still be handled, since reads are posted only by a thread that enters
`run`, and the read it handles was the last. So when the sending thread has a
chunk and the mutex, nobody is in `run`, hence the context has stopped.
`GameInv` says how far the game has come: its threads exist only once its
context has stopped, and a greeting on a context that has not is the first
round's.

`CarriedInv` says that what the three queues and the two threads carry is of a
client in `clientSockets`; as there is one such client, a chunk can only be
written back to where it came from. `DeadOnceStopped` makes explicit what the
stopped context costs: from then on nobody is accepted, agrees on keys or is
read from, and one failed accept is enough for it. `NobodySleepsOnWork` shows
that the pipeline itself is sound: no thread sleeps while its queue has
something in it.

`GameServerProofs` proves, for any clients, names and number of tries
(`LoginAttemptsAssumption`):

* `TypeCorrect`: `Spec => []TypeOK`
* `Tried`: `Spec => []TriesAreLimited`
* `Served`: `Spec => []OnlyRegisteredAreServed`
* `HungByLogin`: `Spec => []LoginsHang`
* `TriesOnlyFall`: `Spec => NoTryIsGivenBack`

Its `IInv` adds `OnePlaceEach` (a connection is in the backlog, open, or being
accepted, and the one being served is not waiting to be served again, so the
element that is cleaned up is there) and `PositiveIsRegistered` (a positive UID
is that of a client in the users' table), without which `TriesAreLimited` and
`OnlyRegisteredAreServed` are not inductive. `HungByLogin` follows `mapMutex`
through every place that locks it: between two steps it is taken only after the
right login of a registered client in the build with the database, and after
each of these; its invariant says in addition that an answer is prepared only
while it is being written, or while the server hangs (`AnswerPending`).
`TriesOnlyFall`: tries are never given back while a connection is open, but for
a success.

Every safety property the passing runs check is proved. The theorems whose
properties are in no run (those of `ServiceLinkGuarantees`, and some of the
other lists) state their properties in the proof modules; TLC found no
counterexample to them on the instances of section 3 before they were proved.

Model-checked only: the liveness properties (`StopExitsUnlessCycle`,
`StopClosesListener`, `LeavingReleasesSlot`, `RegisteredAuthIsServed`,
`QueueDrains`, `StartsOnceConfigured`, `StopFinishes`, `WhatIsReadIsTakenToSend`,
`AnsweredUnlessHeld`), which are out of the prover's reach, like the two that the
code violates, `StopExits` and `SuccessfulLoginIsAnswered`.

## 6. Plan

1. (done) `ServiceLink`, `Mailbox`, their runs and proofs.
2. (done) `ClientServiceLink` with auth's start-up, its runs and proofs.
3. (done) `LineEditor`, its runs and proofs.
4. (done) `Log`, `AdvancedSettings`, `AdminConsole`, `Journal`, their run and
   proofs.
5. (done) `IoContext`, `Pipeline`, `ClientHandler`, `NetworkClient` and their
   composition `AuthClients`, its run and proofs.
6. (done) `GameServer`, its run and proofs.
7. (done) Theorems beyond the runs' properties: `ServiceLinkGuarantees`, the lock
   order of `AdminConsole`, and the ways into each violation.
8. Left: `ServiceLink` and `AdminConsole` composed, once an instance of both is
   small enough.

## 7. Not modelled, and why

Text (message formatting, parsing of ids, log wording, ncurses output); the
Windows branches; in the services, failures of `socket`, `bind`, `listen` and
`accept`, which end the process; a `config.json` that is there and cannot be
opened; `SetSettings`, which has no caller; `services/SettingsManager`,
which loads three values before any thread starts; `Auth`, whose operations are
stubs; `voice`, `chat` and `world`, which only start the link; the client's
settings, read once; the engine and renderer, which are set-up calls of Vulkan
and GLFW; the installer; of `.old`, the console's editing, `Config`, `Log`,
which are earlier versions of what is modelled from the code that is built, and
the thread pool, which nothing uses.
