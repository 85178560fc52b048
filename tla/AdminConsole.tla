---------------------------- MODULE AdminConsole ----------------------------
(***************************************************************************)
(* The life of the control process: the console thread's commands          *)
(* (ProcessLine of src/server/control/AdminConsole.cpp), the thread that   *)
(* Stop detaches, the threads of ServiceLink that print, and main, which   *)
(* joins all but the detached one and returns.  The process may crash at   *)
(* any step, and is started again with the file and the table it left.     *)
(***************************************************************************)
EXTENDS Log, AdvancedSettings, SequencesExt

CONSTANTS
  Stoppers,   (* bound: the threads "stop" can start in one run            *)
  Lines,      (* the lines the administrator may enter: pieces of text,    *)
              (* with the separators " " and "'" as pieces of their own    *)
  Numbers,    (* the pieces that read as a double                          *)
  FirstFile,  (* the keys of config.json before the first start            *)
  MaxPrinted, (* bound: the services print only while fewer are printed    *)
  MaxLines,   (* bound: how many lines are entered                         *)
  MaxStarts   (* bound: how often the process is started                   *)

ASSUME ConsoleAssumption ==
  /\ Threads = {"console", "services"} \cup Stoppers
  /\ "nobody" \notin Threads
  /\ {"console", "services"} \cap Stoppers = {}

\* The process can start with the file it finds first: the limit of the log's
\* buffer reads as an int.
ASSUME FirstFileAssumption ==
  /\ IntOf \in [DOMAIN IntOf -> Int]
  /\ TryPassInt(LoadSettings(FirstFile)[MaxLogBufferSize])

VARIABLES
  isRunning,
  args,      (* the console's line in words *)
  entered,   (* bound: lines entered so far      *)
  starts,    (* bound: starts so far             *)
  first,     (* history: entries printed before this run                   *)
  told,      (* history: told[i], what the admin was last told setting i is *)
  saved      (* history: told, when the last root written was composed      *)

consoleVars == <<isRunning, args, entered>>
historyVars == <<starts, first, told, saved>>
vars == <<fate, pc, logVars, settingsVars, consoleVars, historyVars>>

FirstRun == [t \in Threads |->
  IF t = "console" THEN "reading" ELSE IF t = "services" THEN "idle" ELSE "unborn"]

Init ==
  /\ fate = "up"
  /\ file = FirstFile /\ text = "whole" /\ root = FirstFile
  /\ pc = FirstRun /\ ret = [t \in Threads |-> "none"]
  /\ mutex = Nobody /\ dbMutex = Nobody /\ settingsMutex = Nobody
  /\ logsBuffer = <<>> /\ inserting = [t \in Threads |-> <<>>]
  /\ config = LoadSettings(FirstFile)
  /\ maxLogBufferSize = IntOf[config[MaxLogBufferSize][1]]
  /\ isRunning = TRUE /\ args = <<>> /\ entered = 0
  /\ logs = <<>> /\ printed = 0 /\ exposed = {}
  /\ starts = 1 /\ first = 0
  /\ told = config /\ saved = config
------------------------------------------------------------------------------
(***************************************************************************)
(* The file.                                                               *)
(***************************************************************************)

SaveBegins(t) ==
  /\ At(t, "save settings") /\ settingsMutex = Nobody
  /\ settingsMutex' = t
  /\ Goto(t, "compose")
  /\ UNCHANGED <<fate, logVars, config, root, fileVars, consoleVars, historyVars>>

\* The ofstream truncates the file, unless it cannot be opened, which nobody
\* looks at; what is written to it stays in its buffer, which the twelve
\* values do not fill.
SaveTruncates(t) ==
  /\ At(t, "compose")
  /\ \/ /\ root' = config
        /\ saved' = told
        /\ file' = <<>> /\ text' = "none"
     \/ UNCHANGED <<root, saved, fileVars>>
  /\ Goto(t, "announce")
  /\ UNCHANGED <<fate, logVars, config, settingsMutex, consoleVars,
                 starts, first, told>>

\* "Settings saved to" is printed here, before the file is closed.
SaveAnnounces(t) ==
  /\ At(t, "announce")
  /\ LogPrint(t, "close")
  /\ UNCHANGED <<settingsVars, consoleVars, historyVars>>

SavesLogs == Len(args) = 1 \/ args[2] \in {<<"all">>, <<"logs">>}

SavesSettings == Len(args) = 1 \/ args[2] \in {<<"all">>, <<"setting">>}

\* The destructor of an ofstream that was opened writes the file; whether
\* that succeeds nobody looks at either.
FileClosed ==
  IF text = "none"
  THEN /\ text' \in {"whole", "part"}
       /\ file' = IF text' = "whole" THEN root ELSE file
  ELSE UNCHANGED fileVars

\* Mutant: the mutex is not released.
SaveClosesHolding(t) ==
  /\ At(t, "close")
  /\ FileClosed
  /\ IF t = "console"
     THEN /\ Goto(t, IF SavesLogs THEN "flush" ELSE "loop")
          /\ ret' = [ret EXCEPT ![t] = "loop"]
     ELSE Goto(t, "destroy") /\ UNCHANGED ret
  /\ UNCHANGED <<fate, mutex, bufferVars, dbMutex, inserting, logs, printed,
                 exposed, config, settingsMutex, root, consoleVars, historyVars>>

\* The ofstream is destroyed, then the mutex is released.
SaveCloses(t) ==
  /\ At(t, "close")
  /\ FileClosed
  /\ settingsMutex' = Nobody
  /\ IF t = "console"
     THEN /\ Goto(t, IF SavesLogs THEN "flush" ELSE "loop")
          /\ ret' = [ret EXCEPT ![t] = "loop"]
     ELSE Goto(t, "destroy") /\ UNCHANGED ret
  /\ UNCHANGED <<fate, mutex, bufferVars, dbMutex, inserting, logs, printed,
                 exposed, config, root, consoleVars, historyVars>>

SaveSettings(t) ==
  SaveBegins(t) \/ SaveTruncates(t) \/ SaveAnnounces(t) \/ SaveCloses(t)
------------------------------------------------------------------------------
(***************************************************************************)
(* The console thread.                                                     *)
(***************************************************************************)
OnlyConsole == UNCHANGED <<logVars, settingsVars, historyVars>>

\* ProcessLine's split of a line into words: quotes keep spaces.
Split(line) ==
  LET End(s) == IF s.word = <<>> THEN s.words ELSE Append(s.words, s.word)
      Piece(s, p) ==
        IF p = "'" THEN [s EXCEPT !.quoted = ~@]
        ELSE IF p = " " /\ ~s.quoted THEN [s EXCEPT !.words = End(s), !.word = <<>>]
        ELSE [s EXCEPT !.word = Append(@, p)]
  IN  End(FoldLeft(Piece, [words |-> <<>>, word |-> <<>>, quoted |-> FALSE], line))

EnterLine ==
  /\ At("console", "reading") /\ isRunning
  /\ entered < MaxLines
  /\ entered' = entered + 1
  /\ \E line \in Lines :
       /\ Split(line) # <<>>
       /\ args' = Split(line)
  /\ Goto("console", "process")
  /\ OnlyConsole /\ UNCHANGED <<fate, isRunning>>

\* Whatever is entered after isRunning was cleared is not looked at.
EnterAfterStop ==
  /\ At("console", "reading") /\ ~isRunning
  /\ Goto("console", "left")
  /\ OnlyConsole /\ UNCHANGED <<fate, consoleVars>>

ConsoleLoops ==
  /\ At("console", "loop")
  /\ args' = <<>>
  /\ Goto("console", IF isRunning THEN "reading" ELSE "left")
  /\ OnlyConsole /\ UNCHANGED <<fate, isRunning, entered>>

IsStop == args[1] = <<"stop">> /\ Len(args) = 2 /\ Len(args[2]) = 1 /\ args[2][1] \in Numbers

\* The names of the settings in secParam[1], one of them misspelt.
Names == <<"controlserviceip", "controlderviceport", "loglevel",
  "maxlogbuffersize", "dbname", "dbuser", "dbpassword", "dbhostaddr", "dbport",
  "commandprompt", "commandwindowheight", "authserviceport">>

Sets(i) ==
  /\ args[1] = <<"setting">> /\ Len(args) = 3
  /\ args[2] = <<Names[i + 1]>>
  /\ Accepts(i, args[3])

IsSave ==
  /\ args[1] = <<"save">>
  /\ \/ Len(args) = 1
     \/ (Len(args) = 2 /\ args[2] \in {<<"all">>, <<"setting">>, <<"logs">>})

\* The shutdown flag and NotifyConnection are in ServiceLink.
Stop ==
  /\ At("console", "process") /\ IsStop
  /\ \E t \in Stoppers :
       /\ pc[t] = "unborn"
       /\ pc' = [pc EXCEPT ![t] = "sleep", !["console"] = "loop"]
  /\ OnlyConsole /\ UNCHANGED <<fate, consoleVars>>

ProcessSetting ==
  /\ At("console", "process")
  /\ \E i \in Settings :
       /\ Sets(i)
       /\ SetSetting(i, args[3])
       /\ told' = [told EXCEPT ![i] = args[3]]
  /\ Goto("console", "loop")
  /\ UNCHANGED <<fate, logVars, settingsMutex, root, fileVars, consoleVars,
                 starts, first, saved>>

\* The threads that copy the settings, in SaveSettings or GetSettings.
Copying == {t \in Threads : pc[t] \in {"compose", "copy"}}

\* SetSetting takes no mutex: a string assigned while another thread copies it.
SettingRaces ==
  /\ At("console", "process")
  /\ Copying # {}
  /\ \E i \in StringSettings : Sets(i)
  /\ fate' = "undefined"
  /\ OnlyConsole /\ UNCHANGED <<pc, consoleVars>>

ProcessSave ==
  /\ At("console", "process") /\ IsSave
  /\ Goto("console", IF SavesSettings THEN "save settings" ELSE "flush")
  /\ ret' = [ret EXCEPT !["console"] = "loop"]
  /\ UNCHANGED <<fate, mutex, bufferVars, dbMutex, inserting, logs, printed,
                 exposed, settingsVars, consoleVars, historyVars>>

\* Everything else, a question for a value included, only gets an answer.
ProcessAnswers ==
  /\ At("console", "process")
  /\ ~IsStop /\ ~IsSave /\ \A i \in Settings : ~Sets(i)
  /\ Goto("console", "loop")
  /\ OnlyConsole /\ UNCHANGED <<fate, consoleVars>>

ProcessLine ==
  Stop \/ ProcessSetting \/ SettingRaces \/ ProcessSave \/ ProcessAnswers
------------------------------------------------------------------------------
(***************************************************************************)
(* The thread detached by Stop, the threads of ServiceLink, and main.      *)
(***************************************************************************)
StopPrints(t) ==
  /\ At(t, "sleep")
  /\ LogPrint(t, "stop running")
  /\ UNCHANGED <<settingsVars, consoleVars, historyVars>>

StopClearsRunning(t) ==
  /\ At(t, "stop running")
  /\ isRunning' = FALSE
  /\ Goto(t, "save settings")
  /\ UNCHANGED <<fate, logVars, settingsVars, args, entered, historyVars>>

StopDestroys(t) ==
  /\ Destroy(t, "done")
  /\ UNCHANGED <<settingsVars, consoleVars, historyVars>>

ServicesPrint ==
  /\ At("services", "idle")
  /\ printed < MaxPrinted
  /\ LogPrint("services", "idle")
  /\ UNCHANGED <<settingsVars, consoleVars, historyVars>>

\* GetSettings, for every message and when the listener is set up.
ServicesGet ==
  /\ At("services", "idle") /\ settingsMutex = Nobody
  /\ settingsMutex' = "services"
  /\ Goto("services", "copy")
  /\ UNCHANGED <<fate, logVars, config, root, fileVars, consoleVars, historyVars>>

ServicesGot ==
  /\ At("services", "copy")
  /\ settingsMutex' = Nobody
  /\ Goto("services", "idle")
  /\ UNCHANGED <<fate, logVars, config, root, fileVars, consoleVars, historyVars>>

ServicesLeave ==
  /\ At("services", "idle") /\ ~isRunning
  /\ Goto("services", "gone")
  /\ UNCHANGED <<fate, logVars, settingsVars, consoleVars, historyVars>>

\* main joins the threads it started and returns; the detached one goes
\* down with the process wherever it is.
MainReturns ==
  /\ fate = "up" /\ pc["console"] = "left" /\ pc["services"] = "gone"
  /\ fate' = "exited"
  /\ UNCHANGED <<pc, logVars, settingsVars, consoleVars, historyVars>>
------------------------------------------------------------------------------
(***************************************************************************)
(* Crash and start.                                                        *)
(***************************************************************************)
Crash ==
  /\ fate = "up"
  /\ fate' = "crashed"
  /\ UNCHANGED <<pc, logVars, settingsVars, consoleVars, historyVars>>

CanStart == fate \notin {"up", "unreadable"} /\ starts < MaxStarts

Start ==
  /\ CanStart /\ text = "whole"
  /\ fate' = "up"
  /\ pc' = FirstRun /\ ret' = [t \in Threads |-> "none"]
  /\ mutex' = Nobody /\ dbMutex' = Nobody /\ settingsMutex' = Nobody
  /\ logsBuffer' = <<>> /\ inserting' = [t \in Threads |-> <<>>]
  /\ config' = LoadSettings(file)
  /\ maxLogBufferSize' = IntOf[config'[MaxLogBufferSize][1]]
  /\ isRunning' = TRUE /\ args' = <<>>
  /\ UNCHANGED <<entered, fileVars, root, logs, printed, exposed, saved>>
  /\ starts' = starts + 1 /\ first' = printed
  /\ told' = config'

\* `configFile >> root' throws on an empty or broken file, and nothing
\* catches it.
StartThrows ==
  /\ CanStart /\ text # "whole"
  /\ fate' = "unreadable"
  /\ UNCHANGED <<pc, logVars, settingsVars, consoleVars, historyVars>>
------------------------------------------------------------------------------
FlushStep(t) ==
  Flush(t) /\ UNCHANGED <<settingsVars, consoleVars, historyVars>>

\* What a thread does without waiting for the administrator or for a reason
\* to print.
ThreadStep(t) == SaveSettings(t) \/ FlushStep(t)

StopperStep(t) ==
  ThreadStep(t) \/ StopPrints(t) \/ StopClearsRunning(t) \/ StopDestroys(t)

ConsoleStep == ThreadStep("console") \/ ConsoleLoops \/ ProcessLine

ServicesStep == FlushStep("services") \/ ServicesGot \/ ServicesLeave

Next ==
  \/ \E t \in Stoppers : StopperStep(t)
  \/ ConsoleStep \/ EnterLine \/ EnterAfterStop
  \/ ServicesStep \/ ServicesGet \/ ServicesPrint
  \/ MainReturns
  \/ Crash \/ Start \/ StartThrows

Spec == Init /\ [][Next]_vars

(***************************************************************************)
(* No thread is starved, not even of a mutex that others take again and    *)
(* again.  Nothing is assumed of the administrator, of when the services   *)
(* look at the settings or print, or of crashes.                           *)
(***************************************************************************)
FairSpec ==
  /\ Spec
  /\ \A t \in Stoppers : SF_vars(StopperStep(t))
  /\ SF_vars(ConsoleStep) /\ SF_vars(ServicesStep)
------------------------------------------------------------------------------
Labels == {"reading", "process", "loop", "left", "idle", "copy", "gone", "unborn",
  "sleep", "stop running", "destroy", "done", "save settings", "compose",
  "announce", "close", "flush", "commit", "clear"}

Owners == Threads \cup {Nobody}

Types ==
  /\ fate \in {"up", "exited", "terminated", "undefined", "crashed", "unreadable"}
  /\ pc \in [Threads -> Labels]
  /\ ret \in [Threads -> Labels \cup {"none"}]
  /\ mutex \in Owners /\ dbMutex \in Owners /\ settingsMutex \in Owners
  /\ inserting \in [Threads -> Seq(Nat)] /\ logsBuffer \in Seq(Nat)
  /\ maxLogBufferSize \in Int
  /\ logs \in Seq(Nat) /\ printed \in Nat /\ exposed \in SUBSET Nat
  /\ DOMAIN config = Settings /\ text \in {"whole", "none", "part"}
  /\ isRunning \in BOOLEAN /\ entered \in Nat
  /\ starts \in Nat /\ first \in Nat

\* With the types: who inserts or clears holds dbMutex, so one thread only.
TypeOK ==
  /\ Types
  /\ \A t \in Writing : dbMutex = t
------------------------------------------------------------------------------
(* Of what this run of the process printed, an entry that is neither in the *)
(* buffer nor in the table was printed while a "save" was writing: Print    *)
(* and Destroy flush under the mutex that printing takes, "save" does not.  *)
LostOnlyDuringSave ==
  fate = "up" =>
    first + 1 .. printed \subseteq
      EntriesFrom(logsBuffer) \cup EntriesFrom(logs) \cup exposed

Unwritten ==
  IF fate # "up" THEN <<>>
  ELSE LET written == {t \in Threads : pc[t] = "clear"}
       IN  IF written = {} THEN logsBuffer
           ELSE LET t == CHOOSE t \in written : TRUE
                IN  SubSeq(logsBuffer, Len(inserting[t]) + 1, Len(logsBuffer))

Written == INSTANCE Journal WITH
  accepted <- printed, pending <- Unwritten, stored <- logs

(* Whatever flushes meet, whatever throws and wherever the process ends, no *)
(* entry gets into the table twice or before one that was printed earlier.  *)
JournalSpec == Written!JSpec

(* A process that starts has the values the administrator had been told of *)
(* when the text of the file was composed, except for the control port,     *)
(* which is looked for under another key than it is saved under, and the    *)
(* prompt, which "setting" reports and does not set.                        *)
SavedSettingsSurvive ==
  [][Start => \A i \in Settings \ {ControlServicePort, CommandPrompt} :
                 config'[i] = saved[i]]_vars

(* Once "stop" is given, its thread gets through the two mutexes to the end *)
(* of Destroy, or the process ends before.                                  *)
StopFinishes ==
  \A t \in Stoppers : pc[t] = "sleep" ~> pc[t] = "done" \/ fate # "up"

(* What a running process printed before the thread of a "stop" is done has *)
(* been stored by then, unless a "save" was writing at the time.            *)
DoneMeansStored ==
  [][\A t \in Stoppers :
       pc[t] # "done" /\ pc'[t] = "done" =>
         first + 1 .. printed \subseteq EntriesFrom(logs') \cup exposed]_vars
==============================================================================
