------------------------- MODULE AdminConsoleProofs -------------------------
(***************************************************************************)
(* Theorems about the control process's log and settings for any number of *)
(* "stop"s, any lines, limits and numbers of starts.                       *)
(***************************************************************************)
EXTENDS AdminConsole, SequenceTheorems, TLAPS

Flushing == {"flush", "commit", "clear"}

(* The places SendLogsToDatabase returns to.                                *)
Returns == {"loop", "idle", "close", "stop running", "done"}

(* dbMutex is held between the first insert and the end of clear(), and a   *)
(* thread that flushes holds mutex, unless it is the console, whose "save"  *)
(* does not take it.                                                        *)
MutexInv ==
  /\ \A t \in Threads : pc[t] \in {"commit", "clear"} <=> dbMutex = t
  /\ \A t \in Threads : pc[t] \in Flushing =>
       ret[t] \in Returns /\ (t # "console" => mutex = t)

(* What a thread has inserted is a prefix of the buffer; the rest was       *)
(* printed meanwhile.                                                       *)
PrefixInv ==
  \A t \in Threads : pc[t] \in {"commit", "clear"} =>
    /\ Len(inserting[t]) <= Len(logsBuffer)
    /\ inserting[t] = SubSeq(logsBuffer, 1, Len(inserting[t]))

(* Every entry of this run is somewhere, or was printed during a "save".    *)
EntriesInv ==
  /\ \A t \in Threads : pc[t] \in {"commit", "clear"} =>
       EntriesFrom(logsBuffer) \subseteq EntriesFrom(inserting[t]) \cup exposed
  /\ \A t \in Threads : pc[t] = "clear" =>
       EntriesFrom(inserting[t]) \subseteq EntriesFrom(logs)
  /\ first + 1 .. printed \subseteq
       EntriesFrom(logsBuffer) \cup EntriesFrom(logs) \cup exposed

LogInv == fate = "up" => MutexInv /\ PrefixInv /\ EntriesInv

(* What was told is what is set, what root holds is what was told when it   *)
(* was composed, and the file, when it is whole, holds root.  The limit     *)
(* of the log's buffer is always text that reads as an int.                 *)
SettingsInv ==
  /\ DOMAIN told = Settings
  /\ \A i \in Settings \ {CommandPrompt} : told[i] = config[i]
  /\ \A i \in Settings \ {ControlServicePort, CommandPrompt} :
       LoadSettings(root)[i] = saved[i]
  /\ TryPassInt(config[MaxLogBufferSize])
  /\ TryPassInt(LoadSettings(root)[MaxLogBufferSize])
  /\ text = "whole" => file = root

IInv == Types /\ LogInv /\ SettingsInv

logState == <<mutex, bufferVars, dbMutex, inserting, logs, printed, exposed>>

(* A step that neither prints nor flushes; "save" only gets to the flush.   *)
Quiet ==
  /\ UNCHANGED <<fate, first, logState>>
  /\ \A t \in Threads :
       /\ pc[t] \in {"commit", "clear"} <=> pc'[t] \in {"commit", "clear"}
       /\ pc[t] = "clear" <=> pc'[t] = "clear"
       /\ pc'[t] \in Flushing =>
            \/ pc[t] \in Flushing /\ ret'[t] = ret[t]
            \/ t = "console" /\ ret'[t] \in Returns
       /\ t \in Stoppers /\ pc'[t] = "done" => pc[t] = "done"

(* A step with which the process ends, or fails to start.                   *)
Ends ==
  /\ fate' # "up"
  /\ UNCHANGED <<pc, logState, first>>

Prints(t) ==
  /\ pc[t] \notin Flushing
  /\ \E next \in {"close", "stop running", "idle"} : PrintAppends(t, next)
  /\ UNCHANGED first
------------------------------------------------------------------------------
(***************************************************************************)
(* Entries of sequences.                                                   *)
(***************************************************************************)
LEMMA EntriesOfAppend ==
  ASSUME NEW s \in Seq(Nat), NEW x \in Nat
  PROVE  EntriesFrom(Append(s, x)) = EntriesFrom(s) \cup {x}
<1>1. /\ Len(Append(s, x)) = Len(s) + 1 /\ Len(s) \in Nat
      /\ \A i \in 1 .. Len(s) : Append(s, x)[i] = s[i]
      /\ Append(s, x)[Len(s) + 1] = x
  BY AppendProperties, LenProperties
<1>. QED
  BY <1>1 DEF EntriesFrom

LEMMA EntriesOfConcat ==
  ASSUME NEW s \in Seq(Nat), NEW u \in Seq(Nat)
  PROVE  EntriesFrom(s \o u) = EntriesFrom(s) \cup EntriesFrom(u)
<1>1. /\ Len(s \o u) = Len(s) + Len(u) /\ Len(s) \in Nat /\ Len(u) \in Nat
      /\ \A i \in 1 .. Len(s) + Len(u) :
           (s \o u)[i] = IF i <= Len(s) THEN s[i] ELSE u[i - Len(s)]
  BY ConcatProperties, LenProperties
<1>2. ASSUME NEW j \in 1 .. Len(u)
      PROVE  j + Len(s) \in 1 .. Len(s) + Len(u) /\ (s \o u)[j + Len(s)] = u[j]
  BY <1>1
<1>3. ASSUME NEW i \in 1 .. Len(s)
      PROVE  i \in 1 .. Len(s) + Len(u) /\ (s \o u)[i] = s[i]
  BY <1>1
<1>4. ASSUME NEW i \in 1 .. Len(s) + Len(u), i \notin 1 .. Len(s)
      PROVE  i - Len(s) \in 1 .. Len(u) /\ (s \o u)[i] = u[i - Len(s)]
  <2>1. i \in Int /\ Len(s) < i /\ i <= Len(s) + Len(u)
    BY <1>1, <1>4
  <2>2. i - Len(s) \in 1 .. Len(u)
    BY <1>1, <2>1
  <2>. QED
    BY <1>1, <2>1, <2>2
<1>5. EntriesFrom(s \o u) \subseteq EntriesFrom(s) \cup EntriesFrom(u)
  <2>1. SUFFICES ASSUME NEW x \in EntriesFrom(s \o u)
                 PROVE  x \in EntriesFrom(s) \cup EntriesFrom(u)
    OBVIOUS
  <2>2. PICK i \in 1 .. Len(s) + Len(u) : x = (s \o u)[i]
    BY <1>1 DEF EntriesFrom
  <2>3. CASE i \in 1 .. Len(s)
    BY <1>3, <2>2, <2>3 DEF EntriesFrom
  <2>4. CASE i \notin 1 .. Len(s)
    BY <1>4, <2>2, <2>4 DEF EntriesFrom
  <2>. QED
    BY <2>3, <2>4
<1>6. EntriesFrom(s) \subseteq EntriesFrom(s \o u)
  BY <1>1, <1>3 DEF EntriesFrom
<1>7. EntriesFrom(u) \subseteq EntriesFrom(s \o u)
  BY <1>1, <1>2 DEF EntriesFrom
<1>. QED
  BY <1>5, <1>6, <1>7

(* Appending to a buffer leaves what precedes, and appends to what follows. *)
LEMMA PrefixOfAppend ==
  ASSUME NEW s \in Seq(Nat), NEW x \in Nat, NEW n \in Nat, n <= Len(s)
  PROVE  /\ n <= Len(Append(s, x))
         /\ SubSeq(Append(s, x), 1, n) = SubSeq(s, 1, n)
         /\ SubSeq(Append(s, x), n + 1, Len(Append(s, x))) =
              Append(SubSeq(s, n + 1, Len(s)), x)
<1>. DEFINE u == Append(s, x)
<1>1. /\ u \in Seq(Nat)
      /\ Len(u) = Len(s) + 1 /\ Len(s) \in Nat
      /\ \A i \in 1 .. Len(s) : u[i] = s[i]
      /\ u[Len(s) + 1] = x
  BY AppendProperties, LenProperties
<1>2. \A i \in 1 .. Len(u) : u[i] \in Nat
  BY <1>1, LenProperties
<1>3. \A i \in 1 .. Len(s) : s[i] \in Nat
  BY LenProperties
<1>. HIDE DEF u
<1>4. SubSeq(u, 1, n) = SubSeq(s, 1, n)
  <2>1. \A i \in 1 .. n : u[i] \in Nat /\ s[i] \in Nat /\ u[i] = s[i]
    BY <1>1, <1>2, <1>3
  <2>2. /\ SubSeq(u, 1, n) \in Seq(Nat)
        /\ Len(SubSeq(u, 1, n)) = n
        /\ \A i \in 1 .. n : SubSeq(u, 1, n)[i] = u[i]
    <3>1. /\ SubSeq(u, 1, n) \in Seq(Nat)
          /\ Len(SubSeq(u, 1, n)) = IF 1 <= n THEN n - 1 + 1 ELSE 0
          /\ \A i \in 1 .. n - 1 + 1 : SubSeq(u, 1, n)[i] = u[1 + i - 1]
      BY <2>1, SubSeqProperties
    <3>. QED
      BY <3>1
  <2>3. /\ SubSeq(s, 1, n) \in Seq(Nat)
        /\ Len(SubSeq(s, 1, n)) = n
        /\ \A i \in 1 .. n : SubSeq(s, 1, n)[i] = s[i]
    <3>1. /\ SubSeq(s, 1, n) \in Seq(Nat)
          /\ Len(SubSeq(s, 1, n)) = IF 1 <= n THEN n - 1 + 1 ELSE 0
          /\ \A i \in 1 .. n - 1 + 1 : SubSeq(s, 1, n)[i] = s[1 + i - 1]
      BY <2>1, SubSeqProperties
    <3>. QED
      BY <3>1
  <2>4. \A i \in 1 .. n : SubSeq(u, 1, n)[i] = SubSeq(s, 1, n)[i]
    BY <2>1, <2>2, <2>3
  <2>. DEFINE v == SubSeq(u, 1, n)
              w == SubSeq(s, 1, n)
  <2>5. v \in Seq(Nat) /\ w \in Seq(Nat) /\ Len(v) = Len(w)
        /\ \A i \in 1 .. Len(v) : v[i] = w[i]
    BY <2>2, <2>3, <2>4
  <2>6. v = w
    <3>. HIDE DEF v, w
    <3>. QED BY <2>5, SeqEqual
  <2>. QED
    BY <2>6
<1>5. SubSeq(u, n + 1, Len(u)) = Append(SubSeq(s, n + 1, Len(s)), x)
  <2>. DEFINE v == SubSeq(u, n + 1, Len(u))
              w == SubSeq(s, n + 1, Len(s))
  <2>1. v \in Seq(Nat) /\ Len(v) = Len(s) + 1 - n
        /\ \A i \in 1 .. Len(s) + 1 - n : v[i] = u[n + i]
    <3>1. /\ v \in Seq(Nat)
          /\ Len(v) = IF n + 1 <= Len(u) THEN Len(u) - (n + 1) + 1 ELSE 0
          /\ \A i \in 1 .. Len(u) - (n + 1) + 1 : v[i] = u[n + 1 + i - 1]
      BY <1>1, <1>2, SubSeqProperties
    <3>. HIDE DEF v
    <3>. QED
      BY <1>1, <3>1
  <2>2. w \in Seq(Nat) /\ Len(w) = Len(s) - n
        /\ \A i \in 1 .. Len(s) - n : w[i] = s[n + i]
    <3>1. /\ w \in Seq(Nat)
          /\ Len(w) = IF n + 1 <= Len(s) THEN Len(s) - (n + 1) + 1 ELSE 0
          /\ \A i \in 1 .. Len(s) - (n + 1) + 1 : w[i] = s[n + 1 + i - 1]
      BY <1>1, <1>3, SubSeqProperties
    <3>. HIDE DEF w
    <3>. QED
      BY <1>1, <3>1
  <2>. HIDE DEF v, w
  <2>. DEFINE a == Append(w, x)
  <2>3. /\ a \in Seq(Nat) /\ Len(a) = Len(s) - n + 1
        /\ \A i \in 1 .. Len(s) - n : a[i] = w[i]
        /\ a[Len(s) - n + 1] = x
    <3>1. /\ a \in Seq(Nat) /\ Len(a) = Len(w) + 1
          /\ \A i \in 1 .. Len(w) : a[i] = w[i]
          /\ a[Len(w) + 1] = x
      BY <2>2, AppendProperties
    <3>. HIDE DEF a
    <3>. QED
      BY <2>2, <3>1
  <2>. HIDE DEF a
  <2>4. \A i \in 1 .. Len(s) + 1 - n : v[i] = a[i]
    <3>1. ASSUME NEW i \in 1 .. Len(s) - n
          PROVE  v[i] = a[i]
      <4>1. i \in 1 .. Len(s) + 1 - n /\ n + i \in 1 .. Len(s)
        BY <1>1
      <4>. QED
        BY <1>1, <2>1, <2>2, <2>3, <4>1
    <3>2. v[Len(s) + 1 - n] = a[Len(s) - n + 1]
      <4>1. /\ Len(s) + 1 - n \in 1 .. Len(s) + 1 - n
            /\ n + (Len(s) + 1 - n) = Len(s) + 1
        BY <1>1
      <4>. QED
        BY <1>1, <2>1, <2>3, <4>1
    <3>3. Len(s) + 1 - n = Len(s) - n + 1
      BY <1>1
    <3>4. \A i \in 1 .. Len(s) + 1 - n : i \in 1 .. Len(s) - n \/ i = Len(s) + 1 - n
      BY <1>1
    <3>. QED
      BY <3>1, <3>2, <3>3, <3>4
  <2>5. Len(v) = Len(a) /\ Len(v) = Len(s) + 1 - n
    BY <1>1, <2>1, <2>3
  <2>6. v = a
    BY <2>1, <2>3, <2>4, <2>5, SeqEqual
  <2>. QED
    BY <2>6 DEF v, w, a
<1>6. n <= Len(u)
  BY <1>1
<1>. QED
  BY <1>4, <1>5, <1>6 DEF u
------------------------------------------------------------------------------
(***************************************************************************)
(* The steps, as the log sees them.                                        *)
(***************************************************************************)
LEMMA ThreadNames ==
  /\ "console" \in Threads /\ "services" \in Threads /\ Stoppers \subseteq Threads
  /\ "console" \notin Stoppers /\ "services" \notin Stoppers
  /\ \A t \in Threads : t # Nobody
BY ConsoleAssumption DEF Nobody

LEMMA Steps ==
  ASSUME Types, Next
  PROVE  \/ Quiet \/ Ends \/ Start
         \/ \E t \in Threads :
              \/ Prints(t)
              \/ Destroy(t, "done") /\ UNCHANGED first
              \/ Flush(t) /\ UNCHANGED first
<1>. USE ThreadNames
<1>0. pc \in [Threads -> Labels] /\ ret \in [Threads -> Labels \cup {"none"}]
  BY DEF Types
<1>p. ASSUME NEW t \in Threads, NEW next \in {"close", "stop running", "idle"},
             NEW here \in {"announce", "sleep", "idle"},
             At(t, here), LogPrint(t, next), UNCHANGED first
      PROVE  Ends \/ Prints(t)
  <2>1. CASE PrintAppends(t, next)
    BY <1>p, <2>1 DEF At, Prints, Flushing
  <2>2. CASE PrintRaces
    BY <1>p, <2>2 DEF PrintRaces, Ends, logState, logVars, flushVars
  <2>. QED
    BY <1>p, <2>1, <2>2 DEF LogPrint
<1>f. ASSUME NEW t \in Threads, FlushStep(t)
      PROVE  Flush(t) /\ UNCHANGED first
  BY <1>f DEF FlushStep, historyVars
<1>s. ASSUME NEW t \in Threads, SaveSettings(t), t \in Stoppers \/ t = "console"
      PROVE  Quiet \/ Ends \/ Prints(t)
  <2>1. CASE SaveBegins(t)
    BY <1>0, <1>s, <2>1
    DEF SaveBegins, At, Goto, Quiet, Flushing, logState, logVars, flushVars, historyVars
  <2>2. CASE SaveTruncates(t)
    BY <1>0, <1>s, <2>2
    DEF SaveTruncates, At, Goto, Quiet, Flushing, logState, logVars, flushVars
  <2>3. CASE SaveAnnounces(t)
    BY <1>p, <2>3 DEF SaveAnnounces, historyVars
  <2>4. CASE SaveCloses(t)
    <3>1. CASE t = "console"
      BY <1>0, <1>s, <2>4, <3>1
      DEF SaveCloses, At, Goto, Quiet, Flushing, Returns, logState, historyVars
    <3>2. CASE t \in Stoppers
      BY <1>0, <1>s, <2>4, <3>2
      DEF SaveCloses, At, Goto, Quiet, Flushing, logState, historyVars
    <3>. QED
      BY <1>s, <3>1, <3>2
  <2>. QED
    BY <1>s, <2>1, <2>2, <2>3, <2>4 DEF SaveSettings
<1>1. ASSUME NEW t \in Stoppers, StopperStep(t)
      PROVE  \/ Quiet \/ Ends \/ Prints(t)
             \/ Destroy(t, "done") /\ UNCHANGED first
             \/ Flush(t) /\ UNCHANGED first
  <2>1. CASE ThreadStep(t)
    BY <1>f, <1>s, <2>1 DEF ThreadStep
  <2>2. CASE StopPrints(t)
    BY <1>p, <2>2 DEF StopPrints, historyVars
  <2>3. CASE StopClearsRunning(t)
    BY <1>0, <2>3
    DEF StopClearsRunning, At, Goto, Quiet, Flushing, logState, logVars, flushVars, historyVars
  <2>4. CASE StopDestroys(t)
    BY <2>4 DEF StopDestroys, historyVars
  <2>. QED
    BY <1>1, <2>1, <2>2, <2>3, <2>4 DEF StopperStep
<1>c. ASSUME pc["console"] \in {"reading", "process", "loop"},
             NEW label \in {"reading", "process", "loop", "left"},
             Goto("console", label),
             UNCHANGED <<fate, logVars, first>>
      PROVE  Quiet
  BY <1>0, <1>c DEF Goto, Quiet, Flushing, logState, logVars, flushVars
<1>2. ASSUME ConsoleStep
      PROVE  \/ Quiet \/ Ends \/ Prints("console")
             \/ Flush("console") /\ UNCHANGED first
  <2>1. CASE ThreadStep("console")
    BY <1>f, <1>s, <2>1 DEF ThreadStep
  <2>2. CASE ConsoleLoops
    BY <1>c, <2>2 DEF ConsoleLoops, At, OnlyConsole, historyVars
  <2>3. CASE Stop
    BY <1>0, <2>3
    DEF Stop, At, Quiet, Flushing, OnlyConsole, logState, logVars, flushVars, historyVars
  <2>4. CASE ProcessSetting
    BY <1>c, <2>4 DEF ProcessSetting, At
  <2>5. CASE SettingRaces
    BY <2>5 DEF SettingRaces, Ends, OnlyConsole, logState, logVars, flushVars, historyVars
  <2>6. CASE ProcessSave
    BY <1>0, <2>6
    DEF ProcessSave, At, Goto, Quiet, Flushing, Returns, logState, historyVars
  <2>7. CASE ProcessAnswers
    BY <1>c, <2>7 DEF ProcessAnswers, At, OnlyConsole, historyVars
  <2>. QED
    BY <1>2, <2>1, <2>2, <2>3, <2>4, <2>5, <2>6, <2>7 DEF ConsoleStep, ProcessLine
<1>3. CASE EnterLine
  BY <1>c, <1>3 DEF EnterLine, At, OnlyConsole, historyVars
<1>4. CASE EnterAfterStop
  BY <1>c, <1>4 DEF EnterAfterStop, At, OnlyConsole, historyVars
<1>5. CASE FlushStep("services")
  BY <1>f, <1>5
<1>6. CASE ServicesLeave \/ ServicesGet \/ ServicesGot
  BY <1>0, <1>6
  DEF ServicesLeave, ServicesGet, ServicesGot, At, Goto, Quiet, Flushing, logState,
      logVars, flushVars, historyVars
<1>7. CASE ServicesPrint
  BY <1>p, <1>7 DEF ServicesPrint, historyVars
<1>8. CASE MainReturns \/ Crash \/ StartThrows
  BY <1>8
  DEF MainReturns, Crash, StartThrows, Ends, logState, logVars, flushVars, historyVars
<1>. QED
  BY <1>1, <1>2, <1>3, <1>4, <1>5, <1>6, <1>7, <1>8 DEF Next, ServicesStep
------------------------------------------------------------------------------
(***************************************************************************)
(* The log's invariant, kept by each kind of step.                         *)
(***************************************************************************)
LEMMA TypesOfLog ==
  ASSUME Types
  PROVE  /\ pc \in [Threads -> Labels] /\ ret \in [Threads -> Labels \cup {"none"}]
         /\ mutex \in Owners /\ dbMutex \in Owners
         /\ inserting \in [Threads -> Seq(Nat)] /\ logsBuffer \in Seq(Nat)
         /\ logs \in Seq(Nat) /\ printed \in Nat /\ exposed \in SUBSET Nat
         /\ first \in Nat
         /\ Len(logsBuffer) \in Nat
         /\ \A t \in Threads : inserting[t] \in Seq(Nat) /\ Len(inserting[t]) \in Nat
BY LenProperties DEF Types

LEMMA QuietKeepsLog ==
  ASSUME Types, LogInv, Quiet
  PROVE  LogInv'
<1>. SUFFICES ASSUME fate' = "up"
              PROVE  (MutexInv /\ PrefixInv /\ EntriesInv)'
  BY DEF LogInv
<1>1. MutexInv /\ PrefixInv /\ EntriesInv
  BY DEF LogInv, Quiet
<1>2. MutexInv'
  BY <1>1 DEF MutexInv, Quiet, logState
<1>3. PrefixInv'
  BY <1>1 DEF PrefixInv, Quiet, logState, bufferVars
<1>4. EntriesInv'
  <2>1. /\ UNCHANGED <<first, logsBuffer, inserting, logs, printed, exposed>>
        /\ \A t \in Threads :
             /\ pc'[t] \in {"commit", "clear"} => pc[t] \in {"commit", "clear"}
             /\ pc'[t] = "clear" => pc[t] = "clear"
    BY DEF Quiet, logState, bufferVars
  <2>. QED
    BY <1>1, <2>1 DEF EntriesInv
<1>. QED
  BY <1>2, <1>3, <1>4

LEMMA StartKeepsLog ==
  ASSUME Types, Start
  PROVE  LogInv'
<1>. USE ThreadNames, TypesOfLog
<1>1. /\ \A t \in Threads : pc'[t] \in {"reading", "idle", "unborn"}
      /\ dbMutex' = Nobody /\ first' = printed /\ printed' = printed
  BY DEF Start, FirstRun
<1>2. MutexInv'
  BY <1>1 DEF MutexInv, Flushing, Nobody
<1>3. PrefixInv'
  BY <1>1 DEF PrefixInv
<1>4. EntriesInv'
  <2>1. first' + 1 .. printed' = {}
    BY <1>1
  <2>. QED
    BY <1>1, <2>1 DEF EntriesInv
<1>. QED
  BY <1>2, <1>3, <1>4 DEF LogInv

(* While mutex is free only the console can be flushing.                    *)
LEMMA FreeMutex ==
  ASSUME MutexInv, mutex = Nobody, NEW t \in Threads, pc[t] \in Flushing
  PROVE  t = "console"
BY ThreadNames DEF MutexInv

LEMMA LongerInterval ==
  ASSUME NEW a \in Nat, NEW b \in Nat
  PROVE  a + 1 .. b + 1 \subseteq (a + 1 .. b) \cup {b + 1}
OBVIOUS

LEMMA PrintKeepsLog ==
  ASSUME Types, LogInv, NEW t \in Threads, Prints(t)
  PROVE  LogInv'
<1>. USE ThreadNames, TypesOfLog
<1>t. printed \in Nat /\ printed + 1 \in Nat /\ first \in Nat
  BY DEF Types
<1>0. PICK next \in {"close", "stop running", "idle"} : PrintAppends(t, next)
  BY DEF Prints
<1>1. MutexInv /\ PrefixInv /\ EntriesInv /\ mutex = Nobody /\ fate' = "up"
  BY <1>0 DEF PrintAppends, LogInv
<1>2. /\ logsBuffer' = Append(logsBuffer, printed + 1)
      /\ printed' = printed + 1 /\ printed + 1 \in Nat
      /\ UNCHANGED <<dbMutex, inserting, logs, first>>
      /\ exposed \subseteq exposed'
      /\ Writing # {} => printed + 1 \in exposed'
  <2>1. /\ PushBack /\ UNCHANGED <<dbMutex, inserting, logs, first>>
        /\ printed + 1 \in Nat
    BY <1>0, <1>t DEF PrintAppends, Prints
  <2>2. /\ logsBuffer' = Append(logsBuffer, printed + 1)
        /\ printed' = printed + 1
        /\ exposed' = IF Writing = {} THEN exposed ELSE exposed \cup {printed + 1}
    BY <2>1 DEF PushBack
  <2>. QED
    BY <2>1, <2>2
<1>3. /\ pc[t] \notin Flushing
      /\ \A s \in Threads : s # t => pc'[s] = pc[s] /\ ret'[s] = ret[s]
      /\ pc'[t] \notin {"commit", "clear"}
      /\ pc'[t] \in Flushing => ret'[t] \in Returns /\ mutex' = t
  <2>1. CASE Full(logsBuffer')
    BY <1>0, <2>1 DEF PrintAppends, Prints, Goto, Flushing, Returns
  <2>2. CASE ~Full(logsBuffer')
    BY <1>0, <2>2 DEF PrintAppends, Prints, Goto, Flushing
  <2>. QED
    BY <2>1, <2>2
<1>4. \A s \in Threads : pc'[s] \in {"commit", "clear"} =>
        s # t /\ pc[s] = pc'[s] /\ Writing # {}
  BY <1>3 DEF Writing
<1>5. MutexInv'
  <2>1. ASSUME NEW s \in Threads
        PROVE  pc'[s] \in {"commit", "clear"} <=> dbMutex' = s
    BY <1>1, <1>2, <1>3 DEF MutexInv, Flushing
  <2>2. ASSUME NEW s \in Threads, pc'[s] \in Flushing
        PROVE  ret'[s] \in Returns /\ (s # "console" => mutex' = s)
    <3>1. CASE s = t
      BY <1>3, <2>2, <3>1
    <3>2. CASE s # t
      BY <1>1, <1>3, <2>2, <3>2, FreeMutex DEF MutexInv
    <3>. QED
      BY <3>1, <3>2
  <2>. QED
    BY <2>1, <2>2 DEF MutexInv
<1>6. PrefixInv'
  <2>. SUFFICES ASSUME NEW s \in Threads, pc'[s] \in {"commit", "clear"}
                PROVE  /\ Len(inserting'[s]) <= Len(logsBuffer')
                       /\ inserting'[s] = SubSeq(logsBuffer', 1, Len(inserting'[s]))
    BY DEF PrefixInv
  <2>1. /\ Len(inserting[s]) <= Len(logsBuffer)
        /\ inserting[s] = SubSeq(logsBuffer, 1, Len(inserting[s]))
    BY <1>1, <1>4 DEF PrefixInv
  <2>2. /\ Len(inserting[s]) <= Len(logsBuffer')
        /\ SubSeq(logsBuffer', 1, Len(inserting[s])) =
             SubSeq(logsBuffer, 1, Len(inserting[s]))
    BY <1>2, <2>1, PrefixOfAppend
  <2>. QED
    BY <1>2, <2>1, <2>2
<1>7. EntriesInv'
  <2>1. EntriesFrom(logsBuffer') = EntriesFrom(logsBuffer) \cup {printed'}
    BY <1>2, EntriesOfAppend
  <2>2. ASSUME NEW s \in Threads, pc'[s] \in {"commit", "clear"}
        PROVE  EntriesFrom(logsBuffer') \subseteq EntriesFrom(inserting'[s]) \cup exposed'
    BY <1>1, <1>2, <1>4, <2>1, <2>2 DEF EntriesInv
  <2>3. ASSUME NEW s \in Threads, pc'[s] = "clear"
        PROVE  EntriesFrom(inserting'[s]) \subseteq EntriesFrom(logs')
    <3>1. pc[s] = "clear"
      BY <1>4, <2>3
    <3>. QED
      BY <1>1, <1>2, <3>1 DEF EntriesInv
  <2>4. first' + 1 .. printed' \subseteq
          EntriesFrom(logsBuffer') \cup EntriesFrom(logs') \cup exposed'
    <3>1. first + 1 .. printed + 1 \subseteq (first + 1 .. printed) \cup {printed + 1}
      BY <1>t, LongerInterval
    <3>2. first' = first /\ logs' = logs
      BY <1>2
    <3>. QED
      BY <1>1, <1>2, <2>1, <3>1, <3>2 DEF EntriesInv
  <2>. QED
    BY <2>2, <2>3, <2>4 DEF EntriesInv
<1>. QED
  BY <1>5, <1>6, <1>7 DEF LogInv

LEMMA DestroyKeepsLog ==
  ASSUME Types, LogInv, NEW t \in Threads, Destroy(t, "done"), UNCHANGED first
  PROVE  LogInv'
<1>. USE ThreadNames, TypesOfLog
<1>1. MutexInv /\ PrefixInv /\ EntriesInv /\ mutex = Nobody
  BY DEF Destroy, At, LogInv
<1>2. /\ pc[t] = "destroy" /\ pc'[t] = "flush" /\ ret'[t] = "done" /\ mutex' = t
      /\ \A s \in Threads : s # t => pc'[s] = pc[s] /\ ret'[s] = ret[s]
      /\ UNCHANGED <<dbMutex, inserting, logsBuffer, logs, printed, exposed>>
  BY DEF Destroy, At, Goto, bufferVars
<1>3. \A s \in Threads : pc'[s] \in {"commit", "clear"} => pc[s] = pc'[s]
  BY <1>2
<1>4. MutexInv'
  <2>1. ASSUME NEW s \in Threads
        PROVE  pc'[s] \in {"commit", "clear"} <=> dbMutex' = s
    BY <1>1, <1>2 DEF MutexInv
  <2>2. ASSUME NEW s \in Threads, pc'[s] \in Flushing
        PROVE  ret'[s] \in Returns /\ (s # "console" => mutex' = s)
    <3>1. CASE s = t
      BY <1>2, <3>1 DEF Returns
    <3>2. CASE s # t
      BY <1>1, <1>2, <2>2, <3>2, FreeMutex DEF MutexInv
    <3>. QED
      BY <3>1, <3>2
  <2>. QED
    BY <2>1, <2>2 DEF MutexInv
<1>5. PrefixInv'
  BY <1>1, <1>2, <1>3 DEF PrefixInv
<1>6. EntriesInv'
  <2>1. \A s \in Threads : pc'[s] = "clear" => pc[s] = "clear"
    BY <1>2
  <2>. QED
    BY <1>1, <1>2, <1>3, <2>1 DEF EntriesInv
<1>. QED
  BY <1>4, <1>5, <1>6 DEF LogInv

(* Two threads cannot both be between insert and clear.                     *)
LEMMA OneWriter ==
  ASSUME MutexInv, NEW s \in Threads, NEW t \in Threads,
         pc[s] \in {"commit", "clear"}, pc[t] \in {"commit", "clear"}
  PROVE  s = t
BY DEF MutexInv

LEMMA FlushKeepsLog ==
  ASSUME Types, LogInv, NEW t \in Threads, Flush(t), UNCHANGED first
  PROVE  LogInv'
<1>. USE ThreadNames, TypesOfLog
<1>0. MutexInv /\ PrefixInv /\ EntriesInv
  BY DEF Flush, FlushBegins, FlushCommits, FlushThrows, FlushClears, At, LogInv
<1>1. CASE FlushBegins(t)
  <2>1. /\ pc[t] = "flush" /\ pc'[t] = "commit"
        /\ \A s \in Threads : s # t => pc'[s] = pc[s] /\ inserting'[s] = inserting[s]
        /\ dbMutex = Nobody /\ dbMutex' = t /\ inserting'[t] = logsBuffer
        /\ UNCHANGED <<logsBuffer, mutex, ret, logs, printed, exposed, first>>
    BY <1>1 DEF FlushBegins, At, Goto, bufferVars
  <2>2. \A s \in Threads : pc[s] \notin {"commit", "clear"}
    BY <1>0, <2>1 DEF MutexInv
  <2>3. \A s \in Threads : pc'[s] \in {"commit", "clear"} => s = t
    BY <2>1, <2>2
  <2>4. MutexInv'
    BY <1>0, <2>1, <2>3 DEF MutexInv, Flushing
  <2>5. PrefixInv'
    <3>1. SubSeq(logsBuffer, 1, Len(logsBuffer)) = logsBuffer
      BY SubSeqFull
    <3>. QED
      BY <2>1, <2>3, <3>1 DEF PrefixInv
  <2>6. EntriesInv'
    BY <1>0, <2>1, <2>3 DEF EntriesInv
  <2>. QED
    BY <2>4, <2>5, <2>6 DEF LogInv
<1>2. CASE FlushCommits(t)
  <2>1. /\ pc[t] = "commit" /\ pc'[t] = "clear"
        /\ \A s \in Threads : s # t => pc'[s] = pc[s]
        /\ logs' = logs \o inserting[t]
        /\ UNCHANGED <<logsBuffer, mutex, dbMutex, inserting, ret, printed, exposed, first>>
    BY <1>2 DEF FlushCommits, At, Goto, bufferVars, flushVars
  <2>2. \A s \in Threads : pc[s] \in {"commit", "clear"} => s = t
    BY <1>0, <2>1, OneWriter
  <2>3. EntriesFrom(logs') = EntriesFrom(logs) \cup EntriesFrom(inserting[t])
    BY <2>1, EntriesOfConcat
  <2>4. MutexInv'
    BY <1>0, <2>1 DEF MutexInv, Flushing
  <2>5. PrefixInv'
    BY <1>0, <2>1 DEF PrefixInv
  <2>6. EntriesInv'
    BY <1>0, <2>1, <2>2, <2>3 DEF EntriesInv
  <2>. QED
    BY <2>4, <2>5, <2>6 DEF LogInv
<1>3. CASE FlushThrows(t)
  BY <1>3 DEF FlushThrows, LogInv
<1>4. CASE FlushClears(t)
  <2>1. /\ pc[t] = "clear" /\ pc'[t] = ret[t] /\ ret[t] \in Returns
        /\ \A s \in Threads : s # t => pc'[s] = pc[s]
        /\ logsBuffer' = <<>> /\ dbMutex' = Nobody
        /\ mutex # t => mutex' = mutex
        /\ UNCHANGED <<ret, logs, printed, exposed, first>>
    BY <1>0, <1>4 DEF FlushClears, At, Goto, MutexInv, Flushing
  <2>2. \A s \in Threads : pc'[s] \notin {"commit", "clear"}
    BY <1>0, <2>1, OneWriter DEF Returns
  <2>3. MutexInv'
    <3>1. ASSUME NEW s \in Threads, pc'[s] \in Flushing
          PROVE  ret'[s] \in Returns /\ (s # "console" => mutex' = s)
      <4>1. s # t
        BY <2>1, <3>1 DEF Returns, Flushing
      <4>. QED
        BY <1>0, <2>1, <3>1, <4>1 DEF MutexInv
    <3>. QED
      BY <2>1, <2>2, <3>1 DEF MutexInv
  <2>4. PrefixInv'
    BY <2>2 DEF PrefixInv
  <2>5. EntriesInv'
    <3>1. EntriesFrom(logsBuffer) \subseteq EntriesFrom(logs) \cup exposed
      BY <1>0, <2>1 DEF EntriesInv
    <3>2. first + 1 .. printed \subseteq EntriesFrom(logs) \cup exposed
      BY <1>0, <3>1 DEF EntriesInv
    <3>3. first' + 1 .. printed' \subseteq EntriesFrom(logs') \cup exposed'
      BY <2>1, <3>2 DEF EntriesFrom
    <3>. QED
      BY <2>2, <3>3 DEF EntriesInv
  <2>. QED
    BY <2>3, <2>4, <2>5 DEF LogInv
<1>. QED
  BY <1>1, <1>2, <1>3, <1>4 DEF Flush

LEMMA NextKeepsLog ==
  ASSUME Types, LogInv, Next
  PROVE  LogInv'
<1>1. CASE Ends
  BY <1>1 DEF Ends, LogInv
<1>. QED
  BY <1>1, Steps, QuietKeepsLog, StartKeepsLog, PrintKeepsLog, DestroyKeepsLog,
     FlushKeepsLog
------------------------------------------------------------------------------
(***************************************************************************)
(* The settings' invariant and the types.                                  *)
(***************************************************************************)
LEMMA NextKeepsSettings ==
  ASSUME Types, SettingsInv, [Next]_vars
  PROVE  SettingsInv'
<1>. USE ThreadNames
<1>0. DOMAIN config = Settings
  BY DEF Types
<1>q. ASSUME UNCHANGED <<config, root, file, text, told, saved>>
      PROVE  SettingsInv'
  BY <1>q DEF SettingsInv, LoadSettings
<1>f. ASSUME NEW t \in Threads, FlushStep(t)
      PROVE  SettingsInv'
  BY <1>q, <1>f DEF FlushStep, settingsVars, fileVars, historyVars
<1>s. ASSUME NEW t \in Threads, SaveSettings(t)
      PROVE  SettingsInv'
  <2>1. CASE SaveBegins(t)
    BY <1>q, <2>1 DEF SaveBegins, fileVars, historyVars
  <2>2. CASE SaveTruncates(t)
    <3>1. UNCHANGED <<config, told>>
      BY <2>2 DEF SaveTruncates
    <3>u. CASE UNCHANGED <<root, saved, fileVars>>
      BY <1>q, <3>1, <3>u DEF fileVars
    <3>. SUFFICES ASSUME root' = config, saved' = told, text' = "none"
                  PROVE  SettingsInv'
      BY <2>2, <3>u DEF SaveTruncates
    <3>2. \A i \in Settings \ {ControlServicePort} : LoadSettings(config)[i] = config[i]
      BY <1>0 DEF LoadSettings, LoadKey
    <3>3. \A i \in Settings \ {ControlServicePort, CommandPrompt} :
            LoadSettings(root')[i] = saved'[i]
      BY <3>1, <3>2 DEF SettingsInv
    <3>4. TryPassInt(LoadSettings(root')[MaxLogBufferSize])
      BY <3>1, <3>2 DEF SettingsInv, Settings, MaxLogBufferSize, ControlServicePort
    <3>. QED
      BY <3>1, <3>3, <3>4 DEF SettingsInv
  <2>3. CASE SaveAnnounces(t)
    BY <1>q, <2>3 DEF SaveAnnounces, settingsVars, fileVars, historyVars
  <2>4. CASE SaveCloses(t)
    <3>1. /\ UNCHANGED <<config, root, told, saved>>
          /\ UNCHANGED <<file, text>> \/ (text' = "whole" => file' = root)
      BY <2>4 DEF SaveCloses, FileClosed, fileVars, historyVars
    <3>. QED
      BY <3>1 DEF SettingsInv, LoadSettings
  <2>. QED
    BY <1>s, <2>1, <2>2, <2>3, <2>4 DEF SaveSettings
<1>1. ASSUME NEW t \in Stoppers, StopperStep(t)
      PROVE  SettingsInv'
  BY <1>1, <1>f, <1>q, <1>s
  DEF StopperStep, ThreadStep, StopPrints, StopClearsRunning, StopDestroys,
      settingsVars, fileVars, historyVars
<1>2. CASE ProcessSetting
  <2>1. PICK i \in Settings :
          /\ Sets(i) /\ SetSetting(i, args[3])
          /\ told' = [told EXCEPT ![i] = args[3]]
    BY <1>2 DEF ProcessSetting
  <2>2. UNCHANGED <<root, file, text, saved>>
    BY <1>2 DEF ProcessSetting, fileVars
  <2>3. \A j \in Settings : j # i => told'[j] = told[j] /\ config'[j] = config[j]
    BY <1>0, <2>1 DEF SettingsInv, SetSetting
  <2>4. i # CommandPrompt => told'[i] = args[3] /\ config'[i] = args[3]
    <3>1. i # CommandPrompt => (PassesString(i) <=> i \in StringSettings)
      BY DEF PassesString, StringSettings, Addresses, CommandPrompt, Settings
    <3>. QED
      BY <1>0, <2>1, <3>1 DEF SettingsInv, SetSetting
  <2>5. i = MaxLogBufferSize => TryPassInt(args[3])
    BY <2>1 DEF Sets, Accepts, Addresses, MaxLogBufferSize
  <2>6. MaxLogBufferSize \in Settings \ {CommandPrompt}
    BY DEF MaxLogBufferSize, Settings, CommandPrompt
  <2>7. TryPassInt(config'[MaxLogBufferSize])
    BY <2>3, <2>4, <2>5, <2>6 DEF SettingsInv
  <2>8. \A j \in Settings \ {CommandPrompt} : told'[j] = config'[j]
    BY <2>3, <2>4 DEF SettingsInv
  <2>9. DOMAIN told' = Settings
    BY <2>1 DEF SettingsInv
  <2>. QED
    BY <2>2, <2>7, <2>8, <2>9 DEF SettingsInv, LoadSettings
<1>3. CASE ConsoleLoops \/ Stop \/ SettingRaces \/ ProcessSave \/ ProcessAnswers
  BY <1>3, <1>q
  DEF ConsoleLoops, Stop, SettingRaces, ProcessSave, ProcessAnswers, OnlyConsole,
      settingsVars, fileVars, historyVars
<1>4. CASE ConsoleStep
  BY <1>2, <1>3, <1>4, <1>f, <1>s DEF ConsoleStep, ThreadStep, ProcessLine
<1>5. CASE ServicesStep \/ ServicesGet \/ ServicesPrint \/ EnterLine \/ EnterAfterStop
  BY <1>5, <1>f, <1>q
  DEF ServicesStep, ServicesLeave, ServicesGet, ServicesGot, ServicesPrint, EnterLine,
      EnterAfterStop, OnlyConsole, settingsVars, fileVars, historyVars
<1>6. CASE MainReturns \/ Crash \/ StartThrows
  BY <1>6, <1>q
  DEF MainReturns, Crash, StartThrows, settingsVars, fileVars, historyVars
<1>7. CASE Start
  <2>1. /\ text = "whole" /\ config' = LoadSettings(file) /\ told' = config'
        /\ UNCHANGED <<root, file, text, saved>>
    BY <1>7 DEF Start, fileVars
  <2>2. file = root
    BY <2>1 DEF SettingsInv
  <2>3. TryPassInt(config'[MaxLogBufferSize])
    BY <2>1, <2>2 DEF SettingsInv
  <2>4. DOMAIN told' = Settings
    BY <2>1 DEF LoadSettings
  <2>5. \A i \in Settings \ {ControlServicePort, CommandPrompt} :
          LoadSettings(root')[i] = saved'[i]
    BY <2>1 DEF SettingsInv
  <2>6. TryPassInt(LoadSettings(root')[MaxLogBufferSize])
    BY <2>1 DEF SettingsInv
  <2>. QED
    BY <2>1, <2>2, <2>3, <2>4, <2>5, <2>6 DEF SettingsInv
<1>8. CASE UNCHANGED vars
  BY <1>8, <1>q DEF vars, settingsVars, fileVars, historyVars
<1>. QED
  BY <1>1, <1>4, <1>5, <1>6, <1>7, <1>8 DEF Next

(* A value that reads as an int is one.                                     *)
LEMMA LimitIsInt ==
  ASSUME NEW w, TryPassInt(w)
  PROVE  IntOf[w[1]] \in Int
BY FirstFileAssumption DEF TryPassInt

LEMMA InitIInv ==
  ASSUME Init
  PROVE  IInv
<1>. USE ThreadNames
<1>1. Types
  <2>1. /\ DOMAIN config = Settings
        /\ TryPassInt(config[MaxLogBufferSize])
    BY FirstFileAssumption DEF Init, LoadSettings
  <2>2. maxLogBufferSize \in Int
    BY <2>1, LimitIsInt DEF Init
  <2>3. pc \in [Threads -> Labels] /\ ret \in [Threads -> Labels \cup {"none"}]
    BY DEF Init, FirstRun, Labels
  <2>4. inserting \in [Threads -> Seq(Nat)] /\ logsBuffer \in Seq(Nat) /\ logs \in Seq(Nat)
    BY DEF Init
  <2>. QED
    BY <2>1, <2>2, <2>3, <2>4 DEF Init, Types, Owners
<1>2. LogInv
  <2>1. \A t \in Threads : pc[t] \notin Flushing /\ dbMutex # t
    BY DEF Init, FirstRun, Flushing
  <2>2. first + 1 .. printed = {}
    BY DEF Init
  <2>. QED
    BY <2>1, <2>2 DEF LogInv, MutexInv, PrefixInv, EntriesInv, Flushing
<1>3. SettingsInv
  <2>1. DOMAIN config = Settings
    BY DEF Init, LoadSettings
  <2>. QED
    BY <2>1, FirstFileAssumption DEF Init, SettingsInv
<1>. QED
  BY <1>1, <1>2, <1>3 DEF IInv

LEMMA PrintKeepsTypes ==
  ASSUME Types, NEW t \in Threads, NEW next \in Labels, LogPrint(t, next),
         UNCHANGED <<settingsVars, consoleVars, historyVars>>
  PROVE  Types'
<1>0. UNCHANGED <<config, settingsMutex, text, isRunning, entered, starts, first>>
  BY DEF settingsVars, fileVars, consoleVars, historyVars
<1>1. CASE PrintAppends(t, next)
  <2>1. /\ pc' \in [Threads -> Labels] /\ ret' \in [Threads -> Labels \cup {"none"}]
        /\ mutex' \in Owners
    BY <1>1 DEF PrintAppends, Goto, Types, Labels, Owners
  <2>2. /\ PushBack /\ UNCHANGED <<fate, dbMutex, inserting, maxLogBufferSize, logs>>
        /\ printed + 1 \in Nat
    BY <1>1 DEF PrintAppends, Types
  <2>3. printed' = printed + 1 /\ logsBuffer' = Append(logsBuffer, printed + 1)
    BY <2>2 DEF PushBack
  <2>4. logsBuffer' \in Seq(Nat)
    BY <2>2, <2>3, AppendProperties DEF Types
  <2>5. exposed' \in SUBSET Nat
    BY <2>2, <2>3 DEF PushBack, Types
  <2>. QED
    BY <1>0, <2>1, <2>2, <2>3, <2>4, <2>5 DEF Types
<1>2. CASE PrintRaces
  BY <1>0, <1>2 DEF PrintRaces, logVars, bufferVars, flushVars, Types
<1>. QED
  BY <1>1, <1>2 DEF LogPrint

LEMMA FlushKeepsTypes ==
  ASSUME Types, LogInv, NEW t \in Threads, FlushStep(t)
  PROVE  Types'
<1>. USE ThreadNames
<1>0. /\ UNCHANGED <<config, settingsMutex, text, isRunning, entered, starts, first>>
      /\ Flush(t)
  BY DEF FlushStep, settingsVars, fileVars, consoleVars, historyVars
<1>c. logs \o inserting[t] \in Seq(Nat)
  BY ConcatProperties DEF Types
<1>1. CASE FlushBegins(t)
  BY <1>0, <1>1 DEF FlushBegins, Goto, bufferVars, Types, Labels, Owners
<1>2. CASE FlushCommits(t)
  BY <1>0, <1>2, <1>c DEF FlushCommits, Goto, bufferVars, flushVars, Types, Labels
<1>3. CASE FlushThrows(t)
  <2>1. logs' \in Seq(Nat)
    BY <1>3, <1>c DEF FlushThrows, Types
  <2>. QED
    BY <1>0, <1>3, <2>1 DEF FlushThrows, bufferVars, flushVars, Types
<1>4. CASE FlushClears(t)
  <2>1. ret[t] \in Labels
    BY <1>4 DEF FlushClears, At, LogInv, MutexInv, Flushing, Returns, Labels
  <2>2. pc' \in [Threads -> Labels]
    BY <1>4, <2>1 DEF FlushClears, Goto, Types
  <2>3. inserting' \in [Threads -> Seq(Nat)] /\ logsBuffer' \in Seq(Nat)
    BY <1>4 DEF FlushClears, Types
  <2>4. mutex' \in Owners /\ dbMutex' \in Owners
    BY <1>4 DEF FlushClears, Types, Owners
  <2>. QED
    BY <1>0, <1>4, <2>2, <2>3, <2>4 DEF FlushClears, Types
<1>. QED
  BY <1>0, <1>1, <1>2, <1>3, <1>4 DEF Flush

LEMMA NextKeepsTypes ==
  ASSUME IInv, [Next]_vars
  PROVE  Types'
<1>. USE ThreadNames
<1>0. Types /\ LogInv /\ SettingsInv
  BY DEF IInv
<1>t. /\ pc \in [Threads -> Labels] /\ ret \in [Threads -> Labels \cup {"none"}]
      /\ DOMAIN config = Settings
  BY <1>0 DEF Types
<1>f. ASSUME NEW t \in Threads, FlushStep(t)
      PROVE  Types'
  BY <1>0, <1>f, FlushKeepsTypes
<1>g. ASSUME NEW t \in Threads, NEW label \in Labels, Goto(t, label)
      PROVE  pc' \in [Threads -> Labels]
  BY <1>t, <1>g DEF Goto
<1>s. ASSUME NEW t \in Threads, SaveSettings(t)
      PROVE  Types'
  <2>1. CASE SaveBegins(t)
    <3>1. pc' \in [Threads -> Labels]
      BY <1>g, <2>1 DEF SaveBegins, Labels
    <3>. QED
      BY <1>0, <2>1, <3>1
      DEF SaveBegins, Types, Owners, logVars, bufferVars, flushVars, fileVars,
          consoleVars, historyVars
  <2>2. CASE SaveTruncates(t)
    <3>1. pc' \in [Threads -> Labels]
      BY <1>g, <2>2 DEF SaveTruncates, Labels
    <3>. QED
      BY <1>0, <2>2, <3>1
      DEF SaveTruncates, Types, logVars, bufferVars, flushVars, fileVars, consoleVars
  <2>3. CASE SaveAnnounces(t)
    BY <1>0, <2>3, PrintKeepsTypes DEF SaveAnnounces, Labels
  <2>4. CASE SaveCloses(t)
    <3>1. pc' \in [Threads -> Labels] /\ ret' \in [Threads -> Labels \cup {"none"}]
      BY <1>g, <1>t, <2>4 DEF SaveCloses, Labels
    <3>. QED
      BY <1>0, <2>4, <3>1
      DEF SaveCloses, FileClosed, Types, Owners, bufferVars, fileVars, consoleVars,
          historyVars
  <2>. QED
    BY <1>s, <2>1, <2>2, <2>3, <2>4 DEF SaveSettings
<1>1. ASSUME NEW t \in Stoppers, StopperStep(t)
      PROVE  Types'
  <2>1. CASE ThreadStep(t)
    BY <1>f, <1>s, <2>1 DEF ThreadStep
  <2>2. CASE StopPrints(t)
    BY <1>0, <2>2, PrintKeepsTypes DEF StopPrints, Labels
  <2>3. CASE StopClearsRunning(t)
    <3>1. pc' \in [Threads -> Labels]
      BY <1>g, <2>3 DEF StopClearsRunning, Labels
    <3>. QED
      BY <1>0, <2>3, <3>1
      DEF StopClearsRunning, Types, logVars, bufferVars, flushVars, settingsVars,
          fileVars, historyVars
  <2>4. CASE StopDestroys(t)
    <3>1. pc' \in [Threads -> Labels] /\ ret' \in [Threads -> Labels \cup {"none"}]
      BY <1>t, <2>4 DEF StopDestroys, Destroy, Goto, Labels
    <3>. QED
      BY <1>0, <2>4, <3>1
      DEF StopDestroys, Destroy, Types, Owners, bufferVars, settingsVars, fileVars,
          consoleVars, historyVars
  <2>. QED
    BY <1>1, <2>1, <2>2, <2>3, <2>4 DEF StopperStep
<1>c. ASSUME pc' \in [Threads -> Labels], UNCHANGED isRunning, entered' \in Nat,
             fate' \in {fate, "undefined"},
             UNCHANGED <<logVars, settingsVars, historyVars>>
      PROVE  Types'
  BY <1>0, <1>c
  DEF Types, logVars, bufferVars, flushVars, settingsVars, fileVars, historyVars
<1>2. CASE ConsoleLoops \/ ProcessAnswers \/ EnterAfterStop
  <2>1. pc' \in [Threads -> Labels]
    BY <1>2, <1>g DEF ConsoleLoops, ProcessAnswers, EnterAfterStop, Labels
  <2>. QED
    BY <1>0, <1>2, <1>c, <2>1
    DEF ConsoleLoops, ProcessAnswers, EnterAfterStop, OnlyConsole, consoleVars, Types
<1>3. CASE EnterLine
  <2>1. pc' \in [Threads -> Labels]
    BY <1>3, <1>g DEF EnterLine, Labels
  <2>2. entered' = entered + 1 /\ OnlyConsole /\ UNCHANGED <<fate, isRunning>>
    BY <1>3 DEF EnterLine
  <2>3. entered' \in Nat
    BY <1>0, <2>2 DEF Types
  <2>. QED
    BY <1>c, <2>1, <2>2, <2>3 DEF OnlyConsole
<1>4. CASE Stop
  <2>1. pc' \in [Threads -> Labels]
    <3>1. PICK t \in Stoppers :
            pc' = [pc EXCEPT ![t] = "sleep", !["console"] = "loop"]
      BY <1>4 DEF Stop
    <3>. QED
      BY <1>t, <3>1 DEF Labels
  <2>. QED
    BY <1>0, <1>4, <1>c, <2>1 DEF Stop, OnlyConsole, consoleVars, Types
<1>5. CASE SettingRaces
  BY <1>0, <1>5, <1>c, <1>t DEF SettingRaces, OnlyConsole, consoleVars, Types
<1>6. CASE ProcessSetting
  <2>1. pc' \in [Threads -> Labels]
    BY <1>6, <1>g DEF ProcessSetting, Labels
  <2>2. DOMAIN config' = Settings
    BY <1>6, <1>t DEF ProcessSetting, SetSetting
  <2>. QED
    BY <1>0, <1>6, <2>1, <2>2
    DEF ProcessSetting, Types, logVars, bufferVars, flushVars, fileVars, consoleVars
<1>7. CASE ProcessSave
  <2>1. pc' \in [Threads -> Labels] /\ ret' \in [Threads -> Labels \cup {"none"}]
    BY <1>7, <1>t DEF ProcessSave, Goto, Labels
  <2>. QED
    BY <1>0, <1>7, <2>1
    DEF ProcessSave, Types, bufferVars, settingsVars, fileVars, consoleVars, historyVars
<1>8. CASE ConsoleStep
  BY <1>2, <1>4, <1>5, <1>6, <1>7, <1>8, <1>f, <1>s DEF ConsoleStep, ThreadStep, ProcessLine
<1>9. CASE ServicesStep \/ ServicesGet \/ ServicesPrint
  <2>1. CASE ServicesLeave
    <3>1. pc' \in [Threads -> Labels]
      BY <1>g, <2>1 DEF ServicesLeave, Labels
    <3>. QED
      BY <1>0, <1>c, <2>1, <3>1 DEF ServicesLeave, consoleVars, Types
  <2>2. CASE ServicesPrint
    BY <1>0, <2>2, PrintKeepsTypes DEF ServicesPrint, Labels
  <2>3. CASE ServicesGet \/ ServicesGot
    <3>1. pc' \in [Threads -> Labels]
      BY <1>g, <2>3 DEF ServicesGet, ServicesGot, Labels
    <3>. QED
      BY <1>0, <2>3, <3>1
      DEF ServicesGet, ServicesGot, Types, Owners, logVars, bufferVars, flushVars,
          fileVars, consoleVars, historyVars
  <2>. QED
    BY <1>9, <1>f, <2>1, <2>2, <2>3 DEF ServicesStep
<1>10. CASE MainReturns \/ Crash \/ StartThrows
  BY <1>0, <1>10
  DEF MainReturns, Crash, StartThrows, Types, logVars, bufferVars, flushVars,
      settingsVars, fileVars, consoleVars, historyVars
<1>11. CASE Start
  <2>1. pc' \in [Threads -> Labels] /\ ret' \in [Threads -> Labels \cup {"none"}]
    BY <1>11 DEF Start, FirstRun, Labels
  <2>2. config' = LoadSettings(file) /\ file = root
    BY <1>0, <1>11 DEF Start, SettingsInv
  <2>3. DOMAIN config' = Settings
    BY <2>2 DEF LoadSettings
  <2>4. maxLogBufferSize' \in Int
    <3>1. maxLogBufferSize' = IntOf[config'[MaxLogBufferSize][1]]
      BY <1>11 DEF Start
    <3>2. TryPassInt(config'[MaxLogBufferSize])
      BY <1>0, <2>2 DEF SettingsInv
    <3>. QED
      BY <3>1, <3>2, LimitIsInt
  <2>5. inserting' \in [Threads -> Seq(Nat)] /\ logsBuffer' \in Seq(Nat)
    BY <1>11 DEF Start
  <2>. QED
    BY <1>0, <1>11, <2>1, <2>3, <2>4, <2>5 DEF Start, Types, Owners, fileVars
<1>12. CASE UNCHANGED vars
  BY <1>0, <1>12
  DEF vars, Types, logVars, bufferVars, flushVars, settingsVars, fileVars,
      consoleVars, historyVars
<1>. QED
  BY <1>1, <1>3, <1>2, <1>8, <1>9, <1>10, <1>11, <1>12 DEF Next

THEOREM Inductive ==
  Spec => []IInv
<1>1. Init => IInv
  BY InitIInv
<1>2. IInv /\ [Next]_vars => IInv'
  <2>. SUFFICES ASSUME IInv, [Next]_vars
                PROVE  IInv'
    OBVIOUS
  <2>0. Types /\ LogInv /\ SettingsInv
    BY DEF IInv
  <2>1. Types'
    BY NextKeepsTypes
  <2>2. LogInv'
    <3>1. CASE Next
      BY <2>0, <3>1, NextKeepsLog
    <3>2. CASE UNCHANGED vars
      <4>1. Quiet
        BY <3>2 DEF vars, logVars, flushVars, historyVars, Quiet, logState
      <4>. QED
        BY <2>0, <4>1, QuietKeepsLog
    <3>. QED
      BY <3>1, <3>2
  <2>3. SettingsInv'
    BY <2>0, NextKeepsSettings
  <2>. QED
    BY <2>1, <2>2, <2>3 DEF IInv
<1>. QED
  BY <1>1, <1>2, PTL DEF Spec
------------------------------------------------------------------------------
(* However many "stop"s, "save"s and prints overlap, the entries of a       *)
(* running process are in the buffer, in the table, or were printed while a *)
(* "save" was between its first insert and clear().                         *)
THEOREM LossBounded ==
  Spec => []LostOnlyDuringSave
<1>1. IInv => LostOnlyDuringSave
  BY DEF IInv, LogInv, EntriesInv, LostOnlyDuringSave
<1>. QED
  BY <1>1, Inductive, PTL

(* A start reads back what the administrator had been told of when the file *)
(* was composed, whichever crash or return of main came between, but for    *)
(* the control port and the prompt.                                         *)
THEOREM SavedSurvive ==
  Spec => SavedSettingsSurvive
<1>1. IInv /\ Start =>
        \A i \in Settings \ {ControlServicePort, CommandPrompt} : config'[i] = saved[i]
  BY DEF IInv, SettingsInv, Start
<1>. DEFINE Reads ==
  Start => \A i \in Settings \ {ControlServicePort, CommandPrompt} : config'[i] = saved[i]
<1>2. IInv /\ [Next]_vars => [Reads]_vars
  BY <1>1
<1>3. Spec => [][Reads]_vars
  BY <1>2, Inductive, PTL DEF Spec
<1>. QED
  BY <1>3 DEF SavedSettingsSurvive

(* When the thread of a "stop" is done, everything this run printed is in   *)
(* the table, but for what was printed while a "save" was writing.          *)
THEOREM DoneStored ==
  Spec => DoneMeansStored
<1>. USE ThreadNames
<1>. DEFINE Stored ==
  \A t \in Stoppers :
    pc[t] # "done" /\ pc'[t] = "done" =>
      first + 1 .. printed \subseteq EntriesFrom(logs') \cup exposed
<1>1. ASSUME IInv, IInv', Next
      PROVE  Stored
  <2>. SUFFICES ASSUME NEW t \in Stoppers, pc[t] # "done", pc'[t] = "done"
                PROVE  first + 1 .. printed \subseteq EntriesFrom(logs') \cup exposed
    OBVIOUS
  <2>1. Types /\ LogInv /\ LogInv'
    BY <1>1 DEF IInv
  <2>2. pc \in [Threads -> Labels]
    BY <2>1 DEF Types
  <2>3. ~Quiet /\ ~Ends
    BY DEF Quiet, Ends
  <2>4. ~Start
    BY DEF Start, FirstRun
  <2>5. ASSUME NEW s \in Threads, Prints(s)
        PROVE  FALSE
    BY <2>2, <2>5 DEF Prints, PrintAppends, Goto
  <2>6. ASSUME NEW s \in Threads, Destroy(s, "done")
        PROVE  FALSE
    BY <2>2, <2>6 DEF Destroy, Goto
  <2>7. PICK s \in Threads : Flush(s) /\ UNCHANGED first
    BY <1>1, <2>1, <2>3, <2>4, <2>5, <2>6, Steps
  <2>8. ~FlushBegins(s) /\ ~FlushCommits(s) /\ ~FlushThrows(s)
    BY <2>2 DEF FlushBegins, FlushCommits, FlushThrows, Goto
  <2>9. FlushClears(s)
    BY <2>7, <2>8 DEF Flush
  <2>10. /\ fate' = "up" /\ logsBuffer' = <<>>
         /\ UNCHANGED <<first, printed, logs, exposed>>
    BY <2>7, <2>9 DEF FlushClears, At
  <2>11. first + 1 .. printed \subseteq
           EntriesFrom(<<>>) \cup EntriesFrom(logs') \cup exposed
    BY <2>1, <2>10 DEF LogInv, EntriesInv
  <2>12. EntriesFrom(<<>>) = {}
    BY DEF EntriesFrom
  <2>. QED
    BY <2>11, <2>12
<1>2. IInv /\ IInv' /\ [Next]_vars => [Stored]_vars
  BY <1>1
<1>3. Spec => [][Stored]_vars
  BY <1>2, Inductive, PTL DEF Spec
<1>. QED
  BY <1>3 DEF DoneMeansStored
------------------------------------------------------------------------------
(***************************************************************************)
(* The refinement: what is in memory and not written yet is the journal's  *)
(* pending, and every step is a step of the journal or leaves it alone.    *)
(***************************************************************************)
(* What Unwritten is in each case, without its CHOOSE.                      *)
UnwrittenNow ==
  /\ fate # "up" => Unwritten = <<>>
  /\ fate = "up" =>
       /\ (\A t \in Threads : pc[t] # "clear") => Unwritten = logsBuffer
       /\ \A t \in Threads : pc[t] = "clear" =>
            Unwritten = SubSeq(logsBuffer, Len(inserting[t]) + 1, Len(logsBuffer))

LEMMA UnwrittenIs ==
  IInv => UnwrittenNow
<1>. SUFFICES ASSUME IInv
              PROVE  UnwrittenNow
  OBVIOUS
<1>1. ASSUME fate # "up"
      PROVE  Unwritten = <<>>
  BY <1>1 DEF Unwritten
<1>2. ASSUME fate = "up", \A t \in Threads : pc[t] # "clear"
      PROVE  Unwritten = logsBuffer
  <2>1. {s \in Threads : pc[s] = "clear"} = {}
    BY <1>2
  <2>. QED
    BY <1>2, <2>1 DEF Unwritten
<1>3. ASSUME fate = "up", NEW t \in Threads, pc[t] = "clear"
      PROVE  Unwritten = SubSeq(logsBuffer, Len(inserting[t]) + 1, Len(logsBuffer))
  <2>. DEFINE written == {s \in Threads : pc[s] = "clear"}
  <2>0. MutexInv
    BY <1>3 DEF IInv, LogInv
  <2>1. written = {t}
    BY <1>3, <2>0, OneWriter
  <2>2. (CHOOSE s \in written : TRUE) = t
    BY <2>1
  <2>3. Unwritten =
          LET s == CHOOSE s \in written : TRUE
          IN  SubSeq(logsBuffer, Len(inserting[s]) + 1, Len(logsBuffer))
    BY <1>3, <2>1 DEF Unwritten
  <2>. QED
    BY <2>2, <2>3
<1>. QED
  BY <1>1, <1>2, <1>3 DEF UnwrittenNow

LEMMA UnwrittenThen ==
  IInv' => UnwrittenNow'
BY UnwrittenIs, PTL

LEMMA QuietIsSilent ==
  ASSUME IInv, IInv', Quiet
  PROVE  UNCHANGED <<printed, Unwritten, logs>>
<1>1. \A t \in Threads : pc'[t] = "clear" <=> pc[t] = "clear"
  BY DEF Quiet
<1>2. UNCHANGED <<fate, logsBuffer, inserting, printed, logs>>
  BY DEF Quiet, logState, bufferVars
<1>3. UnwrittenNow /\ UnwrittenNow'
  BY UnwrittenIs, UnwrittenThen
<1>4. Unwritten' = Unwritten
  <2>1. CASE fate # "up"
    BY <1>2, <1>3, <2>1 DEF UnwrittenNow
  <2>2. CASE fate = "up" /\ \A t \in Threads : pc[t] # "clear"
    BY <1>1, <1>2, <1>3, <2>2 DEF UnwrittenNow
  <2>3. CASE fate = "up" /\ \E t \in Threads : pc[t] = "clear"
    BY <1>1, <1>2, <1>3, <2>3 DEF UnwrittenNow
  <2>. QED
    BY <2>1, <2>2, <2>3
<1>. QED
  BY <1>2, <1>4

LEMMA NextNat ==
  ASSUME NEW n \in Nat
  PROVE  n + 1 \in Nat
OBVIOUS

(* A step that prints is the journal's Accept.                              *)
LEMMA PrintAccepts ==
  ASSUME IInv, IInv', NEW t \in Threads, Prints(t)
  PROVE  Written!Accept
<1>. USE ThreadNames
<1>0. PICK next \in {"close", "stop running", "idle"} : PrintAppends(t, next)
  BY DEF Prints
<1>t. /\ Types /\ pc \in [Threads -> Labels] /\ printed \in Nat /\ printed + 1 \in Nat
      /\ logsBuffer \in Seq(Nat) /\ inserting \in [Threads -> Seq(Nat)]
      /\ PrefixInv /\ fate = "up"
  <2>1. Types /\ fate = "up" /\ PrefixInv
    BY <1>0 DEF IInv, LogInv, PrintAppends
  <2>2. /\ pc \in [Threads -> Labels] /\ printed \in Nat /\ logsBuffer \in Seq(Nat)
        /\ inserting \in [Threads -> Seq(Nat)]
    BY <2>1 DEF Types
  <2>3. printed + 1 \in Nat
    BY <2>2, NextNat
  <2>. QED
    BY <2>1, <2>2, <2>3
<1>1. /\ printed' = printed + 1 /\ logsBuffer' = Append(logsBuffer, printed + 1)
      /\ UNCHANGED <<fate, inserting, logs>>
  BY <1>0, <1>t DEF PrintAppends, PushBack
<1>2. \A s \in Threads : pc'[s] = "clear" <=> pc[s] = "clear"
  <2>1. CASE Full(logsBuffer')
    BY <1>0, <1>t, <2>1 DEF PrintAppends, Prints, Goto, Flushing
  <2>2. CASE ~Full(logsBuffer')
    BY <1>0, <1>t, <2>2 DEF PrintAppends, Prints, Goto, Flushing
  <2>. QED
    BY <2>1, <2>2
<1>3. Unwritten' = Append(Unwritten, printed + 1)
  <2>1. CASE \E s \in Threads : pc[s] = "clear"
    <3>1. PICK s \in Threads : pc[s] = "clear"
      BY <2>1
    <3>2. Unwritten = SubSeq(logsBuffer, Len(inserting[s]) + 1, Len(logsBuffer))
      BY <1>t, <3>1, UnwrittenIs DEF UnwrittenNow
    <3>3. Unwritten' = SubSeq(logsBuffer', Len(inserting'[s]) + 1, Len(logsBuffer'))
      <4>1. /\ IInv' /\ fate' = "up" /\ pc'[s] = "clear"
        BY <1>1, <1>2, <1>t, <3>1
      <4>. QED
        BY <4>1, UnwrittenThen DEF UnwrittenNow
    <3>4. Len(inserting[s]) \in Nat /\ Len(inserting[s]) <= Len(logsBuffer)
      BY <1>t, <3>1, LenProperties DEF PrefixInv
    <3>. QED
      BY <1>1, <1>t, <3>2, <3>3, <3>4, PrefixOfAppend
  <2>2. CASE \A s \in Threads : pc[s] # "clear"
    <3>1. Unwritten = logsBuffer
      BY <1>t, <2>2, UnwrittenIs DEF UnwrittenNow
    <3>2. Unwritten' = logsBuffer'
      <4>1. fate' = "up" /\ \A s \in Threads : pc'[s] # "clear"
        BY <1>1, <1>2, <1>t, <2>2
      <4>. QED
        BY <4>1, UnwrittenThen DEF UnwrittenNow
    <3>. QED
      BY <1>1, <3>1, <3>2
  <2>. QED
    BY <2>1, <2>2
<1>. QED
  BY <1>1, <1>3 DEF Written!Accept

LEMMA FlushStoresOrGivesUp ==
  ASSUME IInv, IInv', NEW t \in Threads, Flush(t)
  PROVE  [Written!JNext]_<<printed, Unwritten, logs>>
<1>. USE ThreadNames
<1>0. UnwrittenNow /\ UnwrittenNow'
  BY UnwrittenIs, UnwrittenThen
<1>t. /\ Types /\ pc \in [Threads -> Labels] /\ logsBuffer \in Seq(Nat)
      /\ inserting \in [Threads -> Seq(Nat)] /\ logs \in Seq(Nat)
      /\ MutexInv /\ PrefixInv /\ fate = "up"
      /\ Len(logsBuffer) \in Nat /\ Len(inserting[t]) \in Nat
  BY LenProperties
  DEF IInv, Types, LogInv, Flush, FlushBegins, FlushCommits, FlushThrows, FlushClears, At
<1>g. ASSUME UNCHANGED <<printed, logs>>, Unwritten' = <<>>
      PROVE  Written!JNext
  BY <1>g DEF Written!JNext, Written!GiveUp
<1>w. ASSUME pc[t] = "commit"
      PROVE  /\ Unwritten = logsBuffer
             /\ \A s \in Threads : s # t => pc[s] \notin {"commit", "clear"}
             /\ inserting[t] = SubSeq(logsBuffer, 1, Len(inserting[t]))
             /\ Len(inserting[t]) <= Len(logsBuffer)
  <2>1. \A s \in Threads : s # t => pc[s] \notin {"commit", "clear"}
    BY <1>t, <1>w, OneWriter
  <2>2. \A s \in Threads : pc[s] # "clear"
    BY <1>w, <2>1
  <2>. QED
    BY <1>0, <1>t, <1>w, <2>1, <2>2 DEF UnwrittenNow, PrefixInv
<1>n. ASSUME pc[t] = "commit", Len(inserting[t]) = 0
      PROVE  logs \o inserting[t] = logs
  <2>1. inserting[t] = <<>>
    BY <1>t, <1>n, EmptySeq
  <2>. QED
    BY <1>t, <2>1, ConcatEmptySeq
<1>1. CASE FlushBegins(t)
  <2>1. /\ pc[t] = "flush" /\ pc'[t] = "commit" /\ dbMutex = Nobody
        /\ \A s \in Threads : s # t => pc'[s] = pc[s]
        /\ UNCHANGED <<fate, logsBuffer, printed, logs>>
    BY <1>1, <1>t DEF FlushBegins, At, Goto, bufferVars
  <2>2. \A s \in Threads : pc[s] # "clear" /\ pc'[s] # "clear"
    BY <1>t, <2>1 DEF MutexInv
  <2>3. Unwritten = logsBuffer /\ Unwritten' = logsBuffer'
    BY <1>0, <1>t, <2>1, <2>2 DEF UnwrittenNow
  <2>. QED
    BY <2>1, <2>3
<1>2. CASE FlushCommits(t)
  <2>. DEFINE n == Len(inserting[t])
  <2>1. /\ pc[t] = "commit" /\ pc'[t] = "clear"
        /\ logs' = logs \o inserting[t]
        /\ UNCHANGED <<fate, logsBuffer, inserting, printed>>
    BY <1>2, <1>t DEF FlushCommits, At, Goto, bufferVars, flushVars
  <2>2. Unwritten' = SubSeq(logsBuffer, n + 1, Len(logsBuffer))
    BY <1>0, <1>t, <2>1 DEF UnwrittenNow
  <2>3. CASE n = 0
    <3>1. SubSeq(logsBuffer, 0 + 1, Len(logsBuffer)) = logsBuffer
      BY <1>t, SubSeqFull
    <3>. QED
      BY <1>n, <1>w, <2>1, <2>2, <2>3, <3>1
  <2>4. CASE n # 0
    <3>1. n \in 1 .. Len(Unwritten)
      BY <1>t, <1>w, <2>1, <2>4
    <3>2. Written!Store(n)
      BY <1>w, <2>1, <2>2 DEF Written!Store
    <3>. QED
      BY <3>1, <3>2 DEF Written!JNext
  <2>. QED
    BY <2>3, <2>4
<1>3. CASE FlushThrows(t)
  <2>. DEFINE n == Len(inserting[t])
  <2>1. /\ pc[t] = "commit" /\ fate' # "up" /\ UNCHANGED printed
        /\ logs' \in {logs, logs \o inserting[t]}
    BY <1>3 DEF FlushThrows, At
  <2>2. Unwritten' = <<>>
    BY <1>0, <2>1 DEF UnwrittenNow
  <2>3. CASE logs' = logs
    BY <1>g, <2>1, <2>2, <2>3
  <2>4. CASE logs' = logs \o inserting[t] /\ n # 0
    <3>1. n \in 1 .. Len(Unwritten)
      BY <1>t, <1>w, <2>1, <2>4
    <3>2. Written!Store(n)
      BY <1>w, <2>1, <2>2, <2>4 DEF Written!Store
    <3>. QED
      BY <3>1, <3>2 DEF Written!JNext
  <2>. QED
    BY <1>n, <2>1, <2>3, <2>4
<1>4. CASE FlushClears(t)
  <2>1. /\ pc[t] = "clear" /\ pc'[t] = ret[t]
        /\ \A s \in Threads : s # t => pc'[s] = pc[s]
        /\ logsBuffer' = <<>> /\ UNCHANGED <<fate, printed, logs>>
    BY <1>4, <1>t DEF FlushClears, At, Goto
  <2>2. ret[t] # "clear"
    BY <1>t, <2>1 DEF MutexInv, Flushing, Returns
  <2>3. \A s \in Threads : pc'[s] # "clear"
    BY <1>t, <2>1, <2>2, OneWriter
  <2>4. Unwritten' = <<>>
    BY <1>0, <1>t, <2>1, <2>3 DEF UnwrittenNow
  <2>. QED
    BY <1>g, <2>1, <2>4
<1>. QED
  BY <1>1, <1>2, <1>3, <1>4 DEF Flush

(* The control process's log implements the journal: whatever interleaves,  *)
(* throws or crashes, the table gets the entries in the order they were     *)
(* printed in, and none twice.                                              *)
THEOREM Refines ==
  Spec => JournalSpec
<1>. USE ThreadNames
<1>1. Init => Written!JInit
  BY DEF Init, FirstRun, Unwritten, Written!JInit
<1>2. IInv /\ IInv' /\ [Next]_vars => [Written!JNext]_<<printed, Unwritten, logs>>
  <2>. SUFFICES ASSUME IInv, IInv', [Next]_vars
                PROVE  [Written!JNext]_<<printed, Unwritten, logs>>
    OBVIOUS
  <2>0. UnwrittenNow /\ UnwrittenNow' /\ Types
    BY UnwrittenIs, UnwrittenThen DEF IInv
  <2>1. CASE Quiet \/ UNCHANGED vars
    <3>1. Quiet
      BY <2>1 DEF vars, logVars, flushVars, historyVars, Quiet, logState
    <3>. QED
      BY <3>1, QuietIsSilent
  <2>2. CASE Ends
    <3>1. UNCHANGED <<printed, logs>> /\ Unwritten' = <<>>
      BY <2>0, <2>2 DEF Ends, logState, UnwrittenNow
    <3>. QED
      BY <3>1 DEF Written!JNext, Written!GiveUp
  <2>3. CASE Start
    <3>1. /\ UNCHANGED <<printed, logs>> /\ logsBuffer' = <<>> /\ fate' = "up"
          /\ \A t \in Threads : pc'[t] # "clear"
      BY <2>3 DEF Start, FirstRun
    <3>2. Unwritten' = <<>>
      BY <2>0, <3>1 DEF UnwrittenNow
    <3>. QED
      BY <3>1, <3>2 DEF Written!JNext, Written!GiveUp
  <2>4. ASSUME NEW t \in Threads, Prints(t)
        PROVE  Written!JNext
    BY <2>4, PrintAccepts DEF Written!JNext
  <2>5. ASSUME NEW t \in Threads, Destroy(t, "done"), UNCHANGED first
        PROVE  UNCHANGED <<printed, Unwritten, logs>>
    <3>1. /\ UNCHANGED <<printed, logs, logsBuffer, inserting, fate>>
          /\ \A s \in Threads : pc'[s] = "clear" <=> pc[s] = "clear"
      <4>1. pc \in [Threads -> Labels]
        BY <2>0 DEF Types
      <4>. QED
        BY <2>5, <4>1 DEF Destroy, At, Goto, bufferVars
    <3>2. CASE fate = "up" /\ \A s \in Threads : pc[s] # "clear"
      BY <2>0, <3>1, <3>2 DEF UnwrittenNow
    <3>3. CASE fate = "up" /\ \E s \in Threads : pc[s] = "clear"
      BY <2>0, <3>1, <3>3 DEF UnwrittenNow
    <3>. QED
      BY <2>0, <2>5, <3>1, <3>2, <3>3 DEF Destroy, At
  <2>6. ASSUME NEW t \in Threads, Flush(t)
        PROVE  [Written!JNext]_<<printed, Unwritten, logs>>
    BY <2>6, FlushStoresOrGivesUp
  <2>. QED
    BY <2>0, <2>1, <2>2, <2>3, <2>4, <2>5, <2>6, Steps
<1>3. Spec => Written!JSpec
  BY <1>1, <1>2, Inductive, PTL DEF Spec, Written!JSpec, Written!jvars
<1>. QED
  BY <1>3 DEF JournalSpec
------------------------------------------------------------------------------
(***************************************************************************)
(* The three mutexes.                                                      *)
(***************************************************************************)

(* Between the truncation of the file and the end of its ofstream.          *)
SavingFile(t) ==
  pc[t] \in {"announce", "close"} \/ (pc[t] \in Flushing /\ ret[t] = "close")

(* SendLogsToDatabase called by "save", without Log::mutex.                 *)
SavesLogsOnly(t) == t = "console" /\ ret[t] = "loop"

(* Where each mutex is held, exactly, in a process that has ended too.      *)
LocksInv ==
  \A t \in Threads :
    /\ dbMutex = t <=> pc[t] \in {"commit", "clear"}
    /\ mutex = t <=> pc[t] \in Flushing /\ ~SavesLogsOnly(t)
    /\ settingsMutex = t <=> pc[t] \in {"compose", "copy"} \/ SavingFile(t)
    /\ pc[t] \in Flushing => ret[t] \in Returns

(* What a step of thread t has to establish.                                *)
LEMMA LocksOfOne ==
  ASSUME Types, LocksInv, NEW t \in Threads,
         \A u \in Threads \ {t} : pc'[u] = pc[u] /\ ret'[u] = ret[u],
         dbMutex' = dbMutex \/ (dbMutex \in {t, Nobody} /\ dbMutex' \in {t, Nobody}),
         mutex' = mutex \/ (mutex \in {t, Nobody} /\ mutex' \in {t, Nobody}),
         settingsMutex' = settingsMutex
           \/ (settingsMutex \in {t, Nobody} /\ settingsMutex' \in {t, Nobody}),
         dbMutex' = t <=> pc'[t] \in {"commit", "clear"},
         mutex' = t <=> pc'[t] \in Flushing /\ ~SavesLogsOnly(t)',
         settingsMutex' = t <=> pc'[t] \in {"compose", "copy"} \/ SavingFile(t)',
         pc'[t] \in Flushing => ret'[t] \in Returns
  PROVE  LocksInv'
<1>. SUFFICES ASSUME NEW u \in Threads, u # t
              PROVE  /\ dbMutex' = u <=> pc'[u] \in {"commit", "clear"}
                     /\ mutex' = u <=> pc'[u] \in Flushing /\ ~SavesLogsOnly(u)'
                     /\ settingsMutex' = u <=> pc'[u] \in {"compose", "copy"} \/ SavingFile(u)'
                     /\ pc'[u] \in Flushing => ret'[u] \in Returns
  BY DEF LocksInv
<1>1. /\ SavesLogsOnly(u)' <=> SavesLogsOnly(u)
      /\ SavingFile(u)' <=> SavingFile(u)
  BY DEF SavesLogsOnly, SavingFile
<1>2. /\ dbMutex' = u <=> dbMutex = u
      /\ mutex' = u <=> mutex = u
      /\ settingsMutex' = u <=> settingsMutex = u
  BY ThreadNames
<1>. QED
  BY <1>1, <1>2 DEF LocksInv

LEMMA LocksStep == Types /\ LocksInv /\ [Next]_vars => LocksInv'
<1>. SUFFICES ASSUME Types, LocksInv, [Next]_vars PROVE LocksInv'
  OBVIOUS
<1>. USE ThreadNames
<1>0. /\ pc \in [Threads -> Labels] /\ ret \in [Threads -> Labels \cup {"none"}]
  BY DEF Types
<1>u. ASSUME UNCHANGED <<pc, ret, mutex, dbMutex, settingsMutex>>
      PROVE  LocksInv'
  BY <1>u DEF LocksInv, SavingFile, SavesLogsOnly
(* A thread goes on outside of what the mutexes guard.                      *)
<1>q. ASSUME NEW t \in Threads, NEW label \in Labels, Goto(t, label),
             pc[t] \notin Flushing \cup {"compose", "copy", "announce", "close"},
             label \notin Flushing \cup {"compose", "copy", "announce", "close"},
             UNCHANGED <<ret, mutex, dbMutex, settingsMutex>>
      PROVE  LocksInv'
  BY <1>0, <1>q, LocksOfOne DEF Goto, LocksInv, SavingFile, SavesLogsOnly, Flushing
<1>p. ASSUME NEW t \in Threads, NEW next \in {"close", "stop running", "idle"},
             LogPrint(t, next), UNCHANGED settingsMutex,
             pc[t] \in {"announce", "sleep", "idle"},
             pc[t] = "announce" <=> next = "close"
      PROVE  LocksInv'
  <2>1. CASE PrintRaces
    BY <1>u, <1>p, <2>1 DEF PrintRaces, logVars, flushVars
  <2>2. CASE PrintAppends(t, next)
    <3>1. /\ mutex = Nobody /\ UNCHANGED dbMutex
          /\ \/ Goto(t, "flush") /\ mutex' = t /\ ret' = [ret EXCEPT ![t] = next]
             \/ Goto(t, next) /\ UNCHANGED <<mutex, ret>>
      BY <1>p, <2>2 DEF PrintAppends
    <3>2. \A u \in Threads \ {t} : pc'[u] = pc[u] /\ ret'[u] = ret[u]
      BY <1>0, <3>1 DEF Goto
    <3>3. dbMutex' = t <=> pc'[t] \in {"commit", "clear"}
      BY <1>0, <1>p, <3>1 DEF Goto, LocksInv
    <3>4. mutex' = t <=> pc'[t] \in Flushing /\ ~SavesLogsOnly(t)'
      <4>1. CASE Goto(t, next) /\ UNCHANGED <<mutex, ret>>
        BY <1>0, <1>p, <3>1, <4>1 DEF Goto, Flushing
      <4>2. CASE Goto(t, "flush") /\ mutex' = t /\ ret' = [ret EXCEPT ![t] = next]
        BY <1>0, <1>p, <4>2 DEF Goto, Flushing, SavesLogsOnly
      <4>. QED
        BY <3>1, <4>1, <4>2
    <3>5. settingsMutex' = t <=> pc'[t] \in {"compose", "copy"} \/ SavingFile(t)'
      BY <1>0, <1>p, <3>1 DEF Goto, LocksInv, Flushing, SavingFile
    <3>6. pc'[t] \in Flushing => ret'[t] \in Returns
      BY <1>0, <1>p, <3>1 DEF Goto, Flushing, Returns
    <3>. QED
      BY <1>p, <3>1, <3>2, <3>3, <3>4, <3>5, <3>6, LocksOfOne
  <2>. QED
    BY <1>p, <2>1, <2>2 DEF LogPrint
<1>f. ASSUME NEW t \in Threads, FlushStep(t)
      PROVE  LocksInv'
  <2>1. UNCHANGED settingsMutex
    BY <1>f DEF FlushStep, settingsVars
  <2>2. CASE FlushThrows(t)
    BY <1>u, <2>1, <2>2 DEF FlushThrows, flushVars
  <2>3. CASE FlushBegins(t)
    BY <1>0, <2>1, <2>3, LocksOfOne
    DEF FlushBegins, At, Goto, LocksInv, SavingFile, SavesLogsOnly, Flushing
  <2>4. CASE FlushCommits(t)
    BY <1>0, <2>1, <2>4, LocksOfOne
    DEF FlushCommits, At, Goto, LocksInv, SavingFile, SavesLogsOnly, Flushing, flushVars
  <2>5. CASE FlushClears(t)
    <3>1. pc[t] = "clear" /\ dbMutex = t /\ dbMutex' = Nobody /\ UNCHANGED ret
      BY <2>5 DEF FlushClears, At, LocksInv
    <3>2. ret[t] \in Returns
      BY <3>1 DEF LocksInv, Flushing
    <3>3. /\ pc'[t] = ret[t] /\ ret'[t] = ret[t]
          /\ \A u \in Threads \ {t} : pc'[u] = pc[u] /\ ret'[u] = ret[u]
          /\ mutex' = IF mutex = t THEN Nobody ELSE mutex
      BY <1>0, <2>5, <3>1 DEF FlushClears, Goto
    <3>4. dbMutex' = t <=> pc'[t] \in {"commit", "clear"}
      BY <3>1, <3>2, <3>3 DEF Returns
    <3>5. mutex' = t <=> pc'[t] \in Flushing /\ ~SavesLogsOnly(t)'
      BY <3>2, <3>3 DEF Returns, Flushing
    <3>6. settingsMutex = t <=> ret[t] = "close"
      BY <3>1 DEF LocksInv, SavingFile, Flushing
    <3>7. settingsMutex' = t <=> pc'[t] \in {"compose", "copy"} \/ SavingFile(t)'
      BY <2>1, <3>2, <3>3, <3>6 DEF Returns, Flushing, SavingFile
    <3>8. pc'[t] \in Flushing => ret'[t] \in Returns
      BY <3>2, <3>3
    <3>. QED
      BY <2>1, <3>1, <3>3, <3>4, <3>5, <3>7, <3>8, LocksOfOne
  <2>. QED
    BY <1>f, <2>2, <2>3, <2>4, <2>5 DEF FlushStep, Flush
<1>d. ASSUME NEW t \in Stoppers, StopDestroys(t)
      PROVE  LocksInv'
  BY <1>0, <1>d, LocksOfOne
  DEF StopDestroys, Destroy, At, Goto, LocksInv, SavingFile, SavesLogsOnly,
      Flushing, Returns, settingsVars
<1>s. ASSUME NEW t \in Threads, SaveSettings(t)
      PROVE  LocksInv'
  <2>1. CASE SaveBegins(t)
    BY <1>0, <2>1, LocksOfOne
    DEF SaveBegins, At, Goto, LocksInv, SavingFile, SavesLogsOnly, Flushing,
        logVars, flushVars
  <2>2. CASE SaveTruncates(t)
    BY <1>0, <2>2, LocksOfOne
    DEF SaveTruncates, At, Goto, LocksInv, SavingFile, SavesLogsOnly, Flushing,
        logVars, flushVars
  <2>3. CASE SaveAnnounces(t)
    BY <1>p, <2>3 DEF SaveAnnounces, At, settingsVars
  <2>4. CASE SaveCloses(t)
    <3>1. /\ pc[t] = "close" /\ settingsMutex = t /\ settingsMutex' = Nobody
          /\ UNCHANGED <<mutex, dbMutex>>
          /\ \A u \in Threads \ {t} : pc'[u] = pc[u] /\ ret'[u] = ret[u]
      BY <1>0, <2>4 DEF SaveCloses, At, Goto, LocksInv, SavingFile
    <3>2. \/ pc'[t] \in {"loop", "destroy"}
          \/ t = "console" /\ pc'[t] = "flush" /\ ret'[t] = "loop"
      BY <1>0, <2>4 DEF SaveCloses, Goto
    <3>3. mutex # t /\ dbMutex # t
      BY <3>1 DEF LocksInv, Flushing
    <3>4. dbMutex' = t <=> pc'[t] \in {"commit", "clear"}
      BY <3>1, <3>2, <3>3
    <3>5. mutex' = t <=> pc'[t] \in Flushing /\ ~SavesLogsOnly(t)'
      BY <3>1, <3>2, <3>3 DEF Flushing, SavesLogsOnly
    <3>6. settingsMutex' = t <=> pc'[t] \in {"compose", "copy"} \/ SavingFile(t)'
      BY <3>1, <3>2 DEF Flushing, SavingFile
    <3>7. pc'[t] \in Flushing => ret'[t] \in Returns
      BY <3>2 DEF Flushing, Returns
    <3>. QED
      BY <3>1, <3>4, <3>5, <3>6, <3>7, LocksOfOne
  <2>. QED
    BY <1>s, <2>1, <2>2, <2>3, <2>4 DEF SaveSettings
(* "stop": two threads go on, neither where a mutex is held.                *)
<1>t. CASE Stop
  <2>1. PICK t \in Stoppers :
          /\ pc[t] = "unborn" /\ pc["console"] = "process"
          /\ pc' = [pc EXCEPT ![t] = "sleep", !["console"] = "loop"]
          /\ UNCHANGED <<ret, mutex, dbMutex, settingsMutex>>
    BY <1>t DEF Stop, At, OnlyConsole, logVars, flushVars, settingsVars
  <2>2. ASSUME NEW u \in Threads
        PROVE  /\ pc'[u] \in {"commit", "clear"} <=> pc[u] \in {"commit", "clear"}
               /\ pc'[u] \in Flushing <=> pc[u] \in Flushing
               /\ pc'[u] \in {"compose", "copy"} <=> pc[u] \in {"compose", "copy"}
               /\ SavingFile(u)' <=> SavingFile(u)
               /\ SavesLogsOnly(u)' <=> SavesLogsOnly(u)
    <3>1. CASE u \in {t, "console"}
      BY <1>0, <2>1, <3>1 DEF Flushing, SavingFile, SavesLogsOnly
    <3>2. CASE u \notin {t, "console"}
      BY <1>0, <2>1, <3>2 DEF Flushing, SavingFile, SavesLogsOnly
    <3>. QED
      BY <3>1, <3>2
  <2>3. ASSUME NEW u \in Threads
        PROVE  /\ dbMutex' = u <=> pc'[u] \in {"commit", "clear"}
               /\ mutex' = u <=> pc'[u] \in Flushing /\ ~SavesLogsOnly(u)'
               /\ settingsMutex' = u <=> pc'[u] \in {"compose", "copy"} \/ SavingFile(u)'
               /\ pc'[u] \in Flushing => ret'[u] \in Returns
    BY <2>1, <2>2 DEF LocksInv
  <2>. QED
    BY <2>3 DEF LocksInv
<1>l. CASE ProcessLine
  <2>1. CASE ProcessSetting
    BY <1>q, <2>1 DEF ProcessSetting, At, Labels, logVars, flushVars, Flushing
  <2>2. CASE SettingRaces
    BY <1>u, <2>2 DEF SettingRaces, OnlyConsole, logVars, flushVars, settingsVars
  <2>3. CASE ProcessAnswers
    BY <1>q, <2>3
    DEF ProcessAnswers, At, OnlyConsole, Labels, logVars, flushVars, settingsVars, Flushing
  <2>4. CASE ProcessSave
    <3>1. /\ pc["console"] = "process" /\ pc'["console"] \in {"save settings", "flush"}
          /\ ret'["console"] = "loop" /\ UNCHANGED <<mutex, dbMutex, settingsMutex>>
          /\ \A u \in Threads \ {"console"} : pc'[u] = pc[u] /\ ret'[u] = ret[u]
      BY <1>0, <2>4 DEF ProcessSave, At, Goto, settingsVars
    <3>2. mutex # "console" /\ dbMutex # "console" /\ settingsMutex # "console"
      BY <3>1 DEF LocksInv, Flushing, SavingFile
    <3>3. /\ SavesLogsOnly("console")' /\ ~SavingFile("console")'
          /\ pc'["console"] \notin {"commit", "clear", "compose", "copy"}
          /\ ret'["console"] \in Returns
      BY <3>1 DEF Flushing, SavingFile, SavesLogsOnly, Returns
    <3>. QED
      BY <3>1, <3>2, <3>3, LocksOfOne
  <2>. QED
    BY <1>l, <1>t, <2>1, <2>2, <2>3, <2>4 DEF ProcessLine
<1>1. ASSUME NEW t \in Stoppers, StopperStep(t)
      PROVE  LocksInv'
  <2>1. CASE StopPrints(t)
    BY <1>p, <2>1 DEF StopPrints, At, settingsVars
  <2>2. CASE StopClearsRunning(t)
    BY <1>q, <2>2
    DEF StopClearsRunning, At, Labels, logVars, flushVars, settingsVars, Flushing
  <2>. QED
    BY <1>1, <1>d, <1>f, <1>s, <2>1, <2>2 DEF StopperStep, ThreadStep
<1>2. CASE ConsoleStep
  <2>1. CASE ConsoleLoops
    BY <1>q, <2>1
    DEF ConsoleLoops, At, OnlyConsole, Labels, logVars, flushVars, settingsVars, Flushing
  <2>. QED
    BY <1>2, <1>f, <1>l, <1>s, <2>1 DEF ConsoleStep, ThreadStep
<1>3. CASE EnterLine \/ EnterAfterStop
  BY <1>q, <1>3
  DEF EnterLine, EnterAfterStop, At, OnlyConsole, Labels, logVars, flushVars,
      settingsVars, Flushing
(* GetSettings takes the settings' mutex and gives it back.                 *)
<1>g. ASSUME ServicesGet \/ (At("services", "copy") /\ settingsMutex' = Nobody
                              /\ Goto("services", "idle") /\ UNCHANGED logVars)
      PROVE  LocksInv'
  BY <1>0, <1>g, LocksOfOne
  DEF ServicesGet, At, Goto, LocksInv, SavingFile, SavesLogsOnly, Flushing,
      logVars, flushVars
<1>4. CASE ServicesStep
  <2>1. CASE ServicesLeave
    BY <1>q, <2>1 DEF ServicesLeave, At, Labels, logVars, flushVars, settingsVars, Flushing
  <2>2. CASE ServicesGot
    BY <1>g, <2>2 DEF ServicesGot
  <2>. QED
    BY <1>4, <1>f, <2>1, <2>2 DEF ServicesStep
<1>5. CASE ServicesPrint
  BY <1>p, <1>5 DEF ServicesPrint, At, settingsVars
<1>6. CASE MainReturns \/ Crash \/ StartThrows \/ UNCHANGED vars
  BY <1>u, <1>6
  DEF MainReturns, Crash, StartThrows, vars, logVars, flushVars, settingsVars
<1>7. CASE Start
  BY <1>7 DEF Start, FirstRun, LocksInv, SavingFile, SavesLogsOnly, Flushing
<1>. QED
  BY <1>1, <1>2, <1>3, <1>4, <1>5, <1>6, <1>7, <1>g DEF Next

(* The mutexes stay where LocksInv says they are.                           *)
LEMMA LocksAlways == Spec => [](Types /\ LocksInv)
<1>1. Init => LocksInv
  BY ThreadNames DEF Init, FirstRun, LocksInv, SavingFile, SavesLogsOnly, Flushing
<1>2. Types /\ LocksInv /\ [Next]_vars => LocksInv'
  BY LocksStep
<1>3. IInv => Types
  BY DEF IInv
<1>. QED
  BY <1>1, <1>2, <1>3, Inductive, PTL DEF Spec

(* The type invariant: in particular a thread always returns from a flush   *)
(* to a place of its own, the buffer's limit is an int, and one thread at a *)
(* time inserts or clears, with dbMutex held.                               *)
THEOREM TypeCorrect ==
  Spec => []TypeOK
<1>1. Types /\ LocksInv => TypeOK
  BY DEF TypeOK, LocksInv, Writing
<1>. QED
  BY <1>1, LocksAlways, PTL

(* The threads that hold a mutex, and those that wait for one.              *)
Holders == {mutex, dbMutex, settingsMutex} \ {Nobody}

WaitsForMutex(t) ==
  \/ pc[t] = "announce" /\ mutex # Nobody
  \/ pc[t] = "flush" /\ dbMutex # Nobody

(* Of the threads that hold a mutex one does not wait for another mutex.     *)
NoLockCycle == Holders # {} => \E t \in Holders : ~WaitsForMutex(t)

(* The control process's threads cannot wait for each other in a circle:    *)
(* SaveSettings prints, and printing stores, with mutexes held, but always  *)
(* AdvancedSettingsManager::mutex before Log::mutex before Log::dbMutex.    *)
THEOREM NoCircularWait == Spec => []NoLockCycle
<1>. USE ThreadNames
<1>1. Types /\ LocksInv => NoLockCycle
  <2>. SUFFICES ASSUME Types, LocksInv, Holders # {}
                PROVE  \E t \in Holders : ~WaitsForMutex(t)
    BY DEF NoLockCycle
  <2>0. Nobody \notin Threads
    BY ConsoleAssumption DEF Nobody
  <2>1. CASE dbMutex # Nobody
    <3>1. dbMutex \in Threads /\ dbMutex \in Holders
      BY <2>1 DEF Types, Owners, Holders
    <3>2. pc[dbMutex] \in {"commit", "clear"}
      BY <3>1 DEF LocksInv
    <3>. QED
      BY <3>1, <3>2 DEF WaitsForMutex
  <2>2. CASE dbMutex = Nobody /\ mutex # Nobody
    <3>1. mutex \in Threads /\ mutex \in Holders
      BY <2>2 DEF Types, Owners, Holders
    <3>2. pc[mutex] \in Flushing
      BY <3>1 DEF LocksInv
    <3>. QED
      BY <2>2, <3>1, <3>2 DEF WaitsForMutex, Flushing
  <2>3. CASE dbMutex = Nobody /\ mutex = Nobody
    <3>1. PICK t \in Holders : TRUE
      OBVIOUS
    <3>. QED
      BY <2>3, <3>1 DEF WaitsForMutex
  <2>. QED
    BY <2>1, <2>2, <2>3
<1>. QED
  BY <1>1, LocksAlways, PTL

(* A file that has been truncated and not written is being saved, or was   *)
(* when the process ended.                                                  *)
TruncatedOnlySaving ==
  text = "none" => \E t \in Threads : settingsMutex = t /\ SavingFile(t)

Copies == {"compose", "copy"}

(* What composes or writes the file, and what leaves it alone.              *)
LEMMA FileSteps ==
  ASSUME Types, LocksInv, [Next]_vars
  PROVE  \/ \E t \in Threads : SaveBegins(t) \/ SaveTruncates(t) \/ SaveCloses(t)
         \/ Start \/ ServicesGet \/ ServicesGot
         \/ /\ UNCHANGED <<settingsMutex, text>>
            /\ \A t \in Threads : pc'[t] \in Copies => pc[t] \in Copies
<1>. USE ThreadNames
<1>. DEFINE Keeps == /\ UNCHANGED <<settingsMutex, text>>
                    /\ \A t \in Threads : pc'[t] \in Copies => pc[t] \in Copies
<1>. USE DEF Copies
<1>0. pc \in [Threads -> Labels]
  BY DEF Types
<1>p. ASSUME NEW t \in Threads, NEW next \in {"close", "stop running", "idle"},
             LogPrint(t, next), UNCHANGED settingsVars
      PROVE  Keeps
  BY <1>0, <1>p DEF LogPrint, PrintAppends, PrintRaces, Goto, settingsVars, fileVars
<1>f. ASSUME NEW t \in Threads, FlushStep(t)
      PROVE  Keeps
  <2>1. ret[t] \in Returns \/ pc[t] \notin Flushing
    BY DEF LocksInv
  <2>. QED
    BY <1>0, <1>f, <2>1
    DEF FlushStep, Flush, FlushBegins, FlushCommits, FlushThrows, FlushClears, At,
        Goto, settingsVars, fileVars, Flushing, Returns
<1>1. ASSUME NEW t \in Stoppers, StopPrints(t) \/ StopClearsRunning(t) \/ StopDestroys(t)
      PROVE  Keeps
  <2>1. CASE StopPrints(t)
    BY <1>p, <2>1 DEF StopPrints
  <2>. QED
    BY <1>0, <1>1, <2>1
    DEF StopClearsRunning, StopDestroys, Destroy, At, Goto, settingsVars, fileVars
<1>2. ASSUME NEW t \in Threads, SaveAnnounces(t)
      PROVE  Keeps
  BY <1>2, <1>p DEF SaveAnnounces
<1>3. CASE ConsoleLoops \/ EnterLine \/ EnterAfterStop \/ ServicesLeave
  BY <1>0, <1>3
  DEF ConsoleLoops, EnterLine, EnterAfterStop, ServicesLeave, At, Goto, OnlyConsole,
      settingsVars, fileVars
<1>4. CASE ServicesPrint
  BY <1>p, <1>4 DEF ServicesPrint
<1>5. CASE ProcessLine
  BY <1>0, <1>5
  DEF ProcessLine, Stop, ProcessSetting, SettingRaces, ProcessSave, ProcessAnswers,
      At, Goto, OnlyConsole, settingsVars, fileVars
<1>6. CASE MainReturns \/ Crash \/ StartThrows \/ UNCHANGED vars
  BY <1>6 DEF MainReturns, Crash, StartThrows, vars, settingsVars, fileVars
<1>. QED
  BY <1>f, <1>1, <1>2, <1>3, <1>4, <1>5, <1>6
  DEF Next, StopperStep, ThreadStep, SaveSettings, ConsoleStep, ServicesStep

(* config.json is truncated and not written only while one thread is        *)
(* between the two, with the mutex held, or because a run of the process    *)
(* ended there.  That and a write that failed are what makes a start throw. *)
THEOREM TruncatedOnlyMidSave == Spec => []TruncatedOnlySaving
<1>. USE ThreadNames
<1>1. Init => TruncatedOnlySaving
  BY DEF Init, TruncatedOnlySaving
<1>2. /\ Types /\ LocksInv /\ LocksInv' /\ TruncatedOnlySaving /\ [Next]_vars
      => TruncatedOnlySaving'
  <2>. SUFFICES ASSUME Types, LocksInv, LocksInv', TruncatedOnlySaving, [Next]_vars,
                       text' = "none"
                PROVE  \E t \in Threads : (settingsMutex = t)' /\ SavingFile(t)'
    BY DEF TruncatedOnlySaving
  <2>n. Nobody \notin Threads
    BY ConsoleAssumption DEF Nobody
  <2>1. CASE \E t \in Threads : SaveTruncates(t)
    <3>1. PICK t \in Threads : SaveTruncates(t)
      BY <2>1
    <3>2. pc'[t] = "announce"
      BY <3>1 DEF SaveTruncates, Goto, Types
    <3>. QED
      BY <3>2 DEF LocksInv, SavingFile
  <2>2. CASE /\ UNCHANGED <<settingsMutex, text>>
             /\ \A t \in Threads : pc'[t] \in Copies => pc[t] \in Copies
    <3>1. PICK t \in Threads : settingsMutex = t /\ SavingFile(t)
      BY <2>2 DEF TruncatedOnlySaving
    <3>2. pc[t] \notin Copies
      BY <3>1 DEF SavingFile, Flushing, Copies
    <3>3. pc'[t] \in Copies \/ SavingFile(t)'
      BY <2>2, <3>1 DEF LocksInv, Copies
    <3>. QED
      BY <2>2, <3>1, <3>2, <3>3
  <2>3. ASSUME NEW t \in Threads, SaveBegins(t)
        PROVE  FALSE
    BY <2>n, <2>3 DEF SaveBegins, fileVars, TruncatedOnlySaving
  <2>4. ~Start
    BY DEF Start, fileVars
  <2>5. ASSUME NEW t \in Threads, SaveCloses(t)
        PROVE  FALSE
    BY <2>5 DEF SaveCloses, FileClosed, fileVars
  <2>6. ~ServicesGet
    BY <2>n DEF ServicesGet, fileVars, TruncatedOnlySaving
  <2>7. CASE ServicesGot
    <3>1. PICK t \in Threads : settingsMutex = t /\ SavingFile(t)
      BY <2>7 DEF ServicesGot, fileVars, TruncatedOnlySaving
    <3>2. pc["services"] = "copy" /\ settingsMutex = "services"
      BY <2>7 DEF ServicesGot, At, LocksInv
    <3>. QED
      BY <3>1, <3>2 DEF SavingFile, Flushing
  <2>. QED
    BY <2>1, <2>2, <2>3, <2>4, <2>5, <2>6, <2>7, FileSteps
<1>. QED
  BY <1>1, <1>2, LocksAlways, PTL DEF Spec

(* The only writing that Log::mutex does not keep prints away from.         *)
LEMMA WritingUnlocked ==
  ASSUME LocksInv, mutex = Nobody, Writing # {}
  PROVE  pc["console"] \in {"commit", "clear"} /\ ret["console"] = "loop"
<1>1. PICK t \in Threads : pc[t] \in {"commit", "clear"}
  BY DEF Writing
<1>2. mutex # t /\ pc[t] \in Flushing
  BY <1>1, ThreadNames DEF Flushing
<1>. QED
  BY <1>1, <1>2 DEF LocksInv, SavesLogsOnly

(* What `save' may lose is printed while `save' writes.                      *)
OnlySaveExposes ==
  [][exposed' # exposed =>
       pc["console"] \in {"commit", "clear"} /\ ret["console"] = "loop"]_vars

(* An entry is printed onto a buffer that is being written only while the   *)
(* command "save" writes it: prints that fill the buffer, Stop and the      *)
(* ends of runs never let another print in.                                 *)
THEOREM ExposedBySave == Spec => OnlySaveExposes
<1>1. Types /\ LocksInv /\ [Next]_vars =>
        [exposed' # exposed =>
           pc["console"] \in {"commit", "clear"} /\ ret["console"] = "loop"]_vars
  <2>. SUFFICES ASSUME Types, LocksInv, Next, exposed' # exposed
                PROVE  pc["console"] \in {"commit", "clear"} /\ ret["console"] = "loop"
    OBVIOUS
  <2>1. ~Quiet /\ ~Ends /\ ~Start
    BY DEF Quiet, Ends, Start, logState
  <2>2. ASSUME NEW t \in Threads
        PROVE  ~Destroy(t, "done") /\ ~Flush(t)
    BY DEF Destroy, Flush, FlushBegins, FlushCommits, FlushThrows, FlushClears
  <2>3. PICK t \in Threads : Prints(t)
    BY <2>1, <2>2, Steps
  <2>4. mutex = Nobody /\ Writing # {}
    BY <2>3 DEF Prints, PrintAppends, PushBack
  <2>. QED
    BY <2>4, WritingUnlocked
<1>. QED
  BY <1>1, LocksAlways, PTL DEF Spec, OnlySaveExposes
==============================================================================
