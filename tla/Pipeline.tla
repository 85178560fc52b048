------------------------------ MODULE Pipeline ------------------------------
(***************************************************************************)
(* The process and the send thread that auth's ClientHandler               *)
(* (src/server/auth/ClientHandler.cpp, ProcessData and SendData) and the   *)
(* game's NetworkClient (src/client/network/NetworkClient.cpp) both have,  *)
(* with their three queues.                                                *)
(*                                                                         *)
(* A condition variable is the label "asleep"; whoever notifies it moves   *)
(* the thread to "woken", where it tests its predicate again.              *)
(***************************************************************************)
EXTENDS Sequences

VARIABLES
  running,
  receiveBuffer, processBuffer, sendBuffer,
  ppc,    (* the process thread *)
  pdata,  (* what it has taken  *)
  spc,    (* the send thread    *)
  sdata

pipeVars == <<running, receiveBuffer, processBuffer, sendBuffer,
              ppc, pdata, spc, sdata>>

NoData == "no data"

PipeInit(start) ==
  /\ running = TRUE
  /\ receiveBuffer = <<>> /\ processBuffer = <<>> /\ sendBuffer = <<>>
  /\ ppc = start /\ pdata = NoData
  /\ spc = start /\ sdata = NoData

\* notify_one, for the thread and wait it can find.
Notified(at, wait, woken) == IF at = wait THEN woken ELSE at

\* Mutant: the process thread is not told.
ReceiveSilent(data) ==
  /\ receiveBuffer' = Append(receiveBuffer, data)
  /\ UNCHANGED <<running, processBuffer, sendBuffer, ppc, pdata, spc, sdata>>

\* What the handler of a read does.
Receive(data) ==
  /\ receiveBuffer' = Append(receiveBuffer, data)
  /\ ppc' = Notified(ppc, "asleep", "woken")
  /\ UNCHANGED <<running, processBuffer, sendBuffer, pdata, spc, sdata>>

OnlyProcess == UNCHANGED <<running, sendBuffer, sdata>>

\* Mutant: wait_for instead of wait, so that a stop is noticed.
ProcessPolls ==
  /\ (ppc = "test" /\ running) \/ ppc = "woken" \/ (ppc = "asleep" /\ ~running)
  /\ ppc' = IF receiveBuffer # <<>> THEN "drain"
            ELSE IF running THEN "asleep" ELSE "gone"
  /\ OnlyProcess /\ UNCHANGED <<receiveBuffer, processBuffer, pdata, spc>>

\* With nothing to do the thread sleeps, or finds the loop's condition
\* false.
ProcessLoops ==
  /\ (ppc = "test" /\ running) \/ ppc = "woken"
  /\ ppc' = IF receiveBuffer # <<>> THEN "drain"
            ELSE IF running THEN "asleep" ELSE "gone"
  /\ OnlyProcess /\ UNCHANGED <<receiveBuffer, processBuffer, pdata, spc>>

ProcessTakes ==
  /\ ppc = "drain"
  /\ IF receiveBuffer = <<>>
     THEN /\ ppc' = "test"
          /\ UNCHANGED <<receiveBuffer, pdata>>
     ELSE /\ pdata' = Head(receiveBuffer)
          /\ receiveBuffer' = Tail(receiveBuffer)
          /\ ppc' = "push"
  /\ OnlyProcess /\ UNCHANGED <<processBuffer, spc>>

\* SendData still holds processBufferMutex while it empties sendBuffer.
HoldsProcessBuffer == {"drain", "test2", "asleep2", "woken2", "drain2", "write"}

ProcessPushes ==
  /\ ppc = "push" /\ spc \notin HoldsProcessBuffer
  /\ processBuffer' = Append(processBuffer, pdata)
  /\ pdata' = NoData
  /\ spc' = Notified(spc, "asleep", "woken")
  /\ ppc' = "drain"
  /\ OnlyProcess /\ UNCHANGED receiveBuffer

ProcessLeaves ==
  /\ ppc = "test" /\ ~running
  /\ ppc' = "gone"
  /\ OnlyProcess /\ UNCHANGED <<receiveBuffer, processBuffer, pdata, spc>>

ProcessStep == ProcessLoops \/ ProcessTakes \/ ProcessPushes \/ ProcessLeaves

OnlySend == UNCHANGED <<running, receiveBuffer, ppc, pdata>>

\* Mutant: the wait has no predicate.
SendLoopsOnce ==
  /\ (spc = "test" /\ running) \/ spc = "woken"
  /\ spc' = IF spc = "test" THEN "asleep" ELSE "drain"
  /\ OnlySend /\ UNCHANGED <<processBuffer, sendBuffer, sdata>>

SendLoops ==
  /\ (spc = "test" /\ running) \/ spc = "woken"
  /\ spc' = IF processBuffer # <<>> THEN "drain"
            ELSE IF running THEN "asleep" ELSE "test2"
  /\ OnlySend /\ UNCHANGED <<processBuffer, sendBuffer, sdata>>

SendTakes ==
  /\ spc = "drain"
  /\ IF processBuffer = <<>>
     THEN /\ spc' = "test2"
          /\ UNCHANGED <<processBuffer, sdata>>
     ELSE /\ sdata' = Head(processBuffer)
          /\ processBuffer' = Tail(processBuffer)
          /\ spc' = "push"
  /\ OnlySend /\ UNCHANGED sendBuffer

SendPushes ==
  /\ spc = "push"
  /\ sendBuffer' = Append(sendBuffer, sdata)
  /\ sdata' = NoData
  /\ spc' = "drain"
  /\ OnlySend /\ UNCHANGED processBuffer

SendWaits ==
  /\ spc \in {"test2", "woken2"}
  /\ spc' = IF sendBuffer = <<>> /\ running THEN "asleep2" ELSE "drain2"
  /\ OnlySend /\ UNCHANGED <<processBuffer, sendBuffer, sdata>>

SendPicks ==
  /\ spc = "drain2"
  /\ IF sendBuffer = <<>>
     THEN /\ spc' = "test"
          /\ UNCHANGED <<sendBuffer, sdata>>
     ELSE /\ sdata' = Head(sendBuffer)
          /\ sendBuffer' = Tail(sendBuffer)
          /\ spc' = "write"
  /\ OnlySend /\ UNCHANGED processBuffer

\* Where the data goes is for the module that uses this one.
SendWrites ==
  /\ spc = "write"
  /\ sdata' = NoData
  /\ spc' = "drain2"
  /\ OnlySend /\ UNCHANGED <<processBuffer, sendBuffer>>

SendLeaves ==
  /\ spc = "test" /\ ~running
  /\ spc' = "gone"
  /\ OnlySend /\ UNCHANGED <<processBuffer, sendBuffer, sdata>>

\* Without the write itself.
SendStep ==
  SendLoops \/ SendTakes \/ SendPushes \/ SendWaits \/ SendPicks \/ SendLeaves

SpuriousWakeup ==
  /\ \/ ppc = "asleep" /\ ppc' = "woken" /\ UNCHANGED spc
     \/ spc = "asleep" /\ spc' = "woken" /\ UNCHANGED ppc
  /\ UNCHANGED <<running, receiveBuffer, processBuffer, sendBuffer, pdata, sdata>>

\* NetworkClient::SendMessage.
SendMessage(data) ==
  /\ sendBuffer' = Append(sendBuffer, data)
  /\ spc' = Notified(spc, "asleep2", "woken2")
  /\ UNCHANGED <<running, receiveBuffer, processBuffer, ppc, pdata, sdata>>

ClearRunning ==
  /\ running' = FALSE
  /\ UNCHANGED <<receiveBuffer, processBuffer, sendBuffer, ppc, pdata, spc, sdata>>

PipeTypeOK(Data) ==
  /\ running \in BOOLEAN
  /\ receiveBuffer \in Seq(Data) /\ processBuffer \in Seq(Data)
  /\ sendBuffer \in Seq(Data)
  /\ pdata \in Data \cup {NoData} /\ sdata \in Data \cup {NoData}
  /\ ppc \in {"none", "test", "asleep", "woken", "drain", "push", "gone"}
  /\ spc \in {"none", "test", "asleep", "woken", "push", "gone"} \cup HoldsProcessBuffer
==============================================================================
