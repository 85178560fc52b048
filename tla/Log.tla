--------------------------------- MODULE Log ---------------------------------
(***************************************************************************)
(* The control process's log (src/server/control/Log.cpp): Print,          *)
(* SendLogsToDatabase and Destroy, as steps of the thread that calls them. *)
(* The module that extends this one says where threads call them; here a   *)
(* thread is handed the place it goes on at.                               *)
(*                                                                         *)
(* SendLogsToDatabase takes dbMutex only.  Print and Destroy call it with  *)
(* `mutex' held; the command "save" calls it without.  Entries are numbers *)
(* in the order they were printed in.                                      *)
(***************************************************************************)
EXTENDS Integers, Sequences

CONSTANT Threads

VARIABLES
  fate,       (* "up", or how the process ended                          *)
  pc,         (* pc[t]: where thread t is                                *)
  ret,        (* ret[t]: where it goes on after SendLogsToDatabase       *)
  mutex,      (* the thread that holds Log::mutex, or Nobody             *)
  dbMutex,
  logsBuffer,
  maxLogBufferSize,
  inserting,  (* inserting[t]: the entries its transaction has inserted  *)
  logs,       (* the table in the database                               *)
  printed,    (* entries printed so far, over all runs of the process    *)
  exposed     (* history: those printed while a "save" was writing       *)

bufferVars == <<logsBuffer, maxLogBufferSize>>
flushVars  == <<ret, dbMutex, inserting>>
logVars    == <<mutex, bufferVars, flushVars, logs, printed, exposed>>

Nobody == "nobody"

Goto(t, label) == pc' = [pc EXCEPT ![t] = label]

At(t, label) == fate = "up" /\ pc[t] = label

EntriesFrom(seq) == {seq[k] : k \in 1 .. Len(seq)}

\* A thread is between the first insert and the end of clear().
Writing == {t \in Threads : pc[t] \in {"commit", "clear"}}

\* size() is compared as unsigned: a negative limit is never reached.
Full(buffer) == maxLogBufferSize >= 0 /\ Len(buffer) >= maxLogBufferSize

PushBack ==
  /\ printed' = printed + 1
  /\ logsBuffer' = Append(logsBuffer, printed')
  /\ exposed' = IF Writing = {} THEN exposed ELSE exposed \cup {printed'}

\* Print, up to the point where it needs dbMutex.
PrintAppends(t, next) ==
  /\ fate = "up" /\ mutex = Nobody
  /\ PushBack
  /\ IF Full(logsBuffer')
     THEN /\ Goto(t, "flush")
          /\ mutex' = t /\ ret' = [ret EXCEPT ![t] = next]
     ELSE /\ Goto(t, next)
          /\ UNCHANGED <<mutex, ret>>
  /\ UNCHANGED <<fate, dbMutex, inserting, maxLogBufferSize, logs>>

\* push_back on the vector that a "save" iterates or clears is a data race:
\* the outcome may also be an access to memory that was freed.
PrintRaces ==
  /\ fate = "up" /\ mutex = Nobody
  /\ Writing # {}
  /\ fate' = "undefined"
  /\ UNCHANGED <<pc, logVars>>

LogPrint(t, next) == PrintAppends(t, next) \/ PrintRaces

\* Mutant: the last entry is left out of the transaction.
FlushBeginsShort(t) ==
  /\ At(t, "flush") /\ dbMutex = Nobody
  /\ dbMutex' = t
  /\ inserting' = [inserting EXCEPT ![t] = SubSeq(logsBuffer, 1, Len(logsBuffer) - 1)]
  /\ Goto(t, "commit")
  /\ UNCHANGED <<fate, mutex, bufferVars, ret, logs, printed, exposed>>

\* Mutant: SendLogsToDatabase takes no mutex of its own.
FlushBeginsUnlocked(t) ==
  /\ At(t, "flush")
  /\ dbMutex' = t
  /\ inserting' = [inserting EXCEPT ![t] = logsBuffer]
  /\ Goto(t, "commit")
  /\ UNCHANGED <<fate, mutex, bufferVars, ret, logs, printed, exposed>>

FlushBegins(t) ==
  /\ At(t, "flush") /\ dbMutex = Nobody
  /\ dbMutex' = t
  /\ inserting' = [inserting EXCEPT ![t] = logsBuffer]
  /\ Goto(t, "commit")
  /\ UNCHANGED <<fate, mutex, bufferVars, ret, logs, printed, exposed>>

FlushCommits(t) ==
  /\ At(t, "commit")
  /\ logs' = logs \o inserting[t]
  /\ Goto(t, "clear")
  /\ UNCHANGED <<fate, mutex, bufferVars, flushVars, printed, exposed>>

\* pqxx throws and nothing catches it.  The connection may have broken
\* before or after the database committed.
FlushThrows(t) ==
  /\ At(t, "commit")
  /\ fate' = "terminated"
  /\ logs' \in {logs, logs \o inserting[t]}
  /\ UNCHANGED <<pc, mutex, bufferVars, flushVars, printed, exposed>>

FlushClears(t) ==
  /\ At(t, "clear")
  /\ logsBuffer' = <<>>
  /\ dbMutex' = Nobody
  /\ mutex' = IF mutex = t THEN Nobody ELSE mutex
  /\ inserting' = [inserting EXCEPT ![t] = <<>>]
  /\ Goto(t, ret[t])
  /\ UNCHANGED <<fate, maxLogBufferSize, ret, logs, printed, exposed>>

Flush(t) ==
  FlushBegins(t) \/ FlushCommits(t) \/ FlushThrows(t) \/ FlushClears(t)

\* Mutant: Destroy does not send what is left.
DestroySendsNothing(t, next) ==
  /\ At(t, "destroy") /\ mutex = Nobody
  /\ Goto(t, next)
  /\ UNCHANGED <<fate, logVars>>

Destroy(t, next) ==
  /\ At(t, "destroy") /\ mutex = Nobody
  /\ mutex' = t
  /\ ret' = [ret EXCEPT ![t] = next]
  /\ Goto(t, "flush")
  /\ UNCHANGED <<fate, dbMutex, inserting, bufferVars, logs, printed, exposed>>
==============================================================================
