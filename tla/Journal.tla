------------------------------- MODULE Journal -------------------------------
(***************************************************************************)
(* What a buffered log promises, without threads, mutexes or a database:   *)
(* entries are accepted in order, some prefix of what is pending is stored *)
(* at a time, and what is pending may be given up, all of it at once.  So  *)
(* the store never holds an entry twice, nor two entries out of order.     *)
(***************************************************************************)
EXTENDS Naturals, Sequences

VARIABLES
  accepted,  (* how many entries have been accepted: their numbers are 1.. *)
  pending,   (* those kept in memory, oldest first                         *)
  stored     (* those written, oldest first                                *)

jvars == <<accepted, pending, stored>>

JInit == accepted = 0 /\ pending = <<>> /\ stored = <<>>

Accept ==
  /\ accepted' = accepted + 1
  /\ pending' = Append(pending, accepted')
  /\ UNCHANGED stored

\* The rest of what was pending may be given up in the same step.
Store(n) ==
  /\ stored' = stored \o SubSeq(pending, 1, n)
  /\ pending' \in {<<>>, SubSeq(pending, n + 1, Len(pending))}
  /\ UNCHANGED accepted

GiveUp ==
  /\ pending' = <<>>
  /\ UNCHANGED <<accepted, stored>>

JNext ==
  \/ Accept
  \/ \E n \in 1 .. Len(pending) : Store(n)
  \/ GiveUp

JSpec == JInit /\ [][JNext]_jvars
==============================================================================
