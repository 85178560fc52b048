------------------------------- MODULE Mailbox -------------------------------
(***************************************************************************)
(* What ServiceLink's outgoing side promises, without threads, mutexes or  *)
(* sockets.  Messages for a service are put in its queue (SendData) and    *)
(* leave it in order, one at a time, either into the hands of the process  *)
(* behind one connection or, when that process is gone, into nothing.  A   *)
(* message that has left its queue never comes back, so no message is      *)
(* delivered twice and none overtakes another of the same service.         *)
(***************************************************************************)
EXTENDS Sequences

CONSTANTS
  Services,   (* the ids of the services that have a queue   *)
  Receivers,  (* the connections a message can leave through *)
  Payloads    (* the messages                                *)

VARIABLES
  pending,    (* pending[s]: messages accepted for service s, oldest first *)
  received    (* received[c]: what the process behind c has been given     *)

mvars == <<pending, received>>

MInit ==
  /\ pending = [s \in Services |-> <<>>]
  /\ received = [c \in Receivers |-> <<>>]

Enqueue(s, m) ==
  /\ pending' = [pending EXCEPT ![s] = Append(@, m)]
  /\ UNCHANGED received

Lose(s) ==
  /\ pending[s] # <<>>
  /\ pending' = [pending EXCEPT ![s] = Tail(@)]
  /\ UNCHANGED received

Deliver(s, c) ==
  /\ pending[s] # <<>>
  /\ pending' = [pending EXCEPT ![s] = Tail(@)]
  /\ received' = [received EXCEPT ![c] = Append(@, Head(pending[s]))]

MNext ==
  \E s \in Services :
    \/ \E m \in Payloads : Enqueue(s, m)
    \/ Lose(s)
    \/ \E c \in Receivers : Deliver(s, c)

MSpec == MInit /\ [][MNext]_mvars
==============================================================================
