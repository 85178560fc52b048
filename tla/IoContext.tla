------------------------------ MODULE IoContext ------------------------------
(***************************************************************************)
(* boost::asio::io_context as ClientHandler and NetworkClient use it.      *)
(* Threads lend themselves to it in run(), which executes the handlers of  *)
(* operations that have completed.  When no operation is pending and no    *)
(* handler is executing the context stops: run() returns in every thread,  *)
(* and since nobody calls restart() it returns at once ever after.         *)
(***************************************************************************)
EXTENDS Naturals

CONSTANT Runners  (* the threads that call run() *)

VARIABLES
  stopped,
  pending,   (* operations started whose handler may still be called *)
  inRun,     (* the threads that called run() and have not left it   *)
  handling   (* handling[r]: the operation whose handler r executes  *)

ioVars == <<stopped, pending, inRun, handling>>

Idle == <<"idle">>

IoInit ==
  /\ stopped = FALSE
  /\ pending = {}
  /\ inRun = {}
  /\ handling = [r \in Runners |-> Idle]

OutOfWork(ops, handlers) == ops = {} /\ \A r \in Runners : handlers[r] = Idle

\* What is started on a stopped context is never handled.
With(ops) == IF stopped THEN pending ELSE pending \cup ops

Post(ops) ==
  /\ pending' = With(ops)
  /\ UNCHANGED <<stopped, inRun, handling>>

\* Thread r starts operations and calls run(), which has nothing to wait for
\* if the context is stopped, and stops it if there is nothing to do.
PostAndRun(r, ops) ==
  /\ pending' = With(ops)
  /\ stopped' = (stopped \/ OutOfWork(pending', handling))
  /\ inRun' = inRun \cup {r}
  /\ UNCHANGED handling

LeaveRun(r) ==
  /\ stopped /\ r \in inRun /\ handling[r] = Idle
  /\ inRun' = inRun \ {r}
  /\ UNCHANGED <<stopped, pending, handling>>

CanHandle(r, op) ==
  ~stopped /\ r \in inRun /\ handling[r] = Idle /\ op \in pending

BeginHandler(r, op) ==
  /\ CanHandle(r, op)
  /\ pending' = pending \ {op}
  /\ handling' = [handling EXCEPT ![r] = op]
  /\ UNCHANGED <<stopped, inRun>>

EndHandler(r) ==
  /\ handling' = [handling EXCEPT ![r] = Idle]
  /\ stopped' = (stopped \/ OutOfWork(pending, handling'))
  /\ UNCHANGED <<pending, inRun>>

\* A handler that waits for nothing, and the operations it starts.
Handle(r, op, started) ==
  /\ CanHandle(r, op)
  /\ pending' = (pending \ {op}) \cup started
  /\ stopped' = OutOfWork(pending', handling)
  /\ UNCHANGED <<inRun, handling>>

StopContext ==
  /\ stopped' = TRUE
  /\ UNCHANGED <<pending, inRun, handling>>

IoTypeOK(Ops) ==
  /\ stopped \in BOOLEAN
  /\ pending \subseteq Ops
  /\ inRun \subseteq Runners
  /\ handling \in [Runners -> Ops \cup {Idle}]
==============================================================================
