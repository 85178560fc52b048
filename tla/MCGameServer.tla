---------------------------- MODULE MCGameServer ----------------------------
(***************************************************************************)
(* GameServer with clients of which a makes any request, b sends messages  *)
(* only, and c connects and leaves.                                        *)
(***************************************************************************)
EXTENDS GameServer

CONSTANTS a, b, c

MCKinds ==
  [x \in Clients |-> CASE x = a -> {"r", "l", "s", "c", "other"}
                       [] x = b -> {"s"}
                       [] x = c -> {}]
==============================================================================
