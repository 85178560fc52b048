---------------------------- MODULE MCServiceLink ----------------------------
(***************************************************************************)
(* ServiceLink on small instances: connections a1 and a2 of the auth       *)
(* service (the last id) and b1 of service 0.                              *)
(***************************************************************************)
EXTENDS ServiceLink, TLC

CONSTANTS a1, a2, b1

MCSvc == [c \in Conns |-> IF c = b1 THEN 0 ELSE MAX_CONNECTIONS - 1]

\* One message each, which may or may not be read as CONNECT.
OneEach == [c \in Conns |-> <<Received>>]

\* Every connection registers; a1 then sends once more (a log line).
LogLineFromA1 ==
  [c \in Conns |-> IF c = a1 THEN <<{"CONNECT"}, {"OTHER"}>>
                             ELSE <<{"CONNECT"}>>]

\* The connections of auth are interchangeable where their traffic is.
AuthSymmetry == Permutations(Conns \cap {a1, a2})
==============================================================================
