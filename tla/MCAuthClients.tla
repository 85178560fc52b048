---------------------------- MODULE MCAuthClients ----------------------------
EXTENDS AuthClients

CONSTANTS other, r1, r2, accepter

MCOthers == {other}
MCClients == MCOthers \cup {"game1", "game2"}
MCReceivers == {r1, r2}
MCRunners == MCReceivers \cup {accepter}
==============================================================================
