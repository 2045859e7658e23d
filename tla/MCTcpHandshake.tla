--------------------------- MODULE MCTcpHandshake ---------------------------
(* Instances of TcpHandshake for TLC.                                      *)
EXTENDS TcpHandshake

CONSTANT s1

OneSession == {s1}
AllServers == 0 .. N - 1
AllButLast == 0 .. N - 2
=============================================================================
