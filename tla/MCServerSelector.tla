-------------------------- MODULE MCServerSelector --------------------------
(* Instances of ServerSelector for TLC.                                    *)
EXTENDS ServerSelector

CONSTANT c1

OneClient == {c1}
AllServers == 0 .. N - 1
=============================================================================
