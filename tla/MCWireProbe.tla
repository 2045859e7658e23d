---------------------------- MODULE MCWireProbe ----------------------------
(* Instances of WireProbe for TLC: a 204 in one chunk, over two, between    *)
(* empty ones and with more behind it; other answers; one that is short.   *)
EXTENDS WireProbe

MCResponses == {<< <<1, 2>> >>, << <<1>>, <<2, 3>> >>, << << >>, <<1>>, << >>, <<2>> >>,
                << <<1, 0>> >>, << <<0>>, <<2>> >>, << <<1>> >>}
=============================================================================
