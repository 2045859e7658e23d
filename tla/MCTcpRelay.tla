----------------------------- MODULE MCTcpRelay -----------------------------
(* Instances of TcpRelay for TLC.                                          *)
EXTENDS TcpRelay, SequencesExt

Sizes == 0 .. TCP_SS2022_MAX_PAYLOAD_LEN
UpToTwoChunks == BoundedSeq(Sizes, 2) \ {<< >>}
=============================================================================
