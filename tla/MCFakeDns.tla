----------------------------- MODULE MCFakeDns -----------------------------
(* Instances of FakeDns for TLC: a and b collide on every probe, c begins   *)
(* one slot further.                                                       *)
EXTENDS FakeDns

MCOffset == [d \in Domains |-> IF d = "c" THEN 1 ELSE 0]
MCStep == [d \in Domains |-> 0]
=============================================================================
