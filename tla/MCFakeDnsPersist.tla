-------------------------- MODULE MCFakeDnsPersist --------------------------
(* Instances of FakeDnsPersist for TLC: a and b collide on every probe.    *)
EXTENDS FakeDnsPersist

MCOffset == [d \in Domains |-> 0]
MCStep == [d \in Domains |-> 0]
=============================================================================
