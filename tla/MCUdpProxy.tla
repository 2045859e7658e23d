----------------------------- MODULE MCUdpProxy -----------------------------
(* Instances of UdpProxy for TLC.                                          *)
EXTENDS UdpProxy, TLC

CONSTANTS c1, c2, f1, r1, r2

TwoClients == {c1, c2}
OneFake == {f1}
TwoRemotes == {r1, r2}
\* Clients are interchangeable, and so are addresses of a kind.
AddressSymmetry ==
    Permutations(TwoClients) \cup Permutations(TwoRemotes)
=============================================================================
