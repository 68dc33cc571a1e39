------------------------------ MODULE MCUDPNat ------------------------------
(* Instantiates UDPNat for TLC: three packets from one source address. *)
EXTENDS UDPNat

CONSTANTS p1, p2, p3, k1

\* Three packets from the same source address: enough for a winner, a
\* loser and a late packet that races the winner's Set and Delete.
MCPacketsOneKey == {p1, p2, p3}
MCKeysOne == {k1}
MCKeyOfOne == [p \in MCPacketsOneKey |-> k1]

=============================================================================
