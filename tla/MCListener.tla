----------------------------- MODULE MCListener -----------------------------
(* Instantiates Listener: two addresses and port 0.  One of each shape of
   ReCreate* (redir and tproxy share one, socks and shadowsocks another),
   or the mixed listener beside socks. *)
EXTENDS Listener

CONSTANTS a1, a2, z0

MCAddrs == {a1, a2}
MCKindsAll == {"http", "shadowsocks", "tproxy", "mixed"}
MCKindsMixed == {"mixed", "socks"}
=============================================================================
