------------------------------ MODULE MCResolver ------------------------------
(* Instantiates Resolver: one name with an IPv4 and an IPv6 address, and a
   v4-mapped IPv6 literal. *)
EXTENDS Resolver

CONSTANTS n1, a4, a6, m6, NoAddr

MCAddrsOf == [n \in {n1} |-> {a4, a6}]
=============================================================================
