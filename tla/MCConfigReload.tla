---------------------------- MODULE MCConfigReload ----------------------------
(* Instantiates ConfigReload: twenty-seven configs, two
   concurrent ApplyConfig callers, one flow. *)
EXTENDS ConfigReload

CONSTANTS r1, r2, f1, pp1, rp1, rp2, NoValue

(* Tun off, or on with a dns-hijack list of one entry (two choices) or of
   two entries out of order. *)
TunOff == [enable |-> FALSE, hijack |-> <<>>]
MCTuns == {[enable |-> TRUE, hijack |-> h] : h \in {<<1>>, <<2>>, <<2, 1>>}}

(* store-selected is on in the DNS-disabled configs with general ipv6 and
   in the tun configs: a reload can turn it on and off.
   DNS disabled, with or without tun, and DNS enabled with every choice of
   IPv6, proxy-server nameservers and fake-ip; and fake-ip configs that
   enable tun. *)
MCConfigs ==
  {[general_ipv6 |-> v6, dns_enable |-> FALSE, dns_ipv6 |-> v6, proxy_server |-> FALSE,
    fake_ip |-> FALSE, store_selected |-> v6, tun |-> tn] : v6 \in BOOLEAN, tn \in MCTuns \cup {TunOff}}
  \cup
  {[general_ipv6 |-> g6, dns_enable |-> TRUE, dns_ipv6 |-> d6, proxy_server |-> ps,
    fake_ip |-> fk, store_selected |-> FALSE, tun |-> TunOff] : g6 \in BOOLEAN, d6 \in BOOLEAN, ps \in BOOLEAN, fk \in BOOLEAN}
  \cup
  {[general_ipv6 |-> TRUE, dns_enable |-> TRUE, dns_ipv6 |-> TRUE, proxy_server |-> FALSE,
    fake_ip |-> TRUE, store_selected |-> TRUE, tun |-> tn] : tn \in MCTuns}
MCBoot == [general_ipv6 |-> FALSE, dns_enable |-> TRUE, dns_ipv6 |-> FALSE,
           proxy_server |-> TRUE, fake_ip |-> TRUE, store_selected |-> FALSE,
           tun |-> TunOff]
=============================================================================
