------------------------------- MODULE Resolver -------------------------------
(***************************************************************************)
(* The resolver facade (src/component/resolver/resolver.go) as operators.  *)
(* Init enumerates the resolver's configuration (DisableIPv6, the hosts    *)
(* table, DefaultResolver, ProxyServerHostResolver), what each lookup      *)
(* answers, the host and the function called; one step makes the call.    *)
(*                                                                         *)
(* Data abstraction.  A host is a domain name or an address literal; an    *)
(* address is a model value of V4 or V6 (V4in6: the v4-mapped ones of V6,  *)
(* for which both Is4In6 and Is6 hold).  A list of addresses is a set: the *)
(* lists are shuffled, so their order carries nothing.  A resolver         *)
(* (dns.Resolver, net.DefaultResolver; outside src/) answers per family    *)
(* "ok" with that family's addresses of the host, or "err".               *)
(***************************************************************************)
EXTENDS Naturals, FiniteSets

CONSTANTS
  Names,       \* domain names
  V4, V6,      \* addresses
  V4in6,       \* the v4-mapped addresses of V6
  AddrsOf,     \* AddrsOf[n]: the addresses DNS knows for name n
  None

Addrs == V4 \cup V6
Hosts == Names \cup Addrs
Is4(a) == a \in V4
Is6(a) == a \in V6
Errs == {"nil", "IPNotFound", "IPVersion", "IPv6Disabled", "lookup", "panic"}
Resolvers == {"dns", "proxyserver", "system"}
Apis == {"ResolveIP", "ResolveIPv4", "ResolveIPv6", "ResolveAllIP", "ResolveAllIPv4",
         "ResolveAllIPv6", "ResolveProxyServerHost", "ResolveIPv4ProxyServerHost",
         "ResolveIPv6ProxyServerHost", "ResolveAllIPProxyServerHost",
         "ResolveAllIPv4ProxyServerHost", "ResolveAllIPv6ProxyServerHost"}

ASSUME /\ V4in6 \subseteq V6 /\ V4 \cap V6 = {}
       /\ AddrsOf \in [Names -> SUBSET Addrs]

VARIABLES
  disableIPv6,   \* resolver.DisableIPv6
  hostsTab,      \* DefaultHosts: host (name or literal) -> address or None
  defaultSet,    \* DefaultResolver != nil
  proxySet,      \* ProxyServerHostResolver != nil
  answers,       \* answers[res][fam]: "ok" or "err"
  host, api,     \* the call
  result         \* the set of results the call can return; {} before it

vars == <<disableIPv6, hostsTab, defaultSet, proxySet, answers, host, api, result>>

(* A result: the addresses, the error, whether a DNS server was asked. *)
Res(ips, err, net) == [ips |-> ips, err |-> err, net |-> net]
Results == [ips : SUBSET Addrs, err : Errs, net : BOOLEAN]

TypeOK ==
  /\ disableIPv6 \in BOOLEAN /\ defaultSet \in BOOLEAN /\ proxySet \in BOOLEAN
  /\ hostsTab \in [Hosts -> Addrs \cup {None}]
  /\ answers \in [Resolvers -> [{"4", "6"} -> {"ok", "err"}]]
  /\ host \in Hosts /\ api \in Apis
  /\ result \subseteq Results

(* Resolver r's lookup of family fam ("4", "6" or "any") for host h. *)
Lookup(r, fam, h) ==
  LET ok4 == answers[r]["4"] = "ok"
      ok6 == answers[r]["6"] = "ok"
      ips == {a \in AddrsOf[h] : CASE fam = "4" -> Is4(a) /\ ok4
                                    [] fam = "6" -> Is6(a) /\ ok6
                                    [] OTHER -> (Is4(a) /\ ok4) \/ (Is6(a) /\ ok6)}
      failed == CASE fam = "4" -> ~ok4 [] fam = "6" -> ~ok6 [] OTHER -> ~ok4 /\ ~ok6
  IN CASE failed -> Res({}, "lookup", TRUE)
       [] ips = {} -> Res({}, "IPNotFound", TRUE)
       [] OTHER -> Res(ips, "nil", TRUE)

(* The resolver a *WithResolver function receives: None for a nil r. *)
Default == IF defaultSet THEN "dns" ELSE None

(* net.DefaultResolver.LookupIP, reached only while DefaultResolver is nil. *)
SystemLookup(fam, h) ==
  IF ~defaultSet THEN Lookup("system", fam, h) ELSE Res({}, "IPNotFound", FALSE)

(* DefaultHosts.Search(host), run on the host string before ParseAddr: an
   entry keyed by an address literal is found like one keyed by a name. *)
HostsHit(h) == hostsTab[h]

(* Mutation of ResolveAllIPv6WithResolver: the hosts table is consulted
   before the DisableIPv6 check. *)
ResolveAllIPv6HostsFirst(h, r) ==
  CASE HostsHit(h) # None /\ Is6(HostsHit(h)) -> Res({HostsHit(h)}, "nil", FALSE)
    [] disableIPv6 -> Res({}, "IPv6Disabled", FALSE)
    [] h \in Addrs -> IF Is6(h) THEN Res({h}, "nil", FALSE) ELSE Res({}, "IPVersion", FALSE)
    [] r # None -> Lookup(r, "6", h)
    [] OTHER -> SystemLookup("6", h)

ResolveAllIPv6WithResolver(h, r) ==
  CASE disableIPv6 -> Res({}, "IPv6Disabled", FALSE)
    [] HostsHit(h) # None /\ Is6(HostsHit(h)) -> Res({HostsHit(h)}, "nil", FALSE)
    [] h \in Addrs -> IF Is6(h) THEN Res({h}, "nil", FALSE) ELSE Res({}, "IPVersion", FALSE)
    [] r # None -> Lookup(r, "6", h)
    [] OTHER -> SystemLookup("6", h)

(* Mutation of ResolveAllIPv4WithResolver: a configured resolver is asked
   before the literal check. *)
ResolveAllIPv4ResolverFirst(h, r) ==
  CASE HostsHit(h) # None /\ Is4(HostsHit(h)) -> Res({HostsHit(h)}, "nil", FALSE)
    [] r # None -> Lookup(r, "4", h)
    [] h \in Addrs -> IF Is4(h) \/ h \in V4in6 THEN Res({h}, "nil", FALSE) ELSE Res({}, "IPVersion", FALSE)
    [] OTHER -> SystemLookup("4", h)

ResolveAllIPv4WithResolver(h, r) ==
  CASE HostsHit(h) # None /\ Is4(HostsHit(h)) -> Res({HostsHit(h)}, "nil", FALSE)
    [] h \in Addrs -> IF Is4(h) \/ h \in V4in6 THEN Res({h}, "nil", FALSE) ELSE Res({}, "IPVersion", FALSE)
    [] r # None -> Lookup(r, "4", h)
    [] OTHER -> SystemLookup("4", h)

ResolveAllIPv4(h) == ResolveAllIPv4WithResolver(h, Default)
ResolveAllIPv6(h) == ResolveAllIPv6WithResolver(h, Default)

(* Mutation of ResolveAllIPWithResolver: the `node != nil` test on the
   hosts search is dropped. *)
ResolveAllIPNoHostsCheck(h, r) ==
  CASE h \in Names -> Res({HostsHit(h)}, "nil", FALSE)
    [] h \in Addrs -> Res({h}, "nil", FALSE)
    [] r # None /\ disableIPv6 -> Lookup(r, "4", h)
    [] r # None -> Lookup(r, "any", h)
    [] disableIPv6 -> ResolveAllIPv4(h)
    [] OTHER -> SystemLookup("any", h)

ResolveAllIPWithResolver(h, r) ==
  CASE HostsHit(h) # None -> Res({HostsHit(h)}, "nil", FALSE)
    [] h \in Addrs -> Res({h}, "nil", FALSE)
    [] r # None /\ disableIPv6 -> Lookup(r, "4", h)
    [] r # None -> Lookup(r, "any", h)
    [] disableIPv6 -> ResolveAllIPv4(h)
    [] OTHER -> SystemLookup("any", h)

(* `ips[rand.Intn(len(ips))]`: any one of the addresses.  An empty list
   without an error makes rand.Intn panic. *)
PickOne(all) ==
  CASE all.err # "nil" -> {all}
    [] all.ips = {} -> {Res({}, "panic", all.net)}
    [] OTHER -> {Res({a}, "nil", all.net) : a \in all.ips}

ResolveIPv4WithResolver(h, r) == PickOne(ResolveAllIPv4WithResolver(h, r))
ResolveIPv6WithResolver(h, r) == PickOne(ResolveAllIPv6WithResolver(h, r))

(* IPv4 first; on its error, IPv6 (whose error is the one returned). *)
ResolveIPWithResolver(h, r) ==
  LET v4 == ResolveAllIPv4WithResolver(h, r)
      v6 == ResolveAllIPv6WithResolver(h, r)
  IN IF v4.err = "nil" THEN PickOne(v4)
     ELSE {[x EXCEPT !.net = x.net \/ v4.net] : x \in PickOne(v6)}

(* *ProxyServerHost: the proxy-server resolver first, the default resolver
   when it is unset or fails (the All* variants have no fallback). *)
WithFallback(viaProxy, viaDefault) ==
  IF ~proxySet THEN viaDefault
  ELSE IF \A x \in viaProxy : x.err = "nil" THEN viaProxy
  ELSE {[x EXCEPT !.net = x.net \/ \E y \in viaProxy : y.net] : x \in viaDefault}

Call(a, h) ==
  CASE a = "ResolveIP" -> ResolveIPWithResolver(h, Default)
    [] a = "ResolveIPv4" -> ResolveIPv4WithResolver(h, Default)
    [] a = "ResolveIPv6" -> ResolveIPv6WithResolver(h, Default)
    [] a = "ResolveAllIP" -> {ResolveAllIPWithResolver(h, Default)}
    [] a = "ResolveAllIPv4" -> {ResolveAllIPv4(h)}
    [] a = "ResolveAllIPv6" -> {ResolveAllIPv6(h)}
    [] a = "ResolveProxyServerHost" ->
         WithFallback(ResolveIPWithResolver(h, "proxyserver"), ResolveIPWithResolver(h, Default))
    [] a = "ResolveIPv4ProxyServerHost" ->
         WithFallback(ResolveIPv4WithResolver(h, "proxyserver"), ResolveIPv4WithResolver(h, Default))
    [] a = "ResolveIPv6ProxyServerHost" ->
         WithFallback(ResolveIPv6WithResolver(h, "proxyserver"), ResolveIPv6WithResolver(h, Default))
    [] a = "ResolveAllIPProxyServerHost" ->
         {IF proxySet THEN ResolveAllIPWithResolver(h, "proxyserver") ELSE ResolveAllIPWithResolver(h, Default)}
    [] a = "ResolveAllIPv4ProxyServerHost" ->
         {IF proxySet THEN ResolveAllIPv4WithResolver(h, "proxyserver") ELSE ResolveAllIPv4(h)}
    [] a = "ResolveAllIPv6ProxyServerHost" ->
         {IF proxySet THEN ResolveAllIPv6WithResolver(h, "proxyserver") ELSE ResolveAllIPv6(h)}

Init ==
  /\ disableIPv6 \in BOOLEAN /\ defaultSet \in BOOLEAN /\ proxySet \in BOOLEAN
  /\ hostsTab \in [Hosts -> Addrs \cup {None}]
  /\ answers \in [Resolvers -> [{"4", "6"} -> {"ok", "err"}]]
  /\ host \in Hosts /\ api \in Apis
  /\ result = {}

Resolve ==
  /\ result = {}
  /\ result' = Call(api, host)
  /\ UNCHANGED <<disableIPv6, hostsTab, defaultSet, proxySet, answers, host, api>>

Done == result # {} /\ UNCHANGED vars

Next == Resolve \/ Done

Spec == Init /\ [][Next]_vars
-----------------------------------------------------------------------------
V6Apis == {"ResolveIPv6", "ResolveAllIPv6", "ResolveIPv6ProxyServerHost",
           "ResolveAllIPv6ProxyServerHost"}

(***************************************************************************)
(* Spec 4.1 and 8.3: with DisableIPv6 every IPv6 function fails with       *)
(* IPv6Disabled before any lookup, through every wrapper and fallback, and *)
(* no single-address or IPv4 function hands out an IPv6 address (a        *)
(* v4-mapped one aside): ResolveIP falls through to IPv4 only.  The       *)
(* all-family ResolveAllIP returns literals and hosts entries as they are. *)
(***************************************************************************)
NoIPv6WhenDisabled ==
  disableIPv6 =>
    \A x \in result :
      /\ api \notin {"ResolveAllIP", "ResolveAllIPProxyServerHost"} =>
            x.ips \cap (V6 \ V4in6) = {}
      /\ api \in V6Apis => x.err = "IPv6Disabled" /\ ~x.net

(***************************************************************************)
(* Spec 4.1 and 8.4: a host that is an address literal is answered        *)
(* without asking any DNS server, whatever resolvers are configured: with *)
(* the hosts entry of the literal (DefaultHosts is searched first) or the *)
(* literal itself, or an IPVersion / IPv6Disabled error.                  *)
(***************************************************************************)
LiteralNoNetwork ==
  host \in Addrs =>
    \A x \in result : ~x.net /\ (x.err = "nil" => x.ips \subseteq {host, hostsTab[host]})
====
