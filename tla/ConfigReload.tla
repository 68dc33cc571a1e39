----------------------------- MODULE ConfigReload -----------------------------
(***************************************************************************)
(* Hot reload of the configuration (src/hub/executor/executor.go,          *)
(* ApplyConfig) against TCP and UDP flows that read it                     *)
(* (src/tunnel/tunnel.go, handleTCPConn and handleUDPConn).                *)
(*                                                                         *)
(* ApplyConfig holds the executor's mux and publishes the parts of a       *)
(* config one after another: tunnel.UpdateProxies and tunnel.UpdateRules   *)
(* (each under configMux.Lock), tunnel.UpdateSniffer, updateHosts (a bare  *)
(* pointer store), updateDNS (DisableIPv6, the default resolver, the host  *)
(* mapper with its fake-IP pool, the proxy-server resolver),              *)
(* loadProxyProvider, updateProfile (the stored selections of the select  *)
(* groups), loadRuleProvider, updateGeneral (tunnel.SetMode and once more  *)
(* DisableIPv6) and updateTun (listener.ReCreateTun).  Its other steps     *)
(* touch no state modelled here and are left out.                         *)
(*                                                                         *)
(* A flow is addressed to a fake IP that the boot config's pool handed     *)
(* out.  preHandleMetadata reads the host mapper; resolveMetadata reads    *)
(* the mode; match reads, under configMux.RLock, the rules, the proxies    *)
(* and the hosts trie.  A published part is the config it came from; a    *)
(* config is a record of the knobs that decide what updateDNS installs.    *)
(* A UDP flow first asks the mapper whether its address is a fake IP it   *)
(* handed out (for fAddr, the source of the replies; its value is not     *)
(* kept, as no property reads it), resolves a restored host name locally, and is sent *)
(* on an existing NAT entry or matched by the goroutine that dials one.   *)
(***************************************************************************)
EXTENDS Naturals, Sequences, FiniteSets, TLC

CONSTANTS
  Configs,     \* the configs that can be applied:
               \* [general_ipv6, dns_enable, dns_ipv6, proxy_server, fake_ip, tun],
               \* tun being [enable, hijack]: its switches and one of its lists
  Boot,        \* the config the process runs with when the model starts
  Reloaders,   \* callers of ApplyConfig (API reload, config-file watcher)
  Flows,       \* flows handled while configs are applied
  ProxyProviders, RuleProviders,  \* the providers every config names
  ConcurrentCount,                \* capacity of the loaders' semaphore channel
  SelectionCached,                \* cachefile.Cache().SelectedMap() is not nil
  None

ASSUME /\ Configs \subseteq [general_ipv6 : BOOLEAN, dns_enable : BOOLEAN, dns_ipv6 : BOOLEAN,
                              proxy_server : BOOLEAN, fake_ip : BOOLEAN, store_selected : BOOLEAN,
                              tun : [enable : BOOLEAN, hijack : Seq(Nat)]]
       /\ ProxyProviders \cap RuleProviders = {}
       /\ ConcurrentCount \in Nat \ {0} /\ SelectionCached \in BOOLEAN
       /\ Boot \in Configs /\ Boot.dns_enable /\ Boot.fake_ip

VARIABLES
  mux,          \* executor mux holder
  rstage,       \* rstage[r]: the step of ApplyConfig caller r
  applying,     \* applying[r]: the config r applies
  proxies,      \* tunnel proxies: the config they came from
  rules,        \* tunnel rules
  sniffer,      \* sniffer.Dispatcher / sniffingEnable
  hosts,        \* resolver.DefaultHosts
  mode,         \* tunnel mode
  disableIPv6,  \* resolver.DisableIPv6
  dnsResolver,  \* resolver.DefaultResolver: the config it was built from, or None
  mapper,       \* resolver.DefaultHostMapper: the config it was built from, or None
  pool,         \* the mapper's fake-IP pool maps the flow's address to its host
  proxyServer,  \* resolver.ProxyServerHostResolver: its config, or None
  lastTun,      \* listener.LastTunConf
  tunRun,       \* the config of listener.tunLister, None while it is nil
  prov,         \* prov[p]: "new", "spawned" (goroutine started) or "loaded" (Initial returned)
  wg,           \* the counter of the running loader's sync.WaitGroup
  sem,          \* the number of tokens in the loader's channel ch
  selected,     \* the select groups' choice: "default" or "stored" (patchSelectGroup)
  fstage,       \* fstage[f]: the step of flow f
  seen          \* seen[f]: what flow f read of each part

vars == <<mux, rstage, applying, proxies, rules, sniffer, hosts, mode, disableIPv6,
          dnsResolver, mapper, pool, proxyServer, lastTun, tunRun,
          prov, wg, sem, selected, fstage, seen>>

(* ApplyConfig's steps in the order it takes them. *)
RSeq == <<"idle", "proxies", "rules", "sniffer", "hosts", "dns", "proxyprov", "profile",
          "ruleprov", "general", "tun", "done">>
RStages == {RSeq[i] : i \in DOMAIN RSeq}
(* Step s comes at or after step t. *)
Reached(s, t) == \E i, j \in DOMAIN RSeq : RSeq[i] = s /\ RSeq[j] = t /\ i >= j
Providers == ProxyProviders \cup RuleProviders
FStages == {"idle", "pre", "prefake", "resolve", "nat", "mode", "match", "done", "dropped"}
(* What preHandleMetadata made of the fake destination: the host with
   dst_ip cleared (fake-ip), the host with the fake dst_ip kept (mapping),
   the bare fake address, or "fake DNS record missing". *)
PreOutcomes == {"host", "mapping", "fake", "missing"}
TunConfs == {c.tun : c \in Configs}
Seen == [udp : BOOLEAN,
         pre : PreOutcomes \cup {None}, hit : BOOLEAN, mode : Configs \cup {None},
         proxies : Configs \cup {None}, rules : Configs \cup {None}, hosts : Configs \cup {None}]

TypeOK ==
  /\ mux \in Reloaders \cup {None}
  /\ rstage \in [Reloaders -> RStages]
  /\ applying \in [Reloaders -> Configs]
  /\ {proxies, rules, sniffer, hosts, mode} \subseteq Configs
  /\ disableIPv6 \in BOOLEAN
  /\ {dnsResolver, mapper, proxyServer} \subseteq Configs \cup {None}
  /\ pool \in BOOLEAN
  /\ lastTun \in TunConfs /\ tunRun \in TunConfs \cup {None}
  /\ prov \in [Providers -> {"new", "spawned", "loaded"}]
  /\ wg \in Nat /\ sem \in 0..ConcurrentCount /\ selected \in {"default", "stored"}
  /\ fstage \in [Flows -> FStages]
  /\ seen \in [Flows -> Seen]

(* updateDNS: resolver.DisableIPv6 from the DNS section, or from the
   general ipv6 switch when DNS is disabled. *)
DNSDisableIPv6(c) == IF c.dns_enable THEN ~c.dns_ipv6 ELSE ~c.general_ipv6

(* updateGeneral: a general ipv6 switch that is off forces it on. *)
GeneralDisableIPv6(c, d) == IF ~c.general_ipv6 THEN TRUE ELSE d

(* resolver.DisableIPv6 once ApplyConfig(c) has returned.  While ApplyConfig
   runs, mode still names the config that was running before it. *)
EffectiveDisableIPv6(c) == GeneralDisableIPv6(c, DNSDisableIPv6(c))

(* updateDNS: dns.NewEnhancer(cfg).PatchFrom(old) carries the old mapper's
   fake-IP pool over when both the old mapper and the new one have a pool. *)
PatchesPool(old, c) == old # None /\ old.fake_ip /\ c.fake_ip

(* resolver.MappingEnabled / FakeIPEnabled / IsFakeIP on the mapper m: only
   a fake-ip enhancer maps addresses in this model (redir-host is left out). *)
FakeIPEnabled(m) == m # None /\ m.fake_ip

Init ==
  /\ mux = None
  /\ rstage = [r \in Reloaders |-> "idle"]
  /\ applying \in [Reloaders -> Configs]
  /\ proxies = Boot /\ rules = Boot /\ sniffer = Boot /\ hosts = Boot /\ mode = Boot
  /\ disableIPv6 = EffectiveDisableIPv6(Boot)
  /\ dnsResolver = Boot /\ mapper = Boot /\ pool = TRUE
  /\ proxyServer = IF Boot.proxy_server THEN Boot ELSE None
  /\ lastTun = Boot.tun /\ tunRun = IF Boot.tun.enable THEN Boot.tun ELSE None
  /\ prov = [p \in Providers |-> "loaded"] /\ wg = 0 /\ sem = 0
  /\ selected = IF Boot.store_selected /\ SelectionCached THEN "stored" ELSE "default"
  /\ fstage = [f \in Flows |-> "idle"]
  /\ seen \in [Flows -> {[udp |-> u, pre |-> None, hit |-> FALSE,
                            mode |-> None, proxies |-> None, rules |-> None,
                            hosts |-> None] : u \in BOOLEAN}]

Step(r, from, to) ==
  /\ rstage[r] = from
  /\ rstage' = [rstage EXCEPT ![r] = to]

DNS == <<dnsResolver, mapper, pool, proxyServer>>
TunState == <<lastTun, tunRun>>
Prov == <<prov, wg, sem, selected>>
Parts == <<proxies, rules, sniffer, hosts, mode, disableIPv6, DNS, TunState, Prov>>
Flow == <<fstage, seen>>

(* Mutation of Lock: ApplyConfig without the executor mux. *)
LockNoMux(r) ==
  /\ Step(r, "idle", "proxies")
  /\ mux' = r
  /\ UNCHANGED <<applying, Parts, Flow>>

(* ApplyConfig: mux.Lock(). *)
Lock(r) ==
  /\ mux = None
  /\ Step(r, "idle", "proxies")
  /\ mux' = r
  /\ UNCHANGED <<applying, Parts, Flow>>

(* updateProxies -> tunnel.UpdateProxies: configMux.Lock; swap; Unlock.
   The new select groups start on their default choice and the new proxy
   providers are published before anything initialises them. *)
UpdateProxies(r) ==
  /\ Step(r, "proxies", "rules")
  /\ proxies' = applying[r]
  /\ selected' = "default"
  /\ prov' = [p \in Providers |-> IF p \in ProxyProviders THEN "new" ELSE prov[p]]
  /\ UNCHANGED <<mux, applying, rules, sniffer, hosts, mode, disableIPv6, DNS, TunState,
                 wg, sem, Flow>>

(* updateRules -> tunnel.UpdateRules: a second, separate critical section,
   publishing the rules and the (uninitialised) rule providers. *)
UpdateRules(r) ==
  /\ Step(r, "rules", "sniffer")
  /\ rules' = applying[r]
  /\ prov' = [p \in Providers |-> IF p \in RuleProviders THEN "new" ELSE prov[p]]
  /\ UNCHANGED <<mux, applying, proxies, sniffer, hosts, mode, disableIPv6, DNS, TunState,
                 wg, sem, selected, Flow>>

(* updateSniffer -> tunnel.UpdateSniffer. *)
UpdateSniffer(r) ==
  /\ Step(r, "sniffer", "hosts")
  /\ sniffer' = applying[r]
  /\ UNCHANGED <<mux, applying, proxies, rules, hosts, mode, disableIPv6, DNS, TunState, Prov, Flow>>

(* updateHosts: resolver.DefaultHosts = tree, outside configMux. *)
UpdateHosts(r) ==
  /\ Step(r, "hosts", "dns")
  /\ hosts' = applying[r]
  /\ UNCHANGED <<mux, applying, proxies, rules, sniffer, mode, disableIPv6, DNS, TunState, Prov, Flow>>

(* updateDNS.  With DNS disabled it clears the default resolver and the
   mapper and returns early; otherwise it installs the new resolver and the
   new mapper (patched from the old one), and the proxy-server resolver only
   when the new config has a proxy-server nameserver.  Nothing clears a
   proxy-server resolver installed by an earlier config. *)
UpdateDNS(r) ==
  LET c == applying[r] IN
  /\ Step(r, "dns", "proxyprov")
  /\ disableIPv6' = DNSDisableIPv6(c)
  /\ IF ~c.dns_enable
       THEN /\ dnsResolver' = None /\ mapper' = None /\ pool' = FALSE
            /\ UNCHANGED proxyServer
       ELSE /\ dnsResolver' = c /\ mapper' = c
            /\ pool' = (pool /\ PatchesPool(mapper, c))
            /\ proxyServer' = IF c.proxy_server THEN c ELSE proxyServer
  /\ UNCHANGED <<mux, applying, proxies, rules, sniffer, hosts, mode, TunState, Prov, Flow>>

(* The providers loadProxyProvider (step "proxyprov") or loadRuleProvider
   (step "ruleprov") walks over, and the step ApplyConfig takes next. *)
LoadSet(s) == IF s = "proxyprov" THEN ProxyProviders ELSE RuleProviders
AfterLoad(s) == IF s = "proxyprov" THEN "profile" ELSE "general"

(* Mutation of Spawn: the goroutine is started without wg.Add(1). *)
SpawnNoAdd(r, p) ==
  /\ rstage[r] \in {"proxyprov", "ruleprov"} /\ p \in LoadSet(rstage[r])
  /\ prov[p] = "new" /\ sem < ConcurrentCount
  /\ sem' = sem + 1
  /\ prov' = [prov EXCEPT ![p] = "spawned"]
  /\ UNCHANGED <<mux, rstage, applying, proxies, rules, sniffer, hosts, mode, disableIPv6,
                 DNS, TunState, wg, selected, Flow>>

(* One turn of the loop over the providers (in map order, i.e. any):
   wg.Add(1); ch <- struct{}{}, which blocks while the channel holds
   ConcurrentCount tokens; go func(){...}(). *)
Spawn(r, p) ==
  /\ rstage[r] \in {"proxyprov", "ruleprov"} /\ p \in LoadSet(rstage[r])
  /\ prov[p] = "new" /\ sem < ConcurrentCount
  /\ wg' = wg + 1 /\ sem' = sem + 1
  /\ prov' = [prov EXCEPT ![p] = "spawned"]
  /\ UNCHANGED <<mux, rstage, applying, proxies, rules, sniffer, hosts, mode, disableIPv6,
                 DNS, TunState, selected, Flow>>

(* The loader goroutine: loadProvider(pv) calls pv.Initial(), whose error
   is only logged, and the deferred <-ch; wg.Done(). *)
Load(p) ==
  /\ prov[p] = "spawned"
  /\ prov' = [prov EXCEPT ![p] = "loaded"]
  /\ sem' = sem - 1 /\ wg' = wg - 1
  /\ UNCHANGED <<mux, rstage, applying, proxies, rules, sniffer, hosts, mode, disableIPv6,
                 DNS, TunState, selected, Flow>>

(* wg.Wait() once the loop has started a goroutine for every provider. *)
WaitLoaders(r) ==
  /\ rstage[r] \in {"proxyprov", "ruleprov"}
  /\ \A p \in LoadSet(rstage[r]) : prov[p] # "new"
  /\ wg = 0
  /\ rstage' = [rstage EXCEPT ![r] = AfterLoad(rstage[r])]
  /\ UNCHANGED <<mux, applying, Parts, Flow>>

(* Mutation of UpdateProfile: the stored selections are patched in whether
   or not the profile asks for it. *)
UpdateProfileAlways(r) ==
  /\ Step(r, "profile", "ruleprov")
  /\ selected' = IF SelectionCached THEN "stored" ELSE selected
  /\ UNCHANGED <<mux, applying, proxies, rules, sniffer, hosts, mode, disableIPv6, DNS,
                 TunState, prov, wg, sem, Flow>>

(* updateProfile: profile.StoreSelected.Store(...) and, when the profile
   stores selections, patchSelectGroup: nothing when the cache file holds
   no mapping, else every select group named in it is Set to its stored
   choice. *)
UpdateProfile(r) ==
  /\ Step(r, "profile", "ruleprov")
  /\ selected' = IF applying[r].store_selected /\ SelectionCached THEN "stored" ELSE selected
  /\ UNCHANGED <<mux, applying, proxies, rules, sniffer, hosts, mode, disableIPv6, DNS,
                 TunState, prov, wg, sem, Flow>>

(* updateGeneral: SetMode, then resolver.DisableIPv6 = true when the general
   ipv6 switch is off. *)
UpdateGeneral(r) ==
  /\ Step(r, "general", "tun")
  /\ mode' = applying[r]
  /\ disableIPv6' = GeneralDisableIPv6(applying[r], disableIPv6)
  /\ UNCHANGED <<mux, applying, proxies, rules, sniffer, hosts, DNS, TunState, Prov, Flow>>

(* The reference for a change of the tun config: a switch differs, or a
   list holds other elements, in whatever order. *)
SameTunConf(a, b) ==
  /\ a.enable = b.enable
  /\ Len(a.hijack) = Len(b.hijack)
  /\ \A x \in {a.hijack[i] : i \in DOMAIN a.hijack} \cup {b.hijack[i] : i \in DOMAIN b.hijack} :
       Cardinality({i \in DOMAIN a.hijack : a.hijack[i] = x})
         = Cardinality({i \in DOMAIN b.hijack : b.hijack[i] = x})

(* Mutation of HasTunConfigChange: the lists are compared by length only. *)
HasTunConfigChangeLenOnly(t) ==
  [changed |-> lastTun.enable # t.enable \/ Len(lastTun.hijack) # Len(t.hijack), conf |-> t]

(* hasTunConfigChange(&tunConf): true at once when a switch of LastTunConf
   and tunConf differs or DNSHijack has another length; otherwise it sorts
   tunConf's lists in place and compares them with LastTunConf's as they
   are.  conf is tunConf afterwards, sorted only on the second path. *)
HasTunConfigChange(t) ==
  IF lastTun.enable # t.enable \/ Len(lastTun.hijack) # Len(t.hijack)
    THEN [changed |-> TRUE, conf |-> t]
    ELSE LET sorted == [t EXCEPT !.hijack = SortSeq(t.hijack, <)]
         IN [changed |-> sorted.hijack # lastTun.hijack, conf |-> sorted]

(* updateTun -> listener.ReCreateTun under tunMux, and ApplyConfig returns
   (its deferred mux.Unlock).  Unless hasTunConfigChange, the tun listener
   is left alone.  Otherwise Cleanup(true) closes it and, when the new
   config enables tun, sing_tun.New may fail (ok = FALSE): the error path
   runs Cleanup(false), which resets LastTunConf, and then the deferred
   `LastTunConf = tunConf`, registered first, runs last. *)
UpdateTun(r) ==
  LET chk == HasTunConfigChange(applying[r].tun) IN
  /\ Step(r, "tun", "done")
  /\ mux' = None
  /\ lastTun' = chk.conf
  /\ \/ /\ ~chk.changed
        /\ UNCHANGED tunRun
     \/ /\ chk.changed
        /\ \E ok \in BOOLEAN : tunRun' = IF chk.conf.enable /\ ok THEN chk.conf ELSE None
  /\ UNCHANGED <<applying, proxies, rules, sniffer, hosts, mode, disableIPv6, DNS, Prov, Flow>>

Reload(r) ==
  \/ Lock(r) \/ UpdateProxies(r) \/ UpdateRules(r) \/ UpdateSniffer(r)
  \/ UpdateHosts(r) \/ UpdateDNS(r) \/ (\E p \in Providers : Spawn(r, p)) \/ WaitLoaders(r)
  \/ UpdateProfile(r) \/ UpdateGeneral(r) \/ UpdateTun(r)

(* handleUDPConn, before preHandleMetadata: fAddr = dst_ip when
   resolver.IsExistFakeIP(dst_ip).  Only the step is kept: it is where a
   reload can run between this read of the mapper and the next ones. *)
FakeAddrCheck(f) ==
  /\ fstage[f] = "idle" /\ seen[f].udp
  /\ fstage' = [fstage EXCEPT ![f] = "pre"]
  /\ UNCHANGED <<mux, rstage, applying, Parts, seen>>

(* Where a flow goes once preHandleMetadata is done: a UDP flow whose
   dst_ip was cleared resolves its host (`!metadata.Resolved()`), any other
   UDP flow looks up the NAT table, a TCP flow reads the mode. *)
AfterPre(f, out) ==
  CASE out = "missing" -> "dropped"
    [] seen[f].udp /\ out = "host" -> "resolve"
    [] seen[f].udp -> "nat"
    [] OTHER -> "mode"

(* preHandleMetadata, first half: needLookupIP (resolver.MappingEnabled)
   and, when it holds, resolver.FindHostByIP on the mapper of that moment. *)
PreLookup(f) ==
  /\ fstage[f] = IF seen[f].udp THEN "pre" ELSE "idle"
  /\ IF FakeIPEnabled(mapper)
       THEN /\ fstage' = [fstage EXCEPT ![f] = "prefake"]
            /\ seen' = [seen EXCEPT ![f].hit = pool]
       ELSE /\ fstage' = [fstage EXCEPT ![f] = AfterPre(f, "fake")]
            /\ seen' = [seen EXCEPT ![f].pre = "fake"]
  /\ UNCHANGED <<mux, rstage, applying, Parts>>

(* preHandleMetadata, second half: on a hit, resolver.FakeIPEnabled decides
   whether dst_ip is cleared; on a miss, resolver.IsFakeIP drops the flow
   (handleTCPConn and handleUDPConn return).  Both read the mapper again. *)
PreFake(f) ==
  /\ fstage[f] = "prefake"
  /\ LET out == IF seen[f].hit
                   THEN IF FakeIPEnabled(mapper) THEN "host" ELSE "mapping"
                   ELSE IF FakeIPEnabled(mapper) THEN "missing" ELSE "fake"
     IN /\ fstage' = [fstage EXCEPT ![f] = AfterPre(f, out)]
        /\ seen' = [seen EXCEPT ![f].pre = out]
  /\ UNCHANGED <<mux, rstage, applying, Parts>>

(* handleUDPConn: resolver.ResolveIP(metadata.Host) for the restored host;
   on an error the packet is dropped. *)
UDPResolve(f) ==
  /\ fstage[f] = "resolve"
  /\ \E ok \in BOOLEAN : fstage' = [fstage EXCEPT ![f] = IF ok THEN "nat" ELSE "dropped"]
  /\ UNCHANGED <<mux, rstage, applying, Parts, seen>>

(* handleUDPConn: handle() sends the packet on the NAT entry of its source
   when there is one (as does a packet that waits on the -lock entry);
   otherwise the goroutine that won GetOrCreateLock goes on to
   resolveMetadata.  The NAT table itself is the UDPNat module. *)
NatLookup(f) ==
  /\ fstage[f] = "nat"
  /\ \E entry \in BOOLEAN : fstage' = [fstage EXCEPT ![f] = IF entry THEN "done" ELSE "mode"]
  /\ UNCHANGED <<mux, rstage, applying, Parts, seen>>

(* resolveMetadata: `switch mode`, read without any lock. *)
ReadMode(f) ==
  /\ fstage[f] = "mode"
  /\ fstage' = [fstage EXCEPT ![f] = "match"]
  /\ seen' = [seen EXCEPT ![f].mode = mode]
  /\ UNCHANGED <<mux, rstage, applying, Parts>>

(* match: configMux.RLock(); DefaultHosts.Search; the loop over rules and
   proxies; RUnlock.  The read lock keeps UpdateProxies and UpdateRules
   out for the whole of it. *)
Match(f) ==
  /\ fstage[f] = "match"
  /\ fstage' = [fstage EXCEPT ![f] = "done"]
  /\ seen' = [seen EXCEPT ![f].proxies = proxies, ![f].rules = rules, ![f].hosts = hosts]
  /\ UNCHANGED <<mux, rstage, applying, Parts>>

Handle(f) ==
  \/ FakeAddrCheck(f) \/ PreLookup(f) \/ PreFake(f) \/ UDPResolve(f) \/ NatLookup(f)
  \/ ReadMode(f) \/ Match(f)

Next ==
  \/ \E r \in Reloaders : Reload(r)
  \/ \E p \in Providers : Load(p)
  \/ \E f \in Flows : Handle(f)

Spec == Init /\ [][Next]_vars

-----------------------------------------------------------------------------
(* Reloads are serialized by the executor's mux: whenever no ApplyConfig   *)
(* is running, every part of the published configuration comes from the   *)
(* same config, DisableIPv6 has the value that config gives it, and the   *)
(* default resolver and the host mapper are that config's (none when its  *)
(* DNS is disabled), LastTunConf is its tun config, and the select groups *)
(* carry the stored choices exactly when its profile stores selections    *)
(* (and the cache file holds some).                                       *)
(***************************************************************************)
ConsistentWhenIdle ==
  mux = None =>
    /\ proxies = rules /\ rules = sniffer /\ sniffer = hosts /\ hosts = mode
    /\ disableIPv6 = EffectiveDisableIPv6(mode)
    /\ dnsResolver = (IF mode.dns_enable THEN mode ELSE None)
    /\ mapper = dnsResolver
    /\ SameTunConf(lastTun, mode.tun)
    /\ selected = IF mode.store_selected /\ SelectionCached THEN "stored" ELSE "default"

(***************************************************************************)
(* loadProxyProvider and loadRuleProvider return only after every         *)
(* provider's Initial has returned (wg.Add runs before each goroutine     *)
(* starts, and wg.Wait after the loop), so the steps after them, and the  *)
(* next ApplyConfig, find them loaded: a provider is uninitialised only   *)
(* while the ApplyConfig holding the mux has published it and not yet    *)
(* passed its loading loop.                                               *)
(***************************************************************************)
ProvidersLoadedAfterLoop ==
  \A p \in Providers :
    prov[p] # "loaded" =>
      mux # None /\ ~Reached(rstage[mux], AfterLoad(IF p \in ProxyProviders
                                                      THEN "proxyprov" ELSE "ruleprov"))

(***************************************************************************)
(* Spec 5 and 8.2: no flow observes a partial update: the rules and the   *)
(* proxies a match uses come from the same config.                        *)
(***************************************************************************)
NoTornRead ==
  \A f \in Flows : fstage[f] = "done" => seen[f].rules = seen[f].proxies

(***************************************************************************)
(* Spec 4.1: the *ProxyServerHost functions use a dedicated resolver when  *)
(* the config names proxy-server nameservers and the default resolver     *)
(* otherwise: whenever no reload runs, resolver.ProxyServerHostResolver   *)
(* is the running config's, and unset when that config has none.         *)
(***************************************************************************)
ProxyServerResolverCurrent ==
  mux = None =>
    proxyServer = IF mode.dns_enable /\ mode.proxy_server THEN mode ELSE None

(***************************************************************************)
(* ReCreateTun's error path: a failed tun start runs Cleanup(false) to     *)
(* reset LastTunConf, so that applying the same config again starts tun.  *)
(* LastTunConf names an enabled tun only while the tun listener runs.     *)
(***************************************************************************)
TunUpWhenLastConfEnabled ==
  lastTun.enable => tunRun # None

(***************************************************************************)
(* A change of the tun config is never missed: whenever no reload runs    *)
(* and the tun listener runs, it runs the tun settings of the running     *)
(* config (its lists in any order), although hasTunConfigChange compares  *)
(* them with a LastTunConf that Cleanup may have reset and that is sorted *)
(* only on some paths.                                                    *)
(***************************************************************************)
TunRunsCurrentConf ==
  mux = None /\ tunRun # None => SameTunConf(tunRun, mode.tun)
====
