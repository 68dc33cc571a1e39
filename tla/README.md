# TLA+ models of the Clash.Meta tunnel dispatcher

These modules model the parts of `src/` where concurrency, ordering and
failure handling meet. Those parts are:

- the UDP NAT path with its single-flight dial;
- the rule engine;
- hot reload of the configuration;
- the resolver facade;
- the lifecycle of the inbound listeners.

Each module is translated from the Go source. The lines each definition
stands for are listed under `"map"` in `PROJECT.json`.

## The system

```
listeners (shadowsocks, mixed, socks, ...)          src/listener/...
   | tcpQueue (blocking send)  udpQueue (non-blocking send, drop when full)
   v
tunnel.process: one goroutine per TCP conn, max(4, GOMAXPROCS) UDP workers
   | handleUDPConn / handleTCPConn                   src/tunnel/tunnel.go
   |   preHandleMetadata -> resolveMetadata -> match (rules, proxies under configMux.RLock)
   |   UDP: natTable Get / GetOrCreateLock -> winner dials, losers wait on a sync.Cond
   v
resolver facade (hosts table, literals, DNS resolvers, DisableIPv6)   src/component/resolver/resolver.go
   ^
executor.ApplyConfig (under mux): proxies, rules, sniffer, hosts, DNS, general   src/hub/executor/executor.go
```

The listeners feed the tunnel through two queues. For every flow, the tunnel
consults the rules, the proxies and the resolver. A configuration reload
replaces the rules, the proxies and the resolver's settings while flows are
being handled.

## Modules

| module | models | state | actions |
|---|---|---|---|
| `UDPNat` | `handleUDPConn`, `processUDP`, `handleShadowsocksUDP`, the relay's end | `queue` (udpQueue), per-packet `stage`/`role`/`cond`/`fwd`/`outcome`, `nat` and `locks` (natTable), `mutex`/`waiters` (each sync.Cond), `conn` | `Receive`, `Dequeue`, `Prepare`, `Get`, `Forward`, `GetOrCreateLock`, `LoserLock`, `CondWait`, `CondRelock`, `Dial`, `Set`, `Release`, `Broadcast`, `RelayEnd` |
| `RuleMatch` | `resolveMetadata`, `match`, `shouldResolveIP` for one flow | the flow's abstract metadata (host set, dst_ip valid, hosts hit, DNS/process outcome), the loop index, `resolved`, `processFound`, lookup counters, `result` | `ResolveMetadata`, `MatchRule` (one loop iteration), `NoMatch` |
| `ConfigReload` | `ApplyConfig` and the `Update*` functions it calls, against a TCP flow (`handleTCPConn`: `preHandleMetadata`, `resolveMetadata`, `match`) or a UDP flow (`handleUDPConn`: the step of the `IsExistFakeIP` check for `fAddr`, `preHandleMetadata`, the local `ResolveIP`, the NAT lookup, then `resolveMetadata` and `match` in the dialing goroutine) | `mux`, each reloader's step, the config each published part came from, `disableIPv6`, the default resolver, the host mapper and its fake-IP pool, `ProxyServerHostResolver`, `LastTunConf` and the tun listener, each provider's load state with the loaders' WaitGroup counter and semaphore tokens, the select groups' choice, what the flow read | `Lock`, `UpdateProxies`, `UpdateRules`, `UpdateSniffer`, `UpdateHosts`, `UpdateDNS`, `Spawn` and `WaitLoaders` (the loop and `wg.Wait` of `loadProxyProvider`/`loadRuleProvider`), `Load` (a loader goroutine), `UpdateProfile`, `UpdateGeneral`, `UpdateTun`, `FakeAddrCheck`, `PreLookup`, `PreFake`, `UDPResolve`, `NatLookup`, `ReadMode`, `Match` |
| `Listener` | the `ReCreate*` functions of listener.go, `GetPorts`, bind failures | `lst` (every listener created: kind, protocol, address, open), `tcpG`/`udpG` (the global listener of each kind, as an index into `lst`), `extern` (ports held by other processes) | `ReCreateHTTP`, `ReCreateRedirLike` (ReCreateRedir and ReCreateTProxy are the same code for their kind), `ReCreatePair` (ReCreateSocks, and ReCreateShadowsocks with a cipher `PickCipher` may reject), `ReCreateMixed`, `ExternBind`, `ExternRelease` |
| `MatchSpec` | what `match` promises (spec 4.2): one return, of the flow's answer | `answer`, `result` | `Return` |
| `Resolver` | every `Resolve*` function of resolver.go | the resolver configuration, the answers of each resolver, the call and its set of possible results | `Resolve` (one call) |

Each model abstracts the data the properties do not tell apart:

- In `UDPNat`, a packet, its source address and the conn a winner dials are
  model values. The sync.Cond that the winner p creates is identified with p.
- In `RuleMatch`, a rule is a record `[kind, hit, adapter]`. `kind` is the
  metadata field the rule reads, and `hit` says whether the payload agrees
  with the flow. The rule implementations live outside `src/` and are
  modelled from spec 3 and 4.2 (`spec_modelled` in the map).
- In `ConfigReload`, a config is the record of the switches that decide what
  `updateDNS` installs: general and DNS ipv6, DNS enabled, proxy-server
  nameservers, fake-ip mode, whether the profile stores selections, and the tun settings. The tun settings are one switch
  standing for all of `config.Tun`'s scalar fields, plus the dns-hijack list
  standing for its lists. A published part, a resolver or a mapper is the
  config it came from. The fake-IP pool is one boolean: whether it still maps
  the flow's fake address (handed out under the boot config) to its host.
  Once lost it stays lost: store-fake-ip persistence and the reuse of an
  address, which could bring it back, are not modelled. The value of
  `fAddr` is not kept, since no property reads it; its check is kept as a
  step, so that a reload can run before the later reads of the mapper.
  `PatchFrom` and the mapper's `MappingEnabled`/`FakeIPEnabled`/`IsFakeIP`
  live outside `src/` and are modelled from spec 4.3 and 6. Whether a flow
  is TCP or UDP is chosen at the start. The outcome of the UDP flow's local
  resolve is a free choice, and so is whether its NAT entry exists: the NAT
  table is the `UDPNat` model.
  A provider is a model value that every config names (one proxy provider,
  two rule providers). Its `Initial` lives outside `src/` and is one step
  that returns; its error is only logged, so failure and success are the
  same step. The selection of the select groups is `default` or `stored`,
  and whether the cache file holds a mapping is the constant
  `SelectionCached`.
- In `Resolver`, an address is a model value of `V4` or `V6`, and `V4in6`
  are the v4-mapped addresses. The lists are shuffled, so they become sets. A
  DNS resolver (`dns.Resolver`, outside `src/`) answers each family with `ok`
  or `err`. The hosts table maps every host, name or literal, to an address
  or nothing: `DefaultHosts.Search` runs on the host string before it is
  parsed.
- In `Listener`, an address is a model value, or `Zero` for port 0. A bind
  fails when another process, or an open listener of this process, holds
  the port. Each `ReCreate*` runs under its own mutex and is one step.

Each handler is one action, in the code's order. In `UDPNat` each step is
one atomic access to shared state:

- a natTable call;
- a mutex acquisition;
- `cond.Wait`, which joins the notify list and unlocks in one step, as Go's
  implementation does;
- `Broadcast`.

## Runs

| run | cfg | expect | shows |
|---|---|---|---|
| udp_single_flight | `MCUDPNat.cfg` | pass | `AtMostOneDialInFlight`: at most one `ListenPacketContext` per key at a time; `LockEventuallyReleased`: every path of a winner deletes the `-lock` entry |
| udp_double_dial | `MCUDPNat_NoDialWhileEntryInstalled.cfg` | violation | a second dial for a key whose entry is installed (spec 4.5) |
| udp_stale_nat_entry | `MCUDPNat_NatEntryOpen.cfg` | violation | the relay ends before `natTable.Set`, and a closed conn stays in the table |
| udp_lost_wakeup | `MCUDPNat_EveryPacketFinishes.cfg` | violation | a loser waits after the broadcast and never wakes |
| rule_match_reference | `MCRuleMatch.cfg` | pass | `match` implements `MatchSpec` under the refinement mapping `answer <- RefResult` (a declarative reference of first-usable-match), so it returns that adapter exactly once; at most one DNS lookup; a successful process lookup is never repeated (`ProcessLookupRepeatedOnlyAfterFailure`). A failed one is repeated for every later rule that asks, where spec 4.2 says once |
| reload_serialized | `MCConfigReload.cfg` | pass | with two reloaders, every part, the resolver, the mapper and the select groups agree between reloads (`ConsistentWhenIdle`); the tun listener, when it runs, runs the current config's tun settings up to list order (`TunRunsCurrentConf`), so `hasTunConfigChange` misses no change; a provider is uninitialised only while the reload holding the mux has not yet passed its loading loop (`ProvidersLoadedAfterLoop`), which needs `wg.Add` before each goroutine |
| reload_torn_read | `MCConfigReload_NoTornRead.cfg` | violation | a flow sees new proxies with old rules (spec 8.2) |
| reload_tun_no_retry | `MCConfigReload_TunUpWhenLastConfEnabled.cfg` | violation | a failed tun start is recorded in `LastTunConf`, so a reload of the same config does not retry |
| reload_stale_proxy_resolver | `MCConfigReload_ProxyServerResolverCurrent.cfg` | violation | a reload to a config without proxy-server nameservers (or with DNS disabled) keeps the previous config's `ProxyServerHostResolver` |
| listener_lifecycle | `MCListener.cfg` | pass | HTTP, Shadowsocks, TProxy and Mixed reloads. For every kind but mixed, `GetPorts` reports only listening ports (`GlobalsOpenPublishAfterBind`). No open listener of any kind is left without a global (`NoLeak`). A global UDP listener always has its kind's TCP listener beside it on the same address (`PairedOnSameAddr`), whatever binds fail and whichever early returns are taken |
| listener_mixed_closed_global | `MCListener_GlobalsOpen.cfg` | violation | `GlobalsOpen` for every kind, mixed beside socks: after a failed UDP bind, `mixedListener` keeps the listener it has just closed |
| resolver_policy | `MCResolver.cfg` | pass | IPv6 functions short-circuit under `DisableIPv6`; a literal never reaches DNS and is answered with itself or with the hosts entry keyed by it (`DefaultHosts` is searched before `ParseAddr`) |

Each property of a passing run is paired with a mutant in `PROJECT.json`: a
plausible bug in the mapped code that TLC must catch. The findings in
`PROJECT.json` say what each violation means for the code.

## Bounds

- **UDPNat:** three packets from one source address, two workers and a
  queue of capacity 2. That is enough for:
  - a full queue (the drop branch);
  - a winner and a loser;
  - a third packet that races the winner's `Set` and `Delete`. This is what
    the double dial and the lost wakeup need.

  Packets of one key are symmetric, but the run checks a temporal property,
  so it uses no symmetry.
- **RuleMatch:** every rule list of up to three rules over a rule set that
  covers:
  - each kind, hitting or not;
  - a `MATCH` rule for each adapter name: a proxy, `PASS`, a group that
    unwraps to `PASS`, a TCP-only proxy and a missing name.

  These are crossed with every mode, network and lookup outcome.
- **ConfigReload:** two reloaders and one flow, TCP or UDP, over
  twenty-seven configs:
  - DNS disabled, for either general ipv6 and either tun setting;
  - DNS enabled with every choice of the two ipv6 switches, proxy-server
    nameservers and fake-ip, with tun off;
  - fake-ip configs with tun on.

  Store-selected is on in the DNS-disabled configs with general ipv6 and in
  the tun configs, so a reload turns it on and off. The loaders'
  `concurrentCount` is 1 with two rule providers, so the loop blocks on the
  full channel until the first loader returns.

  Tun is either off, or on with the dns-hijack list `<<1>>`, `<<2>>` or
  `<<2, 1>>`. Those cover a list of another length, a list of the same
  length with other entries, and a list out of order, which
  `hasTunConfigChange` stores unsorted. The boot config
  uses fake-ip and a proxy-server nameserver. Two reloads reach a pool lost
  and a fake-ip mapper installed again (the `missing` outcome), and a swap
  of mapper between the flow's two reads (the `mapping` outcome).
- **Listener:** two addresses and port 0, ports that other processes take
  and release, and at most six listeners ever created. That covers three
  reloads that each create a TCP and UDP pair. The run takes one kind of
  each shape of `ReCreate*`: HTTP (TCP only), TProxy (standing for Redir,
  whose code is the same), Shadowsocks (standing for SOCKS, with the
  cipher failure added), and Mixed. With all six kinds the run holds too
  (8.5 million states) but takes four minutes.
- **Resolver:** one name with an IPv4 and an IPv6 address, and a v4-mapped
  literal. It covers every hosts entry, for the name and for each literal,
  every answer of the three resolvers,
  and each of the 12 functions.

## Refinement

`MatchSpec` is the abstract specification of `match` for one flow. The flow
is owed an `answer`, and `Return` sets `result` to it once. `RuleMatch`
instantiates it with `answer <- RefResult`: the first rule, in list order,
that matches the metadata as that rule sees it and whose adapter is usable.
`ResolveMetadata` and every `MatchRule` iteration that continues are
stuttering steps of `MatchSpec`. The step that returns is its `Return`.
The run checks `Abstract!SafetySpec`, the initial predicate and the
`[][Return]_<<answer, result>>` part. Termination is not checked by TLC
here, because the temporal check over 1.25 million initial states takes
seven minutes. It follows from `i` rising at every step that does not
return.

## Fairness

`UDPNat` assumes weak fairness for the following:

- each packet's handler steps and the workers' dequeue, since Go's
  scheduler runs runnable goroutines;
- the rule engine's loop.

It assumes strong fairness for acquiring `cond.L`, since sync.Mutex's
starvation mode hands the lock to a waiter that keeps asking.

Arrivals and the end of a relay (idle timeout) belong to the environment and
are not fair. The dispatcher is a server, so with a bounded supply of
packets it idles. That is why the runs set `CHECK_DEADLOCK FALSE`.

## Not modelled, and the plan

- **Fake-IP prehandling:** the literal-host branch of `preHandleMetadata` and
  redir-host mode are not modelled; the fake-IP path is in `ConfigReload`.
- **TCP dispatch:** the `tcpQueue`, the dial and the relay of `handleTCPConn`
  are not modelled. `process` starts one goroutine per queued connection,
  and listeners such as `handleShadowsocks` send on the queue from a
  goroutine of their own. So a full queue only delays that connection. It
  never stalls an accept loop, and there is no shared state to check.
- **Listener lifecycle:** `ReCreateTun`'s bookkeeping (`LastTunConf`,
  `hasTunConfigChange` with its early returns and in-place sort, the failure
  path) is modelled in `ConfigReload`. A needless tun restart is not checked
  by any run. It happens when `LastTunConf` was stored unsorted and the same
  config is applied again; the hazard list in `PROJECT.json` records it. The
  tun device itself, auto-redir, the tc eBPF program (OS provisioning),
  the accept loops, and the unlocked reads of the listener globals in
  `GetPorts` are not modelled.
  `ReCreateShadowsocks` ignores the `PickCipher` error. The nil cipher's
  panic is modelled as an abort after the stale listeners are closed.
- **An abstract single-flight specification for `UDPNat`:** not written.
  It would only restate `AtMostOneDialInFlight`. `RelayEnd` models the relay
  end's unconditional `Delete` of the NAT key. No property asks whether that
  delete can remove an entry that a newer connection set.
- **The rest of `ApplyConfig`:** `updateUsers`, the experimental steps and
  `GetGeneral` change or read nothing a flow in the model reads.
  `updateIPTables` is Linux-only. It exits the process when iptables cannot
  be set, and that is not modelled. Liveness of `ApplyConfig` is not
  checked: the loaders' channel blocks while `mux` is held, and a provider
  that never returns would stall every later reload. The reload model has
  3.4M states, and a liveness check over them does not fit the time a run
  is given.
- **Listen addresses:** `genAddr` and `portIsZero` are abstracted to a
  model value or `Zero`. `genAddr` joins an IPv6 bind address with
  `Sprintf`, and `portIsZero` then takes the listener for disabled; this is
  recorded as a hazard only.
- **Time** (DNS and UDP timeouts), `dialer/mark_nonlinux.go` (a one-time
  warning), and the logic rule tests (their implementation is outside
  `src/`): not modelled.
