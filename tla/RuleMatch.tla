------------------------------ MODULE RuleMatch ------------------------------
(***************************************************************************)
(* The rule engine of the tunnel (src/tunnel/tunnel.go, match and          *)
(* resolveMetadata) for one flow.  Init enumerates the flows and           *)
(* configurations; each step is one iteration of match's loop over the     *)
(* rules.  The rule list and the proxy table are fixed during a match: it  *)
(* holds configMux.RLock throughout.                                       *)
(*                                                                         *)
(* Data abstraction.  A rule is a record [kind, hit, adapter]: kind says   *)
(* which metadata field the rule reads (the rule implementations are      *)
(* outside src/, modelled from spec 3 and 4.2), hit whether its payload    *)
(* agrees with the flow's value of that field.  Addresses are abstracted   *)
(* to "dst_ip is valid"; DNS and process lookups to their success.         *)
(***************************************************************************)
EXTENDS Naturals, Sequences, FiniteSets

CONSTANTS
  RuleSet,     \* the rules a configuration may contain
  MaxRules,    \* the longest rule list enumerated
  Proxies,     \* proxies: adapter name -> [type, unwrap, udp]
  Names,       \* the adapter names rules may refer to
  None

RuleKinds == {"domain", "ipcidr", "ipcidr_noresolve", "process", "match"}
Modes == {"Rule", "Global", "Direct"}

ASSUME /\ RuleSet \subseteq [kind : RuleKinds, hit : BOOLEAN, adapter : Names]
       /\ MaxRules \in Nat
       /\ {"DIRECT", "GLOBAL"} \subseteq DOMAIN Proxies
       /\ \A n \in DOMAIN Proxies : Proxies[n].unwrap \in DOMAIN Proxies \cup {None}

VARIABLES
  rules,        \* the rule list
  mode,         \* tunnel mode
  network,      \* metadata.NetWork
  hasHost,      \* metadata.Host != ""
  ipInit,       \* metadata.DstIP.IsValid() when match is entered
  ipValid,      \* metadata.DstIP.IsValid()
  hostsHit,     \* resolver.DefaultHosts.Search(metadata.Host) != nil
  dnsOK,        \* resolver.ResolveIP(metadata.Host) succeeds
  procOK,       \* P.FindProcessName succeeds for the flow's socket
  alwaysFind,   \* alwaysFindProcess
  i,            \* index of the next rule of the loop (0: before the loop)
  resolved,     \* match's local `resolved`
  processFound, \* match's local `processFound`
  process,      \* metadata.Process has been set
  dnsLookups,   \* number of ResolveIP calls made for the flow
  procLookups,  \* number of FindProcessName calls made for the flow
  result        \* the adapter returned, None while matching

vars == <<rules, mode, network, hasHost, ipInit, ipValid, hostsHit, dnsOK, procOK,
          alwaysFind, i, resolved, processFound, process, dnsLookups,
          procLookups, result>>

RuleLists == UNION {[1..n -> RuleSet] : n \in 0..MaxRules}

TypeOK ==
  /\ rules \in RuleLists
  /\ mode \in Modes
  /\ network \in {"TCP", "UDP"}
  /\ {hasHost, ipInit, ipValid, hostsHit, dnsOK, procOK, alwaysFind} \subseteq BOOLEAN
  /\ {resolved, processFound, process} \subseteq BOOLEAN
  /\ i \in 0..MaxRules + 1
  /\ dnsLookups \in Nat /\ procLookups \in Nat
  /\ result \in DOMAIN Proxies \cup {None}

(* Rule capabilities (spec 3): which rules ask for resolution or a process. *)
ShouldResolveIPRule(r) == r.kind = "ipcidr"
ShouldFindProcessRule(r) == r.kind = "process"

(* rule.Match(metadata) on the abstract metadata. *)
RuleMatches(r, ipv, proc) ==
  CASE r.kind = "domain"           -> hasHost /\ r.hit
    [] r.kind = "ipcidr"           -> ipv /\ r.hit
    [] r.kind = "ipcidr_noresolve" -> ipv /\ r.hit
    [] r.kind = "process"          -> proc /\ r.hit
    [] r.kind = "match"            -> TRUE

(* Mutation of Usable: the `proxies[rule.Adapter()]` lookup is not checked,
   a rule naming no proxy returns that (nil) adapter. *)
UsableNoLookupCheck(n) ==
  \/ n \notin DOMAIN Proxies
  \/ /\ Proxies[n].type # "Pass"
     /\ ~(Proxies[n].unwrap # None /\ Proxies[Proxies[n].unwrap].type = "Pass")
     /\ (network = "UDP" => Proxies[n].udp)

(* The checks after a match: the adapter exists, is not PASS directly or
   after one Unwrap, and supports UDP when the flow is UDP. *)
Usable(n) ==
  /\ n \in DOMAIN Proxies
  /\ Proxies[n].type # "Pass"
  /\ ~(Proxies[n].unwrap # None /\ Proxies[Proxies[n].unwrap].type = "Pass")
  /\ (network = "UDP" => Proxies[n].udp)

(* After preHandleMetadata at least one of host and dst_ip is set. *)
Init ==
  /\ rules \in RuleLists
  /\ mode \in Modes
  /\ network \in {"TCP", "UDP"}
  /\ hasHost \in BOOLEAN
  /\ ipInit \in BOOLEAN
  /\ ipValid = ipInit
  /\ hasHost \/ ipInit
  /\ hostsHit \in (IF hasHost THEN BOOLEAN ELSE {FALSE})
  /\ dnsOK \in BOOLEAN
  /\ procOK \in BOOLEAN
  /\ alwaysFind \in BOOLEAN
  /\ i = 0
  /\ resolved = FALSE /\ processFound = FALSE /\ process = FALSE
  /\ dnsLookups = 0 /\ procLookups = 0
  /\ result = None

Flow == <<rules, mode, network, hasHost, ipInit, hostsHit, dnsOK, procOK, alwaysFind>>

(***************************************************************************)
(* resolveMetadata: Direct and Global mode pick the fixed adapter; Rule    *)
(* mode enters match, which takes the read lock and consults the hosts     *)
(* table first: a hit sets dst_ip and counts as resolved.                  *)
(***************************************************************************)
ResolveMetadata ==
  /\ i = 0 /\ result = None
  /\ \/ /\ mode = "Direct"
        /\ result' = "DIRECT"
        /\ UNCHANGED <<i, ipValid, resolved>>
     \/ /\ mode = "Global"
        /\ result' = "GLOBAL"
        /\ UNCHANGED <<i, ipValid, resolved>>
     \/ /\ mode = "Rule"
        /\ i' = 1
        /\ ipValid' = (ipValid \/ hostsHit)
        /\ resolved' = hostsHit
        /\ UNCHANGED result
  /\ UNCHANGED <<Flow, processFound, process, dnsLookups, procLookups>>

(* Mutation of ResolvedAfter: `resolved = true` moved into the success branch. *)
ResolvedAfterOnSuccess(wasResolved, doDNS, ok) == wasResolved \/ (doDNS /\ ok)

(* match's `resolved` after an iteration: set by every resolution attempt,
   failed ones included. *)
ResolvedAfter(wasResolved, doDNS, ok) == wasResolved \/ doDNS

(* Mutation of MatchRule: processFound is not recorded after a successful
   lookup. *)
MatchRuleProcessNotRecorded ==
  /\ result = None
  /\ i \in 1..Len(rules)
  /\ LET r == rules[i]
         doDNS == ~resolved /\ ShouldResolveIPRule(r) /\ hasHost /\ ~ipValid
         ipv == ipValid \/ (doDNS /\ dnsOK)
         doProc == ~processFound /\ (alwaysFind \/ ShouldFindProcessRule(r))
         proc == process \/ (doProc /\ procOK)
     IN /\ resolved' = ResolvedAfter(resolved, doDNS, dnsOK)
        /\ ipValid' = ipv
        /\ dnsLookups' = dnsLookups + IF doDNS THEN 1 ELSE 0
        /\ procLookups' = procLookups + IF doProc THEN 1 ELSE 0
        /\ UNCHANGED processFound
        /\ process' = proc
        /\ IF RuleMatches(r, ipv, proc) /\ Usable(r.adapter)
           THEN result' = r.adapter /\ i' = i
           ELSE result' = None /\ i' = i + 1
  /\ UNCHANGED Flow

(* Mutation of MatchRule: rule.Match sees the metadata as it was before
   this iteration's resolution and process lookup. *)
MatchRuleStale ==
  /\ result = None
  /\ i \in 1..Len(rules)
  /\ LET r == rules[i]
         doDNS == ~resolved /\ ShouldResolveIPRule(r) /\ hasHost /\ ~ipValid
         ipv == ipValid \/ (doDNS /\ dnsOK)
         doProc == ~processFound /\ (alwaysFind \/ ShouldFindProcessRule(r))
         proc == process \/ (doProc /\ procOK)
     IN /\ resolved' = ResolvedAfter(resolved, doDNS, dnsOK)
        /\ ipValid' = ipv
        /\ dnsLookups' = dnsLookups + IF doDNS THEN 1 ELSE 0
        /\ procLookups' = procLookups + IF doProc THEN 1 ELSE 0
        /\ processFound' = (processFound \/ (doProc /\ procOK))
        /\ process' = proc
        /\ IF RuleMatches(r, ipValid, process) /\ Usable(r.adapter)
           THEN result' = r.adapter /\ i' = i
           ELSE result' = None /\ i' = i + 1
  /\ UNCHANGED Flow

(***************************************************************************)
(* One iteration of `for _, rule := range rules`: the lazy resolution      *)
(* (once; a failure is logged and still sets resolved), the process        *)
(* lookup (processFound is set only when it succeeds), rule.Match and the  *)
(* adapter checks, which either return the adapter or continue.            *)
(***************************************************************************)
MatchRule ==
  /\ result = None
  /\ i \in 1..Len(rules)
  /\ LET r == rules[i]
         doDNS == ~resolved /\ ShouldResolveIPRule(r) /\ hasHost /\ ~ipValid
         ipv == ipValid \/ (doDNS /\ dnsOK)
         doProc == ~processFound /\ (alwaysFind \/ ShouldFindProcessRule(r))
         proc == process \/ (doProc /\ procOK)
     IN /\ resolved' = ResolvedAfter(resolved, doDNS, dnsOK)
        /\ ipValid' = ipv
        /\ dnsLookups' = dnsLookups + IF doDNS THEN 1 ELSE 0
        /\ procLookups' = procLookups + IF doProc THEN 1 ELSE 0
        /\ processFound' = (processFound \/ (doProc /\ procOK))
        /\ process' = proc
        /\ IF RuleMatches(r, ipv, proc) /\ Usable(r.adapter)
           THEN result' = r.adapter /\ i' = i
           ELSE result' = None /\ i' = i + 1
  /\ UNCHANGED Flow

(* No rule returned: `return proxies["DIRECT"], nil, nil`. *)
NoMatch ==
  /\ result = None
  /\ i = Len(rules) + 1
  /\ result' = "DIRECT"
  /\ UNCHANGED <<Flow, i, ipValid, resolved, processFound, process, dnsLookups, procLookups>>

Done == result # None /\ UNCHANGED vars

Next == ResolveMetadata \/ MatchRule \/ NoMatch \/ Done

Spec == Init /\ [][Next]_vars /\ WF_vars(ResolveMetadata \/ MatchRule \/ NoMatch)

-----------------------------------------------------------------------------
(***************************************************************************)
(* Reference definition of what match returns (spec 4.2): the adapter of   *)
(* the first rule that matches the metadata as it stands when that rule is *)
(* evaluated and whose adapter is usable; DIRECT if there is none.  At     *)
(* rule k dst_ip is valid if it was, or the hosts table hit, or the name   *)
(* resolves and some rule up to k asks for resolution; the process is     *)
(* known if its lookup succeeds and some rule up to k asks for it.        *)
(***************************************************************************)
RefIPAt(k) ==
  \/ ipInit \/ hostsHit
  \/ dnsOK /\ hasHost /\ \E j \in 1..k : ShouldResolveIPRule(rules[j])
RefProcAt(k) ==
  procOK /\ \E j \in 1..k : alwaysFind \/ ShouldFindProcessRule(rules[j])
RefHits ==
  {k \in DOMAIN rules : RuleMatches(rules[k], RefIPAt(k), RefProcAt(k)) /\ Usable(rules[k].adapter)}
RefResult ==
  CASE mode = "Direct" -> "DIRECT"
    [] mode = "Global" -> "GLOBAL"
    [] mode = "Rule" /\ RefHits = {} -> "DIRECT"
    [] OTHER -> rules[CHOOSE k \in RefHits : \A j \in RefHits : k <= j].adapter

(***************************************************************************)
(* resolveMetadata and match implement MatchSpec: the flow's answer is the *)
(* reference definition's, and the loop, with its lazy once-only          *)
(* resolution, its process lookup and the PASS / Unwrap / UDP checks,     *)
(* returns exactly that adapter, once.  Its steps before the return are   *)
(* stuttering steps of MatchSpec.  (That it returns at all follows from   *)
(* i rising at every step the result is not set; the run checks the      *)
(* safety part of the refinement.)                                       *)
(***************************************************************************)
Abstract == INSTANCE MatchSpec WITH Adapters <- DOMAIN Proxies, answer <- RefResult

MatchImplementsSpec == Abstract!SafetySpec

(***************************************************************************)
(* Spec 4.2 and 8.8: a flow is resolved at most once, and never when the   *)
(* hosts table already gave its address, however many IP rules follow and *)
(* whether or not the first resolution failed.                            *)
(***************************************************************************)
AtMostOneDNSLookup ==
  /\ dnsLookups <= 1
  /\ hostsHit => dnsLookups = 0

(***************************************************************************)
(* match's processFound: a process lookup that succeeded is never made    *)
(* again for the flow, whatever rules and always-find-process ask for     *)
(* afterwards; only failed lookups are repeated (spec 4.2 asks for one    *)
(* lookup per flow, success or failure: the code retries failures).       *)
(***************************************************************************)
ProcessLookupRepeatedOnlyAfterFailure ==
  procOK => procLookups <= 1
====
