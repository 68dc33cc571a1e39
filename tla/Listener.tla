------------------------------ MODULE Listener ------------------------------
(***************************************************************************)
(* The inbound listener lifecycle (src/listener/listener.go): the          *)
(* ReCreate* function of each listener kind closes the listeners it holds  *)
(* on another address, keeps those on the requested one, and binds new    *)
(* TCP and UDP listeners.  Other processes may hold ports, so a bind may   *)
(* fail at any point.  GetPorts reports a kind's port whenever its global  *)
(* TCP listener is set.                                                    *)
(*                                                                         *)
(* Each ReCreate* runs entirely under its own mutex (httpMux, socksMux,    *)
(* ...), so it is one step.  An address is genAddr(bindAddress, port,      *)
(* allowLan): a model value, or Zero for port 0.  A listener is an entry of *)
(* lst (its index is the pointer held by a global); it is never removed,   *)
(* only closed.                                                            *)
(***************************************************************************)
EXTENDS Naturals, Sequences, FiniteSets

CONSTANTS
  Kinds,         \* the listener kinds: "http", "socks", "redir", "tproxy", "mixed", "shadowsocks"
  Addrs,         \* listen addresses with a non-zero port
  Zero,          \* an address whose port is 0: the listener is disabled
  MaxListeners   \* bound on the number of listeners ever created

ASSUME /\ Kinds \subseteq {"http", "socks", "redir", "tproxy", "mixed", "shadowsocks"}
       /\ Zero \notin Addrs
       /\ MaxListeners \in Nat

VARIABLES
  lst,     \* the listeners created so far: [kind, proto, addr, open]
  tcpG,    \* tcpG[k]: index of kind k's global TCP listener (httpListener, ...), 0 for nil
  udpG,    \* udpG[k]: index of kind k's global UDP listener, 0 for nil
  extern   \* the <<proto, addr>> that other processes hold

vars == <<lst, tcpG, udpG, extern>>

Protos == {"tcp", "udp"}
Listeners == [kind : Kinds, proto : Protos, addr : Addrs, open : BOOLEAN]

(* Every global is nil or points at a listener that was created. *)
TypeOK ==
  /\ lst \in Seq(Listeners) /\ Len(lst) <= MaxListeners
  /\ tcpG \in [Kinds -> 0..Len(lst)]
  /\ udpG \in [Kinds -> 0..Len(lst)]
  /\ extern \subseteq Protos \X Addrs

Init ==
  /\ lst = <<>>
  /\ tcpG = [k \in Kinds |-> 0]
  /\ udpG = [k \in Kinds |-> 0]
  /\ extern \in SUBSET (Protos \X Addrs)

(* net.Listen / net.ListenPacket on a succeeds: neither another process
   nor an open listener of this one holds the port. *)
CanBind(l, p, a) ==
  /\ <<p, a>> \notin extern
  /\ \A i \in DOMAIN l : ~(l[i].open /\ l[i].proto = p /\ l[i].addr = a)

NewListener(l, k, p, a) == Append(l, [kind |-> k, proto |-> p, addr |-> a, open |-> TRUE])
CloseListener(l, i) == [l EXCEPT ![i].open = FALSE]

(* A global listener on another address (closed and set to nil), or on
   this one (kept: RawAddress() == addr). *)
Stale(g, a) == g # 0 /\ lst[g].addr # a
Kept(g, a) == g # 0 /\ lst[g].addr = a

(* Mutation of DropStale: the stale listeners are set to nil without
   Close(). *)
DropStaleNoClose(k, a) == lst

(* The first part of ReCreateSocks, ReCreateMixed and ReCreateShadowsocks:
   close and drop the listeners on another address. *)
DropStale(k, a) ==
  LET l1 == IF Stale(tcpG[k], a) THEN CloseListener(lst, tcpG[k]) ELSE lst
  IN IF Stale(udpG[k], a) THEN CloseListener(l1, udpG[k]) ELSE l1
TcpAfterDrop(k, a) == IF Stale(tcpG[k], a) THEN 0 ELSE tcpG[k]
UdpAfterDrop(k, a) == IF Stale(udpG[k], a) THEN 0 ELSE udpG[k]

SetG(g, k, v) == [g EXCEPT ![k] = v]

Room == Len(lst) + 2 <= MaxListeners

(* Mutation of ReCreateHTTP: a failed http.New leaves httpListener set. *)
ReCreateHTTPKeepOnError(a) ==
  LET t == tcpG["http"]
      l1 == IF t # 0 THEN CloseListener(lst, t) ELSE lst
  IN /\ Room
     /\ ~Kept(t, a)
     /\ IF a = Zero
          THEN lst' = l1 /\ tcpG' = SetG(tcpG, "http", 0)
        ELSE IF CanBind(l1, "tcp", a)
          THEN lst' = NewListener(l1, "http", "tcp", a) /\ tcpG' = SetG(tcpG, "http", Len(l1) + 1)
        ELSE lst' = l1 /\ tcpG' = SetG(tcpG, "http", Len(l1) + 1)
     /\ UNCHANGED <<udpG, extern>>

(***************************************************************************)
(* ReCreateHTTP: keep a listener already on addr; otherwise close it, and  *)
(* unless the port is 0 assign http.New's result (nil on error).           *)
(***************************************************************************)
ReCreateHTTP(a) ==
  LET t == tcpG["http"]
      l1 == IF t # 0 THEN CloseListener(lst, t) ELSE lst
  IN /\ Room
     /\ ~Kept(t, a)
     /\ IF a # Zero /\ CanBind(l1, "tcp", a)
          THEN lst' = NewListener(l1, "http", "tcp", a) /\ tcpG' = SetG(tcpG, "http", Len(l1) + 1)
          ELSE lst' = l1 /\ tcpG' = SetG(tcpG, "http", 0)
     /\ UNCHANGED <<udpG, extern>>

(* Mutation of ReCreateRedirLike: the UDP listener on another address is
   neither checked nor closed. *)
ReCreateRedirLikeKeepUDP(k, a) ==
  LET t == tcpG[k]
      l1 == IF Stale(t, a) THEN CloseListener(lst, t) ELSE lst
      l3 == NewListener(l1, k, "tcp", a)
  IN /\ Room
     /\ ~Kept(t, a)
     /\ CASE a = Zero \/ ~CanBind(l1, "tcp", a) ->
               lst' = l1 /\ tcpG' = SetG(tcpG, k, 0) /\ UNCHANGED udpG
          [] ~CanBind(l3, "udp", a) ->
               lst' = l3 /\ tcpG' = SetG(tcpG, k, Len(l3)) /\ udpG' = SetG(udpG, k, 0)
          [] OTHER ->
               /\ lst' = NewListener(l3, k, "udp", a)
               /\ tcpG' = SetG(tcpG, k, Len(l3)) /\ udpG' = SetG(udpG, k, Len(l3) + 1)
     /\ UNCHANGED extern

(***************************************************************************)
(* ReCreateRedir / ReCreateTProxy: return at once if the TCP listener, or  *)
(* (with no TCP listener left) the UDP listener, is on addr; close the     *)
(* others.  Assign redir.New's result; on success assign NewUDP's result,  *)
(* whose failure is only a warning.                                        *)
(***************************************************************************)
ReCreateRedirLike(k, a) ==
  LET t == tcpG[k]
      u == udpG[k]
      l1 == IF Stale(t, a) THEN CloseListener(lst, t) ELSE lst
      l2 == IF Stale(u, a) THEN CloseListener(l1, u) ELSE l1
      l3 == NewListener(l2, k, "tcp", a)
  IN /\ Room
     /\ ~Kept(t, a)
     /\ CASE Kept(u, a) ->
               lst' = l1 /\ tcpG' = SetG(tcpG, k, 0) /\ UNCHANGED udpG
          [] a = Zero \/ ~CanBind(l2, "tcp", a) ->
               lst' = l2 /\ tcpG' = SetG(tcpG, k, 0) /\ udpG' = SetG(udpG, k, 0)
          [] ~CanBind(l3, "udp", a) ->
               lst' = l3 /\ tcpG' = SetG(tcpG, k, Len(l3)) /\ udpG' = SetG(udpG, k, 0)
          [] OTHER ->
               /\ lst' = NewListener(l3, k, "udp", a)
               /\ tcpG' = SetG(tcpG, k, Len(l3)) /\ udpG' = SetG(udpG, k, Len(l3) + 1)
     /\ UNCHANGED extern


(* Mutation of ReCreatePair: the TCP listener is published before the UDP
   bind, as ReCreateMixed does. *)
ReCreatePairEarlyPublish(k, a, cipherOK) ==
  LET l1 == DropStale(k, a)
      l2 == NewListener(l1, k, "tcp", a)
  IN /\ Room
     /\ CASE (Kept(tcpG[k], a) /\ Kept(udpG[k], a)) \/ a = Zero \/ ~cipherOK
               \/ ~CanBind(l1, "tcp", a) ->
               /\ lst' = l1
               /\ tcpG' = SetG(tcpG, k, TcpAfterDrop(k, a))
               /\ udpG' = SetG(udpG, k, UdpAfterDrop(k, a))
          [] ~CanBind(l2, "udp", a) ->
               /\ lst' = CloseListener(l2, Len(l2))
               /\ tcpG' = SetG(tcpG, k, Len(l2))
               /\ udpG' = SetG(udpG, k, UdpAfterDrop(k, a))
          [] OTHER ->
               /\ lst' = NewListener(l2, k, "udp", a)
               /\ tcpG' = SetG(tcpG, k, Len(l2)) /\ udpG' = SetG(udpG, k, Len(l2) + 1)
     /\ UNCHANGED extern

(* Mutation of ReCreatePair: the new TCP listener is not closed when the
   UDP listener fails. *)
ReCreatePairNoClose(k, a, cipherOK) ==
  LET l1 == DropStale(k, a)
      l2 == NewListener(l1, k, "tcp", a)
  IN /\ Room
     /\ CASE (Kept(tcpG[k], a) /\ Kept(udpG[k], a)) \/ a = Zero \/ ~cipherOK
               \/ ~CanBind(l1, "tcp", a) ->
               /\ lst' = l1
               /\ tcpG' = SetG(tcpG, k, TcpAfterDrop(k, a))
               /\ udpG' = SetG(udpG, k, UdpAfterDrop(k, a))
          [] ~CanBind(l2, "udp", a) ->
               /\ lst' = l2
               /\ tcpG' = SetG(tcpG, k, TcpAfterDrop(k, a))
               /\ udpG' = SetG(udpG, k, UdpAfterDrop(k, a))
          [] OTHER ->
               /\ lst' = NewListener(l2, k, "udp", a)
               /\ tcpG' = SetG(tcpG, k, Len(l2)) /\ udpG' = SetG(udpG, k, Len(l2) + 1)
     /\ UNCHANGED extern

(***************************************************************************)
(* ReCreateSocks / ReCreateShadowsocks: drop the listeners on another      *)
(* address; return if both are on addr, or the port is 0; otherwise bind   *)
(* TCP then UDP into locals, close the TCP one if UDP fails, and publish   *)
(* both only when both succeed.  A cipher PickCipher rejects leaves ciph   *)
(* nil: ciph.StreamConn panics before any bind (its deferred Unlock runs). *)
(***************************************************************************)
ReCreatePair(k, a, cipherOK) ==
  LET l1 == DropStale(k, a)
      l2 == NewListener(l1, k, "tcp", a)
  IN /\ Room
     /\ CASE (Kept(tcpG[k], a) /\ Kept(udpG[k], a)) \/ a = Zero \/ ~cipherOK
               \/ ~CanBind(l1, "tcp", a) ->
               /\ lst' = l1
               /\ tcpG' = SetG(tcpG, k, TcpAfterDrop(k, a))
               /\ udpG' = SetG(udpG, k, UdpAfterDrop(k, a))
          [] ~CanBind(l2, "udp", a) ->
               /\ lst' = CloseListener(l2, Len(l2))
               /\ tcpG' = SetG(tcpG, k, TcpAfterDrop(k, a))
               /\ udpG' = SetG(udpG, k, UdpAfterDrop(k, a))
          [] OTHER ->
               /\ lst' = NewListener(l2, k, "udp", a)
               /\ tcpG' = SetG(tcpG, k, Len(l2)) /\ udpG' = SetG(udpG, k, Len(l2) + 1)
     /\ UNCHANGED extern

(* core.PickCipher: the socks listener has no cipher; a shadowsocks
   cipher name may be one PickCipher rejects. *)
CipherChoices(k) == IF k = "shadowsocks" THEN BOOLEAN ELSE {TRUE}

(***************************************************************************)
(* ReCreateMixed: like ReCreateSocks, but mixed.New's and socks.NewUDP's   *)
(* results are assigned to the globals directly: a failed mixed.New sets   *)
(* mixedListener to nil, and a failed NewUDP closes mixedListener without  *)
(* clearing it and sets mixedUDPLister to nil.                             *)
(***************************************************************************)
ReCreateMixed(a) ==
  LET k == "mixed"
      l1 == DropStale(k, a)
      l2 == NewListener(l1, k, "tcp", a)
  IN /\ Room
     /\ CASE (Kept(tcpG[k], a) /\ Kept(udpG[k], a)) \/ a = Zero ->
               /\ lst' = l1
               /\ tcpG' = SetG(tcpG, k, TcpAfterDrop(k, a))
               /\ udpG' = SetG(udpG, k, UdpAfterDrop(k, a))
          [] ~CanBind(l1, "tcp", a) ->
               /\ lst' = l1
               /\ tcpG' = SetG(tcpG, k, 0)
               /\ udpG' = SetG(udpG, k, UdpAfterDrop(k, a))
          [] ~CanBind(l2, "udp", a) ->
               /\ lst' = CloseListener(l2, Len(l2))
               /\ tcpG' = SetG(tcpG, k, Len(l2)) /\ udpG' = SetG(udpG, k, 0)
          [] OTHER ->
               /\ lst' = NewListener(l2, k, "udp", a)
               /\ tcpG' = SetG(tcpG, k, Len(l2)) /\ udpG' = SetG(udpG, k, Len(l2) + 1)
     /\ UNCHANGED extern

(* Another process binds a free port, or releases one. *)
ExternBind(p, a) ==
  /\ CanBind(lst, p, a)
  /\ extern' = extern \cup {<<p, a>>}
  /\ UNCHANGED <<lst, tcpG, udpG>>

ExternRelease(p, a) ==
  /\ <<p, a>> \in extern
  /\ extern' = extern \ {<<p, a>>}
  /\ UNCHANGED <<lst, tcpG, udpG>>

Next ==
  \/ \E a \in Addrs \cup {Zero} :
       \/ "http" \in Kinds /\ ReCreateHTTP(a)
       \/ \E k \in Kinds \cap {"redir", "tproxy"} : ReCreateRedirLike(k, a)
       \/ \E k \in Kinds \cap {"socks", "shadowsocks"} :
            \E ok \in CipherChoices(k) : ReCreatePair(k, a, ok)
       \/ "mixed" \in Kinds /\ ReCreateMixed(a)
  \/ \E p \in Protos, a \in Addrs : ExternBind(p, a) \/ ExternRelease(p, a)

Spec == Init /\ [][Next]_vars

-----------------------------------------------------------------------------
(* GetPorts: the port of each kind's global TCP listener, 0 when nil. *)
GetPorts == [k \in Kinds |-> IF tcpG[k] # 0 THEN lst[tcpG[k]].addr ELSE Zero]

(***************************************************************************)
(* GetPorts reports only ports that are listened on: for each kind of K, a *)
(* reported port has an open TCP listener of that kind on it, and the      *)
(* global UDP listener is open, whatever binds failed and in whatever      *)
(* order reloads came.                                                     *)
(***************************************************************************)
GlobalsOpenOf(K) ==
  /\ \A k \in K : GetPorts[k] # Zero =>
       \E i \in DOMAIN lst :
         lst[i] = [kind |-> k, proto |-> "tcp", addr |-> GetPorts[k], open |-> TRUE]
  /\ \A k \in K : udpG[k] # 0 => lst[udpG[k]].open

(* For the kinds whose ReCreate* publishes its listeners only after every
   bind succeeded (all but mixed). *)
GlobalsOpenPublishAfterBind == GlobalsOpenOf(Kinds \ {"mixed"})

(* For every kind, ReCreateMixed included. *)
GlobalsOpen == GlobalsOpenOf(Kinds)

(***************************************************************************)
(* A kind's UDP listener is never left alone or on another address: while *)
(* a global UDP listener is set, the global TCP listener of its kind is   *)
(* set on the same address.  The early returns of ReCreate* on a listener *)
(* that is already on the requested address, and the failures of either   *)
(* bind, must not split the pair across reloads.                          *)
(***************************************************************************)
PairedOnSameAddr ==
  \A k \in Kinds : udpG[k] # 0 => tcpG[k] # 0 /\ lst[tcpG[k]].addr = lst[udpG[k]].addr

(***************************************************************************)
(* No listener is leaked: every open listener is held by its kind's       *)
(* global, so the next ReCreate of that kind can close it.                *)
(***************************************************************************)
NoLeak ==
  \A i \in DOMAIN lst : lst[i].open => i \in {tcpG[lst[i].kind], udpG[lst[i].kind]}
====
