------------------------------- MODULE UDPNat -------------------------------
(***************************************************************************)
(* The UDP path of the tunnel dispatcher (src/tunnel/tunnel.go):           *)
(*                                                                         *)
(*   listener --(udpQueue, non-blocking send)--> UDP worker pool           *)
(*   worker: handleUDPConn = prepare metadata; natTable.Get(key);          *)
(*           on miss natTable.GetOrCreateLock(key+"-lock") and spawn a     *)
(*           goroutine that is either the WINNER (dial, install the NAT    *)
(*           entry, start the reverse relay, delete the lock, Broadcast)   *)
(*           or a LOSER (cond.L.Lock; cond.Wait; handle(); Unlock).        *)
(*   relay:  handleUDPToLocal closes the outbound conn and deletes the     *)
(*           NAT entry of its key when it ends (idle timeout or error).    *)
(*                                                                         *)
(* Every packet is its own thread of control: first on a worker, then on   *)
(* the goroutine handleUDPConn spawns.  The condition variable created by  *)
(* the winner packet p is identified with p itself, and so is the outbound *)
(* packet conn p dials.                                                    *)
(***************************************************************************)
EXTENDS Naturals, Sequences, FiniteSets

CONSTANTS
  Packets,     \* the UDP packets the listeners receive (model values)
  Keys,        \* source addresses: the NAT key packet.LocalAddr().String()
  KeyOf,       \* KeyOf[p]: the source address packet p came from
  NumWorkers,  \* numUDPWorkers = max(4, GOMAXPROCS)
  QueueCap,    \* capacity of udpQueue (200 in the code)
  None         \* no entry / no conn / no holder

ASSUME /\ KeyOf \in [Packets -> Keys]
       /\ NumWorkers \in Nat \ {0}
       /\ QueueCap \in Nat \ {0}
       /\ None \notin Packets

VARIABLES
  queue,    \* udpQueue: the packets sent by listeners, not yet received
  stage,    \* stage[p]: where the thread handling packet p is
  role,     \* role[p]: "worker", or the goroutine kind "winner"/"loser"
  cond,     \* cond[p]: the cond returned to p by GetOrCreateLock
  fwd,      \* fwd[p]: the conn handle() read from natTable for p
  outcome,  \* outcome[p]: what became of p's payload
  nat,      \* natTable: key -> outbound conn
  locks,    \* natTable: key+"-lock" -> cond
  mutex,    \* mutex[c]: the holder of cond c's L (a sync.Mutex)
  waiters,  \* waiters[c]: goroutines in cond c's notify list
  conn      \* conn[c]: the outbound conn dialed by winner c

vars == <<queue, stage, role, cond, fwd, outcome, nat, locks, mutex, waiters, conn>>

OptPacket == Packets \cup {None}

Stages == {"idle", "queued", "prep", "get", "fwd", "lock",
           "g_lock", "g_wait", "g_sleep", "g_relock",
           "dial", "set", "release", "bcast", "done"}

TypeOK ==
  /\ queue \in Seq(Packets) /\ Len(queue) <= QueueCap
  /\ stage \in [Packets -> Stages]
  /\ role \in [Packets -> {"worker", "winner", "loser"}]
  /\ cond \in [Packets -> OptPacket]
  /\ fwd \in [Packets -> OptPacket]
  /\ outcome \in [Packets -> {"none", "sent", "lost", "dropped"}]
  /\ nat \in [Keys -> OptPacket]
  /\ locks \in [Keys -> OptPacket]
  /\ mutex \in [Packets -> OptPacket]
  /\ waiters \in [Packets -> SUBSET Packets]
  /\ conn \in [Packets -> {"none", "open", "closed"}]

\* The packets a UDP worker is busy with: handleUDPConn runs on the worker
\* until it has spawned its goroutine.
BusyWorkers ==
  {p \in Packets : role[p] = "worker" /\ stage[p] \in {"prep", "get", "fwd", "lock"}}

Init ==
  /\ queue = <<>>
  /\ stage = [p \in Packets |-> "idle"]
  /\ role = [p \in Packets |-> "worker"]
  /\ cond = [p \in Packets |-> None]
  /\ fwd = [p \in Packets |-> None]
  /\ outcome = [p \in Packets |-> "none"]
  /\ nat = [k \in Keys |-> None]
  /\ locks = [k \in Keys |-> None]
  /\ mutex = [c \in Packets |-> None]
  /\ waiters = [c \in Packets |-> {}]
  /\ conn = [c \in Packets |-> "none"]

(* Mutation of Receive: the capacity test is off by one. *)
ReceiveOffByOne(p) ==
  /\ stage[p] = "idle"
  /\ \/ /\ Len(queue) <= QueueCap
        /\ queue' = Append(queue, p)
        /\ stage' = [stage EXCEPT ![p] = "queued"]
        /\ UNCHANGED outcome
     \/ /\ Len(queue) > QueueCap
        /\ stage' = [stage EXCEPT ![p] = "done"]
        /\ outcome' = [outcome EXCEPT ![p] = "dropped"]
        /\ UNCHANGED queue
  /\ UNCHANGED <<role, cond, fwd, nat, locks, mutex, waiters, conn>>

(***************************************************************************)
(* handleShadowsocksUDP: `select { case in <- packet: default: }`; a full  *)
(* udpQueue drops the packet.                                              *)
(***************************************************************************)
Receive(p) ==
  /\ stage[p] = "idle"
  /\ \/ /\ Len(queue) < QueueCap
        /\ queue' = Append(queue, p)
        /\ stage' = [stage EXCEPT ![p] = "queued"]
        /\ UNCHANGED outcome
     \/ /\ Len(queue) = QueueCap
        /\ stage' = [stage EXCEPT ![p] = "done"]
        /\ outcome' = [outcome EXCEPT ![p] = "dropped"]
        /\ UNCHANGED queue
  /\ UNCHANGED <<role, cond, fwd, nat, locks, mutex, waiters, conn>>

(* processUDP: a free worker receives the next packet of udpQueue. *)
Dequeue ==
  /\ queue # <<>>
  /\ Cardinality(BusyWorkers) < NumWorkers
  /\ queue' = Tail(queue)
  /\ stage' = [stage EXCEPT ![Head(queue)] = "prep"]
  /\ UNCHANGED <<role, cond, fwd, outcome, nat, locks, mutex, waiters, conn>>

(***************************************************************************)
(* handleUDPConn up to the key: an invalid metadata, a prehandle error     *)
(* (fake DNS record missing) or a failed local resolution drops p.         *)
(***************************************************************************)
Prepare(p) ==
  /\ stage[p] = "prep"
  /\ \/ /\ stage' = [stage EXCEPT ![p] = "get"]
        /\ UNCHANGED outcome
     \/ /\ stage' = [stage EXCEPT ![p] = "done"]
        /\ outcome' = [outcome EXCEPT ![p] = "dropped"]
  /\ UNCHANGED <<queue, role, cond, fwd, nat, locks, mutex, waiters, conn>>

(***************************************************************************)
(* What each thread does once handle() has returned for p, with p's        *)
(* payload now in state out: the worker returns; a loser runs              *)
(* cond.L.Unlock(); the winner goes on to its deferred cleanup.            *)
(***************************************************************************)
AfterHandle(p, out) ==
  /\ outcome' = [outcome EXCEPT ![p] = out]
  /\ stage' = [stage EXCEPT ![p] = IF role[p] = "winner" THEN "release" ELSE "done"]
  /\ mutex' = IF role[p] = "loser" THEN [mutex EXCEPT ![cond[p]] = None] ELSE mutex

(***************************************************************************)
(* handle(): natTable.Get(key).  On a hit the payload goes to that conn.   *)
(* On a miss the worker goes on to the lock; a loser or the winner gives   *)
(* the packet up.                                                          *)
(***************************************************************************)
Get(p) ==
  /\ stage[p] = "get"
  /\ \/ /\ nat[KeyOf[p]] # None
        /\ fwd' = [fwd EXCEPT ![p] = nat[KeyOf[p]]]
        /\ stage' = [stage EXCEPT ![p] = "fwd"]
        /\ UNCHANGED <<outcome, mutex>>
     \/ /\ nat[KeyOf[p]] = None
        /\ role[p] = "worker"
        /\ stage' = [stage EXCEPT ![p] = "lock"]
        /\ UNCHANGED <<fwd, outcome, mutex>>
     \/ /\ nat[KeyOf[p]] = None
        /\ role[p] # "worker"
        /\ AfterHandle(p, "dropped")
        /\ UNCHANGED fwd
  /\ UNCHANGED <<queue, role, cond, nat, locks, waiters, conn>>

(***************************************************************************)
(* handleUDPToRemote: write the payload to the conn handle() read; the     *)
(* write error of a conn the relay has closed meanwhile is ignored.        *)
(***************************************************************************)
Forward(p) ==
  /\ stage[p] = "fwd"
  /\ AfterHandle(p, IF conn[fwd[p]] = "open" THEN "sent" ELSE "lost")
  /\ UNCHANGED <<queue, role, cond, fwd, nat, locks, waiters, conn>>

(* Mutation of GetOrCreateLock: the loaded result is ignored, every packet
   that misses the NAT entry becomes a winner. *)
GetOrCreateLockIgnoreLoaded(p) ==
  /\ stage[p] = "lock"
  /\ locks' = [locks EXCEPT ![KeyOf[p]] = p]
  /\ role' = [role EXCEPT ![p] = "winner"]
  /\ cond' = [cond EXCEPT ![p] = p]
  /\ stage' = [stage EXCEPT ![p] = "dial"]
  /\ UNCHANGED <<queue, fwd, outcome, nat, mutex, waiters, conn>>

(***************************************************************************)
(* natTable.GetOrCreateLock(key+"-lock") and `go func()`: the first packet *)
(* to find no lock creates it and becomes the winner; the others get the   *)
(* existing cond and become losers.  The worker is free afterwards.        *)
(***************************************************************************)
GetOrCreateLock(p) ==
  /\ stage[p] = "lock"
  /\ LET k == KeyOf[p] IN
       \/ /\ locks[k] = None
          /\ locks' = [locks EXCEPT ![k] = p]
          /\ role' = [role EXCEPT ![p] = "winner"]
          /\ cond' = [cond EXCEPT ![p] = p]
          /\ stage' = [stage EXCEPT ![p] = "dial"]
       \/ /\ locks[k] # None
          /\ role' = [role EXCEPT ![p] = "loser"]
          /\ cond' = [cond EXCEPT ![p] = locks[k]]
          /\ stage' = [stage EXCEPT ![p] = "g_lock"]
          /\ UNCHANGED locks
  /\ UNCHANGED <<queue, fwd, outcome, nat, mutex, waiters, conn>>

(* Loser: cond.L.Lock(). *)
LoserLock(p) ==
  /\ stage[p] = "g_lock"
  /\ mutex[cond[p]] = None
  /\ mutex' = [mutex EXCEPT ![cond[p]] = p]
  /\ stage' = [stage EXCEPT ![p] = "g_wait"]
  /\ UNCHANGED <<queue, role, cond, fwd, outcome, nat, locks, waiters, conn>>

(* Loser: cond.Wait() enters the notify list and unlocks L in one step. *)
CondWait(p) ==
  /\ stage[p] = "g_wait"
  /\ waiters' = [waiters EXCEPT ![cond[p]] = @ \cup {p}]
  /\ mutex' = [mutex EXCEPT ![cond[p]] = None]
  /\ stage' = [stage EXCEPT ![p] = "g_sleep"]
  /\ UNCHANGED <<queue, role, cond, fwd, outcome, nat, locks, conn>>

(* Loser: a notified cond.Wait() locks L again before it returns. *)
CondRelock(p) ==
  /\ stage[p] = "g_relock"
  /\ mutex[cond[p]] = None
  /\ mutex' = [mutex EXCEPT ![cond[p]] = p]
  /\ stage' = [stage EXCEPT ![p] = "get"]
  /\ UNCHANGED <<queue, role, cond, fwd, outcome, nat, locks, waiters, conn>>

(* Mutation of Dial: the failure path returns without the deferred
   natTable.Delete(lockKey) and Broadcast. *)
DialNoDefer(p) ==
  /\ stage[p] = "dial"
  /\ \/ /\ conn' = [conn EXCEPT ![p] = "open"]
        /\ stage' = [stage EXCEPT ![p] = "set"]
        /\ UNCHANGED outcome
     \/ /\ stage' = [stage EXCEPT ![p] = "done"]
        /\ outcome' = [outcome EXCEPT ![p] = "dropped"]
        /\ UNCHANGED conn
  /\ UNCHANGED <<queue, role, cond, fwd, nat, locks, mutex, waiters>>

(***************************************************************************)
(* Winner: resolveMetadata and proxy.ListenPacketContext under the UDP     *)
(* timeout.  On success the tracker wraps the conn and                     *)
(* `go handleUDPToLocal(...)` starts the relay: conn p is open and its     *)
(* relay runs.  On failure the function returns into its deferred cleanup. *)
(* (resolveMetadata never returns an error: match always returns nil.)     *)
(***************************************************************************)
Dial(p) ==
  /\ stage[p] = "dial"
  /\ \/ /\ conn' = [conn EXCEPT ![p] = "open"]
        /\ stage' = [stage EXCEPT ![p] = "set"]
        /\ UNCHANGED outcome
     \/ /\ stage' = [stage EXCEPT ![p] = "release"]
        /\ outcome' = [outcome EXCEPT ![p] = "dropped"]
        /\ UNCHANGED conn
  /\ UNCHANGED <<queue, role, cond, fwd, nat, locks, mutex, waiters>>

(* Winner: natTable.Set(key, pc), then handle() for its own packet. *)
Set(p) ==
  /\ stage[p] = "set"
  /\ nat' = [nat EXCEPT ![KeyOf[p]] = p]
  /\ stage' = [stage EXCEPT ![p] = "get"]
  /\ UNCHANGED <<queue, role, cond, fwd, outcome, locks, mutex, waiters, conn>>

(* Winner, deferred: natTable.Delete(lockKey). *)
Release(p) ==
  /\ stage[p] = "release"
  /\ locks' = [locks EXCEPT ![KeyOf[p]] = None]
  /\ stage' = [stage EXCEPT ![p] = "bcast"]
  /\ UNCHANGED <<queue, role, cond, fwd, outcome, nat, mutex, waiters, conn>>

(***************************************************************************)
(* Winner, deferred: cond.Broadcast(), without holding L, wakes exactly    *)
(* the goroutines already in the notify list of its cond.                  *)
(***************************************************************************)
Broadcast(p) ==
  /\ stage[p] = "bcast"
  /\ stage' = [q \in Packets |->
                 IF q \in waiters[p] THEN "g_relock"
                 ELSE IF q = p THEN "done" ELSE stage[q]]
  /\ waiters' = [waiters EXCEPT ![p] = {}]
  /\ UNCHANGED <<queue, role, cond, fwd, outcome, nat, locks, mutex, conn>>

(***************************************************************************)
(* handleUDPToLocal ends (idle timeout or read/write error): its deferred  *)
(* pc.Close() and natTable.Delete(key).                                    *)
(***************************************************************************)
RelayEnd(c) ==
  /\ conn[c] = "open"
  /\ conn' = [conn EXCEPT ![c] = "closed"]
  /\ nat' = [nat EXCEPT ![KeyOf[c]] = None]
  /\ UNCHANGED <<queue, stage, role, cond, fwd, outcome, locks, mutex, waiters>>

\* The steps of the thread (worker or goroutine) that handles packet p.
Handler(p) ==
  \/ Prepare(p) \/ Get(p) \/ Forward(p) \/ GetOrCreateLock(p)
  \/ CondWait(p) \/ Dial(p) \/ Set(p) \/ Release(p) \/ Broadcast(p)

Next ==
  \/ \E p \in Packets : Receive(p)
  \/ Dequeue
  \/ \E p \in Packets : Handler(p) \/ LoserLock(p) \/ CondRelock(p)
  \/ \E c \in Packets : RelayEnd(c)

(***************************************************************************)
(* Go's scheduler eventually runs every runnable goroutine (weak fairness  *)
(* of each handler step and of the workers); sync.Mutex's starvation mode  *)
(* hands L to a goroutine that keeps asking for it (strong fairness).      *)
(* Packet arrival and the end of a relay are the environment: not fair.    *)
(***************************************************************************)
Fairness ==
  /\ WF_vars(Dequeue)
  /\ \A p \in Packets : WF_vars(Handler(p))
  /\ \A p \in Packets : SF_vars(LoserLock(p)) /\ SF_vars(CondRelock(p))

Spec == Init /\ [][Next]_vars /\ Fairness

-----------------------------------------------------------------------------
(***************************************************************************)
(* Single flight (spec section 8, invariant 1): for every key at most one  *)
(* ListenPacketContext is in flight.  It relies on the winner keeping the  *)
(* "-lock" entry until after the dial and on GetOrCreateLock being atomic. *)
(***************************************************************************)
AtMostOneDialInFlight ==
  \A k \in Keys : Cardinality({p \in Packets : KeyOf[p] = k /\ stage[p] = "dial"}) <= 1

(***************************************************************************)
(* Every lock entry is eventually deleted: every path of the winner        *)
(* goroutine (dial failure, a NAT miss in its own handle(), success) runs  *)
(* the deferred natTable.Delete(lockKey).                                  *)
(***************************************************************************)
LockEventuallyReleased ==
  \A k \in Keys : locks[k] # None ~> locks[k] = None

(***************************************************************************)
(* Spec 4.5: at most one dial per NAT key for the lifetime of the entry:   *)
(* while a key has a NAT entry no packet of that key dials again.          *)
(***************************************************************************)
NoDialWhileEntryInstalled ==
  \A p \in Packets : stage[p] = "dial" => nat[KeyOf[p]] = None

(***************************************************************************)
(* Spec 4.5: relay eviction and entry deletion are one step, so the NAT    *)
(* table never hands out a conn whose relay has already closed it.         *)
(***************************************************************************)
NatEntryOpen ==
  \A k \in Keys : nat[k] # None => conn[nat[k]] = "open"

(***************************************************************************)
(* Spec 4.5: a broadcast on every lock release means waiters never        *)
(* deadlock: every packet a listener receives is eventually finished with  *)
(* (sent, lost or dropped), losers included.                               *)
(***************************************************************************)
EveryPacketFinishes ==
  \A p \in Packets : stage[p] # "idle" ~> stage[p] = "done"

=============================================================================
