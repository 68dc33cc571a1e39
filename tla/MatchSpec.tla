------------------------------ MODULE MatchSpec ------------------------------
(***************************************************************************)
(* What tunnel.match promises one flow (spec 4.2), with the steps it takes *)
(* to get there hidden: it returns exactly once, eventually, and what it   *)
(* returns is the flow's answer, which the flow's metadata, the rules and  *)
(* the proxies fix before match starts and nothing changes while it runs  *)
(* (match holds configMux.RLock).                                         *)
(***************************************************************************)
CONSTANTS
  Adapters,  \* the adapter names match may return
  None       \* no adapter returned yet

VARIABLES
  answer,    \* the adapter the flow is owed
  result     \* the adapter returned, None before

Init ==
  /\ answer \in Adapters
  /\ result = None

(* match returns the answer; the answer never moves. *)
Return ==
  /\ result = None
  /\ result' = answer
  /\ UNCHANGED answer

SafetySpec == Init /\ [][Return]_<<answer, result>>

Spec == SafetySpec /\ WF_<<answer, result>>(Return)
=============================================================================
