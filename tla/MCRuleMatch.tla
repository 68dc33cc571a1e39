----------------------------- MODULE MCRuleMatch -----------------------------
(* Instantiates RuleMatch: a proxy table with one adapter of every kind the
   checks after a match tell apart, and rule lists of up to three rules. *)
EXTENDS RuleMatch

CONSTANTS None_

\* PROXY: an ordinary adapter; PASS: type Pass; GROUP: a group whose Unwrap
\* is PASS; TCPONLY: no UDP support; MISSING: a name not in the table.
MCProxies ==
  [n \in {"DIRECT", "GLOBAL", "PROXY", "PASS", "GROUP", "TCPONLY"} |->
     [type   |-> IF n = "PASS" THEN "Pass" ELSE "Other",
      unwrap |-> IF n = "GROUP" THEN "PASS" ELSE None_,
      udp    |-> n # "TCPONLY"]]

MCNames == {"PROXY", "PASS", "GROUP", "TCPONLY", "MISSING"}

\* Every rule kind with a hit and a miss, sending to PROXY; plus the rules
\* that reach each kind of unusable adapter.
MCRuleSet ==
  [kind : {"domain", "ipcidr", "ipcidr_noresolve", "process"}, hit : BOOLEAN, adapter : {"PROXY"}]
  \cup [kind : {"match", "ipcidr"}, hit : {TRUE}, adapter : MCNames]
=============================================================================
