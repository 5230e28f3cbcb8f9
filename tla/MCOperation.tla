----------------------------- MODULE MCOperation -----------------------------
(***************************************************************************)
(* Requests made under one profile, and routed to any, under               *)
(* configurations that demand at most one thing more of a destructive      *)
(* operation; a log that does not fail closed and an upstream that is not  *)
(* trusted come without such demands.  Every upstream describes the tool   *)
(* as destructive at first.                                                *)
(***************************************************************************)
EXTENDS Operation, FiniteSets

Home == CHOOSE p \in Profiles : TRUE

Demands(c) ==
  {d \in {"policy", "rule", "selection", "lease", "identity"} :
     \/ d = "policy" /\ c.destructive # "allow"
     \/ d = "rule" /\ c.ruled
     \/ d = "selection" /\ c.selected
     \/ d = "lease" /\ c.leased
     \/ d = "identity" /\ c.bound # "no"}

MCInit ==
  /\ Init
  /\ Cardinality(Demands(conf)) <= 1
  /\ conf.closed \/ Demands(conf) = {}
  /\ conf.trusts \/ Demands(conf) = {}
  /\ tool = [p \in Profiles |-> "destructive"]
MCNext ==
  /\ Next
  /\ req.phase = "idle" => req'.source.lease = conf.leased /\ req'.source.profile = Home
MCSpec == MCInit /\ [][MCNext]_operationVars
=============================================================================
