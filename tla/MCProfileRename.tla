-------------------------- MODULE MCProfileRename --------------------------
(***************************************************************************)
(* A rename of a profile with two connections beside another command and   *)
(* an editor that write the same configuration file.                       *)
(***************************************************************************)
EXTENDS ProfileRename

\* The first connection has a credential, the second has none yet.
MCInit ==
  /\ Init
  /\ {b \in Bindings : cred[b].from # None} = {b \in Bindings : Turn[b] = 1}
MCSpec == MCInit /\ [][Next]_vars
=============================================================================
