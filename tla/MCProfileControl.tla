---------------------------- MODULE MCProfileControl ----------------------------
(* Instances of ProfileControl for TLC. *)
EXTENDS ProfileControl
===============================================================================
