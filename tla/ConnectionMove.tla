--------------------------- MODULE ConnectionMove ---------------------------
(***************************************************************************)
(* What the rename of a profile promises of its OAuth connections          *)
(* (docs/console-api.md: "it atomically renames"): seen while no rename is *)
(* unfinished, all connections are under the same name, the old one or the *)
(* new one, each with its record and with the very credential it had.      *)
(***************************************************************************)
CONSTANTS Bindings, Credentials, None

VARIABLES
  name,  \* "old", "new", or "moving" while a rename is unfinished
  held   \* the credential of every connection

CInit ==
  /\ name = "old"
  /\ held \in [Bindings -> Credentials \cup {None}]

Start == name = "old" /\ name' = "moving" /\ UNCHANGED held
Arrive == name = "moving" /\ name' = "new" /\ UNCHANGED held
Return == name = "moving" /\ name' = "old" /\ UNCHANGED held

\* The owner of a connection refreshes its credential, not while it is being moved.
Renew ==
  /\ name # "moving"
  /\ \E b \in Bindings, c \in Credentials :
       held[b] # None /\ held' = [held EXCEPT ![b] = c]
  /\ UNCHANGED name

CNext == Start \/ Arrive \/ Return \/ Renew
CSpec == CInit /\ [][CNext]_<<name, held>>
=============================================================================
