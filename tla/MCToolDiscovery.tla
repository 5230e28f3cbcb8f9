--------------------------- MODULE MCToolDiscovery ---------------------------
(***************************************************************************)
(* One upstream of the profile that is active at first changes, fails and  *)
(* announces its lists without need; it answers before its neighbour, and  *)
(* the other profile before both.  One request is a call, after the lists; *)
(* there are two lists before it only where discovery is permissive.       *)
(***************************************************************************)
EXTENDS ToolDiscovery

Home == CHOOSE p \in Profiles : TRUE
Noisy == CHOOSE u \in Upstreams : TRUE
Restless == <<Home, Noisy>>

MCInit == Init /\ active = Home
MCNext ==
  /\ Next
  /\ noted' \subseteq {Restless}
  /\ \A x \in DOMAIN ver \ {Restless} : ver'[x] = ver[x]
  /\ restarting' \subseteq {Home}
  /\ task'[1].kind # "call"
  /\ task'[NumTasks].kind \in {None, "call", "target"}
  /\ task'[NumTasks].pc # "new" => \A t \in Tasks \ {NumTasks} : task[t].kind \notin {"call", "target"}
  /\ strict => task'[NumTasks].pc = "new"
  /\ \A d \in Slots : LET asked == disc[d].asked IN
       asked \ disc'[d].asked # {} /\ disc'[d].p # None =>
         /\ asked \ disc'[d].asked = {Restless} => asked \subseteq {Home} \X Upstreams
         /\ <<Home, CHOOSE u \in Upstreams : u # Noisy>> \in asked \ disc'[d].asked => Cardinality(asked) = 1
MCSpec == MCInit /\ [][MCNext]_vars
=============================================================================
