-------------------------- MODULE MCResourceCatalog --------------------------
(***************************************************************************)
(* One upstream changes, fails and is lost, one of its catalogues at a     *)
(* time; it answers after its neighbour.  Templates are left out: their    *)
(* lists are those of resources.  The tools are loaded at once or never,   *)
(* the first request lists the resources before others come, and there is  *)
(* a third one only where discovery is permissive.                         *)
(***************************************************************************)
EXTENDS ResourceCatalog

Noisy == CHOOSE u \in Upstreams : TRUE
MCNext ==
  /\ Next
  /\ Cardinality({x \in DOMAIN ver : ver'[x] > 0}) <= 1
  /\ \A x \in DOMAIN ver : ver'[x] > 0 => x[2] = Noisy
  /\ tools' /\ ~tools => task[1].pc = "new"
  /\ strict => task'[NumTasks].pc = "new"
  /\ \A t \in Tasks :
       /\ task'[t].kind # "templates"
       /\ t = 1 => task'[t].op \in {None, "list"} /\ task'[t].kind # "prompts"
       /\ t = 2 /\ task[1].pc # "done" => task'[2].pc = "new"
       /\ LET here == {u \in DOMAIN task[t].got : u \in DOMAIN task'[t].got /\ task[t].got[u] = None /\ task'[t].got[u] # None} IN
          /\ Noisy \in here => Unanswered(t) = {Noisy}
          /\ here # {} /\ here # {Noisy} => events' = events
MCSpec == Init /\ [][MCNext]_vars
=============================================================================
