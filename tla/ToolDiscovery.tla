---------------------------- MODULE ToolDiscovery ----------------------------
(***************************************************************************)
(* The tool catalogue of MiftahServer: ToolRegistry (mcp/server/           *)
(* tool-registry.ts), which discovers the tools of a profile once for all  *)
(* who wait and keeps the result until it is invalidated, and the handlers *)
(* of miftah-server.ts that read it, invalidate it and tell the client.    *)
(*                                                                         *)
(* The tools of an upstream are a version number.  A generation of a       *)
(* profile is only ever compared with the current one, so a discovery says *)
(* whether it is still live; an aborted one can reach nobody and is gone.  *)
(* What runs in promise reactions is over before the next outside event:   *)
(* Quiet.  A client that gets list_changed lists again, and the flag dirty *)
(* stands for what it has been told since it last asked.                   *)
(***************************************************************************)
EXTENDS Naturals, FiniteSets

CONSTANTS
  None,
  Profiles,
  Upstreams,
  NumTasks,       \* bound: requests
  MaxOpen,        \* bound: requests at the same time
  MaxVer,         \* bound: versions of the tools of one upstream
  MaxEvents       \* bound: failures, cancellations, restarts and switches

VARIABLES
  strict,       \* toolDiscoveryMode
  active,       \* the active profile
  ver,          \* the tools each upstream exposes under each profile
  noted,        \* tools/list_changed notifications on their way
  snap,         \* snapshots: what is cached of each profile
  disc,         \* the discoveries, running or free
  task,         \* requests
  deferred,     \* deferredToolInvalidations
  invalidated,  \* invalidatedToolSnapshots
  restarting,   \* restartingProfiles
  switching,    \* the profile transition that has not told the client yet
  known,        \* the versions of which a notification or a restart has been taken into account
  view,         \* the answer to the client's last tools/list
  dirty,        \* has the client been told since it last asked?
  events

vars == <<strict, active, ver, noted, snap, disc, task, deferred, invalidated, restarting, switching,
          known, view, dirty, events>>
client == <<view, dirty>>
world == <<strict, active, ver, noted, restarting, switching, known, events>>

Tasks == 1..NumTasks
Slots == 1..MaxOpen
Free == [p |-> None, live |-> FALSE, asked |-> {}, got |-> None]
Idle == [kind |-> None, pc |-> "new", p |-> None, same |-> FALSE, prev |-> None, snap |-> None,
         tracked |-> FALSE, disc |-> None, rounds |-> 0]
Done == [Idle EXCEPT !.pc = "done"]

Init ==
  /\ strict \in BOOLEAN
  /\ active \in Profiles
  /\ ver = [x \in Profiles \X Upstreams |-> 0]
  /\ noted = {}
  /\ snap = [p \in Profiles |-> None]
  /\ disc = [d \in Slots |-> Free]
  /\ task = [t \in Tasks |-> Idle]
  /\ deferred = {}
  /\ invalidated = [p \in Profiles |-> None]
  /\ restarting = {}
  /\ switching = None
  /\ known = [x \in Profiles \X Upstreams |-> 0]
  /\ view = None
  /\ dirty = TRUE
  /\ events = 0

\* A snapshot tells, for each upstream that answered, the version of its tools.
Complete(s) == \A u \in Upstreams : s[u] # None
Cached(p) == snap[p] # None /\ Complete(snap[p])
\* hasSameTools: a missing snapshot is like no other.
SameTools(a, b) == a # None /\ b # None /\ a = b
Pending(p) == {d \in Slots : disc[d].p = p /\ disc[d].live}
ActiveLists(p) == {t \in Tasks : task[t].tracked /\ task[t].p = p}
Consumers(d) == {t \in Tasks : task[t].disc = d}

\* Promise reactions have run dry.
Quiet == \A t \in Tasks : task[t].pc # "got"
Event == Quiet /\ events < MaxEvents /\ events' = events + 1

---------------------------------------------------------------------------
(* The registry.  Operators take the state they change, since one reaction *)
(* may invalidate, publish and join in a row.                              *)

\* discoverTools asks every upstream, and in strict mode under every profile.
Asked(p) == (IF strict THEN Profiles ELSE {p}) \X Upstreams
Fresh(p) == [p |-> p, live |-> TRUE, asked |-> Asked(p), got |-> [x \in Asked(p) |-> None]]

InvalidateAll(ps, ds) == [d \in Slots |-> IF ds[d].p \in ps THEN [ds[d] EXCEPT !.live = FALSE] ELSE ds[d]]
Invalidate(ps) ==
  /\ snap' = [p \in Profiles |-> IF p \in ps THEN None ELSE snap[p]]
  /\ disc' = InvalidateAll(ps, disc)
Keep == UNCHANGED <<snap, disc>>

\* get: the cached snapshot if it is complete, the discovery that runs, or one that starts.
Get(t, r) ==
  IF Cached(r.p)
  THEN task' = [task EXCEPT ![t] = [r EXCEPT !.pc = "got", !.snap = snap[r.p]]] /\ UNCHANGED disc
  ELSE \E d \in Slots :
         /\ IF Pending(r.p) # {} THEN d \in Pending(r.p) /\ UNCHANGED disc
            ELSE /\ disc[d] = Free
                 /\ \A e \in Slots : disc[e] = Free => d <= e
                 /\ disc' = [disc EXCEPT ![d] = Fresh(r.p)]
         /\ task' = [task EXCEPT ![t] = [r EXCEPT !.pc = "waiting", !.disc = d]]

\* An upstream answers one tools/list, possibly after telling that its list changed, or fails.
Answer(d, x) ==
  /\ Quiet
  /\ x \in disc[d].asked
  /\ x[1] \notin restarting
  /\ \/ /\ disc' = [disc EXCEPT ![d].got[x] = ver[x], ![d].asked = @ \ {x}]
        /\ \/ noted' = noted
           \/ noted' = noted \cup {x}
        /\ UNCHANGED events
     \/ /\ Event
        /\ disc' = [disc EXCEPT ![d].asked = @ \ {x}]
        /\ UNCHANGED noted
  /\ UNCHANGED <<strict, active, ver, snap, task, deferred, invalidated, restarting, switching, known, client>>

\* build and discoverTools: what an ended discovery found for its profile, None for an error.
Outcome(d) ==
  LET got == disc[d].got
      p == disc[d].p
      found == [u \in Upstreams |-> got[<<p, u>>]]
  IN IF \/ strict /\ \E x \in DOMAIN got : got[x] = None
        \/ strict /\ \E q \in Profiles, u \in Upstreams : got[<<q, u>>] # got[<<p, u>>]
        \/ \A u \in Upstreams : found[u] = None
     THEN None
     ELSE found

---------------------------------------------------------------------------
(* Lists that the client can see.                                          *)

\* mutant
Forget(ts, p) == UNCHANGED <<deferred, snap>>
\* finish(false) of the lists that end: the last one takes the marker and what it stood for.
GiveUp(ts, p) ==
  IF /\ \E t \in ts : task[t].tracked
     /\ ActiveLists(p) \subseteq ts
     /\ p \in deferred
  THEN deferred' = deferred \ {p} /\ snap' = [snap EXCEPT ![p] = None]
  ELSE UNCHANGED <<deferred, snap>>
GaveUp(ts, p) == (\E t \in ts : task[t].tracked) /\ ActiveLists(p) \subseteq ts /\ p \in deferred

\* consumeDeferredToolInvalidation.
Consume(p) ==
  IF p \in deferred THEN deferred' = deferred \ {p} /\ Invalidate({p})
  ELSE UNCHANGED <<deferred, snap, disc>>

\* activeToolSnapshot (tools/list), miftah_list_upstream_tools, or a tools/call of the active profile.
StartOn(t, kind, p) ==
  LET r == [kind |-> kind, pc |-> "new", p |-> p, same |-> TRUE,
            prev |-> IF kind = "tools" THEN None ELSE IF snap[p] # None THEN snap[p] ELSE invalidated[p],
            snap |-> None, tracked |-> kind # "call" /\ ~Cached(p), disc |-> None, rounds |-> task[t].rounds]
  IN /\ kind # "tools" => p = active
     /\ Get(t, r)

Begin(t, kind, p) ==
  /\ Quiet
  /\ task[t].pc = "new" /\ \A s \in Tasks : s < t => task[s].pc # "new"
  /\ Cardinality({s \in Tasks : task[s].pc \notin {"new", "done"}}) < MaxOpen
  /\ switching = None
  /\ kind = "list" => \A s \in Tasks : task[s].kind # "list"
  /\ StartOn(t, kind, p)
  /\ dirty' = (dirty /\ kind # "list")
  /\ view' = IF kind = "list" THEN None ELSE view
  /\ UNCHANGED <<world, snap, deferred, invalidated>>

---------------------------------------------------------------------------
(* A discovery ends: it publishes if it is live, and everybody who waits   *)
(* for it goes on, gets the same error, or asks again if it is not.        *)

\* mutant
PublishAnyway(d) == snap' = [snap EXCEPT ![disc[d].p] = Outcome(d)]
Publish(d) ==
  IF disc[d].live THEN snap' = [snap EXCEPT ![disc[d].p] = Outcome(d)] ELSE UNCHANGED snap

Settle(d) ==
  LET p == disc[d].p IN
  /\ Quiet
  /\ disc[d].p # None /\ disc[d].asked = {}
  /\ \/ /\ Outcome(d) = None
        /\ task' = [t \in Tasks |-> IF t \in Consumers(d) THEN Done ELSE task[t]]
        /\ GiveUp(Consumers(d), p)
        /\ disc' = IF GaveUp(Consumers(d), p) THEN InvalidateAll({p}, [disc EXCEPT ![d] = Free])
                   ELSE [disc EXCEPT ![d] = Free]
     \/ /\ Outcome(d) # None /\ disc[d].live
        /\ Publish(d)
        /\ disc' = [disc EXCEPT ![d] = Free]
        /\ task' = [t \in Tasks |->
             IF t \in Consumers(d) THEN [task[t] EXCEPT !.pc = "got", !.disc = None, !.snap = Outcome(d)] ELSE task[t]]
        /\ UNCHANGED deferred
     \/ /\ Outcome(d) # None /\ ~disc[d].live
        /\ Publish(d)
        /\ LET again == IF Pending(p) = {} THEN d ELSE CHOOSE e \in Pending(p) : TRUE IN
           /\ disc' = IF Cached(p) \/ Consumers(d) = {} \/ again # d THEN [disc EXCEPT ![d] = Free]
                      ELSE [disc EXCEPT ![d] = Fresh(p)]
           /\ task' = [t \in Tasks |->
                IF t \notin Consumers(d) THEN task[t]
                ELSE IF Cached(p) THEN [task[t] EXCEPT !.pc = "got", !.disc = None, !.snap = snap[p]]
                ELSE [task[t] EXCEPT !.disc = again,
                                     !.rounds = IF task[t].tracked THEN @ + 1 ELSE 0]]
        /\ UNCHANGED deferred
  /\ UNCHANGED <<world, invalidated, client>>

\* The client cancels a request that waits; the discovery of nobody is aborted.
Cancel(t) ==
  LET d == task[t].disc
      p == task[t].p
      left == IF Consumers(d) = {t} THEN [disc EXCEPT ![d] = Free] ELSE disc
  IN /\ Event
     /\ task[t].pc = "waiting"
     /\ task' = [task EXCEPT ![t] = Done]
     /\ GiveUp({t}, p)
     /\ disc' = IF GaveUp({t}, p) THEN InvalidateAll({p}, left) ELSE left
     /\ UNCHANGED <<strict, active, ver, noted, restarting, switching, known, invalidated, client>>

---------------------------------------------------------------------------
(* Requests that have a snapshot.  A call is one reaction closer to it     *)
(* than a list, so its check of the marker comes first.                    *)

\* assertToolSnapshotCurrent, then the notice of what changed; the route is resolved later.
Check(t) ==
  LET r == task[t] IN
  /\ r.pc = "got" /\ r.kind \in {"call", "target"}
  /\ Consume(r.p)
  /\ IF r.p \in deferred
     THEN task' = [task EXCEPT ![t] = Done] /\ UNCHANGED <<invalidated, dirty>>
     ELSE /\ task' = [task EXCEPT ![t] = IF r.kind = "target" THEN Done
                                         ELSE [Idle EXCEPT !.kind = "target", !.pc = "routing", !.snap = r.snap]]
          /\ IF r.kind = "call" /\ r.same /\ r.prev # None
             THEN /\ invalidated' = [invalidated EXCEPT ![r.p] = None]
                  /\ dirty' = (dirty \/ ~SameTools(r.prev, r.snap))
             ELSE UNCHANGED <<invalidated, dirty>>
  /\ UNCHANGED <<world, view>>

\* resolveTarget: the profile that the pipeline chose must expose the same tool; or it refused.
Route(t, p) ==
  /\ Quiet
  /\ task[t].pc = "routing"
  /\ \/ Get(t, [task[t] EXCEPT !.p = p])
     \/ task' = [task EXCEPT ![t] = Done] /\ UNCHANGED disc
  /\ UNCHANGED <<world, snap, deferred, invalidated, client>>

\* activeToolSnapshot has its snapshot: again if the profile was switched, else the client may have
\* to be told first.
Heard(t) ==
  LET r == task[t] IN
  /\ r.pc = "got" /\ r.kind \in {"list", "tools"}
  /\ \A s \in Tasks : task[s].pc = "got" => task[s].kind \notin {"call", "target"}
  /\ IF r.kind = "list" /\ ~r.same
     THEN /\ task' = [task EXCEPT ![t] = [r EXCEPT !.pc = "again", !.tracked = FALSE, !.snap = None]]
          /\ GiveUp({t}, r.p)
          /\ disc' = IF GaveUp({t}, r.p) THEN InvalidateAll({r.p}, disc) ELSE disc
          /\ UNCHANGED <<dirty, invalidated, view>>
     ELSE IF r.prev # None /\ ~SameTools(r.prev, r.snap)
     THEN /\ task' = [task EXCEPT ![t] = [r EXCEPT !.pc = "sending"]]
          /\ dirty' = TRUE
          /\ UNCHANGED <<snap, disc, deferred, invalidated, view>>
     ELSE /\ task' = [task EXCEPT ![t] = Done]
          /\ IF r.tracked THEN Consume(r.p) ELSE UNCHANGED <<snap, disc, deferred>>
          /\ IF r.kind = "list"
             THEN /\ invalidated' = [invalidated EXCEPT ![r.p] = None]
                  /\ view' = r.snap
             ELSE UNCHANGED <<invalidated, view>>
          /\ UNCHANGED dirty
  /\ UNCHANGED world

\* The notification is out: finish(true) and the answer.
Sent(t) ==
  LET r == task[t] IN
  /\ Quiet
  /\ r.pc = "sending"
  /\ task' = [task EXCEPT ![t] = Done]
  /\ IF r.tracked THEN Consume(r.p) ELSE UNCHANGED <<snap, disc, deferred>>
  /\ invalidated' = [invalidated EXCEPT ![r.p] = None]
  /\ view' = r.snap
  /\ UNCHANGED <<world, dirty>>

Again(t) ==
  /\ Quiet
  /\ task[t].pc = "again" /\ switching = None
  /\ StartOn(t, "list", active)
  /\ UNCHANGED <<world, snap, deferred, invalidated, client>>

---------------------------------------------------------------------------
(* What happens to the upstreams and the profile.                          *)

Newer(x) == IF ver[x] < MaxVer THEN ver[x] + 1 ELSE MaxVer

\* An upstream has other tools and says so.
Change(x) ==
  /\ Quiet
  /\ x \notin noted /\ x[1] \notin restarting
  /\ ver[x] < MaxVer /\ ver' = [ver EXCEPT ![x] = @ + 1]
  /\ noted' = noted \cup {x}
  /\ UNCHANGED <<strict, active, snap, disc, task, deferred, invalidated, restarting, switching, known, client, events>>

\* mutant
Eager(p) == deferred' = deferred \ {p} /\ Invalidate({p})
\* handleUpstreamListChanged: an answer that a list waits for is still served, and dropped after.
Defer(p) ==
  IF Pending(p) # {} /\ ActiveLists(p) # {}
  THEN deferred' = deferred \cup {p} /\ Keep
  ELSE /\ deferred' = deferred \ {p}
       /\ IF snap[p] # None THEN Invalidate({p}) ELSE Keep

\* A change that comes while only calls wait is not taken into account, by intent.
Notice(x) ==
  LET p == x[1] IN
  /\ Quiet
  /\ x \in noted
  /\ noted' = noted \ {x}
  /\ Defer(p)
  /\ known' = IF Pending(p) # {} /\ ActiveLists(p) = {} /\ snap[p] = None THEN known ELSE [known EXCEPT ![x] = ver[x]]
  /\ dirty' = (dirty \/ p = active)
  /\ UNCHANGED <<strict, active, ver, task, invalidated, restarting, switching, view, events>>

\* handleUpstreamHealthChange: the process of an upstream is gone; the next one may have other tools.
Lose(ps) ==
  /\ Invalidate(ps)
  /\ invalidated' = [p \in Profiles |-> IF p \in ps /\ Cached(p) THEN snap[p] ELSE invalidated[p]]
Fail(x) ==
  LET ps == IF strict THEN Profiles ELSE {x[1]} IN
  /\ Event
  /\ x[1] \notin restarting
  /\ ver' \in {ver, [ver EXCEPT ![x] = Newer(x)]}
  /\ noted' = noted \ {x}
  /\ IF \E p \in ps : Cached(p)
     THEN Lose(ps) /\ known' = [y \in DOMAIN known |-> IF y = x THEN ver'[x] ELSE known[y]]
     ELSE UNCHANGED <<snap, disc, invalidated, known>>
  /\ UNCHANGED <<strict, active, task, deferred, restarting, switching, client>>

\* restartUpstreamProfile: a second one joins the first.
Restart(p) ==
  /\ Event
  /\ p \notin restarting
  /\ restarting' = restarting \cup {p}
  /\ UNCHANGED <<strict, active, ver, noted, snap, disc, task, deferred, invalidated, switching, known, client>>
Restarted(p) ==
  /\ Quiet
  /\ p \in restarting
  /\ restarting' = restarting \ {p}
  /\ \E xs \in SUBSET ({p} \X Upstreams) : ver' = [x \in DOMAIN ver |-> IF x \in xs THEN Newer(x) ELSE ver[x]]
  /\ noted' = {x \in noted : x[1] # p}
  /\ Invalidate({p})
  /\ known' = [x \in DOMAIN known |-> IF x[1] = p THEN ver'[x] ELSE known[x]]
  /\ dirty' = (dirty \/ p = active)
  /\ UNCHANGED <<strict, active, task, deferred, invalidated, switching, view, events>>

\* miftah_use_profile: the snapshot before, the change, and the notice if the tools are not the same.
Switch(p) ==
  /\ Event
  /\ switching = None
  /\ switching' = [before |-> snap[active], from |-> active, to |-> p]
  /\ UNCHANGED <<strict, active, ver, noted, snap, disc, task, deferred, invalidated, restarting, known, client>>
Switched ==
  /\ Quiet
  /\ switching # None /\ active = switching.from /\ switching.to # active
  /\ active' = switching.to
  /\ task' = [t \in Tasks |-> IF task[t].pc \in {"new", "done"} THEN task[t] ELSE [task[t] EXCEPT !.same = FALSE]]
  /\ UNCHANGED <<strict, ver, noted, snap, disc, deferred, invalidated, restarting, switching, known, client, events>>
Announce ==
  /\ Quiet
  /\ switching # None /\ active = switching.to
  /\ switching' = None
  /\ dirty' = (dirty \/ ~SameTools(switching.before, snap[active]))
  /\ UNCHANGED <<strict, active, ver, noted, snap, disc, task, deferred, invalidated, restarting, known, view, events>>

---------------------------------------------------------------------------
(* Properties.                                                             *)

\* What is cached is not older than the last change of an upstream that was taken into account,
\* unless a list still has to drop it (tool-registry.ts publishes only what is current).
CacheIsFresh ==
  \A p \in Profiles, u \in Upstreams :
    snap[p] # None /\ p \notin deferred /\ snap[p][u] # None => snap[p][u] >= known[<<p, u>>]

\* A change that was put off is always some running list's to apply: its marker is never left to
\* make a later call fail.
MarkerHasOwner == \A p \in deferred : ActiveLists(p) # {}

\* The client is told when a recovery changes the tools it sees, whoever loaded them.
RecoveryIsTold ==
  Quiet /\ ~dirty /\ view # None /\ switching = None /\ snap[active] # None => snap[active] = view

\* An upstream that announces a change with each list it gives cannot keep a list from its answer:
\* each time one starts over, something else has happened or another request is over.
NoiseIsServed ==
  \A t \in Tasks : task[t].rounds <= events + Cardinality({s \in Tasks : task[s].pc = "done"})

---------------------------------------------------------------------------
Next ==
  \/ \E d \in Slots : Settle(d) \/ \E x \in Profiles \X Upstreams : Answer(d, x)
  \/ \E t \in Tasks : Check(t) \/ Heard(t) \/ Sent(t) \/ Again(t)
  \/ \E t \in Tasks, p \in Profiles : Route(t, p)
  \/ \E x \in Profiles \X Upstreams : Notice(x)
  \/ \E p \in Profiles : Restarted(p)
  \/ Switched
  \/ Announce
  \/ \E t \in Tasks, kind \in {"list", "tools", "call"}, p \in Profiles : Begin(t, kind, p)
  \/ \E t \in Tasks : Cancel(t)
  \/ \E x \in Profiles \X Upstreams : Change(x) \/ Fail(x)
  \/ \E p \in Profiles : Restart(p) \/ Switch(p)

Spec == Init /\ [][Next]_vars
=============================================================================
