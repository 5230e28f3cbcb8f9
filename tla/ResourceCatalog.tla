--------------------------- MODULE ResourceCatalog ---------------------------
(***************************************************************************)
(* ResourcePromptRegistry (mcp/server/resource-prompt-registry.ts) and the *)
(* handlers of miftah-server.ts that use it: the routes by which one       *)
(* profile's resources, resource templates and prompts lead to one of      *)
(* several upstreams, the cursors of their lists, and what the client is   *)
(* told.                                                                   *)
(*                                                                         *)
(* A catalogue has pages of one entry; its state is a version number, and  *)
(* a route keeps the one it was made from.  An epoch is only compared with *)
(* the invalidations that came after it: a request has the kinds that were *)
(* invalidated since it captured it, lost.  A link in what was read is an  *)
(* entry of page 0, and is as old as the upstream was when the read was    *)
(* bound to it.                                                            *)
(***************************************************************************)
EXTENDS Naturals, FiniteSets

CONSTANTS
  None,
  Upstreams,
  Pages,        \* number of pages of each list
  MaxCursors,   \* maximumCursors
  NumTasks,     \* bound: requests
  MaxOpen,      \* bound: requests at the same time
  MaxVer,       \* bound: versions of a catalogue
  MaxEvents     \* bound: failures and losses of upstreams, restarts, cancellations

VARIABLES
  strict,    \* discoveryMode
  tools,     \* has the tool registry a complete snapshot of the profile?
  ver,       \* the catalogue of each upstream, of resources with their templates or of prompts
  noted,     \* list_changed notifications on their way
  routes,    \* resourceRoutes, resourceTemplateRoutes and promptRoutes; None without an entry
  cursors,   \* each with its turn, from the least to the most recently used
  avail,     \* availability
  changes,   \* availabilityChanges
  pending,   \* pendingResourceListChanges and pendingPromptListChanges
  task,      \* requests
  known,     \* the versions before which everything was invalidated
  view,      \* whose entries the client saw in the first page of each list
  dirty,     \* kinds of which the client was told to list them again
  cut,       \* kinds that lost their routes with a later page, since the client was last shown the first
  events

vars == <<strict, tools, ver, noted, routes, cursors, avail, changes, pending, task, known, view, dirty, cut, events>>
registry == <<routes, cursors, avail, changes, pending>>
client == <<view, dirty, cut>>
world == <<strict, tools, ver, noted, known>>

Kinds == {"resources", "templates", "prompts"}
Groups == {"resources", "prompts"}  \* what a notification is about
GroupOf(kind) == IF kind = "prompts" THEN "prompts" ELSE "resources"
KindsOf(group) == {k \in Kinds : GroupOf(k) = group}
Tasks == 1..NumTasks

NoTask == [op |-> None, pc |-> "new", kind |-> None, pages |-> <<>>, got |-> <<>>, lost |-> {}, of |-> None,
           ver |-> 0, round |-> 0, told |-> FALSE]
Done == [NoTask EXCEPT !.pc = "done"]

Init ==
  /\ strict \in BOOLEAN
  /\ tools \in BOOLEAN
  /\ ver = [x \in Groups \X Upstreams |-> 0]
  /\ noted = {}
  /\ routes = [k \in Kinds |-> None]
  /\ cursors = {}
  /\ avail = [k \in Kinds |-> [u \in Upstreams |-> None]]
  /\ changes = {} /\ pending = {}
  /\ task = [t \in Tasks |-> NoTask]
  /\ known = [x \in Groups \X Upstreams |-> 0]
  /\ view = [k \in Kinds |-> None]
  /\ dirty = {} /\ cut = {}
  /\ events = 0

Event == events < MaxEvents /\ events' = events + 1
RoutesOf(k) == IF routes[k] = None THEN {} ELSE routes[k]
Open == {t \in Tasks : task[t].pc \notin {"new", "done"}}

---------------------------------------------------------------------------
(* Lists.                                                                  *)

\* resolveCursor: the pages to ask for.
FirstPages == [u \in Upstreams |-> 1]
\* The order of the map of cursors, without gaps.
Ranked(cs) == {[c EXCEPT !.turn = Cardinality({d \in cs : d.turn <= c.turn})] : c \in cs}
Youngest(c) == [c EXCEPT !.turn = MaxCursors + 1]
\* A cursor that is used becomes the youngest.
Used(c) == Ranked((cursors \ {c}) \cup {Youngest(c)})
Without(kinds) == Ranked({c \in cursors : c.kind \notin kinds})

Listing(op, kind, pages, round, told) ==
  [op |-> op, pc |-> "listing", kind |-> kind, pages |-> pages, got |-> [u \in DOMAIN pages |-> None], lost |-> {},
   of |-> None, ver |-> 0, round |-> round, told |-> told]

CanBegin(t) ==
  /\ task[t].pc = "new" /\ \A s \in Tasks : s < t => task[s].pc # "new"
  /\ Cardinality(Open) < MaxOpen

List(t, kind) ==
  /\ CanBegin(t)
  /\ \/ task' = [task EXCEPT ![t] = Listing("list", kind, FirstPages, 0, FALSE)] /\ UNCHANGED cursors
     \/ \E c \in cursors :
          /\ c.kind = kind
          /\ cursors' = Used(c)
          /\ task' = [task EXCEPT ![t] = Listing("list", kind, c.pages, 0, FALSE)]
  /\ UNCHANGED <<world, routes, avail, changes, pending, client, events>>

\* An upstream gives the page it was asked for, with the version it has, or fails.
Unanswered(t) == {u \in DOMAIN task[t].got : task[t].got[u] = None}
Answer(t, u) ==
  /\ task[t].pc = "listing" /\ u \in Unanswered(t)
  /\ \/ task' = [task EXCEPT ![t].got[u] = [ok |-> TRUE, ver |-> ver[<<GroupOf(task[t].kind), u>>]]] /\ UNCHANGED events
     \/ Event /\ task' = [task EXCEPT ![t].got[u] = [ok |-> FALSE, ver |-> 0]]
  /\ UNCHANGED <<world, registry, client>>

Ok(t) == {u \in DOMAIN task[t].got : task[t].got[u].ok}
\* updateAvailability: what is new about an upstream is a change unless it is the first thing known of it.
Availability(t) == [u \in Upstreams |-> IF u \in DOMAIN task[t].got THEN task[t].got[u].ok ELSE avail[task[t].kind][u]]
Flipped(t) == \E u \in DOMAIN task[t].got : avail[task[t].kind][u] \notin {None, task[t].got[u].ok}

\* assertDiscoveryAvailable.
Failed(t) == Ok(t) # DOMAIN task[t].got /\ (strict \/ Ok(t) = {})

\* The routes of the upstreams that failed go, and the entries of the pages come; one that is there stays.
Merged(t) ==
  LET kept == {r \in RoutesOf(task[t].kind) : r.of \in Ok(t) \/ r.of \notin DOMAIN task[t].got} IN
  kept \cup {r \in [of : Ok(t), page : 1..Pages, ver : 0..MaxVer] :
               /\ r.page = task[t].pages[r.of] /\ r.ver = task[t].got[r.of].ver
               /\ ~\E s \in kept : s.of = r.of /\ s.page = r.page}

\* storeCursor: where the upstreams go on that have another page; the oldest ones make place.
Further(t) == {u \in Ok(t) : task[t].pages[u] < Pages}
Stored(t) ==
  LET next == [kind |-> task[t].kind, pages |-> [u \in Further(t) |-> task[t].pages[u] + 1],
               ver |-> [u \in Further(t) |-> task[t].got[u].ver], turn |-> MaxCursors + 1]
      kept == {c \in cursors : Cardinality(cursors) < MaxCursors \/ \E d \in cursors : d.turn < c.turn}
  IN IF Further(t) = {} THEN cursors ELSE Ranked(kept \cup {next})

\* notifyResourceAvailabilityChange and notifyPromptAvailabilityChange, when a request ends and goes on to
\* after: what is pending is told before what has changed, which then waits for the next time.
Due(g, changed) == g \in pending \/ changed \cap KindsOf(g) # {}
Notify(t, changed, after) ==
  LET g == GroupOf(task[t].kind) IN
  /\ pending' = pending \ {g}
  /\ changes' = IF g \in pending THEN changed ELSE changed \ KindsOf(g)
  /\ task' = [s \in Tasks |-> IF s = t THEN after
                             ELSE IF s \in Open /\ task[s].kind \in KindsOf(g) /\ Due(g, changed)
                             THEN [task[s] EXCEPT !.told = TRUE] ELSE task[s]]
Heard(t, changed) == IF Due(GroupOf(task[t].kind), changed) THEN KindsOf(GroupOf(task[t].kind)) ELSE {}

\* mutant
Heedless(t) == TRUE
\* assertCurrentEpoch.
EpochIsCurrent(t) == task[t].kind \notin task[t].lost

\* mutant
Unflagged(t) == changes
Flags(t) == changes \cup (IF Flipped(t) THEN {task[t].kind} ELSE {})

Located(kind) ==
  [op |-> "read", pc |-> "found", kind |-> kind, pages |-> <<>>, got |-> <<>>, lost |-> {}, of |-> None, ver |-> 0,
   round |-> 0, told |-> FALSE]
\* A list has all its pages.  A read that needed it looks for its route next, and lists a second time if
\* the first was invalidated.
Listed(t) ==
  LET k == task[t].kind
      fine == EpochIsCurrent(t) /\ ~Failed(t)
      changed == IF EpochIsCurrent(t) THEN Flags(t) ELSE changes
      again == ~EpochIsCurrent(t) /\ task[t].op = "read" /\ task[t].round = 1
      shown == fine /\ task[t].op = "list" /\ task[t].pages = FirstPages
  IN
  /\ task[t].pc = "listing" /\ Unanswered(t) = {}
  /\ IF again THEN task' = [task EXCEPT ![t] = Listing("read", k, FirstPages, 2, FALSE)] /\ UNCHANGED <<pending, changes>>
     ELSE Notify(t, changed, IF fine /\ task[t].op = "read" THEN Located(k) ELSE Done)
  /\ view' = IF shown THEN [view EXCEPT ![k] = Ok(t)] ELSE view
  /\ dirty' = (IF shown /\ ~task[t].told THEN dirty \ {k} ELSE dirty) \cup (IF again THEN {} ELSE Heard(t, changed))
  /\ cut' = IF shown THEN cut \ {k}
            ELSE IF EpochIsCurrent(t) /\ Failed(t) /\ task[t].pages # FirstPages THEN cut \cup {k} ELSE cut
  /\ IF ~EpochIsCurrent(t) THEN UNCHANGED <<routes, cursors, avail>>
     ELSE /\ avail' = [avail EXCEPT ![k] = Availability(t)]
          /\ routes' = [routes EXCEPT ![k] = IF Failed(t) THEN None ELSE Merged(t)]
          /\ cursors' = IF Failed(t) THEN Without({k}) ELSE Stored(t)
  /\ UNCHANGED <<world, events>>

\* The client cancels.
Cancel(t) ==
  /\ task[t].pc \in {"listing", "reading"}
  /\ Event
  /\ Notify(t, changes, Done)
  /\ dirty' = dirty \cup Heard(t, changes)
  /\ UNCHANGED <<world, routes, cursors, avail, view, cut>>

---------------------------------------------------------------------------
(* Reads of resources, and of prompts.                                     *)

\* resolveResource also finds what a template gives.
Reachable(kind) == RoutesOf(kind) \cup (IF kind = "resources" THEN RoutesOf("templates") ELSE {})
Bound(kind, u) ==
  [op |-> "read", pc |-> "reading", kind |-> kind, pages |-> <<>>, got |-> <<>>, lost |-> {},
   of |-> u, ver |-> ver[<<"resources", u>>], round |-> 0, told |-> FALSE]

\* resolveAggregatedResource, resolveAggregatedPrompt.
Read(t, kind) ==
  /\ CanBegin(t)
  /\ \/ \E r \in Reachable(kind) : task' = [task EXCEPT ![t] = Bound(kind, r.of)]
     \/ task' = [task EXCEPT ![t] = Listing("read", kind, FirstPages, 1, FALSE)]
  /\ UNCHANGED <<world, registry, client, events>>
Found(t) ==
  /\ task[t].pc = "found"
  /\ \/ \E r \in Reachable(task[t].kind) : task' = [task EXCEPT ![t] = Bound(task[t].kind, r.of)]
        /\ UNCHANGED <<registry, client>>
     \/ /\ Notify(t, changes, Done)
        /\ dirty' = dirty \cup Heard(t, changes)
        /\ UNCHANGED <<routes, cursors, avail, view, cut>>
  /\ UNCHANGED <<world, events>>

\* mutant
LinkAnyway(t) == TRUE
\* redactReadResult, redactPromptResult: a link becomes a route while nothing it rests on was invalidated.
MayLink(t) == {task[t].kind, "resources"} \cap task[t].lost = {}

Finish(t) ==
  LET u == task[t].of IN
  /\ task[t].pc = "reading"
  /\ \/ UNCHANGED routes
     \/ /\ MayLink(t)
        /\ ~\E r \in RoutesOf("resources") : r.of = u /\ r.page = 0
        /\ routes' = [routes EXCEPT !["resources"] = RoutesOf("resources") \cup {[of |-> u, page |-> 0, ver |-> task[t].ver]}]
  /\ Notify(t, changes, Done)
  /\ dirty' = dirty \cup Heard(t, changes)
  /\ UNCHANGED <<world, cursors, avail, view, cut, events>>

---------------------------------------------------------------------------
(* What invalidates.                                                       *)

Change(x) ==
  /\ ver[x] < MaxVer /\ ver' = [ver EXCEPT ![x] = @ + 1]
  /\ noted' = noted \cup {x}
  /\ UNCHANGED <<strict, tools, registry, task, known, client, events>>

\* advanceEpoch, the routes and the cursors of these kinds.
Invalidate(kinds) ==
  /\ routes' = [k \in Kinds |-> IF k \in kinds THEN None ELSE routes[k]]
  /\ cursors' = Without(kinds)
Stale(kinds) == [t \in Tasks |-> IF t \in Open THEN [task[t] EXCEPT !.lost = @ \cup kinds] ELSE task[t]]

\* handleUpstreamListChanged: invalidateResources or invalidatePrompts, and the client is told.
Notice(x) ==
  LET kinds == KindsOf(x[1]) IN
  /\ x \in noted /\ noted' = noted \ {x}
  /\ Invalidate(kinds)
  /\ task' = [t \in Tasks |-> IF t \in Open /\ task[t].kind \in kinds THEN [Stale(kinds)[t] EXCEPT !.told = TRUE] ELSE Stale(kinds)[t]]
  /\ known' = [known EXCEPT ![x] = ver[x]]
  /\ dirty' = dirty \cup kinds
  /\ UNCHANGED <<strict, tools, ver, avail, changes, pending, view, cut, events>>

\* invalidate: availability is forgotten as well.
InvalidateAll ==
  /\ Invalidate(Kinds)
  /\ avail' = [k \in Kinds |-> [u \in Upstreams |-> None]]
  /\ changes' = {}

\* mutant
Unannounced == pending
\* What the client had been shown is remembered as lost.
Announced == pending \cup {g \in Groups : \E k \in KindsOf(g) : routes[k] # None}

\* An upstream is lost, and the next one may have another catalogue (handleUpstreamHealthChange): the
\* registry is invalidated where the tools of the profile were known.
Lose(u) ==
  /\ Event
  /\ \E gs \in SUBSET Groups :
       ver' = [x \in DOMAIN ver |-> IF x[2] = u /\ x[1] \in gs /\ ver[x] < MaxVer THEN ver[x] + 1 ELSE ver[x]]
  /\ noted' = {x \in noted : x[2] # u}
  /\ IF tools
     THEN /\ InvalidateAll
          /\ pending' = Announced
          /\ task' = Stale(Kinds)
          /\ known' = [x \in DOMAIN known |-> IF x[2] = u THEN ver'[x] ELSE known[x]]
     ELSE UNCHANGED <<registry, task, known>>
  /\ tools' = FALSE
  /\ UNCHANGED <<strict, client>>

\* A tools/list or tools/call loads the tools.
LoadTools ==
  /\ ~tools /\ tools' = TRUE
  /\ UNCHANGED <<strict, ver, noted, registry, task, known, client, events>>

\* restartUpstreamProfile ends: all is invalidated and the client told.
Restarted ==
  /\ Event
  /\ ver' \in {ver, [x \in DOMAIN ver |-> IF ver[x] < MaxVer THEN ver[x] + 1 ELSE ver[x]]}
  /\ noted' = {}
  /\ InvalidateAll
  /\ task' = [t \in Tasks |-> IF t \in Open THEN [Stale(Kinds)[t] EXCEPT !.told = TRUE] ELSE task[t]]
  /\ known' = ver'
  /\ dirty' = Kinds
  /\ tools' = FALSE
  /\ UNCHANGED <<strict, pending, view, cut>>

---------------------------------------------------------------------------
Next ==
  \/ \E t \in Tasks, k \in Kinds : List(t, k)
  \/ \E t \in Tasks, g \in Groups : Read(t, g)
  \/ \E t \in Tasks, u \in Upstreams : Answer(t, u)
  \/ \E t \in Tasks : Listed(t) \/ Found(t) \/ Finish(t) \/ Cancel(t)
  \/ \E x \in Groups \X Upstreams : Change(x) \/ Notice(x)
  \/ \E u \in Upstreams : Lose(u)
  \/ LoadTools
  \/ Restarted

Spec == Init /\ [][Next]_vars

---------------------------------------------------------------------------
(* Properties.                                                             *)

\* Nothing that was found before an invalidation is left to route a request or to go on with a list,
\* whatever requests were in flight: each list, read and link carries its epoch.
NothingFromBefore ==
  /\ \A k \in Kinds : \A r \in RoutesOf(k) : r.ver >= known[<<GroupOf(k), r.of>>]
  /\ \A c \in cursors : \A u \in DOMAIN c.pages : c.ver[u] >= known[<<GroupOf(c.kind), u>>]

\* The client has been shown the first page of the list and need not ask again.  A later page that fails
\* takes the routes of the first with it and tells nobody when its upstreams were known to be lost: cut.
\* "removes failed upstream routes" (docs/architecture.md:45) is all that is claimed of a failure, and a
\* read of what was cut off lists again.
Settled(k) == view[k] # None /\ k \notin dirty /\ GroupOf(k) \notin pending /\ k \notin cut

\* What the client was shown, it can read: an entry that lost its route, through a failure, a loss or a
\* change, was announced or is about to be.
ShownIsReachable ==
  \A k \in Kinds : Settled(k) => \A u \in view[k] : \E r \in RoutesOf(k) : r.of = u /\ r.page = 1

\* A client that was not told to list again has been shown the entries of exactly the upstreams that
\* are known to be available: no flip of an upstream is kept from it.
ClientIsTold ==
  \A k \in Kinds, u \in Upstreams :
    Settled(k) /\ avail[k][u] # None => (u \in view[k] <=> avail[k][u])
=============================================================================
