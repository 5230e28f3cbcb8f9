------------------------------ MODULE MCServer ------------------------------
(***************************************************************************)
(* The facade's parts, side by side: the tools, the resources with the     *)
(* prompts, the resource subscriptions, the identities, the decisions and  *)
(* a request on its way (Operation, whose properties are the run's as they *)
(* are) share no state, so a behaviour exercises one of them and the       *)
(* others rest.                                                            *)
(***************************************************************************)
EXTENDS MCOperation, Sequences

CONSTANTS Upstreams, Uris, Pages, MaxCursors, NumTasks, MaxOpen, MaxVer, MaxEvents,
          NumOps, MaxSessions, MaxSweeps, MaxUpdates,
          Failure, Callers, MaxProbes, MaxEpoch, Undefined, Default

VARIABLES
  part,
  strict, ver, noted, task, known, view, dirty, events,                       \* tools, or resources
  active, snap, disc, deferred, invalidated, restarting, switching,           \* tools
  tools, routes, cursors, avail, changes, pending, cut,                 \* resources
  sub, queue, op, leases, sweep, session, wire, back, on, news, sweeps, updates, mishaps,
  epoch, generation, caller, probes, inFlight, cache, status, aged, binding, file, storeDown,  \* identities
  request, verdict                                                            \* decisions

ASSUME ServerAssumption ==
  /\ None \notin {"cancelled", "verified", "unavailable", "left"} /\ None \notin BOOLEAN
  /\ \A entries \in SUBSET [of : Upstreams, page : 0..Pages, ver : 0..MaxVer] : entries # None
  /\ Pages \in Nat \ {0} /\ MaxVer \in Nat
  /\ IsFiniteSet(Profiles) /\ None \notin Profiles /\ Default \in Profiles
  /\ None \notin 1..MaxOpen /\ NumTasks \in Nat
  /\ None \notin Uris /\ NumOps \in Nat /\ None \notin 1..NumOps /\ \A some \in SUBSET (1..NumOps) : some # None
  /\ None \notin {"subscribe", "unsubscribe", "cleanup"}

lists == <<strict, ver, noted, task, known, view, dirty, events>>
toolVars == <<active, snap, disc, deferred, invalidated, restarting, switching>>
catalogVars == <<tools, routes, cursors, avail, changes, pending, cut>>
subscriptionVars == <<sub, queue, op, leases, sweep, session, wire, back, on, news, sweeps, updates, mishaps>>

identityVars == <<epoch, generation, caller, probes, inFlight, cache, status, aged, binding, file, storeDown>>
decisionVars == <<request, verdict>>

Tools == INSTANCE MCToolDiscovery
Catalog == INSTANCE MCResourceCatalog
Subscriptions == INSTANCE ResourceSubscriptions WITH faults <- mishaps
Identities == INSTANCE Identity
Rulings == INSTANCE Decisions

NoLists ==
  /\ strict = None /\ ver = None /\ noted = None /\ task = None
  /\ known = None /\ view = None /\ dirty = None /\ events = None
NoTools ==
  /\ active = None /\ snap = None /\ disc = None /\ deferred = None
  /\ invalidated = None /\ restarting = None /\ switching = None
NoCatalog ==
  /\ tools = None /\ routes = None /\ cursors = None /\ avail = None
  /\ changes = None /\ pending = None /\ cut = None
NoSubscriptions ==
  /\ sub = None /\ queue = None /\ op = None /\ leases = None /\ sweep = None /\ session = None
  /\ wire = None /\ back = None /\ on = None /\ news = None /\ sweeps = None /\ updates = None /\ mishaps = None
NoIdentities ==
  /\ epoch = None /\ generation = None /\ caller = None /\ probes = None /\ inFlight = None /\ cache = None
  /\ status = None /\ aged = None /\ binding = None /\ file = None /\ storeDown = None
NoDecisions == request = None /\ verdict = None
\* One initial state of a request, for the behaviours of the other parts.
Resting ==
  /\ conf = CHOOSE c \in Configs : Demands(c) = {} /\ c.closed /\ c.trusts
  /\ cached = [p \in Profiles |-> None]

ServerInit ==
  /\ MCInit
  /\ \/ part = "operation"
        /\ NoLists /\ NoTools /\ NoCatalog /\ NoSubscriptions /\ NoIdentities /\ NoDecisions
     \/ part = "tools" /\ Resting /\ Tools!MCInit
        /\ NoCatalog /\ NoSubscriptions /\ NoIdentities /\ NoDecisions
     \/ part = "catalog" /\ Resting /\ Catalog!Init
        /\ NoTools /\ NoSubscriptions /\ NoIdentities /\ NoDecisions
     \/ part = "subscriptions" /\ Resting /\ Subscriptions!Init
        /\ NoLists /\ NoTools /\ NoCatalog /\ NoIdentities /\ NoDecisions
     \/ part = "identities" /\ Resting /\ Identities!Init
        /\ NoLists /\ NoTools /\ NoCatalog /\ NoSubscriptions /\ NoDecisions
     \/ part = "decisions" /\ Resting /\ Rulings!Init
        /\ NoLists /\ NoTools /\ NoCatalog /\ NoSubscriptions /\ NoIdentities

Request ==
  part = "operation" /\ MCNext
  /\ UNCHANGED <<part, lists, toolVars, catalogVars, subscriptionVars, identityVars, decisionVars>>
ListTools ==
  part = "tools" /\ Tools!MCNext
  /\ UNCHANGED <<part, operationVars, catalogVars, subscriptionVars, identityVars, decisionVars>>
ListResources ==
  part = "catalog" /\ Catalog!MCNext
  /\ UNCHANGED <<part, operationVars, toolVars, subscriptionVars, identityVars, decisionVars>>
Subscribe ==
  part = "subscriptions" /\ Subscriptions!Next
  /\ UNCHANGED <<part, operationVars, lists, toolVars, catalogVars, identityVars, decisionVars>>
VerifyIdentity ==
  part = "identities" /\ Identities!Next
  /\ UNCHANGED <<part, operationVars, lists, toolVars, catalogVars, subscriptionVars, decisionVars>>
Rule ==
  part = "decisions" /\ Rulings!Next
  /\ UNCHANGED <<part, operationVars, lists, toolVars, catalogVars, subscriptionVars, identityVars>>

ServerNext == Request \/ ListTools \/ ListResources \/ Subscribe \/ VerifyIdentity \/ Rule
ServerSpec ==
  ServerInit /\ [][ServerNext]_<<part, operationVars, lists, toolVars, catalogVars, subscriptionVars, identityVars,
                               decisionVars>>

---------------------------------------------------------------------------
\* The cached tools are no older than the last change the server has taken into account, a deferred
\* invalidation always has a discovery that will apply it, and an upstream that announces its list at
\* every list does not keep a request from its answer (ToolDiscovery).
ToolsAreCurrent == part = "tools" => Tools!CacheIsFresh /\ Tools!MarkerHasOwner /\ Tools!NoiseIsServed
\* No route or cursor is left of what was found before an invalidation; what the client was shown leads
\* somewhere unless it was told, or is about to be, and no flip of an upstream's availability is kept
\* from it (ResourceCatalog).
CatalogIsCurrent ==
  part = "catalog" => Catalog!NothingFromBefore /\ Catalog!ShownIsReachable /\ Catalog!ClientIsTold
\* A lease on a session is held for exactly the subscriptions that need it, an upstream at rest has exactly
\* the subscriptions the server has, a profile switch leaves none of before, and a subscriber hears of
\* every change (ResourceSubscriptions).
SubscriptionsAgree ==
  part = "subscriptions" =>
    /\ Subscriptions!LeasesExact /\ Subscriptions!UpstreamAgrees
    /\ Subscriptions!SwitchClears /\ Subscriptions!HearsAll
\* A published result is of the upstream's last life, nobody hears of a cancellation not its own, and what
\* counts as verified is on record (Identity).
IdentityIsHonest == part = "identities" => Identities!IdentityIsHonest
\* More evidence never diverts an operation to another account, an upstream's hints are no authority, and
\* a destructive operation passes only as it was ordered (Decisions).
DecisionsAreSafe == part = "decisions" => Rulings!DecisionsAreSafe
=============================================================================
