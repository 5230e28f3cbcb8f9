# Miftah in TLA+

Miftah is one MCP server that stands in front of several upstream MCP servers
and switches between credential *profiles*: it starts an upstream process per
profile, routes protected calls to it under the profile that is selected, asks
for approval where a policy wants one, and records what it does. These modules
model the parts of it where the order of events matters, model-check them with
TLC on small instances, and prove the central invariants with TLAPS for every
instance. Paths below are relative to `src/`, the repository's root.

Miftah is a single JavaScript event loop. An action of a module is therefore
what one method does between two `await`s; a method that awaits is kept as a
phase in a variable, and the action that continues it is guarded by that phase.
What a microtask does follows at once and is part of the action that enables
it; timers, child processes, other processes, people and the disk interleave
freely.

## Components

| Component | State it keeps | What is hard | What makes it correct | Modules |
|---|---|---|---|---|
| Upstream process manager (`src/upstream/*-process-manager.ts`, `upstream-session.ts`) | sessions, starts, attempts, generations, teardown gates, timers | starts awaiting their options while stops and restarts overtake them; children that close late or never; bounded waits | one owned child per pair, no superseded session, exclusive recovery, everything settles | `UpstreamManager` |
| Profile session limiter (`profile-session-limiter.ts`) | the pairs that hold a slot of a profile | several upstreams share one slot; it is released on a dozen paths | live profiles within `maxConcurrentProfiles`; what comes to rest gives its slot back | `ProfileCapacity` (abstract) |
| Streamable HTTP host (`src/http/miftah-http-server.ts`) | sessions, pending and closing records, cleanup promises | a record moves between sets over awaits; cleanups fail, are deferred, or race the transport's callback | exact admission, only sound sessions served, an honest `close()` | `HttpHost` |
| Approvals (`src/approvals/*`, its queue in `miftah-server.ts`) | approval records, form continuations, expiries not logged yet | jobs wait for turns while deadlines pass; audit writes fail half-way through a list | one call per approval, after its whole trail is in the log; each approval ends once | `Approvals` |
| Control plane (`src/profiles/profile-manager.ts`, `profile-state.ts`, its queue in `miftah-server.ts`) | active profile, revision, selection, lease, runtime lock; the state file | a transition that is saved but not logged must be undone; requests capture a selection and use it later; processes crash | memory and file are those of the last recorded transition; confirmed switches apply to what was confirmed | `ProfileControl` |
| Operation pipeline (`src/mcp/server/operation-pipeline.ts`, handlers) | one request's captured profile, decision, target, record | caches, leases, tool descriptions and cancellation change between the steps of one request | an upstream is called only as decided, and the record says what happened | `Operation` |
| MCP server facade (`src/mcp/server/*`) | tool and resource catalogues, routes, cursors, subscriptions | list changes, losses and switches arrive while a discovery or a list is awaited | what is kept or told belongs to the current profile and session | `ToolDiscovery`, `ResourceCatalog`, `ResourceSubscriptions` |
| Profile context handles (`src/profiles/profile-context-handle.ts`) | keyring snapshots, epochs, revocations | concurrent replacement over files, clocks of several services, pruning | a handle given out works until it ends; a revoked one never again where no clock lags | `ProfileContext` |
| Identity (`src/identity/*`) | shared probes, cached results, bindings | a probe of a replaced session answers late | a cached identity belongs to the current session | `Identity` |
| Routing, Policy (`src/routing/*`, `src/policy/*`) | none | precedence of bands and rules | no decision is more permissive than its inputs allow | `Decisions` |
| Audit journal and trail (`src/audit/*`) | segments, active file, checkpoint, retention ledger | death or failure between any two file-system calls of a transaction or a recovery | always recoverable, and an append-only log with retention | `AuditLog` (abstract), `AuditJournal` |
| OAuth connection lifecycle (`src/oauth/connection-lifecycle.ts`), registry and credential store | record, vault, refresh flights, generations | shared flights and cancellation, callers of several processes | vault and record agree; one refresh per credential unless it is cut off | `OAuthLifecycle` |
| OAuth profile rename (`profile-rename-transaction.ts`), guarded configuration replacement (`cli/migrate-config.ts`) | journal, backup, bindings, the file | a crash at each step, other writers of the file | all connections move or none; no text is lost | `ConnectionMove` (abstract), `ProfileRename`, `ConfigReplacement` |
| Local lock between processes (`src/oauth/local-lock.ts`) | listeners on a pipe and on ports | older versions, unrelated listeners, deaths | one holder of a key | `LocalLock` |
| Contained stdio transport, secrets (`contained-stdio-transport.ts`, `secret-process-runner.ts`) | a child, its process group, timers | exit and close events, forking and surviving descendants | nothing survives what was reported closed | `ProcessTree`, `ContainedTransport`, `SecretProcess` |
| Remote OAuth client, profile isolation, configuration, runtime factory, plugins, setup, console, command line | protocol messages, directories, documents, pages | little concurrency of their own | | not modelled |

How they interact: the facade puts profile transitions in one queue
(`profileTransitions`) and approvals in another (`approvalTransitions`); the
pipeline captures a selection from the control plane, consumes an approval, and
asks the bundle of process managers for a session, whose `get` takes a slot of
the shared limiter. Every transition and every approval awaits a write to the
audit log, which fails closed by default. The HTTP host builds one runtime with
all of this per session, with profile state in memory only; stdio processes of
one configuration share the durable state file, the OAuth vault and metadata
(under the local lock) and, where configured, the audit journal and the keyring.
`PROJECT.json` lists every component with its sources, what of it is left out,
and every hazard at its line.

## Modules

**Upstream.** `UpstreamManager` has one state machine per pair of an upstream
and a profile, `Keys`. A start takes the number `epoch[k]`, which stands for
both the code's start epoch and its attempt token; `open[k]` holds the numbers
of transports that have not emitted `close`. `start[k]` is the local state of
`start()` between its awaits, `teardowns[k]` the gates of `pendingTeardowns`,
`stops[k]` the `stopProfile` calls that wait, `automatic[k]` the generation of a
scheduled restart, `held` the limiter. `ProfileCapacity` is what the limiter and
its users promise together: a profile has anything alive only on a slot, slots
are bounded, and a slot is not given back while something lives on it.
`UpstreamManager` implements it (`ImplementsCapacity`).

**Approvals.** One job per entry of the queue. The head of the queue runs
between awaits, and each await is an audit write that returns or fails: `Begin`
expires what is due, `WriteExpired` writes those expiries one by one, then the
job claims, requests, decides or completes. The clock is a number: approvals up
to it are past their deadline, which is exact because all have the same time to
live; for the same reason the expiries to be written are a set, written least
first.

**Profiles.** `ProfileControl` has one `ProfileManager` record per process, the
file they share, and requests that capture a selection, wait for their turn, and
go through `Begin`, `Saved`, `Audited` or, when a write fails, `SaveFails`,
`AuditFails`, `Undone`, `UndoFails`. Calls go through `Check` and `Execute`, the
two places where the pipeline compares the captured selection and lease. A reset
is a switch to the default profile. The history variables `settled`, `recorded`,
`lastSwitch`, `disturbed` are read only by properties. `ProfileContext` has
several services, each with a clock of its own (`Ahead`, within `Skew`), that
mint, resolve, replace and revoke sealed handles over snapshots of a keyring
that reach a service late (`Lag`) and a shared store of revocations.

**The facade.** `ToolDiscovery` is the registry that discovers a profile's tools
once for all who wait, with the handlers that invalidate it and tell the client;
what runs in promise reactions is over before the next outside event (`Quiet`).
`ResourceCatalog` has the routes of resources, templates and prompts, the
cursors of their lists and what is announced. `ResourceSubscriptions` has the
transitions of one connection's subscriptions, the sweep of a profile switch and
sessions that end; the upstream performs the requests of a session in order, and
may still perform one whose caller has given up. `Identity` has the probes of one
profile and upstream, shared, cached and bound in a file. `Decisions` has the
order in which routing, risk, policy and explicit selection decide, as operators
over what patterns match. `Operation` follows one request from its handler to
its audit record: how a policy, an identity or an approval decides is in the
modules above, and here each has the outcomes this path tells apart ("matcher"
stands for any route but the request's own profile; the SDK refuses a call
whose signal is aborted).

**Records on disk.** `AuditJournal`: because only the holder of the journal lock
writes, what an operation will do is decided when a transaction or a recovery
begins, and is a script of file-system calls; each may fail, and the process may
die between any two or within a write. `AuditLog` is the log it promises:
records enter whole and in order, only the newest is acknowledged, only the
oldest leave. `OAuthLifecycle` has a step per store call of `connect`,
`credential`, `disconnect` and the shared refresh, between processes; a call
that fails may have had its effect all the same. `ConfigReplacement` has the
path, a transaction's private names and inodes, and a failure of every call;
`ProfileRename` adds vault, records, journal and copy, and implements
`ConnectionMove`, in which all connections are under one name: a job's script is
the set of the calls it still has to make, and `Precedes` their order. An
editor may write its own text late, but not a text it read before and keeps.

**Processes of the machine.** `LocalLock` has one action per probe, bind and
close of a contender; older versions bind only the legacy port. `ProcessTree` is
a child with its descendants, as POSIX groups or a Windows job keep them
(process ids are not reused); `ContainedTransport` and `SecretProcess` are two
ways to run one. `HttpHost` has one record per initialize request: the caller's
progress, its runtime, the sets it moves through, its cleanup promise with its
two steps, the deferred cleanups and `close()`.

`*Proofs` hold the theorems, `MC*` the instances for TLC. `MCServer`, `MCHost`
and `MCRecords` put several parts side by side in one run: the parts share no
state, so a behaviour picks one (`part`) and the others rest, and a property of
the union is the conjunction of what each part promises. Definitions marked
`mutant` are plausible mistakes with which each property was shown to fail; no
specification uses them.

## Runs

| Run | Instance | What it shows |
|---|---|---|
| `upstream_recovery` | one stdio upstream, one profile, crash recovery, idle shutdown, two gets, one crash, one `closeProfile` | every interleaving keeps the session current, children owned, the schedule exclusive, requests off the idle timer; what comes to rest gives its slot back; what began settles |
| `upstream_bundle` | a stdio and an OAuth upstream, two profiles, one slot, a manual restart | refinement of `ProfileCapacity`, with late children, refused starts and a restart |
| `approvals` | two operations, both confirmation modes, four jobs, one record, two bearers | an approval lets one call pass, after its trail is in the log; a delegated approval ends once; every job is answered |
| `profile_control` | one process, two profiles of which one is leased, with and without confirmation, three requests | memory, lock and file are those of the last recorded transition; confirmed switches and calls use what they captured only while it holds |
| `records` | journal: three faults, four records, two per segment, with and without integrity and retention; contexts: two services, two chats, handles that live for two ticks and a cache that lags by one, three calls of which the last is a use, two key rings, one fault | the journal is recoverable after every death and is the abstract log; handles last, stay revoked, and epochs do not roll back, old rings and prunings notwithstanding |
| `oauth_lifecycle` | two processes, three calls, two credentials, one fault | vault and record agree when all is quiet, the provider is asked once per credential unless a flight is cut off, what was given up does not come back, nobody waits for ever |
| `profile_rename` | two connections, one other writer, one fault, recovery with and without an audit sink | the connections move as one, recovery can always finish or undo, no text is lost |
| `server` | two profiles and upstreams, one URI, two pages, three requests, three probes, one change of each kind | catalogues, routes, subscriptions and identities belong to the current profile and session; no unsafe decision; a call is what was decided and the record is honest |
| `host` | two HTTP requests for one place; two contenders, an older version, two neighbours, two fallback ports; one process tree each | sound sessions, honest `close()`, one holder of the lock, nothing survives a reported end, everything settles |

The bounds are named in the configurations. They are small but the interesting
cases are all there: two gets and a crash are enough for a start that a crash, a
stop and a second start overtake; two profiles on one slot for a refused start
and a slot shared by two upstreams; two HTTP requests for one place make the
second depend on every way the first can end; four jobs let a call, its
decision, a repeated call and an expiry meet; three faults let a recovery of the
journal be interrupted and that recovery be interrupted again; two contenders
with two neighbours reach every pipe, port and fallback. In the `server` run a
third request starts only where discovery is permissive and a call only after
the first list; where it is strict a second resource request starts only when
the first is done, so there the races are those of one request with changes,
losses and switches. The clocks of the `records` run agree, its cache of the key
ring may be one tick old, and a handle lives for two: rotation, pruning and
expiry meet a handle at every age. The rename's compensations that fail in
their turn, two faults, are covered by the theorems alone. One mutant
per property shows that the run reaches the case the property is about.

Deadlock is not checked: the environment is bounded, and when all requests, jobs
or calls of the budget are used the model stops, as may the program, which then
only waits. The properties that say that nobody waits for ever
(`EverythingAnswered`, `EverythingSettles`, `NobodyIsStuck`) are stated instead.
Symmetry is declared only in `approvals_expired`, which checks one invariant.

Runs that disagree with the documentation check one property each, which a
document states and TLC refutes:

| Run | The code | The statement |
|---|---|---|
| `upstream_duplicate_child` | `stopProfile` returns behind a pending gate before it moves the generation, so a start beside the gate goes on and a manual restart starts a second child over its session | `docs/architecture.md:25`: generations prevent duplicate children |
| `approvals_expired` | a form answer checks the deadline before it waits for its turn; its own job records the expiry and then the consumption | `docs/config.md:349`: an expired approval cannot be replayed |
| `trusted_hints` | the risk is classified before the tool of the routed profile is discovered, so with an empty cache the name decides | `docs/config.md:337`: the annotations of a trusted upstream come before the name |

Other definitions that the modules state and TLC refutes on larger or other
instances, kept because each is a statement of a document or a comment:
`BackoffKeepsSlot` (`upstream-process-manager.ts:1223`, `docs/architecture.md:25`);
`CloseReapsRuntimes` (`miftah-http-server.ts:513`, its comment at 38);
`EndIsRecorded` for forms (`approval-continuation-store.ts:56`, `docs/config.md:353`);
`FileHoldsLastSwitch` with two processes (`profile-manager.ts:482`,
`docs/config.md:410`); `PrepareAccepts` (`audit-journal.ts:3050`, 3042);
`RecoveryWorks` with `TornJournals` (`profile-rename-transaction.ts:368`,
`docs/cli.md:33`); `NeverSplit` on macOS (`local-lock.ts:116-117` and 178-180);
`DeadlineHolds` (`secret-process-runner.ts:173`, `docs/config.md:62`);
`ResolvesWhenClosed` (`contained-stdio-transport.ts:258-259`, 362);
`RecoveryIsTold` (`docs/architecture.md:27`); `MemoryIsNewest`
(`identity-manager.ts:335`, 338); `SnapshotCoherent` (`audit-journal.ts:2044`).

Exceptions that properties name, because the code does not do better:

* `SlotsAreGivenBack`: the failure of an automatic start that `closeProfile` has
  overtaken keeps the slot, or takes it again
  (`upstream-process-manager.ts:706`), and nobody gives it back, against
  `docs/config.md:463`.
* `AskedOnce`: a refresh flight that asked the provider and is then cut off, by
  its last caller, a connect or disconnect of its process, the death of its
  process or a failure of the write that gives the old credential up
  (`connection-lifecycle.ts:404-409`, 484), leaves no trace of having asked. The
  next flight offers the same credential, whose refresh token the provider may
  have used up.
* `HandoverComplete` and `RevokedStaysRevoked` speak of the services whose clock
  is not behind another's. Each service prunes the shared store by its own clock
  and takes a handle for expired by its own clock
  (`profile-context-handle.ts:302-310`, 460-463), so one that lags accepts a
  revoked handle once a faster one has pruned it, until the handle expires by
  its clock too. `docs/plans/2026-08-11-stateless-profile-context-decision.md:80`
  and 94 have revocations bounded by the expiry and applied on every instance.
* `NoTextLost`: what an editor writes in place to the moved file after the last
  look at it (`migrate-config.ts:562`) and before it is removed (566) goes with
  the file; that text was never at the path.

## Fairness

Liveness is checked under weak fairness of the continuations only, never of the
environment: no call, crash, answer of a person or expiry need ever happen.

* `UpstreamManager`: `Progress(k)`. Each await is a microtask, a promise with a
  timeout, or a start whose options, handshake or authorization end one way or
  the other; a scheduled restart is a timer. That a child closes is not assumed.
* `Approvals`, `ProfileControl`: the step of each job or request. Audit and file
  writes return or fail. Nothing waits for a person: a request that needs one
  ends, and the client comes back with the answer.
* `HttpHost`: runtime and transport closes return or fail; `setImmediate`
  callbacks run. `ContainedTransport`, `SecretProcess`: the kernel ends killed
  processes, timers fire, Node delivers the events of a child that has ended.
* Elsewhere no fairness is assumed: that nobody is stuck is an invariant over
  what could still run.

## Proofs

TLAPS proves the following for every value of the constants, from the named
assumptions of the module (each is evaluated by TLC in a run of that module).
Four theorems about the process managers, one about the state file, three
about the rename and one about the profile contexts have a hypothesis besides,
which they state: what they say is refuted without it, see below the table. Every proof
has the same shape: an inductive invariant, which the initial states satisfy
and each step preserves, with one lemma per action or kind of step, and which
implies the property; the last step is temporal (PTL). An action property
follows from the invariant of the state before the step, and the refinement from
one lemma for each action that names its abstract step or stutter.

| Module | Theorems | The invariant, and why it is needed |
| --- | --- | --- |
| `UpstreamManagerProofs` | `TypeCorrect`, `OnlyCurrentSessions` (SessionIsCurrent), `ExclusiveSchedules` (ScheduleIsExclusive), `NothingAfterClose` (CloseLeavesNothing) | a start is alone with its generation (`StartAlone`), every session and start is known to the map that close() walks (`KnownCovers`), a closed manager is empty (`ClosedIsEmpty`): the properties speak of the session, which is only safe because of what may still be starting |
| | `NobodyForgotten` (NoOrphan), `SessionsEndProperly` | where the living child of each stage of a start is, and that a gate that is pending has it (`PairInv`, `OrphanInv`); the in-flight count of a session is the number of its own requests (`CountInv`, theorem `CountsRequests`), so that an idle stop finds none |
| | `CapacityImplemented` (ImplementsCapacity), `RestReleases` (SlotsAreGivenBack) | what runs has a slot and the slot has its owner (`SlotInv`); a stop waits only for transports that a gate has, and only that of a restart keeps the slot (`RestInv`): so each step that ends the last work of a pair gives the slot back (`GivesBack`), or is the failure of an automatic start that a stop overtook (`Overtaken`) |
| | `CapacityHolds`, `CapacityKept` | what keeps the promise of `ProfileCapacity` has its live profiles counted by the slots that are taken (`SlotsBounded`); so the managers, which keep it by `CapacityImplemented`, never have more than `MaxProfiles` profiles alive |
| `ProfileControlProofs` | `MemoryIsRecorded`, `LocksHold`, `SwitchesAsConfirmed`, `CallsAreSelected`, and from them `SelectionsKept` (SelectionsAreKept), `ActsSelected` (ActsAsSelected); `FileKeepsSwitch` (FileHoldsLastSwitch) | one transition at a time (`Turns`), and it knows what it has changed and not recorded (`BusyKnows`); with none, memory and locks are what the log says (`QuietIsSettled`, `SettledLocks`, `SettledSelections`); a captured selection was one (`Sources`, `CallSelections`); the file has the switch under way, or else what every rollback would write back (`FileInv`) |
| `HostProofs` | `TreesContained` (ProcessesContained), `TypeCorrect`, `SessionsAreServed` (SessionsServe), `CloseHonest` (CloseIsHonest) | a tree that is gone stays gone, and what was reported or settled had it gone or killed (`TransportInv`, `SecretInv`); a session record is in one place, which it leaves only with its runtime (`RecordInv`), the places are counted exactly (`PlacesInv`), nothing comes after close() has begun (`ShutInv`), and close() waits for whatever it found (`CloserInv`) |
| | `MutualExclusion`, `NoListenerLeft`, and from them `Exclusive` (LockIsExclusive) | where a contender may be bound at each step (`OnPorts`, `OnPipe`, `Companions`, `OlderPlain`), and that two of them always have an endpoint in common which both must hold (`Meeting`) |
| `ServerProofs` | `IdentitiesAreHonest` (IdentityIsHonest) | a probe that may still publish is the current session's, and every caller waits for a probe that is under way or done for it (`IdentityInv`) |
| | `CatalogStaysCurrent` (CatalogIsCurrent) | what is stored, asked for or in flight is no older than the invalidations so far (`CatalogInv`), so that a listing of an older epoch stores nothing; the rest relates what the client was shown to routes and availability |
| | `DecisionsStaySafe` (DecisionsAreSafe) | the decision is that of the request (`DecisionInv`); the work is in `Precedence`, that one more voice changes only what weaker voices decided |
| | `ToolsStayCurrent` (ToolsAreCurrent) | a discovery that may still be stored has asked its upstreams in their last epoch or has the change marked as put off, and requests know their discovery (`ToolInv`); a request counts its rounds by what others have done |
| | `SubscriptionsStayAgreed` (SubscriptionsAgree) | the order of the requests on the wire decides what the upstream will be subscribed to (`WillBeOn`), and only the head of a URI's queue sends: so each phase of the head says what server, wire and upstream have (`UriInv`); leases, stale answers and news follow from it (`SubscriptionInv`) |
| | `CallsDecided` (CallsAreDecided), `RecordsHonest` (RecordsAreHonest), beside the other parts `RequestsInServer` | what each phase of a request has established: nothing sent (`Unsent`), hints read (`Hinted`), the target resolved (`Aimed`), the call left (`Left`), the outcome and the answer (`Outcome`, `Answered`) |
| `RenameProofs` | `TextsKept` (NoTextLost) | each inode that a replacement holds or has published is its own, and at each step the text it took from the path is held, published or back (`FileInv`) |
| | `MovesAreAtomic` (ImplementsMove), `RecoveryCanWork` (RecoveryWorks) | a script says how far it has come by the calls it has not yet made: which side each connection may be on follows from what is left, in either direction, and what failed there can be undone from there (`MoveState`) |
| | `OutcomesAgree` (OutcomeAgrees) | with nobody else at the file, the direction of a script and the step of its replacement determine which of the two texts is at the path (`SideInv`) |
| `RecordsProofs` | `HandoversComplete` | whoever has a handle has the state of the request that minted it (`ContextInv`): in each phase of a selection what is minted, in the journal, revoked and disclosed |
| | `ContextsKept` (ContextsLast) | the key rings that were published follow each other in time and each handle was minted from one that some cache may have served (`RotationInv`), so whoever opens it later finds its epoch still active or its time over |
| | `RecordsNeverGoBack` (NothingRollsBack) | what a service remembers is the newest it has used, also for the requests under way (`MemoryInv`); a revoked handle is in the store until some service has pruned it, which is when it has expired for every service whose clock is not behind another's (`DeadInv`) |
| `ApprovalsProofs` | `TypeCorrect`, `GrantsEarned` (GrantIsEarned), `DelegatedTrails` (DelegatedTrail) | the queue is what has arrived and is not done (`Queued`); record, continuation, pending expiry and log tell one tale of an approval nobody handles (`Settled`); the one in hand is as far as the job that has it (`InHand`); what no job created is untouched. An approval can thus be claimed only while its record or continuation is there, and the claim takes both away before the next await. `ExpiresStep`, `RecordsStep`, `EndsStep` and `ArriveStep` are the four things a step can do to the queue |
| `OAuthLifecycleProofs` | `TypeCorrect`, `NeverAskedTwice` (AskedOnce), `RestIsCoherent` (QuietIsCoherent), `OnlyCurrentInRuns` (OnlyCurrentIsUsed; `OnlyCurrentHandedOut` without the bound of the run) | the lock has the one holder that is inside it, and a credential just issued is unlike any that was used (`Core`); between vault and record only the holder of the lock, or a connect or disconnect that waits for it, has left something half done (`QuietInv`); a credential that was asked for and can still be read is the one that the holder of the lock is about to give up (`Spent`); what was given up stays given up, and what a call has read was current since it began (`HistInv`, kept by each step as `Mild` or `Turn` says what it changes) |

The assumptions say no more than the code's types: finite bounds are natural
numbers, limits that the configuration schema keeps positive are positive, and
special values are distinct.

The hypotheses. `NobodyForgotten`, `SessionsEndProperly`,
`CapacityImplemented` and `CapacityKept` assume `Budget["restart"] = 0`, no manual restart: with
one, `upstream_duplicate_child` refutes `NoOrphan`, and the others rest on
the same ownership of children. Crashes, automatic restarts, stops, idle stops
and closes remain.
`FileKeepsSwitch` assumes one client: two write the file without regard to each
other (`profile-manager.ts:482`). The three about the moved connections assume
`~TornJournals` and `~StaleRuntimes`, as the run does: a torn journal stops
every recovery (`profile-rename-transaction.ts:368`), and a runtime that was
started before the rename may refresh the credential that is being moved.
`ContextsKept` assumes `ClocksWithin`: what a service's clock is ahead and what
its cache of the key ring lags add up to no more than the skew
that `validateKeyring` adds to the longest lifetime (`profile-context-handle.ts`);
the overlap it demands allows for no more.

Only model-checked: every liveness property and the fair specifications (the
prover has neither liveness nor `ENABLED`, which `NobodyIsStuck` uses);
the audit journal (`records`), which recovers by folding over sequences of
entries: what such a fold computes for every input is an induction over data.

What failed attempts showed. `ShownIsReachable` of `ResourceCatalog` said at
first that what a client was shown leads somewhere until it is told; a
continuation page that fails for an upstream already known to be unavailable
clears its routes without a flip and so without a notice. The property says so
now, with the history variable `cut`. `OriginAssumption` and the distinctness of
`None` in `RenameAssumption` were silent in the instances of TLC.

## Not modelled

The components so marked in the table. Within the modelled ones, what is left
out is in the notes of `PROJECT.json`; the larger pieces are: the switch scopes
`process` and `session`, which are the durable one without the file;
`approveAndConsume`, which the server does not call; the HTTP host's count of
modern requests, which a `try/finally` brackets; snapshots, export and the
legacy archives of the audit journal; Windows security descriptors; the
protocol messages of OAuth; parsing, redaction and the wording of reports.
Connection setup, configuration documents, console and command line have little
state of their own: they plan, then call the operations modelled here.

## Plan

1. Setup workflows: publication of a new configuration over
   `ConfigReplacement`, with several wizards.
2. The audit journal under its lock (`LocalLock` composed with `AuditJournal`)
   and its snapshots.
3. Proofs that remain: see the end of the section on proofs.
