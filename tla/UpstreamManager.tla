---------------------------- MODULE UpstreamManager ----------------------------
(***************************************************************************)
(* The lifecycle of the upstream sessions that miftah keeps, one for each  *)
(* pair of a named upstream and a profile: UpstreamProcessManager, one     *)
(* instance per upstream, all sharing one ProfileSessionLimiter through    *)
(* MultiUpstreamProcessManager.                                            *)
(*                                                                         *)
(* The program is one JavaScript event loop.  An action is what one method *)
(* does between two awaits; a method that awaits is a phase kept in a      *)
(* variable and the action that continues it.  Continuations that the loop *)
(* runs as microtasks come before any timer, callback or new call.         *)
(*                                                                         *)
(* A start of pair k takes the number epoch[k], which is both the code's   *)
(* start epoch and its attempt token.  open[k] holds the numbers of the    *)
(* transports that have not emitted `close': for a stdio upstream, the     *)
(* child processes that are alive.                                         *)
(***************************************************************************)
EXTENDS Integers, FiniteSets

CONSTANTS
  Upstreams,       \* names of the configured upstreams
  Profiles,        \* names of the configured profiles
  Stdio,           \* the upstreams whose transport is a local child process
  MaxProfiles,     \* process.maxConcurrentProfiles
  RestartOnCrash,  \* process.restartOnCrash
  MaxRestarts,     \* process.maxRestarts
  IdleShutdown,    \* whether process.idleTimeoutMs is set
  OAuth,           \* the upstreams with an OAuth provider
  MaxRequests,     \* bound: requests in flight on one session
  Budget           \* bound: how often each environment call may happen

Calls == {"get", "restart", "closeProfile", "crash", "request"}

ASSUME ConstantsAssumption ==
  /\ IsFiniteSet(Upstreams) /\ IsFiniteSet(Profiles)
  /\ Stdio \subseteq Upstreams
  /\ OAuth \subseteq Upstreams \ Stdio
  /\ MaxProfiles \in Nat \ {0}
  /\ MaxRestarts \in Nat
  /\ RestartOnCrash \in BOOLEAN /\ IdleShutdown \in BOOLEAN
  /\ MaxRequests \in Nat
  /\ Budget \in [Calls -> Nat]

Keys == Upstreams \X Profiles
Profile(k) == k[2]
Local(k) == k[1] \in Stdio

VARIABLES
  session,    \* the map `sessions'
  start,      \* the start() in flight: `starts', `startingAttempts', its locals
  gen,        \* the lifecycle generation
  epoch,      \* the number of starts begun
  open,       \* transports that have not emitted close
  teardowns,  \* the map `pendingTeardowns'
  stops,      \* the stopProfile() calls that are awaiting
  automatic,  \* generation of the scheduled automatic restart, or NoTimer
  attempts,   \* consecutiveRestartAttempts
  exhausted,  \* restartExhausted
  idle,       \* idle timers that are armed
  stable,     \* stability timers that are armed
  manual,     \* what the manual restart in flight awaits
  state,      \* health.processState
  held,       \* the limiter: the pairs that hold a share of a slot
  closed,     \* the manager's closed flag
  requests,   \* the requests in flight, on a current or a former session
  calls       \* what is left of Budget

lifecycle == <<session, start, gen, epoch, open, teardowns, stops>>
recovery == <<automatic, attempts, exhausted, stable>>
vars == <<session, start, gen, epoch, open, teardowns, stops, automatic,
          attempts, exhausted, idle, stable, manual, state, held, closed,
          requests, calls>>

NoTimer == -1
NoSession == [token |-> 0, gen |-> 0, inFlight |-> 0]
NoStart == [phase |-> "none", source |-> "none", gen |-> 0,
            fresh |-> FALSE, owns |-> FALSE]

Phases == {"none", "refused", "preparing", "connecting", "authorizing",
           "reconnecting", "cleaning"}
Sources == {"none", "demand", "manual", "automatic"}
Reasons == {"idle", "manual", "restart", "shutdown"}
States == {"none", "stopped", "starting", "running", "failed"}

Sessions == [token : Nat, gen : Nat, inFlight : Nat]
Starts == [phase : Phases, source : Sources, gen : Nat,
           fresh : BOOLEAN, owns : BOOLEAN]
Teardowns == [signals : SUBSET Nat, blocks : BOOLEAN]
Stops == [reason : Reasons, frees : BOOLEAN, epoch : Nat, entry : Nat,
          attempt : Nat, signals : SUBSET Nat, owns : BOOLEAN]

-----------------------------------------------------------------------------
(* Reading the maps.                                                       *)

HasSession(k) == session[k] # NoSession
Starting(k) == start[k] # NoStart
\* A start registers its attempt when it connects and forgets it when it ends.
Attempting(k) ==
  start[k].phase \in {"connecting", "authorizing", "reconnecting", "cleaning"}

IsOpen(k, g) == ~closed                      \* mutant: the generation is ignored
IsCurrent(k, g) == ~closed /\ gen[k] = g

Blocking(gates) == \E gate \in gates : gate.blocks
Reaped(k, signals) == signals \cap open[k] = {}
\* withTimeout over a wait for the close of local children.
ReapedOnly(k, signals) == Reaped(k, signals) \* mutant: the wait has no bound
WaitOver(k, signals) == \E timedOut \in BOOLEAN : timedOut \/ Reaped(k, signals)

\* The signals whose close a stop or a failed start must see: local children.
LocalSignals(k, tokens) == IF Local(k) THEN tokens \ {0} ELSE {}

\* beginTeardown: an existing gate that covers the signals is shared.
Covering(gates, signals) == {gate \in gates : signals \subseteq gate.signals}
OwnsGate(gates, signals) == signals # {} /\ Covering(gates, signals) = {}
WithGate(gates, signals) ==
  IF OwnsGate(gates, signals)
  THEN gates \cup {[signals |-> signals, blocks |-> FALSE]}
  ELSE gates
GateSignals(gates, signals) ==
  IF signals = {} \/ Covering(gates, signals) = {}
  THEN signals
  ELSE (CHOOSE gate \in Covering(gates, signals) : TRUE).signals

\* What the owner of a gate does with it once its awaits are over.
DroppedGates(k, signals, owns) ==            \* mutant: a timed-out gate is dropped
  IF owns THEN {gate \in teardowns[k] : gate.signals # signals} ELSE teardowns[k]
SettledGates(k, signals, owns) ==
  LET others == {gate \in teardowns[k] : gate.signals # signals}
  IN  IF ~owns THEN teardowns[k]
      ELSE IF Reaped(k, signals) THEN others
      ELSE others \cup {[signals |-> signals, blocks |-> TRUE]}

\* The profile bundles that hold a slot, and whether one more pair fits.
HeldProfiles(pairs) == {Profile(k) : k \in pairs}
Fits(pairs, k) ==
  \/ Profile(k) \in HeldProfiles(pairs)
  \/ Cardinality(HeldProfiles(pairs)) < MaxProfiles
Acquired(pairs, k) == IF Fits(pairs, k) THEN pairs \cup {k} ELSE pairs
\* releaseProfileCapacity: nothing is released behind a gate.
NotReleased(pairs, k, gates) == pairs        \* mutant: the slot is never given back
ReleasedEarly(pairs, k, gates) == pairs \ {k} \* mutant: gates are ignored
Released(pairs, k, gates) == IF gates = {} THEN pairs \ {k} ELSE pairs

CanRetry(k) == RestartOnCrash /\ k \notin exhausted /\ attempts[k] < MaxRestarts

Known == {k \in Keys : state[k] # "none"}

Init ==
  /\ session = [k \in Keys |-> NoSession]
  /\ start = [k \in Keys |-> NoStart]
  /\ gen = [k \in Keys |-> 0]
  /\ epoch = [k \in Keys |-> 0]
  /\ open = [k \in Keys |-> {}]
  /\ teardowns = [k \in Keys |-> {}]
  /\ stops = [k \in Keys |-> {}]
  /\ automatic = [k \in Keys |-> NoTimer]
  /\ attempts = [k \in Keys |-> 0]
  /\ exhausted = {}
  /\ idle = {}
  /\ stable = {}
  /\ manual = [k \in Keys |-> "none"]
  /\ state = [k \in Keys |-> "none"]
  /\ held = {}
  /\ closed = FALSE
  /\ requests = [k \in Keys |-> {}]
  /\ calls = Budget

Spend(call) == calls[call] > 0 /\ calls' = [calls EXCEPT ![call] = @ - 1]

\* The continuations the event loop runs before its next timer or callback.
RestartReady(k) ==
  \/ manual[k] = "stopping" /\ ~\E s \in stops[k] : s.reason = "restart"
  \/ manual[k] = "waiting" /\ ~Starting(k)
Microtask(k) == RestartReady(k) \/ start[k].phase = "refused"
Settled == ~\E k \in Keys : Microtask(k)

-----------------------------------------------------------------------------
(* Automatic recovery.                                                     *)

\* cancelAutomaticRestart on every pair of K.
CancelNothing(K) == automatic                \* mutant: the timer keeps running
Cancelled(K) == [k \in Keys |-> IF k \in K THEN NoTimer ELSE automatic[k]]

\* scheduleAutomaticRestart, called with the pairs and gates as they stand.
ScheduleRestart(k, g, pairs, gates) ==
  IF ~RestartOnCrash \/ manual[k] # "none"
  THEN held' = pairs /\ state' = [state EXCEPT ![k] = "failed"]
       /\ UNCHANGED <<automatic, attempts, exhausted>>
  ELSE /\ state' = [state EXCEPT ![k] = "failed"]
       /\ IF attempts[k] >= MaxRestarts
          THEN /\ exhausted' = exhausted \cup {k}
               /\ held' = Released(pairs, k, gates)
               /\ automatic' = [automatic EXCEPT ![k] = NoTimer]
               /\ UNCHANGED attempts
          ELSE /\ attempts' = [attempts EXCEPT ![k] = @ + 1]
               /\ automatic' = [automatic EXCEPT ![k] = g]
               /\ held' = pairs
               /\ UNCHANGED exhausted

-----------------------------------------------------------------------------
(* Starting.                                                               *)

\* startOnce with no start in flight and no blocking gate, up to the first
\* await: the limiter admits the start or the start fails at once.
BeginStart(k, source) ==
  /\ epoch' = [epoch EXCEPT ![k] = @ + 1]
  /\ start' = [start EXCEPT ![k] =
       [phase |-> IF Fits(held, k) THEN "preparing" ELSE "refused",
        source |-> source, gen |-> gen[k], fresh |-> k \notin held /\ Fits(held, k),
        owns |-> FALSE]]
  /\ held' = Acquired(held, k)
  /\ state' = [state EXCEPT ![k] = IF Fits(held, k) THEN "starting" ELSE @]

\* The promise of a start settles: a manual restart that awaits it settles too.
SettleStart(k) ==
  /\ start' = [start EXCEPT ![k] = NoStart]
  /\ manual' = [manual EXCEPT ![k] = IF @ = "starting" THEN "none" ELSE @]

\* The end of start()'s catch block, with the gates as its cleanup left them,
\* and for an automatic start the catch block of runAutomaticRestart.
FailStart(k, gates) ==
  LET s == start[k]
      retry == s.source = "automatic" /\ CanRetry(k)
      pairs == IF Blocking(gates) THEN held
               ELSE IF ~retry THEN Released(held, k, gates)
               ELSE IF ~s.fresh THEN Acquired(held, k) ELSE held
  IN  /\ SettleStart(k)
      /\ teardowns' = [teardowns EXCEPT ![k] = gates]
      /\ IF ~IsCurrent(k, s.gen)
         THEN held' = pairs /\ UNCHANGED <<state, automatic, attempts, exhausted>>
         ELSE IF s.source = "automatic"
         THEN ScheduleRestart(k, s.gen, pairs, gates)
         ELSE /\ held' = pairs
              /\ state' = [state EXCEPT ![k] = "failed"]
              /\ UNCHANGED <<automatic, attempts, exhausted>>

\* get() that finds nothing to join: it starts the profile on demand.
Get(k) ==
  /\ Settled /\ ~closed /\ Spend("get")
  /\ manual[k] = "none" /\ automatic[k] = NoTimer
  /\ ~HasSession(k) /\ k \notin exhausted
  /\ ~Starting(k) /\ ~Blocking(teardowns[k])
  /\ BeginStart(k, "demand")
  /\ UNCHANGED <<session, gen, open, teardowns, stops, automatic, attempts,
                 exhausted, idle, stable, manual, closed, requests>>

\* The limiter refused the start: UPSTREAM_CONCURRENCY_LIMIT.
StartRefused(k) ==
  /\ start[k].phase = "refused"
  /\ FailStart(k, teardowns[k])
  /\ UNCHANGED <<session, gen, epoch, open, stops, idle, stable, closed,
                 requests, calls>>

\* Options, command and OAuth provider are resolved: connect a new transport.
Prepared(k) ==
  /\ Settled /\ start[k].phase = "preparing"
  /\ IsCurrent(k, start[k].gen)
  /\ start' = [start EXCEPT ![k].phase = "connecting"]
  /\ open' = [open EXCEPT ![k] = @ \cup {epoch[k]}]
  /\ UNCHANGED <<session, gen, epoch, teardowns, stops, recovery, idle, manual,
                 state, held, closed, requests, calls>>

\* Resolving failed, or assertCurrentStartup found the start superseded.
PrepareFails(k) ==
  /\ Settled /\ start[k].phase = "preparing"
  /\ FailStart(k, teardowns[k])
  /\ UNCHANGED <<session, gen, epoch, open, stops, idle, stable, closed,
                 requests, calls>>

\* The upstream answered 401: wait for the browser, with the transport closed.
Unauthorized(k) ==
  /\ Settled /\ start[k].phase = "connecting" /\ k[1] \in OAuth
  /\ start' = [start EXCEPT ![k].phase = "authorizing"]
  /\ open' = [open EXCEPT ![k] = @ \ {epoch[k]}]
  /\ UNCHANGED <<session, gen, epoch, teardowns, stops, recovery, idle, manual,
                 state, held, closed, requests, calls>>

\* The authorization code is redeemed and a second transport connects.  The
\* code does not ask here whether the start is still current.
Authorized(k) ==
  /\ Settled /\ start[k].phase = "authorizing"
  /\ start' = [start EXCEPT ![k].phase = "reconnecting"]
  /\ open' = [open EXCEPT ![k] = @ \cup {epoch[k]}]
  /\ UNCHANGED <<session, gen, epoch, teardowns, stops, recovery, idle, manual,
                 state, held, closed, requests, calls>>

\* The MCP handshake completes and the start is still current.
Connected(k) ==
  /\ Settled /\ start[k].phase \in {"connecting", "reconnecting"}
  /\ epoch[k] \in open[k]
  /\ IsCurrent(k, start[k].gen)
  /\ session' = [session EXCEPT ![k] =
       [token |-> epoch[k], gen |-> start[k].gen, inFlight |-> 0]]
  /\ SettleStart(k)
  /\ state' = [state EXCEPT ![k] = "running"]
  /\ idle' = IF IdleShutdown THEN idle \cup {k} ELSE idle
  /\ stable' = IF start[k].source = "automatic" THEN stable \cup {k} ELSE stable
  /\ UNCHANGED <<gen, epoch, open, teardowns, stops, automatic, attempts,
                 exhausted, held, closed, requests, calls>>

\* A handshake error, a timeout, a close, a refused authorization, or a
\* handshake that completed for a superseded start: the cleanup begins.
ConnectFails(k) ==
  /\ Settled
  /\ start[k].phase \in {"connecting", "authorizing", "reconnecting"}
  /\ LET signals == LocalSignals(k, {epoch[k]})
     IN  /\ start' = [start EXCEPT ![k].phase = "cleaning",
                                   ![k].owns = OwnsGate(teardowns[k], signals)]
         /\ teardowns' = [teardowns EXCEPT ![k] = WithGate(@, signals)]
  /\ UNCHANGED <<session, gen, epoch, open, stops, recovery, idle, manual,
                 state, held, closed, requests, calls>>

\* terminateTransport returns: the child is reaped, or the wait timed out.
StartCleaned(k) ==
  /\ Settled /\ start[k].phase = "cleaning"
  /\ WaitOver(k, LocalSignals(k, {epoch[k]}))
  /\ FailStart(k, SettledGates(k, LocalSignals(k, {epoch[k]}), start[k].owns))
  /\ open' = IF Local(k) THEN open ELSE [open EXCEPT ![k] = @ \ {epoch[k]}]
  /\ UNCHANGED <<session, gen, epoch, stops, idle, stable, closed, requests, calls>>

-----------------------------------------------------------------------------
(* Stopping.                                                               *)

\* stopProfile on every pair of K, up to its first await.  A pair with no
\* transport of its own but with a gate is left alone.
BeginStop(K, reason, frees) ==
  LET waits == {k \in K : HasSession(k) \/ Attempting(k)}
      skipped == {k \in K \ waits : teardowns[k] # {}}
      ended == K \ (waits \cup skipped)
      attempt(k) == IF Attempting(k) THEN epoch[k] ELSE 0
      signals(k) == LocalSignals(k, {session[k].token, attempt(k)})
  IN  /\ gen' = [k \in Keys |-> IF k \in K \ skipped THEN gen[k] + 1 ELSE gen[k]]
      /\ session' = [k \in Keys |-> IF k \in K THEN NoSession ELSE session[k]]
      /\ teardowns' = [k \in Keys |-> IF k \in waits
                                      THEN WithGate(teardowns[k], signals(k))
                                      ELSE teardowns[k]]
      /\ stops' = [k \in Keys |-> IF k \in waits
           THEN stops[k] \cup
             {[reason |-> reason, frees |-> frees, epoch |-> epoch[k],
               entry |-> session[k].token, attempt |-> attempt(k),
               signals |-> GateSignals(teardowns[k], signals(k)),
               owns |-> OwnsGate(teardowns[k], signals(k))]}
           ELSE stops[k]]
      /\ idle' = idle \ K
      /\ stable' = stable \ K
      /\ held' = IF frees THEN held \ ended ELSE held
      /\ state' = [k \in Keys |-> IF k \in ended THEN "stopped" ELSE state[k]]

\* A replacement start began while the stop was awaiting.
NeverSuperseded(k, s) == FALSE               \* mutant: the start epoch is ignored
Superseded(k, s) == epoch[k] # s.epoch

\* The rest of stopProfile after its last await.
FinishStop(k, s) ==
  LET gates == SettledGates(k, s.signals, s.owns)
      superseded == Superseded(k, s)
  IN  /\ stops' = [stops EXCEPT ![k] = @ \ {s}]
      /\ teardowns' = [teardowns EXCEPT ![k] = gates]
      /\ held' = IF \/ superseded /\ ~HasSession(k) /\ ~Starting(k)
                    \/ ~superseded /\ Reaped(k, s.signals) /\ s.frees
                 THEN Released(held, k, gates) ELSE held
      /\ state' = [state EXCEPT ![k] =
                    IF superseded THEN @
                    ELSE IF Reaped(k, s.signals) THEN "stopped" ELSE "failed"]

\* closeSession or terminateTransport returns, reaped or timed out; a remote
\* transport is closed by then.
StopStep(k, s) ==
  /\ Settled
  /\ IF s.entry # 0 /\ s.attempt # 0
     THEN /\ stops' = [stops EXCEPT ![k] = (@ \ {s}) \cup {[s EXCEPT !.entry = 0]}]
          /\ UNCHANGED <<teardowns, held, state>>
     ELSE FinishStop(k, s)
  /\ WaitOver(k, LocalSignals(k, {IF s.entry # 0 THEN s.entry ELSE s.attempt}))
  /\ open' = IF Local(k) THEN open
             ELSE [open EXCEPT ![k] = @ \ {IF s.entry # 0 THEN s.entry ELSE s.attempt}]
  /\ UNCHANGED <<session, start, gen, epoch, recovery, idle, manual, closed,
                 requests, calls>>

\* The idle timer fires and its session has no request in flight.
IdleFires(k) ==
  /\ Settled /\ k \in idle /\ HasSession(k) /\ session[k].inFlight = 0 /\ ~closed
  /\ BeginStop({k}, "idle", TRUE)
  /\ UNCHANGED <<start, epoch, open, automatic, attempts, exhausted, manual,
                 closed, requests, calls>>

\* closeProfile on every upstream of a profile.
CloseProfile(p) ==
  LET K == {k \in Keys : Profile(k) = p}
  IN  /\ Settled /\ Spend("closeProfile")
      /\ automatic' = Cancelled(K)
      /\ BeginStop(K, "manual", TRUE)
      /\ UNCHANGED <<start, epoch, open, attempts, exhausted, manual, closed, requests>>

\* close(): every pair the managers know is stopped.
Close ==
  /\ Settled /\ ~closed
  /\ closed' = TRUE
  /\ automatic' = Cancelled(Known)
  /\ BeginStop(Known, "shutdown", TRUE)
  /\ UNCHANGED <<start, epoch, open, attempts, exhausted, manual, requests, calls>>

-----------------------------------------------------------------------------
(* Restarting.                                                             *)

\* restart(): forget the schedule and the budget, and stop what is there.
Restart(k) ==
  /\ Settled /\ ~closed /\ manual[k] = "none" /\ Spend("restart")
  /\ automatic' = Cancelled({k})
  /\ attempts' = [attempts EXCEPT ![k] = 0]
  /\ exhausted' = exhausted \ {k}
  /\ manual' = [manual EXCEPT ![k] = "stopping"]
  /\ BeginStop({k}, "restart", FALSE)
  /\ UNCHANGED <<start, epoch, open, closed, requests>>

\* Its stop, or the cancelled start it waited for, has settled.
RestartContinues(k) ==
  /\ RestartReady(k)
  /\ IF Starting(k)
     THEN /\ manual' = [manual EXCEPT ![k] = "waiting"]
          /\ UNCHANGED <<start, epoch, held, state>>
     ELSE IF closed \/ Blocking(teardowns[k])
     THEN /\ manual' = [manual EXCEPT ![k] = "none"]
          /\ UNCHANGED <<start, epoch, held, state>>
     ELSE /\ manual' = [manual EXCEPT ![k] = "starting"]
          /\ BeginStart(k, "manual")
  /\ UNCHANGED <<session, gen, open, teardowns, stops, recovery, idle, closed,
                 requests, calls>>

\* The cancelled start did not settle within the shutdown bound.
RestartTimesOut(k) ==
  /\ Settled /\ manual[k] = "waiting"
  /\ manual' = [manual EXCEPT ![k] = "none"]
  /\ UNCHANGED <<lifecycle, recovery, idle, state, held, closed, requests, calls>>

\* The backoff of an automatic restart is over.  A start is never in flight
\* then and the schedule is always current (ScheduleIsExclusive).
RestartTimer(k) ==
  /\ Settled /\ automatic[k] # NoTimer
  /\ IsCurrent(k, automatic[k]) /\ ~Starting(k)
  /\ IF Blocking(teardowns[k])
     THEN /\ ScheduleRestart(k, automatic[k], held, teardowns[k])
          /\ UNCHANGED <<start, epoch>>
     ELSE /\ BeginStart(k, "automatic")
          /\ automatic' = [automatic EXCEPT ![k] = NoTimer]
          /\ UNCHANGED <<attempts, exhausted>>
  /\ UNCHANGED <<session, gen, open, teardowns, stops, idle, stable, manual,
                 closed, requests, calls>>

\* A recovered session outlived the stability window.
StabilityTimer(k) ==
  /\ Settled /\ k \in stable /\ HasSession(k)
  /\ stable' = stable \ {k}
  /\ attempts' = [attempts EXCEPT ![k] = 0]
  /\ UNCHANGED <<lifecycle, automatic, exhausted, idle, manual, state, held,
                 closed, requests, calls>>

-----------------------------------------------------------------------------
(* Transport and request events.                                           *)

\* The close belongs to the live session, by its token.
AnyClose(k, t) == HasSession(k)              \* mutant: the token is ignored
IsCrash(k, t) == HasSession(k) /\ session[k].token = t

\* A transport emits close: deferred gates complete, then a live session of
\* that very transport is a crash (handleTransportClosed).
TransportCloses(k, t) ==
  LET left == open[k] \ {t}
      gates == {gate \in teardowns[k] : ~gate.blocks \/ gate.signals \cap left # {}}
      replaced == HasSession(k) \/ Starting(k)
      freed == gates # teardowns[k] /\ ~replaced /\ gates = {}
      pairs == IF freed THEN held \ {k} ELSE held
  IN  /\ Settled /\ t \in open[k]
      /\ open' = [open EXCEPT ![k] = left]
      /\ teardowns' = [teardowns EXCEPT ![k] = gates]
      /\ IF IsCrash(k, t)
         THEN /\ Spend("crash")
              /\ session' = [session EXCEPT ![k] = NoSession]
              /\ idle' = idle \ {k} /\ stable' = stable \ {k}
              /\ IF RestartOnCrash
                 THEN ScheduleRestart(k, gen[k], pairs, gates)
                 ELSE /\ held' = Released(pairs, k, gates)
                      /\ state' = [state EXCEPT ![k] = "failed"]
                      /\ UNCHANGED <<automatic, attempts, exhausted>>
         ELSE /\ held' = pairs
              /\ state' = [state EXCEPT ![k] = IF freed /\ ~closed THEN "stopped" ELSE @]
              /\ UNCHANGED <<session, idle, recovery, calls>>
      /\ UNCHANGED <<start, gen, epoch, stops, manual, closed, requests>>

\* beginOperation counts the request.
Uncounted(k) == session[k]                   \* mutant: it does not
Counted(k) == [session[k] EXCEPT !.inFlight = @ + 1]

\* A caller that holds the session sends a request (UpstreamSession.request).
BeginRequest(k) ==
  /\ Settled /\ HasSession(k) /\ Spend("request")
  /\ \E i \in 1..MaxRequests :
       /\ <<session[k].token, i>> \notin requests[k]
       /\ requests' = [requests EXCEPT ![k] = @ \cup {<<session[k].token, i>>}]
  /\ session' = [session EXCEPT ![k] = Counted(k)]
  /\ idle' = idle \ {k}
  /\ UNCHANGED <<start, gen, epoch, open, teardowns, stops, recovery, manual,
                 state, held, closed>>

\* endOperation: only a request of the current session is counted down.
FinishedAny(k, r) ==                         \* mutant: the token is ignored
  IF HasSession(k)
  THEN [session[k] EXCEPT !.inFlight = IF @ > 0 THEN @ - 1 ELSE 0]
  ELSE session[k]
FinishedTwice(k, r) ==                       \* mutant: nor is the floor kept
  IF HasSession(k) THEN [session[k] EXCEPT !.inFlight = @ - 1] ELSE session[k]
Finished(k, r) ==
  IF HasSession(k) /\ session[k].token = r[1]
  THEN [session[k] EXCEPT !.inFlight = IF @ > 0 THEN @ - 1 ELSE 0]
  ELSE session[k]

\* A request settles; the last one of the current session rearms its timer.
EndRequest(k, r) ==
  /\ Settled /\ r \in requests[k]
  /\ requests' = [requests EXCEPT ![k] = @ \ {r}]
  /\ session' = [session EXCEPT ![k] = Finished(k, r)]
  /\ idle' = IF /\ HasSession(k) /\ session[k].token = r[1]
                /\ Finished(k, r).inFlight = 0 /\ IdleShutdown
             THEN idle \cup {k} ELSE idle
  /\ UNCHANGED <<start, gen, epoch, open, teardowns, stops, recovery, manual,
                 state, held, closed, calls>>

-----------------------------------------------------------------------------
\* The manager carries on with what it has begun.
Progress(k) ==
  \/ StartRefused(k) \/ Prepared(k) \/ PrepareFails(k)
  \/ Unauthorized(k) \/ Authorized(k) \/ Connected(k)
  \/ ConnectFails(k) \/ StartCleaned(k)
  \/ \E s \in stops[k] : StopStep(k, s)
  \/ RestartContinues(k) \/ RestartTimesOut(k) \/ RestartTimer(k)

\* Calls, timers of a running session, and what upstreams do.
Environment(k) ==
  \/ Get(k) \/ Restart(k) \/ IdleFires(k) \/ StabilityTimer(k)
  \/ \E t \in open[k] : TransportCloses(k, t)
  \/ BeginRequest(k) \/ \E r \in requests[k] : EndRequest(k, r)

Next ==
  \/ \E k \in Keys : Progress(k) \/ Environment(k)
  \/ \E p \in Profiles : CloseProfile(p)
  \/ Close

Spec == Init /\ [][Next]_vars

\* Every await on the manager's own path is bounded by a timeout or ends when
\* the operating system or the browser answers; a scheduled restart fires.
Fairness == \A k \in Keys : WF_vars(Progress(k))

FairSpec == Spec /\ Fairness

-----------------------------------------------------------------------------
(* What must hold.                                                         *)

\* Type correctness of the managers' maps.
TypeOK ==
  /\ session \in [Keys -> Sessions]
  /\ start \in [Keys -> Starts]
  /\ gen \in [Keys -> Nat] /\ epoch \in [Keys -> Nat]
  /\ open \in [Keys -> SUBSET Nat]
  /\ teardowns \in [Keys -> SUBSET Teardowns]
  /\ stops \in [Keys -> SUBSET Stops]
  /\ automatic \in [Keys -> Nat \cup {NoTimer}]
  /\ attempts \in [Keys -> Nat]
  /\ exhausted \subseteq Keys /\ idle \subseteq Keys /\ stable \subseteq Keys
  /\ manual \in [Keys -> {"none", "stopping", "waiting", "starting"}]
  /\ state \in [Keys -> States]
  /\ held \subseteq Keys
  /\ closed \in BOOLEAN
  /\ requests \in [Keys -> SUBSET (Nat \X (1..MaxRequests))]
  /\ calls \in [Calls -> Nat]

Resting(k) ==
  /\ ~HasSession(k) /\ ~Starting(k) /\ automatic[k] = NoTimer
  /\ teardowns[k] = {} /\ stops[k] = {} /\ manual[k] = "none"

\* A start that a stop, a restart or close() superseded never becomes the
\* session, whatever its handshake answers later (start, assertCurrentStartup).
SessionIsCurrent ==
  \A k \in Keys : HasSession(k) => ~closed /\ session[k].gen = gen[k]

\* A child process that lives is the session, the attempt of the start, or
\* behind a teardown gate: somebody still has it to close.
NoOrphan ==
  \A k \in Keys : Local(k) =>
    \A t \in open[k] :
      \/ HasSession(k) /\ session[k].token = t
      \/ Attempting(k) /\ epoch[k] = t
      \/ \E gate \in teardowns[k] : t \in gate.signals

\* A scheduled automatic restart keeps its slot over the backoff window.
BackoffKeepsSlot == \A k \in Keys : automatic[k] # NoTimer => k \in held

\* A restart is scheduled only where no session lives and no start is in
\* flight, and a stop or a restart since has cancelled it.
ScheduleIsExclusive ==
  \A k \in Keys : automatic[k] # NoTimer =>
    /\ ~HasSession(k) /\ ~Starting(k) /\ manual[k] = "none"
    /\ ~closed /\ automatic[k] = gen[k]

\* The in-flight count of a session is the number of its own requests,
\* however requests of its predecessors end.
RequestsCounted ==
  \A k \in Keys : HasSession(k) =>
    session[k].inFlight = Cardinality({r \in requests[k] : r[1] = session[k].token})

\* Health never reports a process that is neither there nor being stopped.
HealthIsHonest ==
  ~closed => \A k \in Keys :
    /\ HasSession(k) => state[k] = "running"
    /\ state[k] = "running" => HasSession(k) \/ stops[k] # {}
    /\ state[k] = "starting" => Starting(k) \/ stops[k] # {}

CloseReturned ==
  closed /\ \A k \in Keys :
    ~Starting(k) /\ manual[k] = "none" /\ ~\E s \in stops[k] : s.reason = "shutdown"

\* Once close() has returned nothing starts again and nothing is scheduled.
CloseLeavesNothing ==
  CloseReturned =>
    \A k \in Keys : /\ ~HasSession(k) /\ automatic[k] = NoTimer
                    /\ k \notin idle \cup stable

\* The managers implement the promise of the limiter.
Live == {k \in Keys : HasSession(k) \/ (Local(k) /\ open[k] # {})}
Capacity == INSTANCE ProfileCapacity WITH live <- Live
ImplementsCapacity == Capacity!Spec

\* The idle timer never stops a session that has a request in flight.
IdleSparesRequests ==
  [][\A k \in Keys : (\E s \in stops'[k] \ stops[k] : s.reason = "idle") =>
       ~\E r \in requests[k] : r[1] = session[k].token]_vars

\* Only a stop or the close of its own transport takes a session away: never
\* the late close of an earlier transport, never another start.
SessionLeavesProperly ==
  [][\A k \in Keys : HasSession(k) /\ session'[k].token # session[k].token =>
       gen'[k] > gen[k] \/ session[k].token \in open[k] \ open'[k]]_vars

\* So a session ends as it may: by a stop that was due or with its own transport.
SessionEndsProperly == IdleSparesRequests /\ SessionLeavesProperly

\* Whatever brings a pair to rest, with nothing running and nothing under way,
\* gives its slot back: an idle stop, the last crash that the budget allows, a
\* failed start, closeProfile, a late close behind a gate or a restart that
\* gives up.  All but the failure of an automatic start that a stop overtook,
\* which keeps or retakes the slot.
SlotsAreGivenBack ==
  [][\A k \in held' : ~closed' /\ Resting(k)' =>
       \/ k \in held /\ Resting(k)
       \/ start[k].source = "automatic" /\ gen[k] # start[k].gen]_vars

\* What has begun ends: starts, scheduled and manual restarts, and close().
EverythingSettles ==
  /\ \A k \in Keys : Starting(k) ~> ~Starting(k)
  /\ \A k \in Keys : automatic[k] # NoTimer ~> automatic[k] = NoTimer
  /\ \A k \in Keys : manual[k] # "none" ~> manual[k] = "none"
  /\ closed ~> CloseReturned
=============================================================================
