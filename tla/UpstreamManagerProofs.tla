------------------------- MODULE UpstreamManagerProofs -------------------------
(***************************************************************************)
(* Theorems about UpstreamManager, for every set of upstreams and profiles *)
(* and every value of the other constants.  Type correctness comes first;  *)
(* the safety invariants follow from one inductive invariant, IInv.        *)
(***************************************************************************)
EXTENDS UpstreamManager, FiniteSetTheorems, TLAPS

-----------------------------------------------------------------------------
(* Type correctness.                                                       *)

\* A gate that beginTeardown finds or installs is a gate, its signals are
\* transport numbers, and so are the signals of the lease it returns.
LEMMA GateTypes ==
  ASSUME NEW gates \in SUBSET Teardowns, NEW signals \in SUBSET Nat
  PROVE  /\ WithGate(gates, signals) \in SUBSET Teardowns
         /\ GateSignals(gates, signals) \in SUBSET Nat
         /\ OwnsGate(gates, signals) \in BOOLEAN
<1>1. OwnsGate(gates, signals) \in BOOLEAN
  BY DEF OwnsGate
<1>2. WithGate(gates, signals) \in SUBSET Teardowns
  <2>1. [signals |-> signals, blocks |-> FALSE] \in Teardowns
    BY DEF Teardowns
  <2>. QED  BY <2>1 DEF WithGate
<1>3. GateSignals(gates, signals) \in SUBSET Nat
  <2>1. CASE signals = {} \/ Covering(gates, signals) = {}
    BY <2>1 DEF GateSignals
  <2>2. CASE ~(signals = {} \/ Covering(gates, signals) = {})
    <3>1. (CHOOSE gate \in Covering(gates, signals) : TRUE) \in Covering(gates, signals)
      BY <2>2
    <3>2. (CHOOSE gate \in Covering(gates, signals) : TRUE) \in Teardowns
      BY <3>1 DEF Covering
    <3>. QED  BY <2>2, <3>2 DEF GateSignals, Teardowns
  <2>. QED  BY <2>1, <2>2
<1>. QED  BY <1>1, <1>2, <1>3

\* The signals of the local children among some transports are numbers.
LEMMA LocalSignalsType ==
  ASSUME NEW k, NEW tokens \in SUBSET Nat
  PROVE  LocalSignals(k, tokens) \in SUBSET Nat
BY DEF LocalSignals

\* Releasing or acquiring a share leaves a set of pairs.
LEMMA SlotTypes ==
  ASSUME NEW pairs \in SUBSET Keys, NEW k \in Keys, NEW gates
  PROVE  /\ Released(pairs, k, gates) \in SUBSET Keys
         /\ Acquired(pairs, k) \in SUBSET Keys
BY DEF Released, Acquired

\* What a gate's owner leaves behind is again a set of gates.
LEMMA SettledGatesType ==
  ASSUME TypeOK, NEW k \in Keys, NEW signals \in SUBSET Nat, NEW owns \in BOOLEAN
  PROVE  SettledGates(k, signals, owns) \in SUBSET Teardowns
<1>1. teardowns[k] \in SUBSET Teardowns
  BY DEF TypeOK
<1>2. [signals |-> signals, blocks |-> TRUE] \in Teardowns
  BY DEF Teardowns
<1>. QED  BY <1>1, <1>2 DEF SettledGates

\* Scheduling a restart, or giving up, keeps the types of recovery.
LEMMA ScheduleRestartType ==
  ASSUME TypeOK, NEW k \in Keys, NEW g \in Nat, NEW pairs \in SUBSET Keys,
         NEW gates, ScheduleRestart(k, g, pairs, gates)
  PROVE  /\ held' \in SUBSET Keys
         /\ state' \in [Keys -> States]
         /\ automatic' \in [Keys -> Nat \cup {NoTimer}]
         /\ attempts' \in [Keys -> Nat]
         /\ exhausted' \subseteq Keys
<1>1. state' \in [Keys -> States]
  <2>1. state' = [state EXCEPT ![k] = "failed"]
    BY DEF ScheduleRestart
  <2>. QED  BY <2>1 DEF TypeOK, States
<1>2. CASE ~RestartOnCrash \/ manual[k] # "none"
  BY <1>1, <1>2 DEF TypeOK, ScheduleRestart
<1>3. CASE ~(~RestartOnCrash \/ manual[k] # "none") /\ attempts[k] >= MaxRestarts
  <2>1. /\ exhausted' = exhausted \cup {k}
        /\ held' = Released(pairs, k, gates)
        /\ automatic' = [automatic EXCEPT ![k] = NoTimer]
        /\ UNCHANGED attempts
    BY <1>3 DEF ScheduleRestart
  <2>. QED  BY <1>1, <2>1, SlotTypes DEF TypeOK
<1>4. CASE ~(~RestartOnCrash \/ manual[k] # "none") /\ ~(attempts[k] >= MaxRestarts)
  <2>1. /\ attempts' = [attempts EXCEPT ![k] = @ + 1]
        /\ automatic' = [automatic EXCEPT ![k] = g]
        /\ held' = pairs
        /\ UNCHANGED exhausted
    BY <1>4 DEF ScheduleRestart
  <2>. QED  BY <1>1, <2>1 DEF TypeOK
<1>. QED  BY <1>2, <1>3, <1>4

\* The first half of a start keeps the types of what it changes.
LEMMA BeginStartType ==
  ASSUME TypeOK, NEW k \in Keys, NEW source \in Sources, BeginStart(k, source)
  PROVE  /\ epoch' \in [Keys -> Nat]
         /\ start' \in [Keys -> Starts]
         /\ held' \in SUBSET Keys
         /\ state' \in [Keys -> States]
<1>1. [phase |-> IF Fits(held, k) THEN "preparing" ELSE "refused",
       source |-> source, gen |-> gen[k], fresh |-> k \notin held /\ Fits(held, k),
       owns |-> FALSE] \in Starts
  BY DEF TypeOK, Starts, Phases, Fits
<1>2. epoch' \in [Keys -> Nat] /\ state' \in [Keys -> States]
  BY DEF TypeOK, BeginStart, States
<1>3. start' \in [Keys -> Starts]
  BY <1>1 DEF TypeOK, BeginStart
<1>4. held' \in SUBSET Keys
  BY SlotTypes DEF TypeOK, BeginStart
<1>. QED  BY <1>2, <1>3, <1>4

\* A record for `no start' is a start record.
LEMMA NoStartType == NoStart \in Starts
BY DEF NoStart, Starts, Phases, Sources

\* The end of a failed start keeps the types of what it changes.
LEMMA FailStartType ==
  ASSUME TypeOK, NEW k \in Keys, NEW gates \in SUBSET Teardowns, FailStart(k, gates)
  PROVE  /\ start' \in [Keys -> Starts]
         /\ manual' \in [Keys -> {"none", "stopping", "waiting", "starting"}]
         /\ teardowns' \in [Keys -> SUBSET Teardowns]
         /\ held' \in SUBSET Keys
         /\ state' \in [Keys -> States]
         /\ automatic' \in [Keys -> Nat \cup {NoTimer}]
         /\ attempts' \in [Keys -> Nat]
         /\ exhausted' \subseteq Keys
<1>. DEFINE s == start[k]
            retry == s.source = "automatic" /\ CanRetry(k)
            pairs == IF Blocking(gates) THEN held
                     ELSE IF ~retry THEN Released(held, k, gates)
                     ELSE IF ~s.fresh THEN Acquired(held, k) ELSE held
<1>1. pairs \in SUBSET Keys
  BY SlotTypes DEF TypeOK
<1>2. s.gen \in Nat
  BY DEF TypeOK, Starts
<1>3. /\ start' \in [Keys -> Starts]
      /\ manual' \in [Keys -> {"none", "stopping", "waiting", "starting"}]
      /\ teardowns' \in [Keys -> SUBSET Teardowns]
  BY NoStartType DEF TypeOK, FailStart, SettleStart
<1>4. \/ held' = pairs /\ UNCHANGED <<state, automatic, attempts, exhausted>>
      \/ ScheduleRestart(k, s.gen, pairs, gates)
      \/ /\ held' = pairs
         /\ state' = [state EXCEPT ![k] = "failed"]
         /\ UNCHANGED <<automatic, attempts, exhausted>>
  BY Zenon DEF FailStart
<1>. HIDE DEF pairs, retry, s
<1>5. CASE held' = pairs /\ UNCHANGED <<state, automatic, attempts, exhausted>>
  BY <1>1, <1>3, <1>5 DEF TypeOK
<1>6. CASE ScheduleRestart(k, s.gen, pairs, gates)
  BY <1>1, <1>2, <1>3, <1>6, ScheduleRestartType
<1>7. CASE /\ held' = pairs
           /\ state' = [state EXCEPT ![k] = "failed"]
           /\ UNCHANGED <<automatic, attempts, exhausted>>
  BY <1>1, <1>3, <1>7 DEF TypeOK, States
<1>. QED  BY <1>4, <1>5, <1>6, <1>7

\* The first half of a stop keeps the types of what it changes.
LEMMA BeginStopType ==
  ASSUME TypeOK, NEW K \in SUBSET Keys, NEW reason \in Reasons,
         NEW frees \in BOOLEAN, BeginStop(K, reason, frees)
  PROVE  /\ gen' \in [Keys -> Nat]
         /\ session' \in [Keys -> Sessions]
         /\ teardowns' \in [Keys -> SUBSET Teardowns]
         /\ stops' \in [Keys -> SUBSET Stops]
         /\ idle' \subseteq Keys /\ stable' \subseteq Keys
         /\ held' \subseteq Keys
         /\ state' \in [Keys -> States]
<1>. DEFINE waits == {k \in K : HasSession(k) \/ Attempting(k)}
            skipped == {k \in K \ waits : teardowns[k] # {}}
            ended == K \ (waits \cup skipped)
            attempt(k) == IF Attempting(k) THEN epoch[k] ELSE 0
            signals(k) == LocalSignals(k, {session[k].token, attempt(k)})
            stop(k) == [reason |-> reason, frees |-> frees, epoch |-> epoch[k],
                        entry |-> session[k].token, attempt |-> attempt(k),
                        signals |-> GateSignals(teardowns[k], signals(k)),
                        owns |-> OwnsGate(teardowns[k], signals(k))]
<1>1. \A k \in Keys : attempt(k) \in Nat /\ session[k].token \in Nat /\ signals(k) \in SUBSET Nat
  <2>. TAKE k \in Keys
  <2>1. attempt(k) \in Nat
    BY DEF TypeOK
  <2>2. session[k].token \in Nat
    BY DEF TypeOK, Sessions
  <2>. QED  BY <2>1, <2>2, LocalSignalsType
<1>2. \A k \in Keys : /\ WithGate(teardowns[k], signals(k)) \in SUBSET Teardowns
                      /\ stop(k) \in Stops
  <2>. TAKE k \in Keys
  <2>1. teardowns[k] \in SUBSET Teardowns /\ epoch[k] \in Nat
    BY DEF TypeOK
  <2>2. /\ WithGate(teardowns[k], signals(k)) \in SUBSET Teardowns
        /\ GateSignals(teardowns[k], signals(k)) \in SUBSET Nat
        /\ OwnsGate(teardowns[k], signals(k)) \in BOOLEAN
    BY <1>1, <2>1, GateTypes
  <2>. QED  BY <1>1, <2>1, <2>2 DEF Stops
<1>3. /\ gen' = [k \in Keys |-> IF k \in K \ skipped THEN gen[k] + 1 ELSE gen[k]]
      /\ session' = [k \in Keys |-> IF k \in K THEN NoSession ELSE session[k]]
      /\ teardowns' = [k \in Keys |-> IF k \in waits
                                      THEN WithGate(teardowns[k], signals(k))
                                      ELSE teardowns[k]]
      /\ stops' = [k \in Keys |-> IF k \in waits THEN stops[k] \cup {stop(k)} ELSE stops[k]]
      /\ idle' = idle \ K
      /\ stable' = stable \ K
      /\ held' = IF frees THEN held \ ended ELSE held
      /\ state' = [k \in Keys |-> IF k \in ended THEN "stopped" ELSE state[k]]
  BY Zenon DEF BeginStop
<1>4. NoSession \in Sessions
  BY DEF NoSession, Sessions
<1>. HIDE DEF waits, skipped, ended, attempt, signals, stop
<1>5. gen' \in [Keys -> Nat] /\ session' \in [Keys -> Sessions]
  BY <1>3, <1>4 DEF TypeOK
<1>6. teardowns' \in [Keys -> SUBSET Teardowns] /\ stops' \in [Keys -> SUBSET Stops]
  BY <1>2, <1>3 DEF TypeOK
<1>7. /\ idle' \subseteq Keys /\ stable' \subseteq Keys /\ held' \subseteq Keys
      /\ state' \in [Keys -> States]
  BY <1>3 DEF TypeOK, States
<1>. QED  BY <1>5, <1>6, <1>7

\* The second half of a stop keeps the types of what it changes.
LEMMA FinishStopType ==
  ASSUME TypeOK, NEW k \in Keys, NEW s \in stops[k], FinishStop(k, s)
  PROVE  /\ stops' \in [Keys -> SUBSET Stops]
         /\ teardowns' \in [Keys -> SUBSET Teardowns]
         /\ held' \subseteq Keys
         /\ state' \in [Keys -> States]
<1>. DEFINE gates == SettledGates(k, s.signals, s.owns)
<1>1. s \in Stops
  BY DEF TypeOK
<1>2. gates \in SUBSET Teardowns
  BY <1>1, SettledGatesType DEF Stops
<1>3. /\ stops' = [stops EXCEPT ![k] = @ \ {s}]
      /\ teardowns' = [teardowns EXCEPT ![k] = gates]
      /\ held' = Released(held, k, gates) \/ held' = held
  BY Zenon DEF FinishStop
<1>. HIDE DEF gates
<1>4. held' \subseteq Keys
  <2>1. held \in SUBSET Keys
    BY DEF TypeOK
  <2>2. Released(held, k, gates) \in SUBSET Keys
    BY <2>1, SlotTypes
  <2>. QED  BY <1>3, <2>1, <2>2
<1>5. state' \in [Keys -> States]
  <2>1. state' = [state EXCEPT ![k] =
                    IF Superseded(k, s) THEN @
                    ELSE IF Reaped(k, s.signals) THEN "stopped" ELSE "failed"]
    BY DEF FinishStop
  <2>. QED  BY <2>1 DEF TypeOK, States
<1>. QED  BY <1>2, <1>3, <1>4, <1>5 DEF TypeOK

\* Spending from the budget keeps it a budget.
LEMMA SpendType ==
  ASSUME TypeOK, NEW call \in Calls, Spend(call)
  PROVE  calls' \in [Calls -> Nat]
BY DEF TypeOK, Spend

\* Counting a request up or down keeps a session record.
LEMMA CountTypes ==
  ASSUME TypeOK, NEW k \in Keys, NEW r
  PROVE  Counted(k) \in Sessions /\ Finished(k, r) \in Sessions
<1>1. session[k] \in Sessions
  BY DEF TypeOK
<1>2. Counted(k) \in Sessions
  BY <1>1 DEF Counted, Sessions
<1>3. Finished(k, r) \in Sessions
  BY <1>1 DEF Finished, Sessions
<1>. QED  BY <1>2, <1>3

\* A start that goes on to its next phase is a start record.
LEMMA PhaseTypes ==
  ASSUME TypeOK, NEW k \in Keys, NEW phase \in Phases, NEW owns \in BOOLEAN
  PROVE  /\ [start EXCEPT ![k].phase = phase] \in [Keys -> Starts]
         /\ [start EXCEPT ![k].phase = phase, ![k].owns = owns] \in [Keys -> Starts]
<1>1. start \in [Keys -> Starts] /\ start[k] \in Starts
  BY DEF TypeOK
<1>2. [start[k] EXCEPT !.phase = phase] \in Starts
  BY <1>1 DEF Starts
<1>3. [start[k] EXCEPT !.phase = phase, !.owns = owns] \in Starts
  BY <1>1 DEF Starts
<1>4. [start EXCEPT ![k] = [start[k] EXCEPT !.phase = phase]] \in [Keys -> Starts]
  BY <1>1, <1>2
<1>5. [start EXCEPT ![k] = [start[k] EXCEPT !.phase = phase, !.owns = owns]] \in [Keys -> Starts]
  BY <1>1, <1>3
<1>6. [start EXCEPT ![k].phase = phase] = [start EXCEPT ![k] = [start[k] EXCEPT !.phase = phase]]
  BY <1>1
<1>7. [start EXCEPT ![k].phase = phase, ![k].owns = owns]
        = [start EXCEPT ![k] = [start[k] EXCEPT !.phase = phase, !.owns = owns]]
  BY <1>1
<1>. QED  BY <1>4, <1>5, <1>6, <1>7

\* Every step keeps the types.
LEMMA TypeStep ==
  ASSUME TypeOK, [Next]_vars
  PROVE  TypeOK'
<1>1. ASSUME NEW k \in Keys, Get(k) PROVE TypeOK'
  <2>1. BeginStart(k, "demand") /\ Spend("get")
    BY <1>1 DEF Get
  <2>2. /\ epoch' \in [Keys -> Nat] /\ start' \in [Keys -> Starts]
        /\ held' \in SUBSET Keys /\ state' \in [Keys -> States]
    BY <2>1, BeginStartType DEF Sources
  <2>3. calls' \in [Calls -> Nat]
    BY <2>1, SpendType DEF Calls
  <2>. QED  BY <1>1, <2>2, <2>3 DEF Get, TypeOK
<1>2. ASSUME NEW k \in Keys, StartRefused(k) PROVE TypeOK'
  <2>1. teardowns[k] \in SUBSET Teardowns
    BY DEF TypeOK
  <2>2. FailStart(k, teardowns[k])
    BY <1>2 DEF StartRefused
  <2>. QED  BY <1>2, <2>1, <2>2, FailStartType DEF StartRefused, TypeOK
<1>3. ASSUME NEW k \in Keys, Prepared(k) PROVE TypeOK'
  <2>1. start' \in [Keys -> Starts]
    BY <1>3, PhaseTypes DEF Prepared, Phases
  <2>2. open' \in [Keys -> SUBSET Nat]
    BY <1>3 DEF Prepared, TypeOK
  <2>. QED  BY <1>3, <2>1, <2>2 DEF Prepared, recovery, TypeOK
<1>4. ASSUME NEW k \in Keys, PrepareFails(k) PROVE TypeOK'
  <2>1. teardowns[k] \in SUBSET Teardowns
    BY DEF TypeOK
  <2>2. FailStart(k, teardowns[k])
    BY <1>4 DEF PrepareFails
  <2>. QED  BY <1>4, <2>1, <2>2, FailStartType DEF PrepareFails, TypeOK
<1>5. ASSUME NEW k \in Keys, Unauthorized(k) PROVE TypeOK'
  <2>1. start' \in [Keys -> Starts]
    BY <1>5, PhaseTypes DEF Unauthorized, Phases
  <2>2. open' \in [Keys -> SUBSET Nat]
    BY <1>5 DEF Unauthorized, TypeOK
  <2>. QED  BY <1>5, <2>1, <2>2 DEF Unauthorized, recovery, TypeOK
<1>6. ASSUME NEW k \in Keys, Authorized(k) PROVE TypeOK'
  <2>1. start' \in [Keys -> Starts]
    BY <1>6, PhaseTypes DEF Authorized, Phases
  <2>2. open' \in [Keys -> SUBSET Nat]
    BY <1>6 DEF Authorized, TypeOK
  <2>. QED  BY <1>6, <2>1, <2>2 DEF Authorized, recovery, TypeOK
<1>7. ASSUME NEW k \in Keys, Connected(k) PROVE TypeOK'
  <2>1. [token |-> epoch[k], gen |-> start[k].gen, inFlight |-> 0] \in Sessions
    BY DEF TypeOK, Sessions, Starts
  <2>2. session' \in [Keys -> Sessions]
    BY <1>7, <2>1 DEF Connected, TypeOK
  <2>3. /\ start' \in [Keys -> Starts]
        /\ manual' \in [Keys -> {"none", "stopping", "waiting", "starting"}]
    BY <1>7, NoStartType DEF Connected, SettleStart, TypeOK
  <2>4. idle' \subseteq Keys /\ stable' \subseteq Keys /\ state' \in [Keys -> States]
    BY <1>7 DEF Connected, TypeOK, States
  <2>. QED  BY <1>7, <2>2, <2>3, <2>4 DEF Connected, TypeOK
<1>8. ASSUME NEW k \in Keys, ConnectFails(k) PROVE TypeOK'
  <2>. DEFINE signals == LocalSignals(k, {epoch[k]})
  <2>1. teardowns[k] \in SUBSET Teardowns /\ signals \in SUBSET Nat
    BY LocalSignalsType DEF TypeOK
  <2>2. /\ WithGate(teardowns[k], signals) \in SUBSET Teardowns
        /\ OwnsGate(teardowns[k], signals) \in BOOLEAN
    BY <2>1, GateTypes
  <2>3. /\ start' = [start EXCEPT ![k].phase = "cleaning",
                                  ![k].owns = OwnsGate(teardowns[k], signals)]
        /\ teardowns' = [teardowns EXCEPT ![k] = WithGate(@, signals)]
    BY <1>8 DEF ConnectFails
  <2>. HIDE DEF signals
  <2>4. start' \in [Keys -> Starts]
    BY <2>2, <2>3, PhaseTypes DEF Phases
  <2>5. teardowns' \in [Keys -> SUBSET Teardowns]
    BY <2>2, <2>3 DEF TypeOK
  <2>. QED  BY <1>8, <2>4, <2>5 DEF ConnectFails, recovery, TypeOK
<1>9. ASSUME NEW k \in Keys, StartCleaned(k) PROVE TypeOK'
  <2>. DEFINE gates == SettledGates(k, LocalSignals(k, {epoch[k]}), start[k].owns)
  <2>1. LocalSignals(k, {epoch[k]}) \in SUBSET Nat /\ start[k].owns \in BOOLEAN
    BY LocalSignalsType DEF TypeOK, Starts
  <2>2. gates \in SUBSET Teardowns
    BY <2>1, SettledGatesType
  <2>3. FailStart(k, gates)
    BY <1>9 DEF StartCleaned
  <2>4. open' \in [Keys -> SUBSET Nat]
    <3>1. open' = open \/ open' = [open EXCEPT ![k] = @ \ {epoch[k]}]
      BY <1>9 DEF StartCleaned
    <3>. QED  BY <3>1 DEF TypeOK
  <2>. HIDE DEF gates
  <2>. QED  BY <1>9, <2>2, <2>3, <2>4, FailStartType DEF StartCleaned, TypeOK
<1>10. ASSUME NEW k \in Keys, NEW s \in stops[k], StopStep(k, s) PROVE TypeOK'
  <2>1. s \in Stops
    BY DEF TypeOK
  <2>2. open' \in [Keys -> SUBSET Nat]
    <3>1. \/ open' = open
          \/ open' = [open EXCEPT ![k] = @ \ {IF s.entry # 0 THEN s.entry ELSE s.attempt}]
      BY <1>10 DEF StopStep
    <3>. QED  BY <3>1 DEF TypeOK
  <2>3. CASE s.entry # 0 /\ s.attempt # 0
    <3>1. [s EXCEPT !.entry = 0] \in Stops
      BY <2>1 DEF Stops
    <3>2. stops' \in [Keys -> SUBSET Stops] /\ UNCHANGED <<teardowns, held, state>>
      BY <1>10, <2>3, <3>1 DEF StopStep, TypeOK
    <3>. QED  BY <1>10, <2>2, <3>2 DEF StopStep, recovery, TypeOK
  <2>4. CASE ~(s.entry # 0 /\ s.attempt # 0)
    <3>1. FinishStop(k, s)
      BY <1>10, <2>4 DEF StopStep
    <3>. QED  BY <1>10, <2>2, <3>1, FinishStopType DEF StopStep, recovery, TypeOK
  <2>. QED  BY <2>3, <2>4
<1>11. ASSUME NEW k \in Keys, IdleFires(k) PROVE TypeOK'
  <2>1. BeginStop({k}, "idle", TRUE)
    BY <1>11 DEF IdleFires
  <2>. QED  BY <1>11, <2>1, BeginStopType DEF IdleFires, Reasons, TypeOK
<1>12. ASSUME NEW p \in Profiles, CloseProfile(p) PROVE TypeOK'
  <2>. DEFINE K == {k \in Keys : Profile(k) = p}
  <2>1. BeginStop(K, "manual", TRUE) /\ Spend("closeProfile") /\ automatic' = Cancelled(K)
    BY <1>12 DEF CloseProfile
  <2>2. K \in SUBSET Keys
    OBVIOUS
  <2>. HIDE DEF K
  <2>3. automatic' \in [Keys -> Nat \cup {NoTimer}]
    BY <2>1 DEF Cancelled, TypeOK
  <2>4. calls' \in [Calls -> Nat]
    BY <2>1, SpendType DEF Calls
  <2>. QED  BY <1>12, <2>1, <2>2, <2>3, <2>4, BeginStopType DEF CloseProfile, Reasons, TypeOK
<1>13. CASE Close
  <2>1. BeginStop(Known, "shutdown", TRUE) /\ Known \in SUBSET Keys
    BY <1>13 DEF Close, Known
  <2>2. automatic' \in [Keys -> Nat \cup {NoTimer}] /\ closed' \in BOOLEAN
    BY <1>13 DEF Close, Cancelled, TypeOK
  <2>. QED  BY <1>13, <2>1, <2>2, BeginStopType DEF Close, Reasons, TypeOK
<1>14. ASSUME NEW k \in Keys, Restart(k) PROVE TypeOK'
  <2>1. BeginStop({k}, "restart", FALSE) /\ Spend("restart")
    BY <1>14 DEF Restart
  <2>2. automatic' \in [Keys -> Nat \cup {NoTimer}]
    BY <1>14 DEF Restart, Cancelled, TypeOK
  <2>4. /\ attempts' \in [Keys -> Nat] /\ exhausted' \subseteq Keys
        /\ manual' \in [Keys -> {"none", "stopping", "waiting", "starting"}]
    BY <1>14 DEF Restart, TypeOK
  <2>3. calls' \in [Calls -> Nat]
    BY <2>1, SpendType DEF Calls
  <2>5. /\ gen' \in [Keys -> Nat] /\ session' \in [Keys -> Sessions]
        /\ teardowns' \in [Keys -> SUBSET Teardowns] /\ stops' \in [Keys -> SUBSET Stops]
        /\ idle' \subseteq Keys /\ stable' \subseteq Keys /\ held' \subseteq Keys
        /\ state' \in [Keys -> States]
    BY <2>1, BeginStopType DEF Reasons
  <2>. QED  BY <1>14, <2>2, <2>3, <2>4, <2>5 DEF Restart, TypeOK
<1>15. ASSUME NEW k \in Keys, RestartContinues(k) PROVE TypeOK'
  <2>1. manual' \in [Keys -> {"none", "stopping", "waiting", "starting"}]
    BY <1>15 DEF RestartContinues, TypeOK
  <2>2. \/ UNCHANGED <<start, epoch, held, state>>
        \/ BeginStart(k, "manual")
    BY <1>15 DEF RestartContinues
  <2>3. CASE UNCHANGED <<start, epoch, held, state>>
    BY <1>15, <2>1, <2>3 DEF RestartContinues, recovery, TypeOK
  <2>4. CASE BeginStart(k, "manual")
    BY <1>15, <2>1, <2>4, BeginStartType DEF RestartContinues, recovery, Sources, TypeOK
  <2>. QED  BY <2>2, <2>3, <2>4
<1>16. ASSUME NEW k \in Keys, RestartTimesOut(k) PROVE TypeOK'
  BY <1>16 DEF RestartTimesOut, lifecycle, recovery, TypeOK
<1>17. ASSUME NEW k \in Keys, RestartTimer(k) PROVE TypeOK'
  <2>1. CASE Blocking(teardowns[k])
    <3>1. automatic[k] \in Nat /\ held \in SUBSET Keys
      BY <1>17 DEF RestartTimer, TypeOK
    <3>2. ScheduleRestart(k, automatic[k], held, teardowns[k]) /\ UNCHANGED <<start, epoch>>
      BY <1>17, <2>1 DEF RestartTimer
    <3>. QED  BY <1>17, <3>1, <3>2, ScheduleRestartType DEF RestartTimer, TypeOK
  <2>2. CASE ~Blocking(teardowns[k])
    <3>1. BeginStart(k, "automatic") /\ UNCHANGED <<attempts, exhausted>>
      BY <1>17, <2>2 DEF RestartTimer
    <3>2. automatic' \in [Keys -> Nat \cup {NoTimer}]
      BY <1>17, <2>2 DEF RestartTimer, TypeOK
    <3>. QED  BY <1>17, <3>1, <3>2, BeginStartType DEF RestartTimer, Sources, TypeOK
  <2>. QED  BY <2>1, <2>2
<1>18. ASSUME NEW k \in Keys, StabilityTimer(k) PROVE TypeOK'
  BY <1>18 DEF StabilityTimer, lifecycle, TypeOK
<1>19. ASSUME NEW k \in Keys, NEW t \in open[k], TransportCloses(k, t) PROVE TypeOK'
  <2>. DEFINE left == open[k] \ {t}
              gates == {gate \in teardowns[k] : ~gate.blocks \/ gate.signals \cap left # {}}
              freed == /\ gates # teardowns[k] /\ ~(HasSession(k) \/ Starting(k))
                       /\ gates = {}
              pairs == IF freed THEN held \ {k} ELSE held
  <2>1. gates \in SUBSET Teardowns /\ pairs \in SUBSET Keys
    BY DEF TypeOK
  <2>2. /\ open' = [open EXCEPT ![k] = left]
        /\ teardowns' = [teardowns EXCEPT ![k] = gates]
        /\ UNCHANGED <<start, gen, epoch, stops, manual, closed, requests>>
    BY <1>19, Zenon DEF TransportCloses
  <2>3. CASE IsCrash(k, t)
    <3>1. /\ Spend("crash")
          /\ session' = [session EXCEPT ![k] = NoSession]
          /\ idle' = idle \ {k} /\ stable' = stable \ {k}
          /\ \/ ScheduleRestart(k, gen[k], pairs, gates)
             \/ /\ held' = Released(pairs, k, gates)
                /\ state' = [state EXCEPT ![k] = "failed"]
                /\ UNCHANGED <<automatic, attempts, exhausted>>
      BY <1>19, <2>3, Zenon DEF TransportCloses
    <3>2. session' \in [Keys -> Sessions] /\ calls' \in [Calls -> Nat]
      BY <3>1, SpendType DEF NoSession, Sessions, Calls, TypeOK
    <3>3. gen[k] \in Nat
      BY DEF TypeOK
    <3>. HIDE DEF gates, pairs, freed
    <3>4. /\ held' \in SUBSET Keys /\ state' \in [Keys -> States]
          /\ automatic' \in [Keys -> Nat \cup {NoTimer}]
          /\ attempts' \in [Keys -> Nat] /\ exhausted' \subseteq Keys
      <4>1. CASE ScheduleRestart(k, gen[k], pairs, gates)
        BY <2>1, <3>3, <4>1, ScheduleRestartType
      <4>2. CASE /\ held' = Released(pairs, k, gates)
                 /\ state' = [state EXCEPT ![k] = "failed"]
                 /\ UNCHANGED <<automatic, attempts, exhausted>>
        BY <2>1, <4>2, SlotTypes DEF TypeOK, States
      <4>. QED  BY <3>1, <4>1, <4>2
    <3>. QED  BY <2>1, <2>2, <3>1, <3>2, <3>4 DEF TypeOK
  <2>4. CASE ~IsCrash(k, t)
    <3>1. /\ held' = pairs
          /\ state' = [state EXCEPT ![k] = IF freed /\ ~closed THEN "stopped" ELSE @]
          /\ UNCHANGED <<session, idle, recovery, calls>>
      BY <1>19, <2>4, Zenon DEF TransportCloses
    <3>. HIDE DEF gates, pairs, freed
    <3>. QED  BY <2>1, <2>2, <3>1 DEF recovery, TypeOK, States
  <2>. QED  BY <2>3, <2>4
<1>20. ASSUME NEW k \in Keys, BeginRequest(k) PROVE TypeOK'
  <2>1. PICK i \in 1..MaxRequests :
          requests' = [requests EXCEPT ![k] = @ \cup {<<session[k].token, i>>}]
    BY <1>20 DEF BeginRequest
  <2>2. session[k].token \in Nat
    BY DEF TypeOK, Sessions
  <2>3. requests' \in [Keys -> SUBSET (Nat \X (1..MaxRequests))]
    BY <2>1, <2>2 DEF TypeOK
  <2>4. session' \in [Keys -> Sessions]
    BY <1>20, CountTypes DEF BeginRequest, TypeOK
  <2>5. Spend("request")
    BY <1>20 DEF BeginRequest
  <2>6. calls' \in [Calls -> Nat]
    BY <2>5, SpendType DEF Calls
  <2>. QED  BY <1>20, <2>3, <2>4, <2>6 DEF BeginRequest, recovery, TypeOK
<1>21. ASSUME NEW k \in Keys, NEW r \in requests[k], EndRequest(k, r) PROVE TypeOK'
  <2>1. session' \in [Keys -> Sessions]
    BY <1>21, CountTypes DEF EndRequest, TypeOK
  <2>2. requests' \in [Keys -> SUBSET (Nat \X (1..MaxRequests))] /\ idle' \subseteq Keys
    BY <1>21 DEF EndRequest, TypeOK
  <2>. QED  BY <1>21, <2>1, <2>2 DEF EndRequest, recovery, TypeOK
<1>22. CASE UNCHANGED vars
  BY <1>22 DEF vars, TypeOK
<1>. QED
  BY <1>1, <1>2, <1>3, <1>4, <1>5, <1>6, <1>7, <1>8, <1>9, <1>10, <1>11, <1>12,
     <1>13, <1>14, <1>15, <1>16, <1>17, <1>18, <1>19, <1>20, <1>21, <1>22
     DEF Next, Progress, Environment

\* Initially the maps are empty and the counters are zero.
LEMMA TypeInit == Init => TypeOK
<1>. SUFFICES ASSUME Init PROVE TypeOK
  OBVIOUS
<1>1. NoSession \in Sessions
  BY DEF NoSession, Sessions
<1>2. session \in [Keys -> Sessions] /\ start \in [Keys -> Starts]
  BY <1>1, NoStartType DEF Init
<1>3. /\ gen \in [Keys -> Nat] /\ epoch \in [Keys -> Nat] /\ attempts \in [Keys -> Nat]
      /\ automatic \in [Keys -> Nat \cup {NoTimer}]
  BY DEF Init
<1>4. /\ open \in [Keys -> SUBSET Nat] /\ teardowns \in [Keys -> SUBSET Teardowns]
      /\ stops \in [Keys -> SUBSET Stops]
      /\ requests \in [Keys -> SUBSET (Nat \X (1..MaxRequests))]
  BY DEF Init
<1>5. /\ manual \in [Keys -> {"none", "stopping", "waiting", "starting"}]
      /\ state \in [Keys -> States]
  BY DEF Init, States
<1>6. calls \in [Calls -> Nat]
  BY ConstantsAssumption DEF Init
<1>. QED  BY <1>2, <1>3, <1>4, <1>5, <1>6 DEF Init, TypeOK

\* The maps of the managers always have their types.
THEOREM TypeCorrect == Spec => []TypeOK
<1>1. TypeOK /\ [Next]_vars => TypeOK'
  BY TypeStep
<1>. QED  BY TypeInit, <1>1, PTL DEF Spec

-----------------------------------------------------------------------------
(* The inductive invariant.                                                *)
(*                                                                         *)
(* SessionIsCurrent and ScheduleIsExclusive are not inductive alone.  A    *)
(* crash schedules a restart, so it must be known that no start is in      *)
(* flight beside a session unless a manual restart awaits it (StartAlone); *)
(* close() cancels only the pairs that have a health entry, so it must be  *)
(* known that the others have nothing to cancel (KnownCovers); and what    *)
(* close() cancelled must stay so (ClosedIsEmpty).                         *)

\* A start beside a live session is one that a manual restart awaits.
StartAlone == \A k \in Keys : HasSession(k) /\ Starting(k) => manual[k] = "starting"

\* A pair without health entry has no session and no timer.
KnownCovers ==
  \A k \in Keys : state[k] = "none" =>
    ~HasSession(k) /\ automatic[k] = NoTimer /\ k \notin idle /\ k \notin stable

\* A closed manager has no session and no timer.
ClosedIsEmpty ==
  closed => \A k \in Keys : /\ ~HasSession(k) /\ automatic[k] = NoTimer
                            /\ k \notin idle /\ k \notin stable

IInv ==
  /\ SessionIsCurrent
  /\ ScheduleIsExclusive
  /\ StartAlone
  /\ KnownCovers
  /\ ClosedIsEmpty

\* A start in a phase of its own is a start in flight.
LEMMA PhaseStarting ==
  ASSUME NEW k \in Keys, start[k].phase # "none"
  PROVE  Starting(k)
BY DEF Starting, NoStart

\* What BeginStop does to the state the invariant speaks of.
LEMMA BeginStopEffect ==
  ASSUME TypeOK, NEW K \in SUBSET Keys, NEW reason, NEW frees,
         BeginStop(K, reason, frees)
  PROVE  /\ idle' = idle \ K /\ stable' = stable \ K
         /\ \A k \in K : session'[k] = NoSession
         /\ \A k \in Keys \ K : /\ session'[k] = session[k]
                                /\ gen'[k] = gen[k]
         /\ \A k \in Keys : state'[k] = "none" => state[k] = "none"
<1>. DEFINE skipped == {k \in K \ {k \in K : HasSession(k) \/ Attempting(k)} :
                          teardowns[k] # {}}
            ended == K \ ({k \in K : HasSession(k) \/ Attempting(k)} \cup skipped)
<1>1. /\ gen' = [k \in Keys |-> IF k \in K \ skipped THEN gen[k] + 1 ELSE gen[k]]
      /\ session' = [k \in Keys |-> IF k \in K THEN NoSession ELSE session[k]]
      /\ idle' = idle \ K
      /\ stable' = stable \ K
      /\ state' = [k \in Keys |-> IF k \in ended THEN "stopped" ELSE state[k]]
  BY Zenon DEF BeginStop
<1>. HIDE DEF skipped, ended
<1>. QED  BY <1>1

\* What ScheduleRestart does: it schedules only if no manual restart is in
\* flight, and then for the generation it is given.
LEMMA ScheduleRestartEffect ==
  ASSUME NEW k \in Keys, NEW g, NEW pairs, NEW gates,
         ScheduleRestart(k, g, pairs, gates)
  PROVE  /\ state' = [state EXCEPT ![k] = "failed"]
         /\ \/ automatic' = automatic
            \/ automatic' = [automatic EXCEPT ![k] = NoTimer]
            \/ automatic' = [automatic EXCEPT ![k] = g] /\ manual[k] = "none"
BY DEF ScheduleRestart

\* What FailStart does: the start is over, and only a start that is still
\* current, and that no manual restart awaits, schedules another.
LEMMA FailStartEffect ==
  ASSUME NEW k \in Keys, NEW gates, FailStart(k, gates)
  PROVE  /\ start' = [start EXCEPT ![k] = NoStart]
         /\ manual' = [manual EXCEPT ![k] = IF @ = "starting" THEN "none" ELSE @]
         /\ state' = state \/ state' = [state EXCEPT ![k] = "failed"]
         /\ \/ automatic' = automatic
            \/ automatic' = [automatic EXCEPT ![k] = NoTimer]
            \/ /\ automatic' = [automatic EXCEPT ![k] = start[k].gen]
               /\ manual[k] = "none" /\ IsCurrent(k, start[k].gen)
               /\ state' = [state EXCEPT ![k] = "failed"]
<1>. DEFINE s == start[k]
            retry == s.source = "automatic" /\ CanRetry(k)
            pairs == IF Blocking(gates) THEN held
                     ELSE IF ~retry THEN Released(held, k, gates)
                     ELSE IF ~s.fresh THEN Acquired(held, k) ELSE held
<1>1. \/ held' = pairs /\ UNCHANGED <<state, automatic, attempts, exhausted>>
      \/ IsCurrent(k, s.gen) /\ ScheduleRestart(k, s.gen, pairs, gates)
      \/ /\ held' = pairs
         /\ state' = [state EXCEPT ![k] = "failed"]
         /\ UNCHANGED <<automatic, attempts, exhausted>>
  BY Zenon DEF FailStart
<1>2. /\ start' = [start EXCEPT ![k] = NoStart]
      /\ manual' = [manual EXCEPT ![k] = IF @ = "starting" THEN "none" ELSE @]
  BY DEF FailStart, SettleStart
<1>. HIDE DEF pairs
<1>. QED  BY <1>1, <1>2, ScheduleRestartEffect

\* The end of a failed start keeps the invariant.
LEMMA FailStartKeeps ==
  ASSUME TypeOK, IInv, NEW k \in Keys, NEW gates, FailStart(k, gates), Starting(k),
         UNCHANGED <<session, gen, idle, stable, closed>>
  PROVE  IInv'
<1>1. /\ start' = [start EXCEPT ![k] = NoStart]
      /\ manual' = [manual EXCEPT ![k] = IF @ = "starting" THEN "none" ELSE @]
      /\ state' = state \/ state' = [state EXCEPT ![k] = "failed"]
      /\ \/ automatic' = automatic
         \/ automatic' = [automatic EXCEPT ![k] = NoTimer]
         \/ /\ automatic' = [automatic EXCEPT ![k] = start[k].gen]
            /\ manual[k] = "none" /\ IsCurrent(k, start[k].gen)
            /\ state' = [state EXCEPT ![k] = "failed"]
  BY FailStartEffect
<1>2. \A j \in Keys : /\ HasSession(j)' = HasSession(j)
                      /\ Starting(j)' => Starting(j) /\ j # k
                      /\ j # k => manual'[j] = manual[j] /\ automatic'[j] = automatic[j]
                      /\ state'[j] = "none" => state[j] = "none" 
  BY <1>1 DEF TypeOK, HasSession, Starting
<1>3. SessionIsCurrent'
  BY <1>2 DEF IInv, SessionIsCurrent
<1>4. StartAlone'
  BY <1>2 DEF IInv, StartAlone
<1>5. automatic'[k] # NoTimer =>
        /\ automatic'[k] = gen[k] /\ ~closed /\ manual[k] = "none"
        /\ ~HasSession(k) /\ state'[k] # "none"
  BY <1>1 DEF TypeOK, IInv, ScheduleIsExclusive, StartAlone, KnownCovers, IsCurrent
<1>6. ScheduleIsExclusive'
  BY <1>1, <1>2, <1>5 DEF TypeOK, IInv, ScheduleIsExclusive
<1>7. KnownCovers'
  BY <1>2, <1>5 DEF IInv, KnownCovers
<1>8. ClosedIsEmpty'
  BY <1>2, <1>5 DEF IInv, ClosedIsEmpty
<1>. QED  BY <1>3, <1>4, <1>6, <1>7, <1>8 DEF IInv

\* A step that begins no start, and at most advances one, keeps the invariant
\* if it leaves sessions, timers and health alone.
LEMMA FrameKeeps ==
  ASSUME TypeOK, IInv,
         UNCHANGED <<session, gen, automatic, idle, stable, manual, state, closed>>,
         \A k \in Keys : Starting(k)' => Starting(k)
  PROVE  IInv'
BY DEF IInv, SessionIsCurrent, ScheduleIsExclusive, StartAlone, KnownCovers,
       ClosedIsEmpty, HasSession

\* A start that goes on to its next phase was in flight before.
LEMMA AdvanceKeeps ==
  ASSUME TypeOK, IInv, NEW k \in Keys, NEW s, start[k].phase # "none",
         start' = [start EXCEPT ![k] = s],
         UNCHANGED <<session, gen, automatic, idle, stable, manual, state, closed>>
  PROVE  IInv'
<1>1. Starting(k)
  BY PhaseStarting
<1>2. \A j \in Keys : Starting(j)' => Starting(j)
  BY <1>1 DEF Starting, TypeOK
<1>. QED  BY <1>2, FrameKeeps

\* The beginning of a start keeps the invariant where no restart is scheduled
\* any more and no session lives, or a manual restart awaits the start.
LEMMA BeginStartKeeps ==
  ASSUME TypeOK, IInv, NEW k \in Keys, NEW source, BeginStart(k, source),
         automatic'[k] = NoTimer,
         \A j \in Keys \ {k} : automatic'[j] = automatic[j] /\ manual'[j] = manual[j],
         ~HasSession(k) \/ manual'[k] = "starting",
         UNCHANGED <<session, gen, idle, stable, closed>>
  PROVE  IInv'
<1>1. \A j \in Keys : /\ HasSession(j)' = HasSession(j)
                      /\ j # k => Starting(j)' = Starting(j)
                      /\ state'[j] = "none" => state[j] = "none"
  BY DEF BeginStart, HasSession, Starting, TypeOK
<1>. QED
  BY <1>1 DEF TypeOK, IInv, SessionIsCurrent, ScheduleIsExclusive, StartAlone,
              KnownCovers, ClosedIsEmpty

\* The beginning of a stop keeps the invariant if the schedules of the pairs
\* it stops are cancelled.
LEMMA BeginStopKeeps ==
  ASSUME TypeOK, IInv, NEW K \in SUBSET Keys, NEW reason, NEW frees,
         BeginStop(K, reason, frees),
         \A k \in K : automatic'[k] = NoTimer,
         \A k \in Keys \ K : automatic'[k] = automatic[k] /\ manual'[k] = manual[k],
         UNCHANGED <<start, closed>>
  PROVE  IInv'
<1>1. /\ idle' = idle \ K /\ stable' = stable \ K
      /\ \A k \in K : session'[k] = NoSession
      /\ \A k \in Keys \ K : session'[k] = session[k] /\ gen'[k] = gen[k]
      /\ \A k \in Keys : state'[k] = "none" => state[k] = "none"
  BY BeginStopEffect
<1>2. \A k \in Keys : /\ Starting(k)' = Starting(k)
                      /\ HasSession(k)' => HasSession(k) /\ k \notin K
  BY <1>1 DEF HasSession, Starting
<1>. QED
  BY <1>1, <1>2 DEF IInv, SessionIsCurrent, ScheduleIsExclusive, StartAlone,
                    KnownCovers, ClosedIsEmpty

\* Initially nothing runs and nothing is scheduled.
LEMMA InvInit == Init => IInv
BY DEF Init, IInv, SessionIsCurrent, ScheduleIsExclusive, StartAlone, KnownCovers,
       ClosedIsEmpty, HasSession, Starting

\* Every step keeps the invariant.
LEMMA InvStep ==
  ASSUME TypeOK, IInv, [Next]_vars
  PROVE  IInv'
<1>1. ASSUME NEW k \in Keys, Get(k) PROVE IInv'
  BY <1>1, BeginStartKeeps DEF Get
<1>2. ASSUME NEW k \in Keys, StartRefused(k) PROVE IInv'
  BY <1>2, FailStartKeeps, PhaseStarting DEF StartRefused
<1>3. ASSUME NEW k \in Keys, Prepared(k) PROVE IInv'
  BY <1>3, AdvanceKeeps DEF Prepared, recovery
<1>4. ASSUME NEW k \in Keys, PrepareFails(k) PROVE IInv'
  BY <1>4, FailStartKeeps, PhaseStarting DEF PrepareFails
<1>5. ASSUME NEW k \in Keys, Unauthorized(k) PROVE IInv'
  BY <1>5, AdvanceKeeps DEF Unauthorized, recovery
<1>6. ASSUME NEW k \in Keys, Authorized(k) PROVE IInv'
  BY <1>6, AdvanceKeeps DEF Authorized, recovery
<1>7. ASSUME NEW k \in Keys, Connected(k) PROVE IInv'
  <2>1. Starting(k)
    BY <1>7, PhaseStarting DEF Connected
  <2>2. /\ IsCurrent(k, start[k].gen)
        /\ session' = [session EXCEPT ![k] =
             [token |-> epoch[k], gen |-> start[k].gen, inFlight |-> 0]]
        /\ start' = [start EXCEPT ![k] = NoStart]
        /\ state' = [state EXCEPT ![k] = "running"]
        /\ idle' \subseteq idle \cup {k} /\ stable' \subseteq stable \cup {k}
        /\ \A j \in Keys \ {k} : manual'[j] = manual[j]
        /\ UNCHANGED <<gen, automatic, closed>>
    BY <1>7 DEF Connected, SettleStart, TypeOK
  <2>3. /\ session'[k].gen = gen[k] /\ ~closed /\ automatic[k] = NoTimer
        /\ ~Starting(k)' /\ state'[k] = "running"
    BY <2>1, <2>2 DEF IsCurrent, IInv, ScheduleIsExclusive, Starting, TypeOK
  <2>4. \A j \in Keys \ {k} : /\ session'[j] = session[j] /\ state'[j] = state[j]
                              /\ HasSession(j)' = HasSession(j)
                              /\ Starting(j)' = Starting(j)
                              /\ j \in idle' => j \in idle
                              /\ j \in stable' => j \in stable
    BY <2>2 DEF HasSession, Starting, TypeOK
  <2>5. SessionIsCurrent' /\ StartAlone'
    BY <2>2, <2>3, <2>4 DEF IInv, SessionIsCurrent, StartAlone
  <2>6. ScheduleIsExclusive' /\ KnownCovers' /\ ClosedIsEmpty'
    BY <2>2, <2>3, <2>4 DEF IInv, ScheduleIsExclusive, KnownCovers, ClosedIsEmpty
  <2>. QED  BY <2>5, <2>6 DEF IInv
<1>8. ASSUME NEW k \in Keys, ConnectFails(k) PROVE IInv'
  <2>1. PICK owns : start' = [start EXCEPT ![k].phase = "cleaning", ![k].owns = owns]
    BY <1>8 DEF ConnectFails
  <2>2. Starting(k)
    BY <1>8, PhaseStarting DEF ConnectFails
  <2>3. \A j \in Keys : Starting(j)' => Starting(j)
    BY <2>1, <2>2 DEF Starting, TypeOK
  <2>. QED  BY <1>8, <2>3, FrameKeeps DEF ConnectFails, recovery
<1>9. ASSUME NEW k \in Keys, StartCleaned(k) PROVE IInv'
  BY <1>9, FailStartKeeps, PhaseStarting DEF StartCleaned
<1>10. ASSUME NEW k \in Keys, NEW s \in stops[k], StopStep(k, s) PROVE IInv'
  <2>1. /\ \A j \in Keys : state'[j] = "none" => state[j] = "none"
        /\ UNCHANGED <<session, start, gen, automatic, idle, stable, manual, closed>>
    BY <1>10 DEF StopStep, FinishStop, recovery, TypeOK
  <2>. QED
    BY <2>1 DEF IInv, SessionIsCurrent, ScheduleIsExclusive, StartAlone, KnownCovers,
                ClosedIsEmpty, HasSession, Starting
<1>11. ASSUME NEW k \in Keys, IdleFires(k) PROVE IInv'
  <2>1. automatic[k] = NoTimer
    BY <1>11 DEF IdleFires, IInv, ScheduleIsExclusive
  <2>2. BeginStop({k}, "idle", TRUE) /\ UNCHANGED <<start, automatic, manual, closed>>
    BY <1>11 DEF IdleFires
  <2>3. {k} \in SUBSET Keys
    OBVIOUS
  <2>. QED  BY <2>1, <2>2, <2>3, BeginStopKeeps
<1>12. ASSUME NEW p \in Profiles, CloseProfile(p) PROVE IInv'
  <2>. DEFINE K == {k \in Keys : Profile(k) = p}
  <2>1. BeginStop(K, "manual", TRUE) /\ automatic' = Cancelled(K)
    BY <1>12 DEF CloseProfile
  <2>2. K \in SUBSET Keys
    OBVIOUS
  <2>. HIDE DEF K
  <2>. QED  BY <1>12, <2>1, <2>2, BeginStopKeeps DEF CloseProfile, Cancelled
<1>13. CASE Close
  <2>1. /\ BeginStop(Known, "shutdown", TRUE) /\ Known \in SUBSET Keys
        /\ closed' = TRUE /\ automatic' = Cancelled(Known) /\ UNCHANGED <<start, manual>>
    BY <1>13 DEF Close, Known
  <2>2. /\ idle' = idle \ Known /\ stable' = stable \ Known
        /\ \A k \in Known : session'[k] = NoSession
        /\ \A k \in Keys \ Known : session'[k] = session[k] /\ gen'[k] = gen[k]
    BY <2>1, BeginStopEffect
  <2>3. \A k \in Keys \ Known : /\ ~HasSession(k) /\ automatic[k] = NoTimer
                                /\ k \notin idle /\ k \notin stable
    BY DEF Known, IInv, KnownCovers
  <2>4. \A k \in Keys : /\ ~HasSession(k)' /\ automatic'[k] = NoTimer
                        /\ k \notin idle' /\ k \notin stable'
    BY <2>1, <2>2, <2>3 DEF Cancelled, HasSession
  <2>. QED
    BY <2>4 DEF IInv, SessionIsCurrent, ScheduleIsExclusive, StartAlone, KnownCovers,
                ClosedIsEmpty
<1>14. ASSUME NEW k \in Keys, Restart(k) PROVE IInv'
  <2>1. /\ BeginStop({k}, "restart", FALSE) /\ automatic' = Cancelled({k})
        /\ \A j \in Keys \ {k} : manual'[j] = manual[j]
        /\ UNCHANGED <<start, closed>>
    BY <1>14 DEF Restart, TypeOK
  <2>. QED  BY <2>1, BeginStopKeeps DEF Cancelled
<1>15. ASSUME NEW k \in Keys, RestartContinues(k) PROVE IInv'
  <2>1. manual[k] \in {"stopping", "waiting"}
    BY <1>15 DEF RestartContinues, RestartReady
  <2>2. automatic[k] = NoTimer /\ ~(HasSession(k) /\ Starting(k))
    BY <2>1 DEF IInv, ScheduleIsExclusive, StartAlone
  <2>3. UNCHANGED <<session, gen, automatic, idle, stable, closed>>
    BY <1>15 DEF RestartContinues, recovery
  <2>4. CASE BeginStart(k, "manual") /\ manual' = [manual EXCEPT ![k] = "starting"]
    BY <2>2, <2>3, <2>4, BeginStartKeeps DEF TypeOK
  <2>5. CASE /\ UNCHANGED <<start, epoch, held, state>>
             /\ \E m : manual' = [manual EXCEPT ![k] = m]
    BY <2>2, <2>3, <2>5
       DEF TypeOK, IInv, SessionIsCurrent, ScheduleIsExclusive, StartAlone, KnownCovers,
           ClosedIsEmpty, HasSession, Starting
  <2>. QED  BY <1>15, <2>4, <2>5 DEF RestartContinues
<1>16. ASSUME NEW k \in Keys, RestartTimesOut(k) PROVE IInv'
  BY <1>16 DEF RestartTimesOut, lifecycle, recovery, TypeOK, IInv, SessionIsCurrent,
               ScheduleIsExclusive, StartAlone, KnownCovers, ClosedIsEmpty, HasSession,
               Starting
<1>17. ASSUME NEW k \in Keys, RestartTimer(k) PROVE IInv'
  <2>1. ~HasSession(k) /\ ~Starting(k) /\ ~closed /\ automatic[k] = gen[k]
    BY <1>17 DEF RestartTimer, IInv, ScheduleIsExclusive
  <2>2. CASE Blocking(teardowns[k])
    <3>1. /\ ScheduleRestart(k, automatic[k], held, teardowns[k])
          /\ UNCHANGED <<session, start, gen, idle, stable, manual, closed>>
      BY <1>17, <2>2 DEF RestartTimer
    <3>2. /\ state' = [state EXCEPT ![k] = "failed"]
          /\ \/ automatic' = automatic
             \/ automatic' = [automatic EXCEPT ![k] = NoTimer]
             \/ automatic' = [automatic EXCEPT ![k] = automatic[k]]
      BY <3>1, ScheduleRestartEffect
    <3>. QED
      BY <3>1, <3>2
         DEF TypeOK, IInv, SessionIsCurrent, ScheduleIsExclusive, StartAlone, KnownCovers,
             ClosedIsEmpty, HasSession, Starting
  <2>3. CASE ~Blocking(teardowns[k])
    BY <1>17, <2>1, <2>3, BeginStartKeeps DEF RestartTimer, TypeOK
  <2>. QED  BY <2>2, <2>3
<1>18. ASSUME NEW k \in Keys, StabilityTimer(k) PROVE IInv'
  BY <1>18 DEF StabilityTimer, lifecycle, IInv, SessionIsCurrent, ScheduleIsExclusive,
               StartAlone, KnownCovers, ClosedIsEmpty, HasSession, Starting
<1>19. ASSUME NEW k \in Keys, NEW t \in open[k], TransportCloses(k, t) PROVE IInv'
  <2>1. CASE IsCrash(k, t)
    <3>1. PICK pairs, gates :
            \/ ScheduleRestart(k, gen[k], pairs, gates)
            \/ state' = [state EXCEPT ![k] = "failed"] /\ UNCHANGED automatic
      BY <1>19, <2>1, Zenon DEF TransportCloses
    <3>2. /\ session' = [session EXCEPT ![k] = NoSession]
          /\ idle' = idle \ {k} /\ stable' = stable \ {k}
          /\ UNCHANGED <<start, gen, manual, closed>>
      BY <1>19, <2>1, Zenon DEF TransportCloses
    <3>3. /\ state' = [state EXCEPT ![k] = "failed"]
          /\ \/ automatic' = automatic
             \/ automatic' = [automatic EXCEPT ![k] = NoTimer]
             \/ automatic' = [automatic EXCEPT ![k] = gen[k]] /\ manual[k] = "none"
      BY <3>1, ScheduleRestartEffect
    <3>4. /\ HasSession(k) /\ ~closed /\ automatic[k] = NoTimer
          /\ manual[k] = "none" => ~Starting(k)
      BY <2>1 DEF IsCrash, IInv, SessionIsCurrent, ScheduleIsExclusive, StartAlone
    <3>5. \A j \in Keys : /\ HasSession(j)' => HasSession(j) /\ j # k
                          /\ j # k => session'[j] = session[j]
                          /\ Starting(j)' = Starting(j)
                          /\ j # k => automatic'[j] = automatic[j]
                          /\ state'[j] = "none" => state[j] = "none" /\ j # k
      BY <3>2, <3>3 DEF TypeOK, HasSession, Starting
    <3>6. automatic'[k] # NoTimer => automatic'[k] = gen[k] /\ manual[k] = "none"
      BY <3>3, <3>4 DEF TypeOK
    <3>. QED
      BY <3>2, <3>4, <3>5, <3>6
         DEF IInv, SessionIsCurrent, ScheduleIsExclusive, StartAlone, KnownCovers,
             ClosedIsEmpty
  <2>2. CASE ~IsCrash(k, t)
    <3>1. /\ \E value \in {state[k], "stopped"} : state' = [state EXCEPT ![k] = value]
          /\ UNCHANGED <<session, start, gen, automatic, idle, stable, manual, closed>>
      BY <1>19, <2>2 DEF TransportCloses, recovery
    <3>. QED
      BY <3>1 DEF TypeOK, IInv, SessionIsCurrent, ScheduleIsExclusive, StartAlone,
                  KnownCovers, ClosedIsEmpty, HasSession, Starting
  <2>. QED  BY <2>1, <2>2
<1>20. ASSUME NEW k \in Keys, BeginRequest(k) PROVE IInv'
  <2>1. /\ session' = [session EXCEPT ![k] = Counted(k)] /\ idle' = idle \ {k}
        /\ HasSession(k) /\ Counted(k).gen = session[k].gen
        /\ UNCHANGED <<start, gen, automatic, stable, manual, state, closed>>
    BY <1>20 DEF BeginRequest, recovery, Counted, TypeOK, Sessions
  <2>2. \A j \in Keys : /\ HasSession(j)' => HasSession(j) /\ session'[j].gen = session[j].gen
                        /\ Starting(j)' = Starting(j)
    BY <2>1 DEF TypeOK, HasSession, Starting
  <2>. QED
    BY <2>1, <2>2 DEF IInv, SessionIsCurrent, ScheduleIsExclusive, StartAlone, KnownCovers,
                      ClosedIsEmpty
<1>21. ASSUME NEW k \in Keys, NEW r \in requests[k], EndRequest(k, r) PROVE IInv'
  <2>1. /\ session' = [session EXCEPT ![k] = Finished(k, r)]
        /\ idle' = idle \/ (HasSession(k) /\ idle' = idle \cup {k})
        /\ UNCHANGED <<start, gen, automatic, stable, manual, state, closed>>
    BY <1>21, Zenon DEF EndRequest, recovery
  <2>2. /\ Finished(k, r).gen = session[k].gen
        /\ ~HasSession(k) => Finished(k, r) = session[k]
    BY DEF Finished, TypeOK, Sessions
  <2>3. \A j \in Keys : /\ HasSession(j)' => HasSession(j) /\ session'[j].gen = session[j].gen
                        /\ Starting(j)' = Starting(j)
    BY <2>1, <2>2 DEF TypeOK, HasSession, Starting
  <2>. QED
    BY <2>1, <2>3 DEF IInv, SessionIsCurrent, ScheduleIsExclusive, StartAlone, KnownCovers,
                      ClosedIsEmpty
<1>22. CASE UNCHANGED vars
  BY <1>22, FrameKeeps DEF vars, Starting
<1>. QED
  BY <1>1, <1>2, <1>3, <1>4, <1>5, <1>6, <1>7, <1>8, <1>9, <1>10, <1>11, <1>12,
     <1>13, <1>14, <1>15, <1>16, <1>17, <1>18, <1>19, <1>20, <1>21, <1>22
     DEF Next, Progress, Environment

\* The invariant holds in every reachable state.
THEOREM Invariant == Spec => []IInv
<1>1. IInv /\ TypeOK /\ [Next]_vars => IInv'
  BY InvStep
<1>. QED  BY InvInit, TypeCorrect, <1>1, PTL DEF Spec

-----------------------------------------------------------------------------
(* The safety properties.                                                  *)

\* A start that a stop, a restart or close() superseded never becomes the
\* session, whatever its handshake answers later (start, assertCurrentStartup).
THEOREM OnlyCurrentSessions == Spec => []SessionIsCurrent
<1>1. IInv => SessionIsCurrent
  BY DEF IInv
<1>. QED  BY Invariant, <1>1, PTL

\* An automatic restart is scheduled only beside no session and no start, and
\* every later stop or restart cancels it (scheduleAutomaticRestart).
THEOREM ExclusiveSchedules == Spec => []ScheduleIsExclusive
<1>1. IInv => ScheduleIsExclusive
  BY DEF IInv
<1>. QED  BY Invariant, <1>1, PTL

\* After close() nothing runs and nothing is scheduled (close).
THEOREM NothingAfterClose == Spec => []CloseLeavesNothing
<1>1. IInv => CloseLeavesNothing
  BY DEF IInv, ClosedIsEmpty, CloseLeavesNothing, CloseReturned
<1>. QED  BY Invariant, <1>1, PTL

-----------------------------------------------------------------------------
(* No orphan, where nobody restarts by hand.                               *)
(*                                                                         *)
(* A manual restart breaks NoOrphan: its stop leaves the start in flight   *)
(* alone when a gate stands, and that start then overwrites a session (run *)
(* upstream_duplicate_child).  Without one a start never ends beside a     *)
(* session, a session leaves its child to the gate of its stop, and the    *)
(* owner of a gate drops it only once its signals are gone.                *)

Covered(k, t) == \E gate \in teardowns[k] : t \in gate.signals

\* A pair no manual restart has touched: its numbers are those of real
\* transports, each living child has somebody to close it, and the attempt
\* that is being cleaned up is behind a gate already.
PairInv(k) ==
  /\ manual[k] = "none"
  /\ HasSession(k) <=> session[k].token # 0
  /\ Starting(k) => epoch[k] # 0
  /\ Local(k) =>
       /\ \A t \in open[k] :
            \/ HasSession(k) /\ session[k].token = t
            \/ Attempting(k) /\ epoch[k] = t
            \/ Covered(k, t)
       /\ start[k].phase = "cleaning" /\ epoch[k] \in open[k] => Covered(k, epoch[k])

OrphanInv == calls["restart"] = 0 /\ \A k \in Keys : PairInv(k)

\* A pair that a step leaves alone keeps its invariant.
LEMMA SamePair ==
  ASSUME NEW k \in Keys, PairInv(k),
         session'[k] = session[k], start'[k] = start[k], manual'[k] = manual[k],
         epoch'[k] = epoch[k], open'[k] = open[k], teardowns'[k] = teardowns[k]
  PROVE  PairInv(k)'
BY DEF PairInv, HasSession, Starting, Attempting, Covered

\* The gate of a stop or of a failed start covers its signals, and the gates
\* that stood before still stand.
LEMMA WithGateCovers ==
  ASSUME NEW gates, NEW signals
  PROVE  /\ gates \subseteq WithGate(gates, signals)
         /\ \A t \in signals : \E gate \in WithGate(gates, signals) : t \in gate.signals
<1>1. gates \subseteq WithGate(gates, signals)
  BY DEF WithGate
<1>2. ASSUME NEW t \in signals
      PROVE  \E gate \in WithGate(gates, signals) : t \in gate.signals
  <2>1. CASE OwnsGate(gates, signals)
    <3>1. [signals |-> signals, blocks |-> FALSE] \in WithGate(gates, signals)
      BY <2>1 DEF WithGate
    <3>. QED  BY <1>2, <3>1
  <2>2. CASE ~OwnsGate(gates, signals)
    <3>1. PICK gate \in Covering(gates, signals) : TRUE
      BY <1>2, <2>2 DEF OwnsGate
    <3>2. gate \in WithGate(gates, signals) /\ signals \subseteq gate.signals
      BY <1>1, <3>1 DEF Covering
    <3>. QED  BY <1>2, <3>2
  <2>. QED  BY <2>1, <2>2
<1>. QED  BY <1>1, <1>2

\* The owner of a gate never uncovers a child that lives: it drops a gate that
\* is reaped, and lets one that is not block.
LEMMA SettledGatesCover ==
  ASSUME NEW k \in Keys, NEW signals, NEW owns \in BOOLEAN, NEW t \in open[k], Covered(k, t)
  PROVE  \E gate \in SettledGates(k, signals, owns) : t \in gate.signals
<1>1. PICK gate \in teardowns[k] : t \in gate.signals
  BY DEF Covered
<1>2. CASE ~owns \/ gate.signals # signals
  <2>1. gate \in SettledGates(k, signals, owns)
    BY <1>2 DEF SettledGates
  <2>. QED  BY <1>1, <2>1
<1>3. CASE owns /\ gate.signals = signals
  <2>1. ~Reaped(k, signals)
    BY <1>1, <1>3 DEF Reaped
  <2>2. [signals |-> signals, blocks |-> TRUE] \in SettledGates(k, signals, owns)
    BY <1>3, <2>1 DEF SettledGates
  <2>. QED  BY <1>1, <1>3, <2>2
<1>. QED  BY <1>2, <1>3

\* A pair that only loses transports and is as well covered keeps its invariant.
LEMMA CoverageKeeps ==
  ASSUME NEW k \in Keys, PairInv(k),
         session'[k] = session[k], start'[k] = start[k], manual'[k] = manual[k],
         epoch'[k] = epoch[k], open'[k] \subseteq open[k],
         \A t \in open'[k] : Covered(k, t) => Covered(k, t)'
  PROVE  PairInv(k)'
BY DEF PairInv, HasSession, Starting, Attempting

\* The end of a failed start leaves its child, if it lives, to a gate.
LEMMA FailStartPair ==
  ASSUME TypeOK, NEW k \in Keys, NEW gates, FailStart(k, gates), PairInv(k),
         UNCHANGED <<session, epoch>>, open'[k] \subseteq open[k],
         Local(k) /\ Attempting(k) => start[k].phase = "cleaning",
         \A t \in open'[k] : Covered(k, t) => \E gate \in gates : t \in gate.signals
  PROVE  PairInv(k)'
<1>1. /\ start'[k] = NoStart /\ teardowns'[k] = gates
      /\ manual'[k] = IF manual[k] = "starting" THEN "none" ELSE manual[k]
  BY DEF FailStart, SettleStart, TypeOK
<1>2. NoStart.phase = "none"
  BY DEF NoStart
<1>. QED  BY <1>1, <1>2 DEF PairInv, HasSession, Starting, Attempting, Covered

\* A start begins beside no other: nothing of its own is open yet.
LEMMA BeginStartPair ==
  ASSUME TypeOK, NEW k \in Keys, NEW source, BeginStart(k, source), PairInv(k),
         ~Starting(k), manual'[k] = manual[k], UNCHANGED <<session, open, teardowns>>
  PROVE  PairInv(k)'
<1>1. epoch'[k] # 0
  BY DEF BeginStart, TypeOK
<1>2. start'[k].phase \in {"preparing", "refused"}
  BY DEF BeginStart, TypeOK
<1>3. ~Attempting(k)
  BY DEF Starting, Attempting, NoStart
<1>. QED  BY <1>1, <1>2, <1>3 DEF PairInv, HasSession, Attempting, Covered

\* A stop takes a session or an attempt only behind a gate that covers it.
LEMMA BeginStopPairs ==
  ASSUME TypeOK, NEW K \in SUBSET Keys, NEW reason, NEW frees,
         BeginStop(K, reason, frees), \A k \in Keys : PairInv(k),
         UNCHANGED <<start, epoch, open, manual>>
  PROVE  \A k \in Keys : PairInv(k)'
<1>. SUFFICES ASSUME NEW k \in Keys PROVE PairInv(k)'
  OBVIOUS
<1>. DEFINE waits == {j \in K : HasSession(j) \/ Attempting(j)}
            attempt(j) == IF Attempting(j) THEN epoch[j] ELSE 0
            signals(j) == LocalSignals(j, {session[j].token, attempt(j)})
<1>1. /\ session' = [j \in Keys |-> IF j \in K THEN NoSession ELSE session[j]]
      /\ teardowns' = [j \in Keys |-> IF j \in waits
                                      THEN WithGate(teardowns[j], signals(j))
                                      ELSE teardowns[j]]
  BY Zenon DEF BeginStop
<1>2. CASE k \notin K
  <2>1. session'[k] = session[k] /\ teardowns'[k] = teardowns[k]
    BY <1>1, <1>2
  <2>. QED  BY <2>1, SamePair
<1>3. CASE k \in K /\ k \notin waits
  <2>1. ~HasSession(k) /\ ~Attempting(k)
    BY <1>3
  <2>2. session'[k] = session[k] /\ teardowns'[k] = teardowns[k]
    BY <1>1, <1>3, <2>1 DEF HasSession
  <2>. QED  BY <2>2, SamePair
<1>4. CASE k \in waits
  <2>1. session'[k] = NoSession /\ teardowns'[k] = WithGate(teardowns[k], signals(k))
    BY <1>1, <1>4
  <2>2. Attempting(k) => epoch[k] # 0 
    BY DEF PairInv, Starting, Attempting, NoStart
  <2>3. Local(k) => /\ HasSession(k) => session[k].token \in signals(k)
                    /\ Attempting(k) => epoch[k] \in signals(k)
    BY <2>2 DEF PairInv, LocalSignals
  <2>. HIDE DEF waits, attempt, signals
  <2>4. \A t \in open[k] : Local(k) => Covered(k, t)'
    <3>. SUFFICES ASSUME NEW t \in open[k], Local(k) PROVE Covered(k, t)'
      OBVIOUS
    <3>1. t \in signals(k) \/ Covered(k, t)
      BY <2>3 DEF PairInv
    <3>2. \E gate \in WithGate(teardowns[k], signals(k)) : t \in gate.signals
      BY <3>1, WithGateCovers DEF Covered
    <3>. QED  BY <2>1, <3>2 DEF Covered
  <2>5. NoSession.token = 0
    BY DEF NoSession
  <2>. QED  BY <2>1, <2>4, <2>5 DEF PairInv, HasSession, Starting
<1>. QED  BY <1>2, <1>3, <1>4

\* Initially nothing is open and no restart has been asked for.
LEMMA OrphanInit ==
  ASSUME Budget["restart"] = 0, Init
  PROVE  OrphanInv
BY DEF Init, OrphanInv, PairInv, HasSession, Starting, NoSession, NoStart

\* No step gives back a restart that was spent.
LEMMA RestartBudget ==
  ASSUME TypeOK, OrphanInv, [Next]_vars
  PROVE  calls'["restart"] = 0
<1>1. calls' = calls \/ \E call \in Calls : Spend(call)
  <2>1. ASSUME NEW k \in Keys, Progress(k) PROVE calls' = calls
    BY <2>1 DEF Progress, StartRefused, Prepared, PrepareFails, Unauthorized, Authorized,
                Connected, ConnectFails, StartCleaned, StopStep, RestartContinues,
                RestartTimesOut, RestartTimer
  <2>2. ASSUME NEW k \in Keys, Environment(k)
        PROVE  calls' = calls \/ \E call \in Calls : Spend(call)
    <3>1. CASE Get(k)
      BY <3>1 DEF Get, Calls
    <3>2. CASE Restart(k)
      BY <3>2 DEF Restart, Calls
    <3>3. CASE IdleFires(k) \/ StabilityTimer(k)
      BY <3>3 DEF IdleFires, StabilityTimer
    <3>4. CASE \E t \in open[k] : TransportCloses(k, t)
      BY <3>4 DEF TransportCloses, Calls
    <3>5. CASE BeginRequest(k)
      BY <3>5 DEF BeginRequest, Calls
    <3>6. CASE \E r \in requests[k] : EndRequest(k, r)
      BY <3>6 DEF EndRequest
    <3>. QED  BY <2>2, <3>1, <3>2, <3>3, <3>4, <3>5, <3>6 DEF Environment
  <2>3. ASSUME NEW p \in Profiles, CloseProfile(p) PROVE Spend("closeProfile")
    BY <2>3 DEF CloseProfile
  <2>4. CASE Close
    BY <2>4 DEF Close
  <2>5. CASE UNCHANGED vars
    BY <2>5 DEF vars
  <2>. QED  BY <2>1, <2>2, <2>3, <2>4, <2>5 DEF Next, Calls
<1>2. ASSUME NEW call \in Calls, Spend(call) PROVE calls'["restart"] = 0
  BY <1>2 DEF Spend, OrphanInv, TypeOK, Calls
<1>. QED  BY <1>1, <1>2 DEF OrphanInv

\* Every step keeps the pairs' invariant.
LEMMA OrphanStep ==
  ASSUME TypeOK, IInv, OrphanInv, [Next]_vars
  PROVE  OrphanInv'
<1>. SUFFICES \A k \in Keys : PairInv(k)'
  BY RestartBudget DEF OrphanInv
<1>. DEFINE Others(k) == \A j \in Keys \ {k} :
                /\ session'[j] = session[j] /\ start'[j] = start[j] /\ manual'[j] = manual[j]
                /\ epoch'[j] = epoch[j] /\ open'[j] = open[j] /\ teardowns'[j] = teardowns[j]
<1>0. \A k \in Keys : /\ PairInv(k) /\ manual[k] = "none" /\ ~(HasSession(k) /\ Starting(k))
                      /\ calls["restart"] = 0
  BY DEF OrphanInv, PairInv, IInv, StartAlone
<1>a. ASSUME NEW k \in Keys, Others(k), PairInv(k)' PROVE \A j \in Keys : PairInv(j)'
  BY <1>0, <1>a, SamePair
<1>. HIDE DEF Others
<1>1. ASSUME NEW k \in Keys, Get(k) PROVE \A j \in Keys : PairInv(j)'
  <2>1. PairInv(k)'
    BY <1>0, <1>1, BeginStartPair DEF Get
  <2>2. Others(k)
    BY <1>1 DEF Get, BeginStart, TypeOK, Others
  <2>. QED  BY <1>a, <2>1, <2>2
<1>2. ASSUME NEW k \in Keys, StartRefused(k) \/ PrepareFails(k)
      PROVE \A j \in Keys : PairInv(j)'
  <2>1. /\ FailStart(k, teardowns[k]) /\ start[k].phase \in {"refused", "preparing"}
        /\ UNCHANGED <<session, epoch, open>>
    BY <1>2 DEF StartRefused, PrepareFails
  <2>2. PairInv(k)'
    BY <1>0, <2>1, FailStartPair DEF Attempting, Covered
  <2>3. Others(k)
    BY <2>1 DEF FailStart, SettleStart, TypeOK, Others
  <2>. QED  BY <1>a, <2>2, <2>3
<1>3. ASSUME NEW k \in Keys, Prepared(k) \/ Authorized(k) PROVE \A j \in Keys : PairInv(j)'
  <2>1. /\ start[k].phase \in {"preparing", "authorizing"} /\ Starting(k)
        /\ open' = [open EXCEPT ![k] = @ \cup {epoch[k]}]
        /\ UNCHANGED <<session, epoch, teardowns, manual>>
    BY <1>3, PhaseStarting DEF Prepared, Authorized
  <2>2. PICK phase \in {"connecting", "reconnecting"} : start' = [start EXCEPT ![k].phase = phase]
    BY <1>3 DEF Prepared, Authorized
  <2>3. Others(k)
    BY <2>1, <2>2 DEF TypeOK, Others
  <2>4. /\ start'[k].phase = phase /\ open'[k] = open[k] \cup {epoch[k]}
        /\ epoch' = epoch /\ teardowns' = teardowns /\ session' = session /\ manual' = manual
    BY <2>1, <2>2 DEF TypeOK, Starts
  <2>5. PairInv(k)'
    BY <1>0, <2>1, <2>2, <2>4 DEF PairInv, HasSession, Attempting, Covered
  <2>. QED  BY <1>a, <2>3, <2>5
<1>4. ASSUME NEW k \in Keys, Unauthorized(k) PROVE \A j \in Keys : PairInv(j)'
  <2>1. /\ ~Local(k) /\ Starting(k)
        /\ start' = [start EXCEPT ![k].phase = "authorizing"]
        /\ open' = [open EXCEPT ![k] = @ \ {epoch[k]}]
        /\ UNCHANGED <<session, epoch, teardowns, manual>>
    BY <1>4, ConstantsAssumption, PhaseStarting DEF Unauthorized, Local
  <2>2. Others(k)
    BY <2>1 DEF TypeOK, Others
  <2>3. PairInv(k)'
    BY <1>0, <2>1 DEF PairInv, HasSession, Local
  <2>. QED  BY <1>a, <2>2, <2>3
<1>5. ASSUME NEW k \in Keys, Connected(k) PROVE \A j \in Keys : PairInv(j)'
  <2>1. /\ Starting(k) /\ start' = [start EXCEPT ![k] = NoStart]
        /\ start[k].phase \in {"connecting", "reconnecting"}
        /\ manual' = [manual EXCEPT ![k] = IF @ = "starting" THEN "none" ELSE @]
        /\ session' = [session EXCEPT ![k] =
             [token |-> epoch[k], gen |-> start[k].gen, inFlight |-> 0]]
        /\ UNCHANGED <<epoch, open, teardowns>>
    BY <1>5, PhaseStarting DEF Connected, SettleStart
  <2>2. Others(k)
    BY <2>1 DEF TypeOK, Others
  <2>3. /\ session'[k].token = epoch[k] /\ start'[k] = NoStart /\ manual'[k] = "none"
        /\ epoch[k] # 0 /\ ~HasSession(k)
    BY <1>0, <2>1 DEF TypeOK, PairInv
  <2>4. session'[k] # NoSession /\ NoStart.phase = "none"
    BY <2>3 DEF NoSession, NoStart
  <2>5. PairInv(k)'
    BY <1>0, <2>1, <2>3, <2>4 DEF PairInv, HasSession, Starting, Attempting, Covered
  <2>. QED  BY <1>a, <2>2, <2>5
<1>6. ASSUME NEW k \in Keys, ConnectFails(k) PROVE \A j \in Keys : PairInv(j)'
  <2>. DEFINE signals == LocalSignals(k, {epoch[k]})
  <2>1. /\ start[k].phase \in {"connecting", "authorizing", "reconnecting"} /\ Starting(k)
        /\ teardowns' = [teardowns EXCEPT ![k] = WithGate(@, signals)]
        /\ UNCHANGED <<session, epoch, open, manual>>
    BY <1>6, PhaseStarting DEF ConnectFails
  <2>2. PICK owns : start' = [start EXCEPT ![k].phase = "cleaning", ![k].owns = owns]
    BY <1>6 DEF ConnectFails
  <2>3. Others(k)
    BY <2>1, <2>2 DEF TypeOK, Others
  <2>4. start'[k].phase = "cleaning" /\ teardowns'[k] = WithGate(teardowns[k], signals)
    BY <2>1, <2>2 DEF TypeOK, Starts
  <2>5. Local(k) => epoch[k] \in signals
    BY <1>0, <2>1 DEF PairInv, LocalSignals
  <2>. HIDE DEF signals
  <2>6. \A t \in open[k] : Covered(k, t) => Covered(k, t)'
    BY <2>4, WithGateCovers DEF Covered
  <2>7. Local(k) => Covered(k, epoch[k])'
    BY <2>1, <2>4, <2>5, WithGateCovers DEF Covered
  <2>8. PairInv(k)'
    BY <1>0, <2>1, <2>4, <2>6, <2>7 DEF PairInv, HasSession, Attempting
  <2>. QED  BY <1>a, <2>3, <2>8
<1>7. ASSUME NEW k \in Keys, StartCleaned(k) PROVE \A j \in Keys : PairInv(j)'
  <2>. DEFINE gates == SettledGates(k, LocalSignals(k, {epoch[k]}), start[k].owns)
  <2>1. /\ FailStart(k, gates) /\ start[k].phase = "cleaning"
        /\ open' = IF Local(k) THEN open ELSE [open EXCEPT ![k] = @ \ {epoch[k]}]
        /\ UNCHANGED <<session, epoch>>
    BY <1>7 DEF StartCleaned
  <2>2. start[k].owns \in BOOLEAN
    BY DEF TypeOK, Starts
  <2>3. \A t \in open[k] : Covered(k, t) => \E gate \in gates : t \in gate.signals
    BY <2>2, SettledGatesCover
  <2>. HIDE DEF gates
  <2>4. open'[k] \subseteq open[k]
    BY <2>1 DEF TypeOK
  <2>5. PairInv(k)'
    BY <1>0, <2>1, <2>3, <2>4, FailStartPair
  <2>6. Others(k)
    BY <2>1 DEF FailStart, SettleStart, TypeOK, Others
  <2>. QED  BY <1>a, <2>5, <2>6
<1>8. ASSUME NEW k \in Keys, NEW s \in stops[k], StopStep(k, s)
      PROVE \A j \in Keys : PairInv(j)'
  <2>. DEFINE gates == SettledGates(k, s.signals, s.owns)
  <2>1. /\ teardowns' = teardowns \/ teardowns' = [teardowns EXCEPT ![k] = gates]
        /\ UNCHANGED <<session, start, epoch, manual>>
    BY <1>8, Zenon DEF StopStep, FinishStop
  <2>2. \/ open' = open
        \/ \E t : open' = [open EXCEPT ![k] = @ \ {t}]
    BY <1>8, Zenon DEF StopStep
  <2>3. s.owns \in BOOLEAN
    BY DEF TypeOK, Stops
  <2>4. \A t \in open[k] : Covered(k, t) => \E gate \in gates : t \in gate.signals
    BY <2>3, SettledGatesCover
  <2>. HIDE DEF gates
  <2>5. open'[k] \subseteq open[k]
    BY <2>2 DEF TypeOK
  <2>6. \A t \in open'[k] : Covered(k, t) => Covered(k, t)'
    BY <2>1, <2>4, <2>5 DEF TypeOK, Covered
  <2>7. PairInv(k)'
    BY <1>0, <2>1, <2>5, <2>6, CoverageKeeps
  <2>8. Others(k)
    BY <2>1, <2>2 DEF TypeOK, Others
  <2>. QED  BY <1>a, <2>7, <2>8
<1>9. ASSUME NEW k \in Keys, IdleFires(k) PROVE \A j \in Keys : PairInv(j)'
  <2>1. BeginStop({k}, "idle", TRUE) /\ UNCHANGED <<start, epoch, open, manual>>
    BY <1>9 DEF IdleFires
  <2>. QED  BY <1>0, <2>1, BeginStopPairs
<1>10. ASSUME NEW p \in Profiles, CloseProfile(p) PROVE \A j \in Keys : PairInv(j)'
  <2>. DEFINE K == {k \in Keys : Profile(k) = p}
  <2>1. BeginStop(K, "manual", TRUE) /\ UNCHANGED <<start, epoch, open, manual>>
    BY <1>10 DEF CloseProfile
  <2>2. K \in SUBSET Keys
    OBVIOUS
  <2>. HIDE DEF K
  <2>. QED  BY <1>0, <2>1, <2>2, BeginStopPairs
<1>11. CASE Close
  <2>1. BeginStop(Known, "shutdown", TRUE) /\ UNCHANGED <<start, epoch, open, manual>>
    BY <1>11 DEF Close
  <2>2. Known \in SUBSET Keys
    BY DEF Known
  <2>. QED  BY <1>0, <2>1, <2>2, BeginStopPairs
<1>12. ASSUME NEW k \in Keys, Restart(k) PROVE FALSE
  BY <1>0, <1>12 DEF Restart, Spend
<1>13. ASSUME NEW k \in Keys, RestartContinues(k) \/ RestartTimesOut(k) PROVE FALSE
  BY <1>0, <1>13 DEF RestartContinues, RestartReady, RestartTimesOut
<1>14. ASSUME NEW k \in Keys, RestartTimer(k) PROVE \A j \in Keys : PairInv(j)'
  <2>1. ~Starting(k) /\ UNCHANGED <<session, open, teardowns, manual>>
    BY <1>14 DEF RestartTimer
  <2>2. CASE BeginStart(k, "automatic")
    <3>1. PairInv(k)'
      BY <1>0, <2>1, <2>2, BeginStartPair
    <3>2. Others(k)
      BY <2>1, <2>2 DEF BeginStart, TypeOK, Others
    <3>. QED  BY <1>a, <3>1, <3>2
  <2>3. CASE UNCHANGED <<start, epoch>>
    BY <1>0, <2>1, <2>3, SamePair
  <2>. QED  BY <1>14, <2>2, <2>3 DEF RestartTimer
<1>15. ASSUME NEW k \in Keys, StabilityTimer(k) PROVE \A j \in Keys : PairInv(j)'
  BY <1>0, <1>15, SamePair DEF StabilityTimer, lifecycle
<1>16. ASSUME NEW k \in Keys, NEW t \in open[k], TransportCloses(k, t)
       PROVE \A j \in Keys : PairInv(j)'
  <2>. DEFINE left == open[k] \ {t}
              gates == {gate \in teardowns[k] : ~gate.blocks \/ gate.signals \cap left # {}}
  <2>1. /\ open' = [open EXCEPT ![k] = left]
        /\ teardowns' = [teardowns EXCEPT ![k] = gates]
        /\ UNCHANGED <<start, epoch, manual>>
    BY <1>16, Zenon DEF TransportCloses
  <2>2. open'[k] = left /\ teardowns'[k] = gates
    BY <2>1 DEF TypeOK
  <2>3. \A u \in open'[k] : Covered(k, u) => Covered(k, u)'
    <3>. SUFFICES ASSUME NEW u \in left, Covered(k, u)
                  PROVE  \E gate \in gates : u \in gate.signals
      BY <2>2 DEF Covered
    <3>1. PICK gate \in teardowns[k] : u \in gate.signals
      BY DEF Covered
    <3>2. gate \in gates
      BY <3>1
    <3>. QED  BY <3>1, <3>2
  <2>4. CASE IsCrash(k, t)
    <3>1. session' = [session EXCEPT ![k] = NoSession]
      BY <1>16, <2>4, Zenon DEF TransportCloses
    <3>2. session'[k] = NoSession /\ NoSession.token = 0 /\ session[k].token = t
      BY <2>4, <3>1 DEF TypeOK, NoSession, IsCrash
    <3>. HIDE DEF gates
    <3>3. PairInv(k)'
      BY <1>0, <2>1, <2>2, <2>3, <3>2 DEF PairInv, HasSession, Starting, Attempting
    <3>4. Others(k)
      BY <2>1, <3>1 DEF TypeOK, Others
    <3>. QED  BY <1>a, <3>3, <3>4
  <2>5. CASE ~IsCrash(k, t)
    <3>1. session' = session
      BY <1>16, <2>5, Zenon DEF TransportCloses
    <3>. HIDE DEF gates
    <3>2. PairInv(k)'
      BY <1>0, <2>1, <2>2, <2>3, <3>1, CoverageKeeps
    <3>3. Others(k)
      BY <2>1, <3>1 DEF TypeOK, Others
    <3>. QED  BY <1>a, <3>2, <3>3
  <2>. QED  BY <2>4, <2>5
<1>17. ASSUME NEW k \in Keys, BeginRequest(k) \/ \E r \in requests[k] : EndRequest(k, r)
       PROVE \A j \in Keys : PairInv(j)'
  <2>1. /\ \/ session' = [session EXCEPT ![k] = Counted(k)]
           \/ \E r \in requests[k] : session' = [session EXCEPT ![k] = Finished(k, r)]
        /\ UNCHANGED <<start, epoch, open, teardowns, manual>>
    BY <1>17 DEF BeginRequest, EndRequest
  <2>2. /\ Counted(k).token = session[k].token
        /\ \A r \in requests[k] : /\ Finished(k, r).token = session[k].token
                                  /\ ~HasSession(k) => Finished(k, r) = session[k]
    BY DEF Counted, Finished, TypeOK, Sessions
  <2>3. BeginRequest(k) => HasSession(k)
    BY DEF BeginRequest
  <2>4. session'[k].token = session[k].token /\ (HasSession(k) <=> session'[k] # NoSession)
    <3>1. session'[k].token = session[k].token
      BY <2>1, <2>2 DEF TypeOK
    <3>2. HasSession(k) => session'[k] # NoSession
      BY <1>0, <3>1 DEF PairInv, NoSession
    <3>3. ~HasSession(k) => session'[k] = session[k]
      <4>1. ~HasSession(k) => \E r \in requests[k] : session' = [session EXCEPT ![k] = Finished(k, r)]
        BY <1>17, <2>3 DEF EndRequest
      <4>. QED  BY <2>2, <4>1 DEF TypeOK
    <3>. QED  BY <3>1, <3>2, <3>3 DEF HasSession
  <2>5. PairInv(k)'
    BY <1>0, <2>1, <2>4 DEF PairInv, HasSession, Starting, Attempting, Covered
  <2>6. Others(k)
    BY <2>1 DEF TypeOK, Others
  <2>. QED  BY <1>a, <2>5, <2>6
<1>18. CASE UNCHANGED vars
  BY <1>0, <1>18, SamePair DEF vars
<1>. QED
  BY <1>1, <1>2, <1>3, <1>4, <1>5, <1>6, <1>7, <1>8, <1>9, <1>10, <1>11, <1>12, <1>13,
     <1>14, <1>15, <1>16, <1>17, <1>18 DEF Next, Progress, Environment

\* While nobody restarts a pair by hand, every child process that lives is the
\* session, the attempt in flight, or behind a gate (start, stopProfile,
\* terminateTransport): none is forgotten.
THEOREM NobodyForgotten ==
  ASSUME Budget["restart"] = 0
  PROVE  Spec => []NoOrphan
<1>1. Init => OrphanInv
  BY OrphanInit
<1>2. TypeOK /\ IInv /\ OrphanInv /\ [Next]_vars => OrphanInv'
  BY OrphanStep
<1>3. OrphanInv => NoOrphan
  BY DEF OrphanInv, PairInv, NoOrphan, Covered
<1>. QED  BY TypeCorrect, Invariant, <1>1, <1>2, <1>3, PTL DEF Spec

-----------------------------------------------------------------------------
(* How a session ends.                                                     *)
(*                                                                         *)
(* The idle timer looks at a counter, so it spares the requests only if    *)
(* the counter is their number: a session that begins has none yet,        *)
(* because its token is newer than that of any request (CountInv).         *)

Own(k) == {r \in requests[k] : r[1] = session[k].token}

\* Requests and sessions bear numbers of starts that are over, and a session
\* counts its own requests.
CountInv(k) ==
  /\ IsFiniteSet(requests[k])
  /\ \A r \in requests[k] : r[1] <= epoch[k] /\ (Starting(k) => r[1] # epoch[k])
  /\ HasSession(k) =>
       /\ session[k].token <= epoch[k] /\ (Starting(k) => session[k].token # epoch[k])
       /\ session[k].inFlight = Cardinality(Own(k))

\* A pair whose session, start and requests stay, or whose session or start
\* ends, counts as before.
LEMMA CountFrame ==
  ASSUME NEW k \in Keys, CountInv(k),
         session'[k] \in {session[k], NoSession}, Starting(k)' => Starting(k),
         epoch'[k] = epoch[k], requests'[k] = requests[k]
  PROVE  CountInv(k)'
BY DEF CountInv, HasSession, Own

\* A start that begins takes a number nobody has had.
LEMMA CountBegins ==
  ASSUME TypeOK, NEW k \in Keys, CountInv(k), ~Starting(k),
         epoch'[k] = epoch[k] + 1, session'[k] = session[k], requests'[k] = requests[k]
  PROVE  CountInv(k)'
<1>1. epoch[k] \in Nat /\ session[k].token \in Nat /\ \A r \in requests[k] : r[1] \in Nat
  BY DEF TypeOK, Sessions
<1>2. \A n \in Nat : n <= epoch[k] => n <= epoch[k] + 1 /\ n # epoch[k] + 1
  BY <1>1
<1>3. Own(k)' = Own(k) /\ (HasSession(k)' <=> HasSession(k))
  BY DEF Own, HasSession
<1>. QED  BY <1>1, <1>2, <1>3 DEF CountInv

\* The session that a start becomes has no request yet.
LEMMA CountConnects ==
  ASSUME TypeOK, NEW k \in Keys, CountInv(k), Starting(k), ~Starting(k)',
         session'[k].token = epoch[k], session'[k].inFlight = 0,
         epoch'[k] = epoch[k], requests'[k] = requests[k]
  PROVE  CountInv(k)'
<1>1. Own(k)' = {}
  BY DEF CountInv, Own
<1>2. Cardinality({}) = 0
  BY FS_EmptySet
<1>3. epoch[k] <= epoch[k]
  BY DEF TypeOK
<1>. QED  BY <1>1, <1>2, <1>3 DEF CountInv

\* A request that begins is one more of its session.
LEMMA CountRequest ==
  ASSUME TypeOK, NEW k \in Keys, CountInv(k), BeginRequest(k)
  PROVE  CountInv(k)'
<1>1. PICK i \in 1..MaxRequests :
        /\ <<session[k].token, i>> \notin requests[k]
        /\ requests'[k] = requests[k] \cup {<<session[k].token, i>>}
  BY DEF BeginRequest, TypeOK
<1>2. /\ HasSession(k) /\ session'[k] = Counted(k)
      /\ UNCHANGED <<start, epoch>>
  BY DEF BeginRequest, TypeOK
<1>3. /\ session'[k].token = session[k].token
      /\ session'[k].inFlight = session[k].inFlight + 1
  BY <1>2 DEF Counted, TypeOK, Sessions
<1>4. Own(k)' = Own(k) \cup {<<session[k].token, i>>} /\ <<session[k].token, i>> \notin Own(k)
  BY <1>1, <1>3 DEF Own
<1>5. IsFiniteSet(Own(k))
  <2>1. Own(k) \in SUBSET requests[k]
    BY DEF Own
  <2>. QED  BY <2>1, FS_Subset DEF CountInv
<1>6. Cardinality(Own(k)') = Cardinality(Own(k)) + 1
  BY <1>4, <1>5, FS_AddElement
<1>7. IsFiniteSet(requests'[k])
  BY <1>1, FS_AddElement DEF CountInv
<1>8. \A r \in requests'[k] : r \in requests[k] \/ r[1] = session[k].token
  BY <1>1
<1>9. Starting(k)' = Starting(k) /\ epoch'[k] = epoch[k]
  BY <1>2 DEF Starting
<1>. QED  BY <1>2, <1>3, <1>6, <1>7, <1>8, <1>9 DEF CountInv

\* A request that ends is one less of its session, if that is still there.
LEMMA CountEnds ==
  ASSUME TypeOK, NEW k \in Keys, CountInv(k), NEW r \in requests[k], EndRequest(k, r)
  PROVE  CountInv(k)'
<1>1. /\ requests'[k] = requests[k] \ {r} /\ session'[k] = Finished(k, r)
      /\ UNCHANGED <<start, epoch>>
  BY DEF EndRequest, TypeOK
<1>2. IsFiniteSet(requests'[k])
  BY <1>1, FS_RemoveElement DEF CountInv
<1>3. Starting(k)' = Starting(k) /\ epoch'[k] = epoch[k]
  BY <1>1 DEF Starting
<1>4. CASE HasSession(k) /\ session[k].token = r[1]
  <2>1. IsFiniteSet(Own(k)) /\ r \in Own(k)
    <3>1. Own(k) \in SUBSET requests[k]
      BY DEF Own
    <3>. QED  BY <1>4, <3>1, FS_Subset DEF CountInv, Own
  <2>2. Cardinality(Own(k)) \in Nat /\ Cardinality(Own(k)) # 0
    BY <2>1, FS_CardinalityType, FS_EmptySet
  <2>3. session[k].inFlight = Cardinality(Own(k))
    BY <1>4 DEF CountInv
  <2>4. Finished(k, r) = [session[k] EXCEPT !.inFlight = @ - 1]
    BY <1>4, <2>2, <2>3 DEF Finished
  <2>5. /\ session'[k].token = session[k].token
        /\ session'[k].inFlight = session[k].inFlight - 1
    BY <1>1, <2>4 DEF TypeOK, Sessions
  <2>6. Own(k)' = Own(k) \ {r}
    BY <1>1, <2>5 DEF Own
  <2>7. Cardinality(Own(k)') = Cardinality(Own(k)) - 1
    BY <2>1, <2>6, FS_RemoveElement
  <2>. QED  BY <1>1, <1>2, <1>3, <1>4, <2>3, <2>5, <2>7 DEF CountInv
<1>5. CASE ~(HasSession(k) /\ session[k].token = r[1])
  <2>1. session'[k] = session[k]
    BY <1>1, <1>5 DEF Finished
  <2>2. HasSession(k) => Own(k)' = Own(k)
    BY <1>1, <1>5, <2>1 DEF Own
  <2>. QED  BY <1>1, <1>2, <1>3, <2>1, <2>2 DEF CountInv, HasSession
<1>. QED  BY <1>4, <1>5

\* The pairs other than k: nothing that the counters speak of has changed.
CountRest(k) ==
  \A j \in Keys \ {k} : /\ session'[j] = session[j] /\ start'[j] = start[j]
                        /\ epoch'[j] = epoch[j] /\ requests'[j] = requests[j]

\* Every step keeps the counters right, manual restarts included.
LEMMA CountStep ==
  ASSUME TypeOK, \A k \in Keys : CountInv(k), [Next]_vars
  PROVE  \A k \in Keys : CountInv(k)'
<1>a. ASSUME NEW k \in Keys, CountRest(k), CountInv(k)' PROVE \A j \in Keys : CountInv(j)'
  <2>1. \A j \in Keys \ {k} : CountInv(j)'
    BY <1>a, CountFrame DEF CountRest, Starting
  <2>. QED  BY <1>a, <2>1
<1>b. ASSUME NEW k \in Keys, BeginStart(k, "demand") \/ BeginStart(k, "manual")
                               \/ BeginStart(k, "automatic"),
             ~Starting(k), UNCHANGED <<session, requests>>
      PROVE  \A j \in Keys : CountInv(j)'
  <2>1. epoch' = [epoch EXCEPT ![k] = @ + 1] /\ \E s : start' = [start EXCEPT ![k] = s]
    BY <1>b DEF BeginStart
  <2>2. CountRest(k) /\ epoch'[k] = epoch[k] + 1
    BY <1>b, <2>1 DEF TypeOK, CountRest
  <2>3. CountInv(k)'
    BY <1>b, <2>2, CountBegins
  <2>. QED  BY <1>a, <2>2, <2>3
<1>c. ASSUME UNCHANGED <<start, epoch, requests>>,
             \A j \in Keys : session'[j] \in {session[j], NoSession}
      PROVE  \A j \in Keys : CountInv(j)'
  BY <1>c, CountFrame DEF Starting
<1>d. ASSUME NEW k \in Keys, UNCHANGED <<session, epoch, requests>>,
             Starting(k), \E s : start' = [start EXCEPT ![k] = s]
      PROVE  \A j \in Keys : CountInv(j)'
  <2>1. \A j \in Keys : Starting(j)' => Starting(j)
    BY <1>d DEF TypeOK, Starting
  <2>. QED  BY <1>d, <2>1, CountFrame
<1>1. ASSUME NEW k \in Keys, Get(k) PROVE \A j \in Keys : CountInv(j)'
  BY <1>1, <1>b DEF Get
<1>2. ASSUME NEW k \in Keys, StartRefused(k) \/ PrepareFails(k) \/ StartCleaned(k)
      PROVE \A j \in Keys : CountInv(j)'
  <2>1. Starting(k) /\ UNCHANGED <<session, epoch, requests>>
    BY <1>2, PhaseStarting DEF StartRefused, PrepareFails, StartCleaned
  <2>2. start' = [start EXCEPT ![k] = NoStart]
    BY <1>2, Zenon DEF StartRefused, PrepareFails, StartCleaned, FailStart, SettleStart
  <2>. QED  BY <1>d, <2>1, <2>2
<1>3. ASSUME NEW k \in Keys,
             Prepared(k) \/ Unauthorized(k) \/ Authorized(k) \/ ConnectFails(k)
      PROVE \A j \in Keys : CountInv(j)'
  <2>1. Starting(k) /\ UNCHANGED <<session, epoch, requests>>
    BY <1>3, PhaseStarting DEF Prepared, Unauthorized, Authorized, ConnectFails
  <2>2. \E s : start' = [start EXCEPT ![k] = s]
    BY <1>3 DEF Prepared, Unauthorized, Authorized, ConnectFails
  <2>. QED  BY <1>d, <2>1, <2>2
<1>4. ASSUME NEW k \in Keys, Connected(k) PROVE \A j \in Keys : CountInv(j)'
  <2>1. /\ Starting(k) /\ start' = [start EXCEPT ![k] = NoStart]
        /\ session' = [session EXCEPT ![k] =
             [token |-> epoch[k], gen |-> start[k].gen, inFlight |-> 0]]
        /\ UNCHANGED <<epoch, requests>>
    BY <1>4, PhaseStarting DEF Connected, SettleStart
  <2>2. CountRest(k)
    BY <2>1 DEF TypeOK, CountRest
  <2>3. session'[k].token = epoch[k] /\ session'[k].inFlight = 0 /\ ~Starting(k)'
    BY <2>1 DEF TypeOK, Starting
  <2>4. CountInv(k)'
    BY <2>1, <2>3, CountConnects
  <2>. QED  BY <1>a, <2>2, <2>4
<1>5. ASSUME NEW k \in Keys, NEW s \in stops[k], StopStep(k, s)
      PROVE \A j \in Keys : CountInv(j)'
  BY <1>5, <1>c DEF StopStep
<1>6. ASSUME NEW K \in SUBSET Keys, NEW reason, NEW frees, BeginStop(K, reason, frees),
             UNCHANGED <<start, epoch, requests>>
      PROVE \A j \in Keys : CountInv(j)'
  <2>1. \A j \in Keys : session'[j] \in {session[j], NoSession}
    BY <1>6, BeginStopEffect
  <2>. QED  BY <1>6, <1>c, <2>1
<1>7. ASSUME NEW k \in Keys, IdleFires(k) PROVE \A j \in Keys : CountInv(j)'
  BY <1>6, <1>7 DEF IdleFires
<1>8. ASSUME NEW p \in Profiles, CloseProfile(p) PROVE \A j \in Keys : CountInv(j)'
  <2>. DEFINE K == {k \in Keys : Profile(k) = p}
  <2>1. BeginStop(K, "manual", TRUE) /\ UNCHANGED <<start, epoch, requests>>
    BY <1>8 DEF CloseProfile
  <2>2. K \in SUBSET Keys
    OBVIOUS
  <2>. HIDE DEF K
  <2>. QED  BY <1>6, <2>1, <2>2
<1>9. CASE Close
  <2>1. Known \in SUBSET Keys
    BY DEF Known
  <2>. QED  BY <1>6, <1>9, <2>1 DEF Close
<1>10. ASSUME NEW k \in Keys, Restart(k) PROVE \A j \in Keys : CountInv(j)'
  BY <1>6, <1>10 DEF Restart
<1>11. ASSUME NEW k \in Keys, RestartContinues(k) PROVE \A j \in Keys : CountInv(j)'
  <2>1. UNCHANGED <<session, requests>>
    BY <1>11 DEF RestartContinues
  <2>2. UNCHANGED <<start, epoch>> \/ (BeginStart(k, "manual") /\ ~Starting(k))
    BY <1>11 DEF RestartContinues
  <2>. QED  BY <1>b, <1>c, <2>1, <2>2
<1>12. ASSUME NEW k \in Keys, RestartTimesOut(k) \/ StabilityTimer(k)
       PROVE \A j \in Keys : CountInv(j)'
  BY <1>12, <1>c DEF RestartTimesOut, StabilityTimer, lifecycle
<1>13. ASSUME NEW k \in Keys, RestartTimer(k) PROVE \A j \in Keys : CountInv(j)'
  <2>1. UNCHANGED <<session, requests>>
    BY <1>13 DEF RestartTimer
  <2>2. UNCHANGED <<start, epoch>> \/ (BeginStart(k, "automatic") /\ ~Starting(k))
    BY <1>13 DEF RestartTimer
  <2>. QED  BY <1>b, <1>c, <2>1, <2>2
<1>14. ASSUME NEW k \in Keys, NEW t \in open[k], TransportCloses(k, t)
       PROVE \A j \in Keys : CountInv(j)'
  <2>1. session' = session \/ session' = [session EXCEPT ![k] = NoSession]
    BY <1>14, Zenon DEF TransportCloses
  <2>2. \A j \in Keys : session'[j] \in {session[j], NoSession}
    BY <2>1 DEF TypeOK
  <2>3. UNCHANGED <<start, epoch, requests>>
    BY <1>14, Zenon DEF TransportCloses
  <2>. QED  BY <1>c, <2>2, <2>3
<1>15. ASSUME NEW k \in Keys, BeginRequest(k) PROVE \A j \in Keys : CountInv(j)'
  <2>1. CountRest(k)
    BY <1>15 DEF BeginRequest, TypeOK, CountRest
  <2>. QED  BY <1>a, <1>15, <2>1, CountRequest
<1>16. ASSUME NEW k \in Keys, NEW r \in requests[k], EndRequest(k, r)
       PROVE \A j \in Keys : CountInv(j)'
  <2>1. CountRest(k)
    BY <1>16 DEF EndRequest, TypeOK, CountRest
  <2>. QED  BY <1>a, <1>16, <2>1, CountEnds
<1>17. CASE UNCHANGED vars
  BY <1>17, <1>c DEF vars
<1>. QED
  BY <1>1, <1>2, <1>3, <1>4, <1>5, <1>7, <1>8, <1>9, <1>10, <1>11, <1>12, <1>13,
     <1>14, <1>15, <1>16, <1>17 DEF Next, Progress, Environment

\* The in-flight count of a session is the number of its own requests, however
\* requests of its predecessors end (beginOperation, endOperation).
THEOREM CountsRequests == Spec => []RequestsCounted
<1>1. Init => \A k \in Keys : CountInv(k)
  BY FS_EmptySet DEF Init, CountInv, HasSession, NoSession
<1>2. TypeOK /\ (\A k \in Keys : CountInv(k)) /\ [Next]_vars => (\A k \in Keys : CountInv(k))'
  BY CountStep
<1>3. (\A k \in Keys : CountInv(k)) => RequestsCounted
  BY DEF CountInv, RequestsCounted, Own
<1>. QED  BY TypeCorrect, <1>1, <1>2, <1>3, PTL DEF Spec

\* A stop waits for a session or for an attempt, never for both.
OneTarget == \A k \in Keys : \A s \in stops[k] : s.entry = 0 \/ s.attempt = 0

\* The stops of a step: a new one comes from stopProfile and has its reason,
\* and an idle one comes from the idle timer alone.
LEMMA NewStops ==
  ASSUME TypeOK, IInv, OrphanInv, OneTarget, [Next]_vars
  PROVE  /\ OneTarget'
         /\ \A k \in Keys : (\E s \in stops'[k] \ stops[k] : s.reason = "idle") =>
              HasSession(k) /\ session[k].inFlight = 0
<1>. DEFINE Goal == /\ OneTarget'
                    /\ \A k \in Keys : (\E s \in stops'[k] \ stops[k] : s.reason = "idle") =>
                         HasSession(k) /\ session[k].inFlight = 0
<1>0. \A k \in Keys : /\ ~(HasSession(k) /\ Starting(k)) /\ manual[k] = "none"
                      /\ calls["restart"] = 0
  BY DEF OrphanInv, PairInv, IInv, StartAlone
<1>a. ASSUME UNCHANGED stops PROVE Goal
  BY <1>a DEF OneTarget
<1>b. ASSUME NEW K \in SUBSET Keys, NEW reason, NEW frees, BeginStop(K, reason, frees),
             reason = "idle" => \A k \in K : HasSession(k) /\ session[k].inFlight = 0
      PROVE  Goal
  <2>. DEFINE waits == {k \in K : HasSession(k) \/ Attempting(k)}
              attempt(k) == IF Attempting(k) THEN epoch[k] ELSE 0
              signals(k) == LocalSignals(k, {session[k].token, attempt(k)})
              stop(k) == [reason |-> reason, frees |-> frees, epoch |-> epoch[k],
                          entry |-> session[k].token, attempt |-> attempt(k),
                          signals |-> GateSignals(teardowns[k], signals(k)),
                          owns |-> OwnsGate(teardowns[k], signals(k))]
  <2>1. stops' = [k \in Keys |-> IF k \in waits THEN stops[k] \cup {stop(k)} ELSE stops[k]]
    BY <1>b, Zenon DEF BeginStop
  <2>2. \A k \in Keys : stop(k).reason = reason /\ (stop(k).entry = 0 \/ stop(k).attempt = 0)
    <3>1. \A k \in Keys : HasSession(k) => ~Attempting(k)
      BY <1>0 DEF Starting, Attempting, NoStart
    <3>2. \A k \in Keys : ~HasSession(k) => session[k].token = 0
      BY DEF HasSession, NoSession
    <3>. QED  BY <3>1, <3>2
  <2>3. \A k \in Keys : stops'[k] \ stops[k] # {} => k \in K
    BY <2>1
  <2>. HIDE DEF waits, stop
  <2>4. \A k \in Keys : \A s \in stops'[k] : s \in stops[k] \/ s = stop(k)
    BY <2>1
  <2>5. OneTarget'
    BY <2>2, <2>4 DEF OneTarget
  <2>. QED  BY <1>b, <2>2, <2>3, <2>4, <2>5
<1>. HIDE DEF Goal
<1>1. ASSUME NEW k \in Keys, Progress(k), ~\E s \in stops[k] : StopStep(k, s) PROVE Goal
  <2>1. UNCHANGED stops
    BY <1>1 DEF Progress, StartRefused, Prepared, PrepareFails, Unauthorized, Authorized,
                Connected, ConnectFails, StartCleaned, RestartContinues, RestartTimesOut,
                RestartTimer, lifecycle
  <2>. QED  BY <1>a, <2>1
<1>2. ASSUME NEW k \in Keys, NEW s \in stops[k], StopStep(k, s) PROVE Goal
  <2>1. s.entry = 0 \/ s.attempt = 0
    BY DEF OneTarget
  <2>2. FinishStop(k, s)
    BY <1>2, <2>1 DEF StopStep
  <2>3. stops' = [stops EXCEPT ![k] = @ \ {s}]
    BY <2>2, Zenon DEF FinishStop
  <2>4. \A j \in Keys : stops'[j] \subseteq stops[j]
    BY <2>3 DEF TypeOK
  <2>. QED  BY <2>4 DEF Goal, OneTarget
<1>3. ASSUME NEW k \in Keys, IdleFires(k) PROVE Goal
  BY <1>b, <1>3 DEF IdleFires
<1>4. ASSUME NEW p \in Profiles, CloseProfile(p) PROVE Goal
  <2>. DEFINE K == {k \in Keys : Profile(k) = p}
  <2>1. BeginStop(K, "manual", TRUE)
    BY <1>4 DEF CloseProfile
  <2>2. K \in SUBSET Keys
    OBVIOUS
  <2>. HIDE DEF K
  <2>. QED  BY <1>b, <2>1, <2>2
<1>5. ASSUME Close PROVE Goal
  <2>1. Known \in SUBSET Keys
    BY DEF Known
  <2>. QED  BY <1>b, <1>5, <2>1 DEF Close
<1>6. ASSUME NEW k \in Keys, Restart(k) PROVE FALSE
  BY <1>0, <1>6 DEF Restart, Spend
<1>7. ASSUME NEW k \in Keys, Environment(k), ~IdleFires(k), ~Restart(k) PROVE Goal
  <2>1. UNCHANGED stops
    BY <1>7, Zenon DEF Environment, Get, StabilityTimer, lifecycle, TransportCloses,
                       BeginRequest, EndRequest
  <2>. QED  BY <1>a, <2>1
<1>8. ASSUME UNCHANGED vars PROVE Goal
  BY <1>8, <1>a DEF vars
<1>9. Goal
  BY <1>1, <1>2, <1>3, <1>4, <1>5, <1>6, <1>7, <1>8 DEF Next
<1>. QED  BY <1>9 DEF Goal

\* A session changes only by a stop, which moves the generation, or with the
\* close of its own transport, unless a restart by hand starts beside it.
LEMMA SessionLeaves ==
  ASSUME TypeOK, IInv, OrphanInv, [Next]_vars, NEW k \in Keys, HasSession(k),
         session'[k].token # session[k].token
  PROVE  gen'[k] > gen[k] \/ session[k].token \in open[k] \ open'[k]
<1>0. \A j \in Keys : ~(HasSession(j) /\ Starting(j)) /\ calls["restart"] = 0
  BY DEF OrphanInv, PairInv, IInv, StartAlone
<1>a. ASSUME session' = session PROVE FALSE
  BY <1>a
<1>b. ASSUME NEW K \in SUBSET Keys, NEW reason, NEW frees, BeginStop(K, reason, frees)
      PROVE  gen'[k] > gen[k]
  <2>1. k \in K
    BY <1>b, BeginStopEffect
  <2>2. gen'[k] = gen[k] + 1
    <3>. DEFINE skipped == {j \in K \ {i \in K : HasSession(i) \/ Attempting(i)} :
                              teardowns[j] # {}}
    <3>1. gen' = [j \in Keys |-> IF j \in K \ skipped THEN gen[j] + 1 ELSE gen[j]]
      BY <1>b, Zenon DEF BeginStop
    <3>2. k \in K \ skipped
      BY <2>1
    <3>. HIDE DEF skipped
    <3>. QED  BY <3>1, <3>2
  <2>. QED  BY <2>2 DEF TypeOK
<1>1. ASSUME NEW j \in Keys, Connected(j) PROVE FALSE
  <2>1. Starting(j) /\ \E s : session' = [session EXCEPT ![j] = s]
    BY <1>1, PhaseStarting DEF Connected
  <2>2. j # k
    BY <1>0, <2>1
  <2>. QED  BY <2>1, <2>2 DEF TypeOK
<1>2. ASSUME NEW j \in Keys, Progress(j), ~Connected(j) PROVE FALSE
  <2>1. session' = session
    BY <1>2 DEF Progress, StartRefused, Prepared, PrepareFails, Unauthorized, Authorized,
                ConnectFails, StartCleaned, StopStep, RestartContinues, RestartTimesOut,
                RestartTimer, lifecycle
  <2>. QED  BY <1>a, <2>1
<1>3. ASSUME NEW j \in Keys, IdleFires(j) PROVE gen'[k] > gen[k]
  BY <1>b, <1>3 DEF IdleFires
<1>4. ASSUME NEW p \in Profiles, CloseProfile(p) PROVE gen'[k] > gen[k]
  <2>. DEFINE K == {j \in Keys : Profile(j) = p}
  <2>1. BeginStop(K, "manual", TRUE)
    BY <1>4 DEF CloseProfile
  <2>2. K \in SUBSET Keys
    OBVIOUS
  <2>. HIDE DEF K
  <2>. QED  BY <1>b, <2>1, <2>2
<1>5. CASE Close
  <2>1. Known \in SUBSET Keys
    BY DEF Known
  <2>. QED  BY <1>b, <1>5, <2>1 DEF Close
<1>6. ASSUME NEW j \in Keys, Restart(j) PROVE FALSE
  BY <1>0, <1>6 DEF Restart, Spend
<1>7. ASSUME NEW j \in Keys, Get(j) \/ StabilityTimer(j) PROVE FALSE
  BY <1>a, <1>7 DEF Get, StabilityTimer, lifecycle
<1>8. ASSUME NEW j \in Keys, NEW t \in open[j], TransportCloses(j, t)
      PROVE  session[k].token \in open[k] \ open'[k]
  <2>1. IsCrash(j, t) /\ session' = [session EXCEPT ![j] = NoSession]
    BY <1>a, <1>8, Zenon DEF TransportCloses
  <2>2. j = k
    BY <2>1 DEF TypeOK
  <2>3. open' = [open EXCEPT ![j] = open[j] \ {t}]
    BY <1>8, Zenon DEF TransportCloses
  <2>. QED  BY <1>8, <2>1, <2>2, <2>3 DEF IsCrash, TypeOK
<1>9. ASSUME NEW j \in Keys, BeginRequest(j) PROVE FALSE
  <2>1. session' = [session EXCEPT ![j] = Counted(j)] /\ Counted(j).token = session[j].token
    BY <1>9 DEF BeginRequest, Counted, TypeOK, Sessions
  <2>. QED  BY <2>1 DEF TypeOK
<1>10. ASSUME NEW j \in Keys, NEW r \in requests[j], EndRequest(j, r) PROVE FALSE
  <2>1. session' = [session EXCEPT ![j] = Finished(j, r)]
    BY <1>10 DEF EndRequest
  <2>2. Finished(j, r).token = session[j].token
    BY DEF Finished, TypeOK, Sessions
  <2>. QED  BY <2>1, <2>2 DEF TypeOK
<1>11. CASE UNCHANGED vars
  BY <1>11, <1>a DEF vars
<1>. QED
  BY <1>1, <1>2, <1>3, <1>4, <1>5, <1>6, <1>7, <1>8, <1>9, <1>10, <1>11
     DEF Next, Environment

\* While nobody restarts a pair by hand, a session ends as it may: the idle
\* timer spares one with a request in flight, and neither the close of another
\* transport nor another start takes it away (handleTransportClosed, the idle
\* timer of scheduleIdleTimer).
THEOREM SessionsEndProperly ==
  ASSUME Budget["restart"] = 0
  PROVE  Spec => SessionEndsProperly
<1>. DEFINE Counts == \A k \in Keys : CountInv(k)
            Inv == TypeOK /\ IInv /\ OrphanInv /\ Counts /\ OneTarget
<1>1. Init => Counts /\ OneTarget
  BY FS_EmptySet DEF Init, CountInv, HasSession, NoSession, OneTarget
<1>2. Init => Inv
  BY <1>1, TypeInit, InvInit, OrphanInit
<1>3. Inv /\ [Next]_vars => Inv'
  BY TypeStep, InvStep, OrphanStep, CountStep, NewStops
<1>4. Inv /\ [Next]_vars =>
        [\A k \in Keys : (\E s \in stops'[k] \ stops[k] : s.reason = "idle") =>
           ~\E r \in requests[k] : r[1] = session[k].token]_vars
  <2>. SUFFICES ASSUME Inv, [Next]_vars, NEW k \in Keys,
                       \E s \in stops'[k] \ stops[k] : s.reason = "idle"
                PROVE  ~\E r \in requests[k] : r[1] = session[k].token
    OBVIOUS
  <2>1. HasSession(k) /\ session[k].inFlight = 0
    BY NewStops
  <2>2. Own(k) \in SUBSET requests[k] /\ IsFiniteSet(requests[k]) /\ Cardinality(Own(k)) = 0
    BY <2>1 DEF CountInv, Own
  <2>3. Own(k) = {}
    BY <2>2, FS_Subset, FS_EmptySet
  <2>. QED  BY <2>3 DEF Own
<1>5. Inv /\ [Next]_vars =>
        [\A k \in Keys : HasSession(k) /\ session'[k].token # session[k].token =>
           gen'[k] > gen[k] \/ session[k].token \in open[k] \ open'[k]]_vars
  BY SessionLeaves
<1>. HIDE DEF Inv
<1>. QED
  BY <1>2, <1>3, <1>4, <1>5, PTL
     DEF Spec, SessionEndsProperly, IdleSparesRequests, SessionLeavesProperly

-----------------------------------------------------------------------------
(* The managers implement ProfileCapacity.                                 *)
(*                                                                         *)
(* A slot is released in seven places.  Each finds no session and no gate, *)
(* so by PairInv no child lives; and a start in flight then is superseded  *)
(* (SlotInv), so it will not become a session on a slot it has lost.       *)

LivePair(k) == HasSession(k) \/ (Local(k) /\ open[k] # {})

\* What lives has its slot, so has what may still live; and a stop that no
\* later start has passed found what lives now and saw the attempt in flight.
SlotInv(k) ==
  /\ LivePair(k) => k \in held
  /\ Starting(k) => start[k].gen <= gen[k]
  /\ Starting(k) /\ start[k].phase # "refused" /\ start[k].gen = gen[k] => k \in held
  /\ start[k].phase = "authorizing" => ~Local(k)
  /\ \A s \in stops[k] :
       /\ s.epoch <= epoch[k]
       /\ s.epoch = epoch[k] =>
            /\ ~HasSession(k)
            /\ Starting(k) => start[k].gen # gen[k] /\ (Local(k) => epoch[k] \in s.signals)

\* The three ways a step may change slots and live pairs.
Shrinks == held' \subseteq held /\ \A k \in Keys : LivePair(k)' => LivePair(k)
Admits(k) == /\ held' = held \cup {k} /\ Fits(held, k)
             /\ \A j \in Keys : LivePair(j)' = LivePair(j)
Begins(k) == /\ k \in held /\ held' = held /\ LivePair(k)'
             /\ \A j \in Keys \ {k} : LivePair(j)' = LivePair(j)
Moves == Shrinks \/ \E k \in Keys : Admits(k) \/ Begins(k)

\* A pair that keeps its slot and gains nothing keeps its invariant.
LEMMA SlotFrame ==
  ASSUME NEW k \in Keys, SlotInv(k),
         HasSession(k)' => HasSession(k), start'[k] \in {start[k], NoStart},
         gen'[k] = gen[k], epoch'[k] = epoch[k], open'[k] \subseteq open[k],
         stops'[k] \subseteq stops[k], k \in held => k \in held'
  PROVE  SlotInv(k)' /\ (LivePair(k)' => LivePair(k))
<1>1. LivePair(k)' => LivePair(k)
  BY DEF LivePair
<1>2. Starting(k)' => Starting(k) /\ start'[k] = start[k]
  BY DEF Starting
<1>3. start'[k].phase = "authorizing" => start[k].phase = "authorizing"
  BY DEF NoStart
<1>. QED  BY <1>1, <1>2, <1>3 DEF SlotInv

\* Without a session, a gate and an attempt whose child lives, nothing lives.
LEMMA NothingLives ==
  ASSUME NEW k \in Keys, PairInv(k)', teardowns'[k] = {}, ~HasSession(k)',
         Local(k) /\ Attempting(k)' => epoch'[k] \notin open'[k]
  PROVE  ~LivePair(k)'
<1>1. ~Covered(k, epoch[k])' /\ \A t : ~Covered(k, t)'
  BY DEF Covered
<1>. QED  BY <1>1 DEF PairInv, LivePair, Local

\* Releasing and acquiring concern one pair, and a release needs no gates.
LEMMA SlotChanges ==
  ASSUME NEW k \in Keys, NEW pairs, NEW gates
  PROVE  /\ \A j \in Keys \ {k} : /\ j \in Released(pairs, k, gates) <=> j \in pairs
                                  /\ j \in Acquired(pairs, k) <=> j \in pairs
         /\ Released(pairs, k, gates) \in {pairs, pairs \ {k}}
         /\ Released(pairs, k, gates) # pairs => gates = {}
         /\ Acquired(pairs, k) = pairs
              \/ (Acquired(pairs, k) = pairs \cup {k} /\ Fits(pairs, k))
BY DEF Released, Acquired

\* The end of a failed start may give its slot back, if no gate is left, or
\* take one that an automatic start must keep.
LEMMA FailStartHeld ==
  ASSUME TypeOK, NEW k \in Keys, NEW gates, FailStart(k, gates)
  PROVE  \/ held' = held
         \/ held' = held \ {k} /\ gates = {}
         \/ held' = held \cup {k} /\ Fits(held, k)
<1>. DEFINE s == start[k]
            retry == s.source = "automatic" /\ CanRetry(k)
            pairs == IF Blocking(gates) THEN held
                     ELSE IF ~retry THEN Released(held, k, gates)
                     ELSE IF ~s.fresh THEN Acquired(held, k) ELSE held
<1>1. pairs \in {held, Released(held, k, gates), Acquired(held, k)}
  BY Zenon
<1>2. held' = pairs \/ held' = Released(pairs, k, gates)
  <2>1. held' = pairs \/ ScheduleRestart(k, s.gen, pairs, gates)
    BY Zenon DEF FailStart
  <2>. HIDE DEF pairs, s, retry
  <2>. QED  BY <2>1 DEF ScheduleRestart
<1>. HIDE DEF pairs, s, retry
<1>3. held \subseteq Keys
  BY DEF TypeOK
<1>. QED  BY <1>1, <1>2, <1>3, SlotChanges

\* The end of a failed start keeps the slots right.
LEMMA FailStartSlot ==
  ASSUME TypeOK, NEW k \in Keys, NEW gates, FailStart(k, gates),
         \A j \in Keys : SlotInv(j), PairInv(k)', ~HasSession(k), Starting(k),
         UNCHANGED <<session, gen, epoch, stops>>,
         \A j \in Keys \ {k} : open'[j] = open[j],
         IF Local(k) THEN open'[k] = open[k] ELSE open'[k] \subseteq open[k]
  PROVE  (\A j \in Keys : SlotInv(j)') /\ Moves
<1>1. /\ start' = [start EXCEPT ![k] = NoStart]
      /\ teardowns' = [teardowns EXCEPT ![k] = gates]
  BY DEF FailStart, SettleStart
<1>2. \/ held' = held
      \/ held' = held \ {k} /\ gates = {}
      \/ held' = held \cup {k} /\ Fits(held, k)
  BY FailStartHeld
<1>3. \A j \in Keys : /\ HasSession(j)' = HasSession(j)
                      /\ LivePair(j)' = LivePair(j)
  BY DEF HasSession, LivePair, Local
<1>4. ASSUME NEW j \in Keys, j \in held => j \in held' PROVE SlotInv(j)'
  <2>1. start'[j] \in {start[j], NoStart} /\ open'[j] \subseteq open[j]
    BY <1>1 DEF TypeOK
  <2>. QED  BY <1>3, <1>4, <2>1, SlotFrame
<1>5. SlotInv(k)'
  <2>1. CASE k \notin held
    BY <1>4, <2>1
  <2>2. CASE k \in held'
    BY <1>4, <2>2
  <2>3. CASE k \in held /\ k \notin held'
    <3>1. teardowns'[k] = {} /\ start'[k] = NoStart
      BY <1>1, <1>2, <2>3 DEF TypeOK
    <3>2. ~LivePair(k)'
      BY <1>3, <3>1, NothingLives DEF Attempting, NoStart
    <3>3. ~Starting(k)' /\ start'[k].phase = "none"
      BY <3>1 DEF Starting, NoStart
    <3>. QED  BY <1>3, <3>2, <3>3 DEF SlotInv
  <2>. QED  BY <2>1, <2>2, <2>3
<1>6. \A j \in Keys \ {k} : SlotInv(j)'
  BY <1>2, <1>4
<1>7. Moves
  BY <1>2, <1>3 DEF Moves, Shrinks, Admits
<1>. QED  BY <1>5, <1>6, <1>7

\* A start begins on a slot, or is refused.
LEMMA BeginStartSlot ==
  ASSUME TypeOK, NEW k \in Keys, NEW source, BeginStart(k, source), ~Starting(k),
         \A j \in Keys : SlotInv(j), UNCHANGED <<session, gen, open, stops>>
  PROVE  (\A j \in Keys : SlotInv(j)') /\ Moves
<1>1. /\ epoch' = [epoch EXCEPT ![k] = @ + 1]
      /\ held' = Acquired(held, k)
      /\ \A j \in Keys \ {k} : start'[j] = start[j]
      /\ start'[k].gen = gen[k]
      /\ start'[k].phase = IF Fits(held, k) THEN "preparing" ELSE "refused"
  BY DEF BeginStart, TypeOK
<1>2. \A j \in Keys : LivePair(j)' = LivePair(j) /\ HasSession(j)' = HasSession(j)
  BY DEF LivePair, HasSession, Local
<1>3. \A j \in Keys \ {k} : SlotInv(j)'
  <2>. SUFFICES ASSUME NEW j \in Keys \ {k} PROVE SlotInv(j)'
    OBVIOUS
  <2>1. epoch'[j] = epoch[j] /\ start'[j] = start[j] /\ (j \in held => j \in held')
    BY <1>1 DEF TypeOK, Acquired
  <2>. QED  BY <1>2, <2>1, SlotFrame
<1>4. SlotInv(k)'
  <2>1. LivePair(k)' => k \in held'
    BY <1>1, <1>2 DEF SlotInv, Acquired
  <2>2. start'[k].gen <= gen[k]
    BY <1>1 DEF TypeOK
  <2>3. start'[k].phase # "refused" => k \in held'
    BY <1>1 DEF Acquired
  <2>4. \A s \in stops[k] : s.epoch <= epoch'[k] /\ s.epoch # epoch'[k]
    <3>. SUFFICES ASSUME NEW s \in stops[k] PROVE s.epoch <= epoch'[k] /\ s.epoch # epoch'[k]
      OBVIOUS
    <3>1. s.epoch \in Nat /\ epoch[k] \in Nat /\ s.epoch <= epoch[k] /\ epoch'[k] = epoch[k] + 1
      BY <1>1 DEF TypeOK, Stops, SlotInv
    <3>. QED  BY <3>1
  <2>5. start'[k].phase # "authorizing"
    BY <1>1
  <2>. QED  BY <2>1, <2>2, <2>3, <2>4, <2>5 DEF SlotInv
<1>5. Moves
  <2>1. \/ held' = held
        \/ held' = held \cup {k} /\ Fits(held, k)
    BY <1>1 DEF Acquired
  <2>. QED  BY <1>2, <2>1 DEF Moves, Shrinks, Admits
<1>. QED  BY <1>3, <1>4, <1>5

\* The gate that a stop shares covers the signals of the stop.
LEMMA GateSignalsCover ==
  ASSUME NEW gates, NEW signals
  PROVE  signals \subseteq GateSignals(gates, signals)
<1>1. CASE signals = {} \/ Covering(gates, signals) = {}
  BY <1>1 DEF GateSignals
<1>2. CASE ~(signals = {} \/ Covering(gates, signals) = {})
  <2>1. (CHOOSE gate \in Covering(gates, signals) : TRUE) \in Covering(gates, signals)
    BY <1>2
  <2>. HIDE DEF Covering
  <2>2. signals \subseteq (CHOOSE gate \in Covering(gates, signals) : TRUE).signals
    BY <2>1 DEF Covering
  <2>. QED  BY <1>2, <2>2 DEF GateSignals
<1>. QED  BY <1>1, <1>2

\* A stop gives back only the slots of pairs where nothing lives, and the
\* generation it moves supersedes a start that is still without a transport.
LEMMA BeginStopSlots ==
  ASSUME TypeOK, NEW K \in SUBSET Keys, NEW reason, NEW frees,
         BeginStop(K, reason, frees), \A k \in Keys : SlotInv(k) /\ PairInv(k)',
         \A k \in Keys : ~(HasSession(k) /\ Starting(k)),
         UNCHANGED <<start, epoch, open>>
  PROVE  (\A k \in Keys : SlotInv(k)') /\ Moves
<1>. DEFINE waits == {k \in K : HasSession(k) \/ Attempting(k)}
            skipped == {k \in K \ waits : teardowns[k] # {}}
            ended == K \ (waits \cup skipped)
            attempt(k) == IF Attempting(k) THEN epoch[k] ELSE 0
            signals(k) == LocalSignals(k, {session[k].token, attempt(k)})
            stop(k) == [reason |-> reason, frees |-> frees, epoch |-> epoch[k],
                        entry |-> session[k].token, attempt |-> attempt(k),
                        signals |-> GateSignals(teardowns[k], signals(k)),
                        owns |-> OwnsGate(teardowns[k], signals(k))]
<1>1. /\ gen' = [k \in Keys |-> IF k \in K \ skipped THEN gen[k] + 1 ELSE gen[k]]
      /\ session' = [k \in Keys |-> IF k \in K THEN NoSession ELSE session[k]]
      /\ teardowns' = [k \in Keys |-> IF k \in waits
                                      THEN WithGate(teardowns[k], signals(k))
                                      ELSE teardowns[k]]
      /\ stops' = [k \in Keys |-> IF k \in waits THEN stops[k] \cup {stop(k)} ELSE stops[k]]
      /\ held' = IF frees THEN held \ ended ELSE held
  BY Zenon DEF BeginStop
<1>2. \A k \in Keys : /\ stop(k).epoch = epoch[k]
                      /\ stop(k).signals = GateSignals(teardowns[k], signals(k))
  OBVIOUS
<1>3. \A k \in Keys : k \in waits \/ k \in skipped \/ k \in ended \/ k \notin K
  OBVIOUS
<1>4. /\ \A k \in ended : teardowns[k] = {} /\ k \notin waits /\ k \notin skipped /\ k \in K
      /\ \A k \in skipped : k \in K /\ k \notin waits /\ k \notin ended
      /\ \A k \in waits : k \in K /\ k \notin skipped /\ k \notin ended
                          /\ (HasSession(k) \/ Attempting(k))
      /\ \A k \in K \ waits : ~HasSession(k) /\ ~Attempting(k)
      /\ ended \subseteq K
  OBVIOUS
<1>5. \A k \in Keys : Attempting(k) => signals(k) = LocalSignals(k, {session[k].token, epoch[k]})
  OBVIOUS
<1>. HIDE DEF waits, skipped, ended, attempt, signals, stop
<1>6. \A k \in Keys : /\ HasSession(k)' => HasSession(k) /\ k \notin K
                      /\ k \notin K => HasSession(k)' = HasSession(k)
                      /\ Starting(k)' = Starting(k)
                      /\ LivePair(k)' => LivePair(k)
  BY <1>1 DEF HasSession, Starting, LivePair, Local
<1>7. ASSUME NEW k \in Keys, k \in skipped \/ k \notin K PROVE SlotInv(k)'
  <2>1. gen'[k] = gen[k] /\ stops'[k] = stops[k] /\ (k \in held => k \in held')
    BY <1>1, <1>4, <1>7
  <2>. QED  BY <1>6, <2>1, SlotFrame
<1>8. ASSUME NEW k \in Keys, k \in ended PROVE SlotInv(k)'
  <2>1. gen'[k] = gen[k] + 1 /\ stops'[k] = stops[k] /\ teardowns'[k] = {} /\ ~HasSession(k)'
    BY <1>1, <1>4, <1>6, <1>8
  <2>2. ~LivePair(k)'
    <3>1. ~Attempting(k)'
      BY <1>4, <1>8 DEF Attempting
    <3>. QED  BY <2>1, <3>1, NothingLives
  <2>3. Starting(k) => start[k].gen <= gen'[k] /\ start[k].gen # gen'[k]
    BY <2>1 DEF TypeOK, Starts, SlotInv
  <2>4. \A s \in stops[k] : s.epoch = epoch[k] /\ Starting(k) /\ Local(k) => epoch[k] \in s.signals
    BY DEF SlotInv
  <2>. QED  BY <1>6, <2>1, <2>2, <2>3, <2>4 DEF SlotInv, Local
<1>9. ASSUME NEW k \in Keys, k \in waits PROVE SlotInv(k)'
  <2>1. /\ gen'[k] = gen[k] + 1 /\ ~HasSession(k)' /\ (k \in held => k \in held')
        /\ stops'[k] = stops[k] \cup {stop(k)}
    BY <1>1, <1>4, <1>6, <1>9
  <2>2. Starting(k) => start[k].gen <= gen'[k] /\ start[k].gen # gen'[k]
    BY <2>1 DEF TypeOK, Starts, SlotInv
  <2>3. Starting(k) /\ Local(k) => epoch[k] \in stop(k).signals
    <3>. SUFFICES ASSUME Starting(k), Local(k) PROVE epoch[k] \in stop(k).signals
      OBVIOUS
    <3>1. Attempting(k)
      BY <1>4, <1>9
    <3>2. epoch[k] # 0
      BY DEF PairInv, Starting
    <3>3. epoch[k] \in signals(k)
      BY <1>5, <3>1, <3>2 DEF LocalSignals
    <3>. QED  BY <1>2, <3>3, GateSignalsCover
  <2>4. \A s \in stops'[k] : /\ s.epoch <= epoch[k]
                             /\ s.epoch = epoch[k] /\ Starting(k) /\ Local(k) => epoch[k] \in s.signals
    BY <1>2, <2>1, <2>3 DEF SlotInv, TypeOK
  <2>5. LivePair(k)' => k \in held'
    BY <1>6, <2>1 DEF SlotInv
  <2>. QED  BY <1>6, <2>1, <2>2, <2>4, <2>5 DEF SlotInv, Local
<1>10. Moves
  <2>1. held' \subseteq held
    BY <1>1
  <2>. QED  BY <1>6, <2>1 DEF Moves, Shrinks
<1>. QED  BY <1>3, <1>7, <1>8, <1>9, <1>10

\* The other pairs of a step that concerns k keep their invariant.
LEMMA SlotRest ==
  ASSUME NEW k \in Keys, \A j \in Keys : SlotInv(j), SlotInv(k)',
         \A j \in Keys \ {k} :
           /\ session'[j] = session[j] /\ start'[j] = start[j] /\ open'[j] = open[j]
           /\ stops'[j] = stops[j] /\ gen'[j] = gen[j] /\ epoch'[j] = epoch[j]
           /\ j \in held => j \in held'
  PROVE  /\ \A j \in Keys : SlotInv(j)'
         /\ \A j \in Keys \ {k} : LivePair(j)' = LivePair(j)
<1>1. \A j \in Keys \ {k} : HasSession(j)' = HasSession(j) /\ LivePair(j)' = LivePair(j)
  BY DEF HasSession, LivePair, Local
<1>2. ASSUME NEW j \in Keys \ {k} PROVE SlotInv(j)'
  BY <1>1, SlotFrame
<1>. QED  BY <1>1, <1>2

\* Every step keeps the slots right and moves them as the limiter allows.
LEMMA SlotStep ==
  ASSUME TypeOK, IInv, OrphanInv, OrphanInv', OneTarget,
         \A k \in Keys : SlotInv(k), [Next]_vars
  PROVE  (\A k \in Keys : SlotInv(k)') /\ Moves
<1>. DEFINE Goal == (\A k \in Keys : SlotInv(k)') /\ Moves
<1>0. \A k \in Keys : /\ ~(HasSession(k) /\ Starting(k)) /\ manual[k] = "none"
                      /\ calls["restart"] = 0 /\ PairInv(k) /\ PairInv(k)'
  BY DEF OrphanInv, PairInv, IInv, StartAlone
<1>a. ASSUME UNCHANGED <<start, gen, epoch, stops, held>>,
             \A k \in Keys : (HasSession(k)' => HasSession(k)) /\ open'[k] \subseteq open[k]
      PROVE  Goal
  <2>1. \A k \in Keys : SlotInv(k)' /\ (LivePair(k)' => LivePair(k))
    BY <1>a, SlotFrame
  <2>. QED  BY <1>a, <2>1 DEF Moves, Shrinks
<1>b. ASSUME NEW K \in SUBSET Keys, NEW reason, NEW frees, BeginStop(K, reason, frees),
             UNCHANGED <<start, epoch, open>>
      PROVE  Goal
  BY <1>0, <1>b, BeginStopSlots
<1>. HIDE DEF Goal
<1>1. ASSUME NEW k \in Keys, Get(k) PROVE Goal
  <2>1. BeginStart(k, "demand") /\ ~Starting(k) /\ UNCHANGED <<session, gen, open, stops>>
    BY <1>1 DEF Get
  <2>. QED  BY <2>1, BeginStartSlot DEF Goal
<1>2. ASSUME NEW k \in Keys, StartRefused(k) \/ PrepareFails(k) \/ StartCleaned(k) PROVE Goal
  <2>1. PICK gates : FailStart(k, gates)
    BY <1>2, Zenon DEF StartRefused, PrepareFails, StartCleaned
  <2>2. Starting(k) /\ ~HasSession(k)
    BY <1>0, <1>2, PhaseStarting DEF StartRefused, PrepareFails, StartCleaned
  <2>3. /\ UNCHANGED <<session, gen, epoch, stops>>
        /\ open' = IF Local(k) THEN open ELSE open'
        /\ open' = open \/ open' = [open EXCEPT ![k] = @ \ {epoch[k]}]
    BY <1>2, Zenon DEF StartRefused, PrepareFails, StartCleaned
  <2>4. \A j \in Keys \ {k} : open'[j] = open[j]
    BY <2>3 DEF TypeOK
  <2>5. IF Local(k) THEN open'[k] = open[k] ELSE open'[k] \subseteq open[k]
    BY <2>3 DEF TypeOK
  <2>. QED  BY <1>0, <2>1, <2>2, <2>3, <2>4, <2>5, FailStartSlot DEF Goal
<1>3. ASSUME NEW k \in Keys, Prepared(k) PROVE Goal
  <2>1. /\ start[k].phase = "preparing" /\ Starting(k) /\ start[k].gen = gen[k]
        /\ start' = [start EXCEPT ![k].phase = "connecting"]
        /\ open' = [open EXCEPT ![k] = @ \cup {epoch[k]}]
        /\ UNCHANGED <<session, gen, epoch, stops, held>>
    BY <1>3, PhaseStarting DEF Prepared, IsCurrent
  <2>2. /\ start'[k].phase = "connecting" /\ start'[k].gen = start[k].gen
        /\ open'[k] = open[k] \cup {epoch[k]} /\ k \in held
    BY <2>1 DEF TypeOK, Starts, SlotInv
  <2>3. SlotInv(k)'
    <3>1. \A s \in stops[k] : s.epoch # epoch[k]
      BY <2>1 DEF SlotInv
    <3>. QED  BY <2>1, <2>2, <3>1 DEF SlotInv
  <2>4. \A j \in Keys : SlotInv(j)'
    BY <2>1, <2>3, SlotRest DEF TypeOK
  <2>5. \A j \in Keys \ {k} : LivePair(j)' = LivePair(j)
    BY <2>1, <2>3, SlotRest DEF TypeOK
  <2>6. CASE Local(k)
    <3>1. LivePair(k)'
      BY <2>2, <2>6 DEF LivePair, Local
    <3>. QED  BY <2>1, <2>2, <2>4, <2>5, <3>1 DEF Goal, Moves, Begins
  <2>7. CASE ~Local(k)
    <3>1. LivePair(k)' = LivePair(k)
      BY <2>1, <2>7 DEF LivePair, Local, HasSession
    <3>. QED  BY <2>1, <2>4, <2>5, <3>1 DEF Goal, Moves, Shrinks
  <2>. QED  BY <2>6, <2>7
<1>4. ASSUME NEW k \in Keys, Unauthorized(k) \/ Authorized(k) \/ ConnectFails(k) PROVE Goal
  <2>1. PICK phase, owns :
          /\ phase \in {"authorizing", "reconnecting", "cleaning"}
          /\ phase # "cleaning" => ~Local(k)
          /\ \/ start' = [start EXCEPT ![k].phase = phase]
             \/ start' = [start EXCEPT ![k].phase = phase, ![k].owns = owns]
    <3>1. ASSUME Unauthorized(k)
          PROVE  ~Local(k) /\ start' = [start EXCEPT ![k].phase = "authorizing"]
      BY <3>1, ConstantsAssumption DEF Unauthorized, Local
    <3>2. ASSUME Authorized(k)
          PROVE  ~Local(k) /\ start' = [start EXCEPT ![k].phase = "reconnecting"]
      BY <3>2 DEF Authorized, SlotInv
    <3>3. ASSUME ConnectFails(k)
          PROVE  \E owns : start' = [start EXCEPT ![k].phase = "cleaning", ![k].owns = owns]
      BY <3>3 DEF ConnectFails
    <3>. QED  BY <1>4, <3>1, <3>2, <3>3
  <2>2. /\ start[k].phase \in {"connecting", "authorizing", "reconnecting"} /\ Starting(k)
        /\ Local(k) => open' = open \/ phase # "cleaning"
        /\ \/ open' = open
           \/ open' = [open EXCEPT ![k] = @ \ {epoch[k]}]
           \/ open' = [open EXCEPT ![k] = @ \cup {epoch[k]}]
        /\ UNCHANGED <<session, gen, epoch, stops, held>>
    <3>1. UNCHANGED open \/ ~ConnectFails(k)
      BY DEF ConnectFails
    <3>2. ConnectFails(k) \/ ~Local(k)
      BY <1>4, ConstantsAssumption DEF Unauthorized, Authorized, SlotInv, Local
    <3>. QED
      BY <1>4, <3>1, <3>2, PhaseStarting DEF Unauthorized, Authorized, ConnectFails
  <2>3. /\ start'[k].phase = phase /\ start'[k].gen = start[k].gen
        /\ \A j \in Keys \ {k} : start'[j] = start[j]
    BY <2>1 DEF TypeOK, Starts
  <2>4. \A j \in Keys \ {k} : open'[j] = open[j]
    BY <2>2 DEF TypeOK
  <2>5. Local(k) => open' = open
    BY <2>1, <2>2
  <2>6. LivePair(k)' = LivePair(k) /\ HasSession(k)' = HasSession(k)
    BY <2>2, <2>5 DEF LivePair, HasSession, Local
  <2>7. SlotInv(k)'
    BY <2>1, <2>2, <2>3, <2>6 DEF SlotInv, Local
  <2>8. /\ \A j \in Keys : SlotInv(j)'
        /\ \A j \in Keys \ {k} : LivePair(j)' = LivePair(j)
    BY <2>2, <2>3, <2>4, <2>7, SlotRest
  <2>. QED  BY <2>2, <2>6, <2>8 DEF Goal, Moves, Shrinks
<1>5. ASSUME NEW k \in Keys, Connected(k) PROVE Goal
  <2>1. /\ start[k].phase \in {"connecting", "reconnecting"} /\ Starting(k)
        /\ start[k].gen = gen[k]
        /\ start' = [start EXCEPT ![k] = NoStart]
        /\ session' = [session EXCEPT ![k] =
             [token |-> epoch[k], gen |-> start[k].gen, inFlight |-> 0]]
        /\ UNCHANGED <<gen, epoch, open, stops, held>>
    BY <1>5, PhaseStarting DEF Connected, SettleStart, IsCurrent
  <2>2. epoch[k] # 0 /\ k \in held /\ \A s \in stops[k] : s.epoch # epoch[k]
    BY <1>0, <2>1 DEF SlotInv, PairInv
  <2>3. start'[k] = NoStart /\ session'[k].token = epoch[k]
    BY <2>1 DEF TypeOK
  <2>4. HasSession(k)'
    BY <2>2, <2>3 DEF HasSession, NoSession
  <2>5. SlotInv(k)'
    BY <2>1, <2>2, <2>3 DEF SlotInv, Starting, NoStart
  <2>6. /\ \A j \in Keys : SlotInv(j)'
        /\ \A j \in Keys \ {k} : LivePair(j)' = LivePair(j)
    BY <2>1, <2>5, SlotRest DEF TypeOK
  <2>. QED  BY <2>1, <2>2, <2>4, <2>6 DEF Goal, Moves, Begins, LivePair
<1>6. ASSUME NEW k \in Keys, NEW s \in stops[k], StopStep(k, s) PROVE Goal
  <2>. DEFINE gates == SettledGates(k, s.signals, s.owns)
  <2>1. FinishStop(k, s)
    BY <1>6 DEF StopStep, OneTarget
  <2>2. /\ stops' = [stops EXCEPT ![k] = @ \ {s}]
        /\ teardowns' = [teardowns EXCEPT ![k] = gates]
        /\ \/ held' = held
           \/ /\ \/ ~HasSession(k) /\ ~Starting(k)
                 \/ s.epoch = epoch[k] /\ Reaped(k, s.signals)
              /\ held' = Released(held, k, gates)
    BY <2>1, Zenon DEF FinishStop, Superseded
  <2>3. /\ open' = open \/ \E t : open' = [open EXCEPT ![k] = @ \ {t}]
        /\ UNCHANGED <<session, start, gen, epoch>>
    BY <1>6, Zenon DEF StopStep
  <2>. HIDE DEF gates
  <2>4. \A j \in Keys : /\ open'[j] \subseteq open[j] /\ stops'[j] \subseteq stops[j]
                        /\ HasSession(j)' = HasSession(j)
                        /\ LivePair(j)' => LivePair(j)
    BY <2>2, <2>3 DEF TypeOK, HasSession, LivePair, Local
  <2>5. held' = held \/ (held' = held \ {k} /\ gates = {})
    BY <2>2, SlotChanges
  <2>6. ASSUME NEW j \in Keys, j \in held => j \in held' PROVE SlotInv(j)'
    BY <2>3, <2>4, <2>6, SlotFrame
  <2>7. CASE k \in held /\ k \notin held'
    <3>1. teardowns'[k] = {}
      BY <2>2, <2>5, <2>7 DEF TypeOK
    <3>2. /\ ~HasSession(k) /\ (Starting(k) => start[k].gen # gen[k])
          /\ Local(k) /\ Starting(k) => epoch[k] \notin open[k]
      <4>1. CASE ~HasSession(k) /\ ~Starting(k)
        BY <4>1
      <4>2. CASE s.epoch = epoch[k] /\ Reaped(k, s.signals)
        BY <4>2 DEF SlotInv, Reaped
      <4>. QED  BY <2>2, <2>7, <4>1, <4>2
    <3>3. Attempting(k)' => Starting(k)
      BY <2>3 DEF Attempting, Starting, NoStart
    <3>4. ~LivePair(k)'
      <4>1. ~HasSession(k)'
        BY <2>4, <3>2
      <4>2. Local(k) /\ Attempting(k)' => epoch'[k] \notin open'[k]
        BY <2>3, <2>4, <3>2, <3>3
      <4>. QED  BY <1>0, <3>1, <4>1, <4>2, NothingLives
    <3>5. SlotInv(k)'
      <4>1. \A u \in stops'[k] : u \in stops[k]
        BY <2>4
      <4>2. Starting(k)' = Starting(k)
        BY <2>3 DEF Starting
      <4>. QED  BY <2>3, <2>4, <3>2, <3>4, <4>1, <4>2 DEF SlotInv, Local
    <3>6. \A j \in Keys \ {k} : SlotInv(j)'
      BY <2>5, <2>6
    <3>. QED  BY <2>4, <2>5, <3>5, <3>6 DEF Goal, Moves, Shrinks
  <2>8. CASE ~(k \in held /\ k \notin held')
    <3>1. \A j \in Keys : SlotInv(j)'
      BY <2>5, <2>6, <2>8
    <3>. QED  BY <2>4, <2>5, <3>1 DEF Goal, Moves, Shrinks
  <2>. QED  BY <2>7, <2>8
<1>7. ASSUME NEW k \in Keys, IdleFires(k) PROVE Goal
  BY <1>b, <1>7 DEF IdleFires
<1>8. ASSUME NEW p \in Profiles, CloseProfile(p) PROVE Goal
  <2>. DEFINE K == {k \in Keys : Profile(k) = p}
  <2>1. BeginStop(K, "manual", TRUE) /\ UNCHANGED <<start, epoch, open>>
    BY <1>8 DEF CloseProfile
  <2>2. K \in SUBSET Keys
    OBVIOUS
  <2>. HIDE DEF K
  <2>. QED  BY <1>b, <2>1, <2>2
<1>9. ASSUME Close PROVE Goal
  <2>1. Known \in SUBSET Keys
    BY DEF Known
  <2>. QED  BY <1>b, <1>9, <2>1 DEF Close
<1>10. ASSUME NEW k \in Keys, Restart(k) \/ RestartContinues(k) \/ RestartTimesOut(k)
       PROVE FALSE
  <2>1. ~Restart(k)
    <3>1. Restart(k) => calls["restart"] > 0
      BY Zenon DEF Restart, Spend
    <3>. QED  BY <1>0, <3>1
  <2>2. ~RestartContinues(k) /\ ~RestartTimesOut(k)
    BY <1>0 DEF RestartContinues, RestartReady, RestartTimesOut
  <2>. QED  BY <1>10, <2>1, <2>2
<1>11. ASSUME NEW k \in Keys, RestartTimer(k) PROVE Goal
  <2>1. ~Starting(k) /\ UNCHANGED <<session, gen, open, stops>>
    BY <1>11 DEF RestartTimer
  <2>2. CASE BeginStart(k, "automatic")
    BY <2>1, <2>2, BeginStartSlot DEF Goal
  <2>3. CASE /\ ScheduleRestart(k, automatic[k], held, teardowns[k])
             /\ Blocking(teardowns[k]) /\ UNCHANGED <<start, epoch>>
    <3>1. held' = held
      BY <2>3 DEF ScheduleRestart, Blocking, Released
    <3>2. \A j \in Keys : (HasSession(j)' => HasSession(j)) /\ open'[j] \subseteq open[j]
      BY <2>1 DEF HasSession
    <3>. QED  BY <1>a, <2>1, <2>3, <3>1, <3>2
  <2>. QED  BY <1>11, <2>2, <2>3 DEF RestartTimer
<1>12. ASSUME NEW k \in Keys, StabilityTimer(k) PROVE Goal
  <2>1. \A j \in Keys : (HasSession(j)' => HasSession(j)) /\ open'[j] \subseteq open[j]
    BY <1>12 DEF StabilityTimer, lifecycle, HasSession
  <2>. QED  BY <1>12, <1>a, <2>1 DEF StabilityTimer, lifecycle
<1>13. ASSUME NEW k \in Keys, NEW t \in open[k], TransportCloses(k, t) PROVE Goal
  <2>. DEFINE left == open[k] \ {t}
              gates == {gate \in teardowns[k] : ~gate.blocks \/ gate.signals \cap left # {}}
              freed == gates # teardowns[k] /\ ~(HasSession(k) \/ Starting(k)) /\ gates = {}
              pairs == IF freed THEN held \ {k} ELSE held
  <2>1. /\ open' = [open EXCEPT ![k] = left]
        /\ teardowns' = [teardowns EXCEPT ![k] = gates]
        /\ UNCHANGED <<start, gen, epoch, stops>>
    BY <1>13, Zenon DEF TransportCloses
  <2>2. \/ session' = session /\ held' = pairs
        \/ /\ session' = [session EXCEPT ![k] = NoSession] /\ IsCrash(k, t)
           /\ held' = pairs \/ held' = Released(pairs, k, gates)
    <3>1. CASE IsCrash(k, t)
      <4>1. /\ session' = [session EXCEPT ![k] = NoSession]
            /\ \/ ScheduleRestart(k, gen[k], pairs, gates)
               \/ held' = Released(pairs, k, gates)
        BY <1>13, <3>1, Zenon DEF TransportCloses
      <4>. HIDE DEF pairs, gates
      <4>. QED  BY <3>1, <4>1 DEF ScheduleRestart
    <3>2. CASE ~IsCrash(k, t)
      BY <1>13, <3>2, Zenon DEF TransportCloses
    <3>. QED  BY <3>1, <3>2
  <2>3. pairs = held \/ (pairs = held \ {k} /\ gates = {} /\ ~HasSession(k) /\ ~Starting(k))
    OBVIOUS
  <2>4. open'[k] \subseteq open[k] /\ teardowns'[k] = gates
    BY <2>1 DEF TypeOK
  <2>. HIDE DEF left, gates, pairs, freed
  <2>5. \/ held' = held
        \/ held' = held \ {k} /\ gates = {} /\ ~HasSession(k)' /\ ~Starting(k)
    <3>1. CASE session' = session /\ held' = pairs
      BY <2>3, <3>1 DEF HasSession
    <3>2. CASE /\ session' = [session EXCEPT ![k] = NoSession] /\ IsCrash(k, t)
               /\ held' = pairs \/ held' = Released(pairs, k, gates)
      <4>1. pairs = held /\ ~Starting(k) /\ ~HasSession(k)'
        BY <1>0, <2>3, <3>2 DEF IsCrash, HasSession, TypeOK
      <4>. QED  BY <3>2, <4>1, SlotChanges
    <3>. QED  BY <2>2, <3>1, <3>2
  <2>6. \A j \in Keys : /\ HasSession(j)' => HasSession(j)
                        /\ open'[j] \subseteq open[j]
    BY <2>1, <2>2, <2>4 DEF TypeOK, HasSession
  <2>7. \A j \in Keys : LivePair(j)' => LivePair(j)
    BY <2>6 DEF LivePair, Local
  <2>8. ASSUME NEW j \in Keys, j \in held => j \in held' PROVE SlotInv(j)'
    BY <2>1, <2>6, <2>8, SlotFrame
  <2>9. CASE k \in held /\ k \notin held'
    <3>1. teardowns'[k] = {} /\ ~HasSession(k)' /\ ~Starting(k) /\ ~Starting(k)'
      BY <2>1, <2>4, <2>5, <2>9 DEF Starting
    <3>2. ~LivePair(k)'
      <4>1. ~Attempting(k)'
        BY <3>1 DEF Attempting, Starting, NoStart
      <4>. QED  BY <1>0, <3>1, <4>1, NothingLives
    <3>3. SlotInv(k)'
      BY <2>1, <3>1, <3>2 DEF SlotInv, Local
    <3>4. \A j \in Keys \ {k} : SlotInv(j)'
      BY <2>5, <2>8
    <3>. QED  BY <2>5, <2>7, <3>3, <3>4 DEF Goal, Moves, Shrinks
  <2>10. CASE ~(k \in held /\ k \notin held')
    <3>1. \A j \in Keys : SlotInv(j)'
      BY <2>5, <2>8, <2>10
    <3>. QED  BY <2>5, <2>7, <3>1 DEF Goal, Moves, Shrinks
  <2>. QED  BY <2>9, <2>10
<1>14. ASSUME NEW k \in Keys, BeginRequest(k) \/ \E r \in requests[k] : EndRequest(k, r)
       PROVE Goal
  <2>1. /\ \/ HasSession(k) /\ session' = [session EXCEPT ![k] = Counted(k)]
           \/ \E r \in requests[k] : session' = [session EXCEPT ![k] = Finished(k, r)]
        /\ UNCHANGED <<start, gen, epoch, open, stops, held>>
    BY <1>14 DEF BeginRequest, EndRequest
  <2>2. \A r \in requests[k] : ~HasSession(k) => Finished(k, r) = session[k]
    BY DEF Finished
  <2>3. \A j \in Keys : (HasSession(j)' => HasSession(j)) /\ open'[j] \subseteq open[j]
    BY <2>1, <2>2 DEF HasSession, TypeOK
  <2>. QED  BY <1>a, <2>1, <2>3
<1>15. ASSUME UNCHANGED vars PROVE Goal
  BY <1>15, <1>a DEF vars, HasSession
<1>16. Goal
  BY <1>1, <1>2, <1>3, <1>4, <1>5, <1>6, <1>7, <1>8, <1>9, <1>10, <1>11, <1>12, <1>13,
     <1>14, <1>15 DEF Next, Progress, Environment
<1>. QED  BY <1>16 DEF Goal

\* ProfileCapacity counts as this module does: its FiniteSets is the same.
LEMMA SameCardinality == \A S : Capacity!Cardinality(S) = Cardinality(S)
BY DEF Capacity!Cardinality, Cardinality

\* A move of slots and live pairs is a step of the limiter's promise.
LEMMA MovesImplement ==
  ASSUME \A k \in Keys : SlotInv(k)', Moves
  PROVE  [Capacity!Next]_(Capacity!vars)
<1>1. Live' \subseteq held'
  BY DEF Live, SlotInv, LivePair
<1>2. CASE Shrinks
  <2>1. Live' \subseteq Live
    BY <1>2 DEF Shrinks, Live, LivePair
  <2>. QED  BY <1>1, <1>2, <2>1 DEF Shrinks, Capacity!Next, Capacity!Leave
<1>3. ASSUME NEW k \in Keys, Admits(k) PROVE Capacity!Next
  <2>1. Live' = Live
    BY <1>3 DEF Admits, Live, LivePair
  <2>2. HeldProfiles(held) = Capacity!ProfilesOf(held)
    BY DEF HeldProfiles, Profile, Capacity!ProfilesOf
  <2>3. \/ k[2] \in Capacity!ProfilesOf(held)
        \/ Capacity!Cardinality(Capacity!ProfilesOf(held)) < MaxProfiles
    BY <1>3, <2>2, SameCardinality DEF Admits, Fits, Profile
  <2>4. held' = held \cup {k}
    BY <1>3 DEF Admits
  <2>5. Capacity!Admit(k)
    BY <2>1, <2>3, <2>4 DEF Capacity!Admit
  <2>. QED  BY <2>5 DEF Capacity!Next, Capacity!Keys, Keys
<1>4. ASSUME NEW k \in Keys, Begins(k) PROVE Capacity!Next
  <2>1. Live' = Live \cup {k}
    BY <1>4 DEF Begins, Live, LivePair
  <2>2. Capacity!Begin(k)
    BY <1>4, <2>1 DEF Begins, Capacity!Begin
  <2>. QED  BY <2>2 DEF Capacity!Next, Capacity!Keys, Keys
<1>. QED  BY <1>2, <1>3, <1>4 DEF Moves

\* While nobody restarts a pair by hand, the managers implement the promise of
\* the limiter: what lives holds a slot, slots are taken within the bound, and
\* none is given back under a live session or child (ProfileSessionLimiter).
THEOREM CapacityImplemented ==
  ASSUME Budget["restart"] = 0
  PROVE  Spec => ImplementsCapacity
<1>. DEFINE Slots == \A k \in Keys : SlotInv(k)
            Inv == TypeOK /\ IInv /\ OrphanInv /\ OneTarget /\ Slots
<1>1. Init => OneTarget /\ Slots /\ Capacity!Init
  <2>. SUFFICES ASSUME Init PROVE OneTarget /\ Slots /\ Capacity!Init
    OBVIOUS
  <2>1. \A k \in Keys : ~LivePair(k) /\ ~Starting(k) /\ start[k].phase = "none" /\ stops[k] = {}
    BY DEF Init, LivePair, HasSession, Starting, NoStart
  <2>. QED
    BY <2>1 DEF Init, OneTarget, SlotInv, Capacity!Init, Live, LivePair
<1>2. Init => Inv
  BY <1>1, TypeInit, InvInit, OrphanInit
<1>3. Inv /\ [Next]_vars => Inv' /\ [Capacity!Next]_(Capacity!vars)
  BY TypeStep, InvStep, OrphanStep, NewStops, SlotStep, MovesImplement
<1>. HIDE DEF Inv, Slots
<1>. QED  BY <1>1, <1>2, <1>3, PTL DEF Spec, ImplementsCapacity, Capacity!Spec

-----------------------------------------------------------------------------
(* What the promise is worth: ProfileCapacity bounds the live profiles, so *)
(* the process managers do.                                                *)

\* The slots are bounded, and every live pair is on one of them.
SlotsBounded ==
  /\ Live \subseteq held
  /\ IsFiniteSet(Capacity!ProfilesOf(held))
  /\ Cardinality(Capacity!ProfilesOf(held)) <= MaxProfiles

LEMMA SameCount == \A S : Capacity!Cardinality(S) = Cardinality(S)
  BY DEF Cardinality, Capacity!Cardinality

\* One more pair adds at most its profile.
LEMMA ProfilesOfAdd ==
  ASSUME NEW pairs, NEW k
  PROVE  Capacity!ProfilesOf(pairs \cup {k}) = Capacity!ProfilesOf(pairs) \cup {k[2]}
BY DEF Capacity!ProfilesOf

\* Fewer pairs have no more profiles.
LEMMA ProfilesOfSubset ==
  ASSUME NEW pairs, NEW fewer, fewer \subseteq pairs,
         IsFiniteSet(Capacity!ProfilesOf(pairs))
  PROVE  /\ IsFiniteSet(Capacity!ProfilesOf(fewer))
         /\ Cardinality(Capacity!ProfilesOf(fewer)) <= Cardinality(Capacity!ProfilesOf(pairs))
<1>1. Capacity!ProfilesOf(fewer) \subseteq Capacity!ProfilesOf(pairs)
  BY DEF Capacity!ProfilesOf
<1>. QED  BY <1>1, FS_Subset

\* At most MaxProfiles profiles have a live session or child, and none lives off
\* a slot (ProfileSessionLimiter.acquire, release): for whatever keeps the
\* limiter's promise.
THEOREM CapacityHolds == Capacity!Spec => []Capacity!CapacityRespected
<1>. DEFINE Names(pairs) == Capacity!ProfilesOf(pairs)
<1>1. Capacity!Init => SlotsBounded
  <2>. SUFFICES ASSUME Capacity!Init PROVE SlotsBounded
    OBVIOUS
  <2>1. Names(held) = {}
    BY DEF Capacity!Init, Capacity!ProfilesOf
  <2>2. IsFiniteSet(Names(held)) /\ Cardinality(Names(held)) = 0
    BY <2>1, FS_EmptySet
  <2>3. MaxProfiles \in Nat
    BY ConstantsAssumption
  <2>. HIDE DEF Names
  <2>. QED  BY <2>2, <2>3 DEF Capacity!Init, SlotsBounded, Names
<1>2. SlotsBounded /\ [Capacity!Next]_(Capacity!vars) => SlotsBounded'
  <2>. SUFFICES ASSUME SlotsBounded, [Capacity!Next]_(Capacity!vars) PROVE SlotsBounded'
    OBVIOUS
  <2>1. ASSUME NEW k \in Capacity!Keys, Capacity!Admit(k) PROVE SlotsBounded'
    <3>1. Names(held') = Names(held) \cup {k[2]}
      BY <2>1, ProfilesOfAdd DEF Capacity!Admit
    <3>2. CASE k[2] \in Names(held)
      <4>1. Names(held') = Names(held)
        BY <3>1, <3>2
      <4>. QED  BY <2>1, <4>1 DEF SlotsBounded, Capacity!Admit, Capacity!ProfilesOf
    <3>3. CASE k[2] \notin Names(held)
      <4>1. /\ IsFiniteSet(Names(held'))
            /\ Cardinality(Names(held')) = Cardinality(Names(held)) + 1
        BY <3>1, <3>3, FS_AddElement DEF SlotsBounded
      <4>2. Cardinality(Names(held)) < MaxProfiles
        BY <2>1, <3>3, SameCount DEF Capacity!Admit
      <4>3. Cardinality(Names(held)) \in Nat /\ MaxProfiles \in Nat
        BY FS_CardinalityType, ConstantsAssumption DEF SlotsBounded
      <4>4. Cardinality(Names(held')) <= MaxProfiles
        BY <4>1, <4>2, <4>3
      <4>. QED  BY <2>1, <4>1, <4>4 DEF SlotsBounded, Capacity!Admit, Capacity!ProfilesOf
    <3>. QED  BY <3>2, <3>3
  <2>2. ASSUME NEW k \in Capacity!Keys, Capacity!Begin(k) PROVE SlotsBounded'
    BY <2>2 DEF Capacity!Begin, SlotsBounded, Capacity!ProfilesOf
  <2>3. CASE Capacity!Leave
    <3>1. /\ IsFiniteSet(Names(held'))
          /\ Cardinality(Names(held')) <= Cardinality(Names(held))
      BY <2>3, ProfilesOfSubset DEF Capacity!Leave, SlotsBounded
    <3>2. Cardinality(Names(held')) \in Nat /\ Cardinality(Names(held)) \in Nat /\ MaxProfiles \in Nat
      BY <3>1, FS_CardinalityType, ConstantsAssumption DEF SlotsBounded
    <3>3. Cardinality(Names(held')) <= MaxProfiles
      BY <3>1, <3>2 DEF SlotsBounded
    <3>. QED  BY <2>3, <3>1, <3>3 DEF Capacity!Leave, SlotsBounded, Capacity!ProfilesOf
  <2>4. CASE UNCHANGED Capacity!vars
    BY <2>4 DEF Capacity!vars, SlotsBounded, Capacity!ProfilesOf
  <2>. QED  BY <2>1, <2>2, <2>3, <2>4 DEF Capacity!Next
<1>3. SlotsBounded => Capacity!CapacityRespected
  <2>. SUFFICES ASSUME SlotsBounded PROVE Capacity!CapacityRespected
    OBVIOUS
  <2>1. /\ IsFiniteSet(Names(Live))
        /\ Cardinality(Names(Live)) <= Cardinality(Names(held))
    BY ProfilesOfSubset DEF SlotsBounded
  <2>2. Cardinality(Names(Live)) \in Nat /\ Cardinality(Names(held)) \in Nat /\ MaxProfiles \in Nat
    BY <2>1, FS_CardinalityType, ConstantsAssumption DEF SlotsBounded
  <2>3. Cardinality(Names(Live)) <= MaxProfiles
    BY <2>1, <2>2 DEF SlotsBounded
  <2>. QED  BY <2>3, SameCount DEF SlotsBounded, Capacity!CapacityRespected
<1>. QED  BY <1>1, <1>2, <1>3, PTL DEF Capacity!Spec

\* At most MaxProfiles profiles have a live session or child at any time, each
\* on its slot: the managers keep the promise that maxConcurrentProfiles makes.
\* As in CapacityImplemented, without a manual restart.
THEOREM CapacityKept ==
  ASSUME Budget["restart"] = 0
  PROVE  Spec => []Capacity!CapacityRespected
<1>1. Spec => Capacity!Spec
  BY CapacityImplemented DEF ImplementsCapacity
<1>. QED  BY <1>1, CapacityHolds, PTL

-----------------------------------------------------------------------------
(* Slots are given back.                                                   *)
(*                                                                         *)
(* Whoever takes the last thing of a pair away releases its slot, except   *)
(* behind a gate, for the restart that waits or for the retry that it      *)
(* schedules; a stop that gives up on a child does so behind a gate that   *)
(* covers it.  An automatic start that a stop has overtaken is the one     *)
(* that does not, and what it leaves behind is no step's fault afterwards. *)

\* Something of the pair is there or under way.
Busy(k) == \/ HasSession(k) \/ Starting(k) \/ teardowns[k] # {} \/ stops[k] # {}
           \/ manual[k] # "none" \/ automatic[k] # NoTimer

\* A pair at rest holds a slot; a stop overtook its automatic start.
Loose(k) == ~closed /\ k \in held /\ ~Busy(k)
Overtaken(k) == start[k].source = "automatic" /\ gen[k] # start[k].gen
GivesBack(k) == Loose(k)' => Loose(k) \/ Overtaken(k)

\* A transport of a start that has connected.
Seen(k, t) ==
  t <= epoch[k] /\ (start[k].phase \in {"preparing", "refused"} => t # epoch[k])

\* The stops and gates speak of transports that have been, and the child that a
\* stop waits for is behind a gate.
RestInv(k) ==
  /\ manual[k] = "starting" => start[k].source = "manual"
  /\ HasSession(k) => session[k].token # 0
  /\ Starting(k) => epoch[k] # 0
  /\ start[k].phase = "authorizing" => ~Local(k)
  /\ ~Local(k) => teardowns[k] = {} /\ \A s \in stops[k] : s.signals = {}
  /\ \A s \in stops[k] : /\ s.reason = "restart" => manual[k] = "stopping"
                         /\ ~s.frees => s.reason = "restart"
                         /\ \A t \in s.signals : Seen(k, t) /\ (t \in open[k] => Covered(k, t))
  /\ \A gate \in teardowns[k] : \A t \in gate.signals : Seen(k, t)

RestInvs == \A k \in Keys : RestInv(k) /\ CountInv(k)

\* A pair that a step leaves alone stays as it is.
LEMMA RestFrame ==
  ASSUME NEW k \in Keys, RestInv(k),
         HasSession(k)' = HasSession(k), session'[k].token = session[k].token,
         start'[k] = start[k], epoch'[k] = epoch[k], open'[k] \subseteq open[k],
         teardowns'[k] = teardowns[k], stops'[k] = stops[k], manual'[k] = manual[k],
         automatic'[k] = automatic[k], closed' \in {closed, TRUE}, k \in held' => k \in held
  PROVE  RestInv(k)' /\ GivesBack(k)
<1>1. Starting(k)' = Starting(k) /\ \A t : Seen(k, t)' = Seen(k, t) /\ Covered(k, t)' = Covered(k, t)
  BY DEF Starting, Seen, Covered
<1>2. RestInv(k)'
  BY <1>1 DEF RestInv, Local
<1>3. Busy(k)' = Busy(k)
  BY <1>1 DEF Busy
<1>4. GivesBack(k)
  BY <1>3 DEF GivesBack, Loose
<1>. QED  BY <1>2, <1>4

\* A gate that a stop shares or installs covers the signals of its lease.
LEMMA LeaseCovered ==
  ASSUME NEW gates, NEW signals
  PROVE  \A t \in GateSignals(gates, signals) :
           \E gate \in WithGate(gates, signals) : t \in gate.signals
<1>1. CASE signals = {} \/ Covering(gates, signals) = {}
  BY <1>1, WithGateCovers DEF GateSignals
<1>2. CASE ~(signals = {} \/ Covering(gates, signals) = {})
  <2>1. (CHOOSE gate \in Covering(gates, signals) : TRUE) \in Covering(gates, signals)
    BY <1>2
  <2>2. PICK gate \in gates : GateSignals(gates, signals) = gate.signals
    BY <1>2, <2>1 DEF GateSignals, Covering
  <2>. QED  BY <2>2, WithGateCovers
<1>. QED  BY <1>1, <1>2

\* A gate comes from before or has the signals of the stop.
LEMMA WithGateIs ==
  ASSUME NEW gates, NEW signals
  PROVE  /\ \A gate \in WithGate(gates, signals) : gate \in gates \/ gate.signals = signals
         /\ signals = {} => WithGate(gates, signals) = gates
BY DEF WithGate, OwnsGate

\* The end of a failed start gives the slot back, unless a gate is left, a retry
\* is scheduled, a restart waits or a stop overtook the automatic start.
LEMMA FailStartRests ==
  ASSUME TypeOK, NEW k \in Keys, NEW gates, FailStart(k, gates), RestInv(k)
  PROVE  /\ k \in held' => \/ gates # {} \/ automatic'[k] # NoTimer
                           \/ closed \/ Overtaken(k) \/ manual[k] \notin {"none", "starting"}
         /\ held' \subseteq held \cup {k}
         /\ automatic' = automatic \/ \E x : automatic' = [automatic EXCEPT ![k] = x]
<1>. DEFINE s == start[k]
            retry == s.source = "automatic" /\ CanRetry(k)
            pairs == IF Blocking(gates) THEN held
                     ELSE IF ~retry THEN Released(held, k, gates)
                     ELSE IF ~s.fresh THEN Acquired(held, k) ELSE held
<1>1. /\ pairs \subseteq held \cup {k}
      /\ ~retry /\ k \in pairs => gates # {}
      /\ retry => s.source = "automatic" /\ RestartOnCrash
  BY DEF Blocking, Released, Acquired, CanRetry
<1>2. s.gen \in Nat /\ (s.source = "automatic" => manual[k] # "starting")
  BY DEF TypeOK, Starts, RestInv
<1>3. \/ /\ ~IsCurrent(k, s.gen) \/ s.source # "automatic"
         /\ held' = pairs /\ automatic' = automatic
      \/ s.source = "automatic" /\ ScheduleRestart(k, s.gen, pairs, gates)
  BY Zenon DEF FailStart
<1>4. Overtaken(k) <=> s.source = "automatic" /\ gen[k] # s.gen
  BY DEF Overtaken
<1>. HIDE DEF pairs, retry, s
<1>5. CASE /\ ~IsCurrent(k, s.gen) \/ s.source # "automatic"
           /\ held' = pairs /\ automatic' = automatic
  BY <1>1, <1>4, <1>5 DEF IsCurrent
<1>6. CASE s.source = "automatic" /\ ScheduleRestart(k, s.gen, pairs, gates)
  <2>1. \/ /\ ~RestartOnCrash \/ manual[k] # "none"
           /\ held' = pairs /\ automatic' = automatic
        \/ /\ held' = Released(pairs, k, gates)
           /\ automatic' = [automatic EXCEPT ![k] = NoTimer]
        \/ /\ held' = pairs /\ automatic' = [automatic EXCEPT ![k] = s.gen]
    BY <1>6 DEF ScheduleRestart
  <2>2. CASE held' = Released(pairs, k, gates) /\ automatic' = [automatic EXCEPT ![k] = NoTimer]
    BY <1>1, <2>2 DEF Released
  <2>3. CASE held' = pairs /\ automatic' = [automatic EXCEPT ![k] = s.gen]
    <3>1. automatic'[k] = s.gen /\ s.gen # NoTimer
      BY <1>2, <2>3 DEF TypeOK, NoTimer
    <3>. QED  BY <1>1, <2>3, <3>1
  <2>4. CASE /\ ~RestartOnCrash \/ manual[k] # "none"
             /\ held' = pairs /\ automatic' = automatic
    BY <1>1, <1>2, <1>6, <2>4
  <2>. QED  BY <2>1, <2>2, <2>3, <2>4
<1>. QED  BY <1>3, <1>5, <1>6

\* The end of a failed start, for its pair.
LEMMA RestFails ==
  ASSUME TypeOK, NEW k \in Keys, NEW gates, FailStart(k, gates),
         RestInv(k), UNCHANGED <<session, epoch, stops, closed>>,
         open'[k] \subseteq open[k], ~Local(k) => gates = {},
         \A gate \in gates : \A t \in gate.signals : t <= epoch[k],
         \A t \in open'[k] : Covered(k, t) => \E gate \in gates : t \in gate.signals
  PROVE  RestInv(k)' /\ GivesBack(k)
<1>1. /\ start'[k] = NoStart /\ teardowns'[k] = gates
      /\ manual'[k] = IF manual[k] = "starting" THEN "none" ELSE manual[k]
  BY DEF FailStart, SettleStart, TypeOK
<1>2. k \in held' => \/ gates # {} \/ automatic'[k] # NoTimer
                     \/ closed \/ Overtaken(k) \/ manual[k] \notin {"none", "starting"}
  BY FailStartRests
<1>3. GivesBack(k)
  BY <1>1, <1>2 DEF GivesBack, Loose, Busy
<1>4. start'[k].phase = "none" /\ ~Starting(k)'
  BY <1>1 DEF NoStart, Starting
<1>5. \A t : t <= epoch[k] => Seen(k, t)'
  BY <1>4 DEF Seen
<1>6. \A t \in open'[k] : Covered(k, t) => Covered(k, t)'
  BY <1>1 DEF Covered
<1>7. \A s \in stops[k] : /\ s.reason = "restart" => manual'[k] = "stopping"
                          /\ ~s.frees => s.reason = "restart"
                          /\ \A t \in s.signals : Seen(k, t)' /\ (t \in open'[k] => Covered(k, t)')
  BY <1>1, <1>5, <1>6 DEF RestInv, Seen
<1>. QED  BY <1>1, <1>2, <1>3, <1>4, <1>5, <1>7 DEF RestInv, HasSession, Local

\* The beginning of a start, for its pair.
LEMMA RestBegins ==
  ASSUME TypeOK, NEW k \in Keys, NEW source, BeginStart(k, source), RestInv(k), ~Starting(k),
         manual'[k] = manual[k] \/ (source = "manual" /\ ~\E s \in stops[k] : s.reason = "restart"),
         UNCHANGED <<session, open, teardowns, stops, closed>>
  PROVE  RestInv(k)' /\ GivesBack(k)
<1>1. /\ epoch'[k] = epoch[k] + 1 /\ epoch[k] \in Nat
      /\ start'[k].phase \in {"preparing", "refused"}
  BY DEF BeginStart, TypeOK
<1>2. Starting(k)'
  BY <1>1 DEF Starting, NoStart
<1>3. \A t \in Nat : Seen(k, t) => Seen(k, t)'
  BY <1>1 DEF Seen
<1>4. /\ \A s \in stops[k] : s.signals \in SUBSET Nat
      /\ \A gate \in teardowns[k] : gate.signals \in SUBSET Nat
  BY DEF TypeOK, Stops, Teardowns
<1>5. \A t : Covered(k, t)' = Covered(k, t)
  BY DEF Covered
<1>6. \A s \in stops[k] : /\ s.reason = "restart" => manual'[k] = "stopping"
                          /\ ~s.frees => s.reason = "restart"
                          /\ \A t \in s.signals : Seen(k, t)' /\ (t \in open'[k] => Covered(k, t)')
  BY <1>3, <1>4, <1>5 DEF RestInv
<1>7. \A gate \in teardowns[k] : \A t \in gate.signals : Seen(k, t)'
  BY <1>3, <1>4 DEF RestInv
<1>8. manual'[k] = "starting" => start'[k].source = "manual"
  BY DEF BeginStart, RestInv, Starting, NoStart, TypeOK
<1>9. GivesBack(k)
  BY <1>2 DEF GivesBack, Loose, Busy
<1>. QED  BY <1>1, <1>2, <1>6, <1>7, <1>8, <1>9 DEF RestInv, HasSession, Local

\* A start that goes on to its next phase, for its pair: the transport that it
\* opens is not one that a stop or a gate knows of.
LEMMA RestAdvances ==
  ASSUME TypeOK, NEW k \in Keys, RestInv(k),
         Prepared(k) \/ Unauthorized(k) \/ Authorized(k) \/ ConnectFails(k)
  PROVE  RestInv(k)' /\ GivesBack(k)
<1>1. /\ UNCHANGED <<session, epoch, stops, held, manual, automatic, closed>>
      /\ Starting(k)
  BY PhaseStarting DEF Prepared, Unauthorized, Authorized, ConnectFails, recovery
<1>2. HasSession(k)' = HasSession(k)
  BY <1>1 DEF HasSession
<1>a. start'[k].source = start[k].source
  BY DEF Prepared, Unauthorized, Authorized, ConnectFails, TypeOK, Starts
<1>b. Starting(k)' => GivesBack(k)
  BY DEF GivesBack, Loose, Busy
<1>3. CASE Prepared(k)
  <2>1. /\ start[k].phase = "preparing" /\ start'[k].phase = "connecting"
        /\ open'[k] = open[k] \cup {epoch[k]} /\ teardowns' = teardowns
    BY <1>3 DEF Prepared, TypeOK, Starts
  <2>2. \A t : /\ Seen(k, t) => Seen(k, t)' /\ t # epoch[k]
               /\ Covered(k, t)' = Covered(k, t)
    BY <1>1, <2>1 DEF Seen, Covered
  <2>3. Starting(k)'
    BY <2>1 DEF Starting, NoStart
  <2>. QED  BY <1>1, <1>2, <1>a, <1>b, <2>1, <2>2, <2>3 DEF RestInv, Local
<1>4. CASE Unauthorized(k) \/ Authorized(k)
  <2>1. /\ ~Local(k) /\ teardowns' = teardowns
        /\ start'[k].phase \in {"authorizing", "reconnecting"}
    BY <1>4, ConstantsAssumption DEF Unauthorized, Authorized, Local, RestInv, TypeOK, Starts
  <2>2. Starting(k)'
    BY <2>1 DEF Starting, NoStart
  <2>. QED  BY <1>1, <1>2, <1>a, <1>b, <2>1, <2>2 DEF RestInv, Local
<1>5. CASE ConnectFails(k)
  <2>. DEFINE signals == LocalSignals(k, {epoch[k]})
  <2>1. /\ start[k].phase \in {"connecting", "authorizing", "reconnecting"}
        /\ start'[k].phase = "cleaning" /\ open' = open
        /\ teardowns'[k] = WithGate(teardowns[k], signals)
    BY <1>5 DEF ConnectFails, TypeOK, Starts
  <2>2. signals \subseteq {epoch[k]} /\ (~Local(k) => signals = {})
    BY DEF LocalSignals
  <2>. HIDE DEF signals
  <2>3. epoch[k] <= epoch[k]
    BY DEF TypeOK
  <2>4. Starting(k)'
    BY <2>1 DEF Starting, NoStart
  <2>5. \A t : /\ Seen(k, t) \/ t = epoch[k] => Seen(k, t)'
               /\ Covered(k, t) => Covered(k, t)'
    BY <1>1, <2>1, <2>3, WithGateCovers DEF Seen, Covered
  <2>6. \A s \in stops[k] : /\ s.reason = "restart" => manual[k] = "stopping"
                            /\ ~s.frees => s.reason = "restart"
                            /\ \A t \in s.signals : Seen(k, t)' /\ (t \in open[k] => Covered(k, t)')
    BY <2>5 DEF RestInv
  <2>7. \A gate \in teardowns'[k] : \A t \in gate.signals : Seen(k, t)'
    BY <2>1, <2>2, <2>5, WithGateIs DEF RestInv
  <2>8. ~Local(k) => teardowns'[k] = {}
    BY <2>1, <2>2, WithGateIs DEF RestInv
  <2>. QED  BY <1>1, <1>2, <1>a, <1>b, <2>1, <2>4, <2>6, <2>7, <2>8 DEF RestInv, Local
<1>. QED  BY <1>3, <1>4, <1>5

\* A start that becomes the session, for its pair.
LEMMA RestConnects ==
  ASSUME TypeOK, NEW k \in Keys, RestInv(k), Connected(k)
  PROVE  RestInv(k)' /\ GivesBack(k)
<1>1. /\ start[k].phase \in {"connecting", "reconnecting"} /\ Starting(k)
      /\ start' = [start EXCEPT ![k] = NoStart]
      /\ manual' = [manual EXCEPT ![k] = IF @ = "starting" THEN "none" ELSE @]
      /\ session' = [session EXCEPT ![k] =
           [token |-> epoch[k], gen |-> start[k].gen, inFlight |-> 0]]
      /\ UNCHANGED <<epoch, open, teardowns, stops, held, automatic, closed>>
  BY PhaseStarting DEF Connected, SettleStart
<1>2. /\ start'[k] = NoStart /\ session'[k].token = epoch[k] /\ epoch[k] # 0
      /\ manual[k] = "stopping" => manual'[k] = "stopping"
  BY <1>1 DEF TypeOK, RestInv
<1>3. HasSession(k)' /\ ~Starting(k)' /\ start'[k].phase = "none"
  BY <1>2 DEF HasSession, NoSession, Starting, NoStart
<1>4. \A t : (Seen(k, t) => Seen(k, t)') /\ Covered(k, t)' = Covered(k, t)
  BY <1>1, <1>3 DEF Seen, Covered
<1>5. GivesBack(k)
  BY <1>3 DEF GivesBack, Loose, Busy
<1>6. manual'[k] # "starting"
  BY <1>1 DEF TypeOK
<1>. QED  BY <1>1, <1>2, <1>3, <1>4, <1>5, <1>6 DEF RestInv, Local

\* The beginning of a stop: what a pair still waits for, or the restart that
\* has asked for the stop, keeps it busy; otherwise its slot is given back.
LEMMA RestStopBegins ==
  ASSUME TypeOK, NEW K \in SUBSET Keys, NEW reason, NEW frees \in BOOLEAN,
         BeginStop(K, reason, frees), NEW k \in Keys, RestInv(k), CountInv(k),
         IF frees THEN reason # "restart" /\ manual'[k] = manual[k]
         ELSE reason = "restart" /\ manual'[k] = IF k \in K THEN "stopping" ELSE manual[k],
         k \notin K => automatic'[k] = automatic[k], closed' \in {closed, TRUE},
         UNCHANGED <<start, epoch, open>>
  PROVE  RestInv(k)' /\ GivesBack(k)
<1>. DEFINE waits == {j \in K : HasSession(j) \/ Attempting(j)}
            skipped == {j \in K \ waits : teardowns[j] # {}}
            ended == K \ (waits \cup skipped)
            attempt(j) == IF Attempting(j) THEN epoch[j] ELSE 0
            signals(j) == LocalSignals(j, {session[j].token, attempt(j)})
            stop(j) == [reason |-> reason, frees |-> frees, epoch |-> epoch[j],
                        entry |-> session[j].token, attempt |-> attempt(j),
                        signals |-> GateSignals(teardowns[j], signals(j)),
                        owns |-> OwnsGate(teardowns[j], signals(j))]
<1>1. /\ session' = [j \in Keys |-> IF j \in K THEN NoSession ELSE session[j]]
      /\ teardowns' = [j \in Keys |-> IF j \in waits
                                      THEN WithGate(teardowns[j], signals(j))
                                      ELSE teardowns[j]]
      /\ stops' = [j \in Keys |-> IF j \in waits THEN stops[j] \cup {stop(j)} ELSE stops[j]]
      /\ held' = IF frees THEN held \ ended ELSE held
  BY Zenon DEF BeginStop
<1>2. /\ stop(k).signals = GateSignals(teardowns[k], signals(k))
      /\ stop(k).reason = reason /\ stop(k).frees = frees
  OBVIOUS
<1>3. /\ k \in waits \/ k \in skipped \/ k \in ended \/ k \notin K
      /\ k \in ended => k \notin waits /\ k \in K
      /\ k \in skipped => teardowns[k] # {} /\ k \notin waits
      /\ k \in waits => k \in K
  OBVIOUS
<1>4. /\ ~Local(k) => signals(k) = {}
      /\ \A t \in signals(k) :
           t # 0 /\ (t = session[k].token \/ (Attempting(k) /\ t = epoch[k]))
  BY DEF LocalSignals
<1>. HIDE DEF waits, skipped, ended, attempt, signals, stop
<1>5. /\ Starting(k)' = Starting(k) /\ \A t : Seen(k, t)' = Seen(k, t)
      /\ manual[k] = "stopping" => manual'[k] = "stopping"
      /\ manual[k] # "none" => manual'[k] # "none"
      /\ manual'[k] = "starting" => manual[k] = "starting"
      /\ HasSession(k)' => HasSession(k) /\ session'[k].token # 0 /\ k \notin K
      /\ held' \subseteq held
  BY <1>1 DEF Starting, Seen, HasSession, RestInv
<1>6. CASE k \notin waits
  <2>1. teardowns'[k] = teardowns[k] /\ stops'[k] = stops[k]
    BY <1>1, <1>6
  <2>2. \A t : Covered(k, t)' = Covered(k, t)
    BY <2>1 DEF Covered
  <2>3. GivesBack(k)
    <3>. SUFFICES ASSUME ~closed', k \in held', ~Loose(k) PROVE Busy(k)'
      BY DEF GivesBack, Loose
    <3>1. CASE k \in skipped
      BY <1>3, <2>1, <3>1 DEF Busy
    <3>2. CASE k \in ended
      BY <1>1, <1>3, <3>2 DEF Busy
    <3>3. CASE k \notin K
      <4>1. HasSession(k)' = HasSession(k)
        BY <1>1, <3>3 DEF HasSession
      <4>2. ~closed
        OBVIOUS
      <4>3. Busy(k)
        BY <1>5, <4>2 DEF Loose
      <4>. QED  BY <1>5, <2>1, <3>3, <4>1, <4>3 DEF Busy
    <3>. QED  BY <1>3, <1>6, <3>1, <3>2, <3>3
  <2>. QED  BY <1>5, <2>1, <2>2, <2>3 DEF RestInv, Local
<1>7. CASE k \in waits
  <2>1. /\ teardowns'[k] = WithGate(teardowns[k], signals(k))
        /\ stops'[k] = stops[k] \cup {stop(k)} /\ k \in K
    BY <1>1, <1>3, <1>7
  <2>2. \A t \in signals(k) : Seen(k, t)
    <3>. SUFFICES ASSUME NEW t \in signals(k) PROVE Seen(k, t)
      OBVIOUS
    <3>1. CASE Attempting(k) /\ t = epoch[k]
      BY <3>1 DEF Attempting, Seen, TypeOK
    <3>2. CASE t = session[k].token
      <4>1. HasSession(k)
        BY <1>4, <3>2 DEF HasSession, NoSession
      <4>2. start[k].phase \in {"preparing", "refused"} => Starting(k)
        BY DEF Starting, NoStart
      <4>. QED  BY <3>2, <4>1, <4>2 DEF CountInv, Seen
    <3>. QED  BY <1>4, <3>1, <3>2
  <2>3. \A t \in stop(k).signals : Seen(k, t)
    <3>1. \A t \in GateSignals(teardowns[k], signals(k)) :
            t \in signals(k) \/ Covered(k, t)
      <4>. SUFFICES ASSUME NEW t \in GateSignals(teardowns[k], signals(k)), t \notin signals(k)
                    PROVE Covered(k, t)
        OBVIOUS
      <4>1. ~(signals(k) = {} \/ Covering(teardowns[k], signals(k)) = {})
        BY DEF GateSignals
      <4>2. (CHOOSE gate \in Covering(teardowns[k], signals(k)) : TRUE)
              \in Covering(teardowns[k], signals(k))
        BY <4>1
      <4>. QED  BY <4>1, <4>2 DEF GateSignals, Covering, Covered
    <3>. QED  BY <1>2, <2>2, <3>1 DEF Covered, RestInv
  <2>4. \A t \in stop(k).signals : Covered(k, t)'
    BY <1>2, <2>1, LeaseCovered DEF Covered
  <2>5. \A t : Covered(k, t) => Covered(k, t)'
    BY <2>1, WithGateCovers DEF Covered
  <2>6. \A gate \in teardowns'[k] : \A t \in gate.signals : Seen(k, t)
    BY <2>1, <2>2, WithGateIs DEF RestInv
  <2>7. ~Local(k) => teardowns'[k] = {} /\ \A s \in stops'[k] : s.signals = {}
    BY <1>2, <1>4, <2>1, WithGateIs DEF RestInv, GateSignals
  <2>8. \A s \in stops'[k] : /\ s.reason = "restart" => manual'[k] = "stopping"
                             /\ ~s.frees => s.reason = "restart"
    BY <1>2, <1>5, <2>1 DEF RestInv
  <2>9. \A s \in stops'[k] : \A t \in s.signals : Seen(k, t) /\ (t \in open[k] => Covered(k, t)')
    BY <2>1, <2>3, <2>4, <2>5 DEF RestInv
  <2>10. GivesBack(k)
    BY <2>1 DEF GivesBack, Loose, Busy
  <2>. QED  BY <1>5, <2>6, <2>7, <2>8, <2>9, <2>10 DEF RestInv, Local
<1>. QED  BY <1>6, <1>7

\* The end of a stop: a child it gives up on stays behind a gate.
LEMMA RestStopEnds ==
  ASSUME TypeOK, NEW k \in Keys, RestInv(k), NEW s \in stops[k], StopStep(k, s)
  PROVE  RestInv(k)' /\ GivesBack(k)
<1>1. /\ UNCHANGED <<session, start, epoch, manual, automatic, closed>>
      /\ open'[k] \subseteq open[k]
  <2>1. open' = open \/ \E t : open' = [open EXCEPT ![k] = @ \ {t}]
    BY Zenon DEF StopStep
  <2>2. open'[k] \subseteq open[k]
    BY <2>1 DEF TypeOK
  <2>. QED  BY <2>2 DEF StopStep, recovery
<1>2. /\ HasSession(k)' = HasSession(k) /\ Starting(k)' = Starting(k)
      /\ \A t : Seen(k, t)' = Seen(k, t)
  BY <1>1 DEF HasSession, Starting, Seen
<1>3. CASE s.entry # 0 /\ s.attempt # 0
  <2>. DEFINE u == [s EXCEPT !.entry = 0]
  <2>1. /\ stops' = [stops EXCEPT ![k] = (@ \ {s}) \cup {u}]
        /\ UNCHANGED <<teardowns, held>>
    BY <1>3 DEF StopStep
  <2>2. u.reason = s.reason /\ u.frees = s.frees /\ u.signals = s.signals
    BY DEF TypeOK, Stops
  <2>. HIDE DEF u
  <2>3. stops'[k] = (stops[k] \ {s}) \cup {u}
    BY <2>1 DEF TypeOK
  <2>4. GivesBack(k)
    BY <2>3 DEF GivesBack, Loose, Busy
  <2>5. \A t : Covered(k, t)' = Covered(k, t)
    BY <2>1 DEF Covered
  <2>. QED  BY <1>1, <1>2, <2>1, <2>2, <2>3, <2>4, <2>5 DEF RestInv, Local
<1>4. CASE ~(s.entry # 0 /\ s.attempt # 0)
  <2>. DEFINE gates == SettledGates(k, s.signals, s.owns)
  <2>0. FinishStop(k, s)
    BY <1>4 DEF StopStep
  <2>1. /\ stops' = [stops EXCEPT ![k] = @ \ {s}]
        /\ teardowns' = [teardowns EXCEPT ![k] = gates]
        /\ held' = IF \/ Superseded(k, s) /\ ~HasSession(k) /\ ~Starting(k)
                      \/ ~Superseded(k, s) /\ Reaped(k, s.signals) /\ s.frees
                   THEN Released(held, k, gates) ELSE held
    BY <2>0, Zenon DEF FinishStop
  <2>2. s.owns \in BOOLEAN
    BY DEF TypeOK, Stops
  <2>3. /\ \A t \in open[k] : Covered(k, t) => \E gate \in gates : t \in gate.signals
        /\ \A gate \in gates : gate \in teardowns[k] \/ gate.signals = s.signals
        /\ teardowns[k] = {} /\ s.signals = {} => gates = {}
    <3>1. \A t \in open[k] : Covered(k, t) => \E gate \in gates : t \in gate.signals
      BY <2>2, SettledGatesCover
    <3>2. \A gate \in gates : gate \in teardowns[k] \/ gate.signals = s.signals
      BY DEF SettledGates
    <3>3. teardowns[k] = {} /\ s.signals = {} => gates = {}
      BY DEF SettledGates, Reaped
    <3>. QED  BY <3>1, <3>2, <3>3
  <2>. HIDE DEF gates
  <2>4. stops'[k] = stops[k] \ {s} /\ teardowns'[k] = gates
    BY <2>1 DEF TypeOK
  <2>5. \A t \in open'[k] : Covered(k, t) => Covered(k, t)'
    BY <1>1, <2>3, <2>4 DEF Covered
  <2>6. k \in held' => (k \in held /\ Busy(k)') \/ closed
    <3>. SUFFICES ASSUME k \in held', ~closed PROVE k \in held /\ Busy(k)'
      OBVIOUS
    <3>1. k \in held
      BY <2>1 DEF Released
    <3>2. CASE Superseded(k, s) /\ ~HasSession(k) /\ ~Starting(k)
      BY <2>1, <2>4, <3>1, <3>2 DEF Released, Busy
    <3>3. CASE Superseded(k, s) /\ (HasSession(k) \/ Starting(k))
      BY <1>2, <3>1, <3>3 DEF Busy
    <3>4. CASE ~Superseded(k, s) /\ ~Reaped(k, s.signals)
      <4>1. PICK t \in s.signals : t \in open[k]
        BY <3>4 DEF Reaped
      <4>2. Covered(k, t)
        BY <4>1 DEF RestInv
      <4>3. gates # {}
        BY <2>3, <4>1, <4>2
      <4>. QED  BY <2>4, <3>1, <4>3 DEF Busy
    <3>5. CASE ~Superseded(k, s) /\ Reaped(k, s.signals) /\ s.frees
      BY <2>1, <2>4, <3>1, <3>5 DEF Released, Busy
    <3>6. CASE ~s.frees
      <4>1. manual[k] = "stopping"
        BY <3>6 DEF RestInv
      <4>. QED  BY <1>1, <3>1, <4>1 DEF Busy
    <3>. QED  BY <3>2, <3>3, <3>4, <3>5, <3>6
  <2>7. \A gate \in gates : \A t \in gate.signals : Seen(k, t)
    BY <2>3 DEF RestInv
  <2>8. ~Local(k) => gates = {}
    BY <2>3 DEF RestInv
  <2>9. \A v \in stops[k] : /\ v.reason = "restart" => manual[k] = "stopping"
                            /\ ~v.frees => v.reason = "restart"
                            /\ \A t \in v.signals : Seen(k, t) /\ (t \in open'[k] => Covered(k, t)')
    BY <1>1, <2>5 DEF RestInv
  <2>10. GivesBack(k)
    BY <1>1, <2>6 DEF GivesBack, Loose
  <2>. QED  BY <1>1, <1>2, <2>4, <2>7, <2>8, <2>9, <2>10 DEF RestInv, Local
<1>. QED  BY <1>3, <1>4

\* The close of a transport, for its pair: it ends only gates that speak of no
\* other child, and with the last of them the slot is given back.
LEMMA RestCloses ==
  ASSUME TypeOK, NEW k \in Keys, RestInv(k),
         NEW t \in open[k], TransportCloses(k, t)
  PROVE  RestInv(k)' /\ GivesBack(k)
<1>. DEFINE left == open[k] \ {t}
            gates == {gate \in teardowns[k] : ~gate.blocks \/ gate.signals \cap left # {}}
            freed == gates # teardowns[k] /\ ~(HasSession(k) \/ Starting(k)) /\ gates = {}
            pairs == IF freed THEN held \ {k} ELSE held
<1>1. /\ open' = [open EXCEPT ![k] = left]
      /\ teardowns' = [teardowns EXCEPT ![k] = gates]
      /\ UNCHANGED <<start, epoch, stops, manual, closed>>
  BY Zenon DEF TransportCloses
<1>2. \/ session' = session /\ held' = pairs /\ automatic' = automatic
      \/ /\ session' = [session EXCEPT ![k] = NoSession]
         /\ \/ held' = Released(pairs, k, gates)
            \/ ScheduleRestart(k, gen[k], pairs, gates) /\ RestartOnCrash
  BY Zenon DEF TransportCloses, recovery
<1>3. /\ gates \subseteq teardowns[k]
      /\ \A d \in left : Covered(k, d) => \E gate \in gates : d \in gate.signals
      /\ pairs \subseteq held /\ (gates # {} => pairs = held)
      /\ pairs # held => gates = {}
      /\ k \in pairs => gates = teardowns[k] \/ HasSession(k) \/ Starting(k) \/ gates # {}
  BY DEF Covered
<1>4. open'[k] = left /\ left \subseteq open[k] /\ teardowns'[k] = gates
  BY <1>1 DEF TypeOK
<1>. HIDE DEF left, gates, freed, pairs
<1>5. /\ Starting(k)' = Starting(k) /\ \A d : Seen(k, d)' = Seen(k, d)
      /\ \A d \in open'[k] : Covered(k, d) => Covered(k, d)'
  BY <1>1, <1>3, <1>4 DEF Starting, Seen, Covered
<1>6. HasSession(k)' => session'[k].token # 0
  BY <1>2 DEF RestInv, HasSession, TypeOK
<1>7. GivesBack(k)
  <2>. SUFFICES ASSUME k \in held', ~closed, ~Loose(k) PROVE Busy(k)'
    BY <1>1 DEF GivesBack, Loose
  <2>1. CASE session' = session /\ held' = pairs /\ automatic' = automatic
    <3>1. HasSession(k)' = HasSession(k) /\ Busy(k)
      BY <1>3, <2>1 DEF HasSession, Loose
    <3>. QED  BY <1>1, <1>3, <1>4, <1>5, <2>1, <3>1 DEF Busy
  <2>2. CASE held' = Released(pairs, k, gates)
    BY <1>4, <2>2 DEF Released, Busy
  <2>3. CASE ScheduleRestart(k, gen[k], pairs, gates) /\ RestartOnCrash
    <3>1. \/ manual[k] # "none"
          \/ held' = Released(pairs, k, gates)
          \/ automatic' = [automatic EXCEPT ![k] = gen[k]]
      BY <2>3 DEF ScheduleRestart
    <3>2. CASE automatic' = [automatic EXCEPT ![k] = gen[k]]
      <4>1. automatic'[k] = gen[k] /\ gen[k] # NoTimer
        BY <3>2 DEF TypeOK, NoTimer
      <4>. QED  BY <4>1 DEF Busy
    <3>3. CASE manual[k] # "none"
      BY <1>1, <3>3 DEF Busy
    <3>. QED  BY <2>2, <3>1, <3>2, <3>3
  <2>. QED  BY <1>2, <2>1, <2>2, <2>3
<1>8. \A s \in stops[k] : /\ s.reason = "restart" => manual[k] = "stopping"
                          /\ ~s.frees => s.reason = "restart"
                          /\ \A d \in s.signals : Seen(k, d) /\ (d \in open'[k] => Covered(k, d)')
  BY <1>4, <1>5 DEF RestInv
<1>. QED  BY <1>1, <1>2, <1>3, <1>4, <1>5, <1>6, <1>7, <1>8 DEF RestInv, Local

\* The other pairs of a step that concerns k.
LEMMA RestOthers ==
  ASSUME NEW k \in Keys, \A j \in Keys : RestInv(j), RestInv(k)', GivesBack(k),
         \A j \in Keys \ {k} :
           /\ session'[j] = session[j] /\ start'[j] = start[j] /\ epoch'[j] = epoch[j]
           /\ open'[j] = open[j] /\ teardowns'[j] = teardowns[j] /\ stops'[j] = stops[j]
           /\ manual'[j] = manual[j] /\ automatic'[j] = automatic[j]
           /\ j \in held' => j \in held,
         closed' \in {closed, TRUE}
  PROVE  \A j \in Keys : RestInv(j)' /\ GivesBack(j)
<1>1. ASSUME NEW j \in Keys \ {k} PROVE RestInv(j)' /\ GivesBack(j)
  <2>1. HasSession(j)' = HasSession(j)
    BY DEF HasSession
  <2>. QED  BY <2>1, RestFrame
<1>. QED  BY <1>1

\* Every step gives back the slots of the pairs that it brings to rest.
LEMMA RestStep ==
  ASSUME TypeOK, RestInvs, [Next]_vars
  PROVE  \A k \in Keys : RestInv(k)' /\ GivesBack(k)
<1>. DEFINE Goal == \A k \in Keys : RestInv(k)' /\ GivesBack(k)
<1>0. \A k \in Keys : RestInv(k) /\ CountInv(k)
  BY DEF RestInvs
<1>a. ASSUME NEW K \in SUBSET Keys, NEW reason, NEW frees \in BOOLEAN,
             BeginStop(K, reason, frees),
             \A k \in Keys :
               IF frees THEN reason # "restart" /\ manual'[k] = manual[k]
               ELSE reason = "restart"
                    /\ manual'[k] = IF k \in K THEN "stopping" ELSE manual[k],
             \A k \in Keys : k \notin K => automatic'[k] = automatic[k], closed' \in {closed, TRUE},
             UNCHANGED <<start, epoch, open>>
      PROVE  Goal
  BY <1>0, <1>a, RestStopBegins
<1>b. ASSUME NEW k \in Keys, NEW source, BeginStart(k, source), ~Starting(k),
             \/ manual' = manual
             \/ /\ source = "manual" /\ ~\E s \in stops[k] : s.reason = "restart"
                /\ \E m : manual' = [manual EXCEPT ![k] = m],
             automatic' = automatic \/ automatic' = [automatic EXCEPT ![k] = NoTimer],
             UNCHANGED <<session, open, teardowns, stops, closed>>
      PROVE  Goal
  <2>1. RestInv(k)' /\ GivesBack(k)
    <3>1. manual'[k] = manual[k] \/ (source = "manual" /\ ~\E s \in stops[k] : s.reason = "restart")
      BY <1>b
    <3>. QED  BY <1>0, <1>b, <3>1, RestBegins
  <2>2. /\ \E x : epoch' = [epoch EXCEPT ![k] = x]
        /\ \E x : start' = [start EXCEPT ![k] = x]
        /\ held' \subseteq held \cup {k}
    BY <1>b DEF BeginStart, Acquired
  <2>3. \A j \in Keys \ {k} : /\ start'[j] = start[j] /\ epoch'[j] = epoch[j]
                              /\ manual'[j] = manual[j] /\ automatic'[j] = automatic[j]
                              /\ (j \in held' => j \in held)
    BY <1>b, <2>2 DEF TypeOK
  <2>. QED  BY <1>0, <1>b, <2>1, <2>3, RestOthers
<1>c. ASSUME NEW k \in Keys, RestInv(k)' /\ GivesBack(k), held' \subseteq held \cup {k},
             \/ session' = session
             \/ \E x : session' = [session EXCEPT ![k] = x],
             \/ start' = start
             \/ \E x : start' = [start EXCEPT ![k] = x],
             \/ open' = open
             \/ \E x : open' = [open EXCEPT ![k] = x],
             \/ teardowns' = teardowns
             \/ \E x : teardowns' = [teardowns EXCEPT ![k] = x],
             \/ stops' = stops
             \/ \E x : stops' = [stops EXCEPT ![k] = x],
             \/ manual' = manual
             \/ \E x : manual' = [manual EXCEPT ![k] = x],
             \/ automatic' = automatic
             \/ \E x : automatic' = [automatic EXCEPT ![k] = x],
             UNCHANGED <<epoch, closed>>
      PROVE  Goal
  <2>1. \A j \in Keys \ {k} :
           /\ session'[j] = session[j] /\ start'[j] = start[j]
           /\ open'[j] = open[j] /\ teardowns'[j] = teardowns[j] /\ stops'[j] = stops[j]
           /\ manual'[j] = manual[j] /\ automatic'[j] = automatic[j]
           /\ (j \in held' => j \in held)
    BY <1>c DEF TypeOK
  <2>. QED  BY <1>0, <1>c, <2>1, RestOthers
<1>d. ASSUME UNCHANGED <<start, epoch, open, teardowns, stops, manual, automatic, held, closed>>,
             \A k \in Keys : HasSession(k)' = HasSession(k) /\ session'[k].token = session[k].token
      PROVE  Goal
  <2>1. ASSUME NEW k \in Keys PROVE RestInv(k)' /\ GivesBack(k)
    BY <1>0, <1>d, RestFrame
  <2>. QED  BY <2>1
<1>. HIDE DEF Goal
<1>1. ASSUME NEW k \in Keys, Get(k) PROVE Goal
  BY <1>1, <1>b DEF Get
<1>2. ASSUME NEW k \in Keys, StartRefused(k) \/ PrepareFails(k) \/ StartCleaned(k)
      PROVE  Goal
  <2>. DEFINE signals == LocalSignals(k, {epoch[k]})
              settled == SettledGates(k, signals, start[k].owns)
  <2>1. PICK gates : /\ FailStart(k, gates)
                     /\ gates = teardowns[k] \/ gates = settled
    BY <1>2, Zenon DEF StartRefused, PrepareFails, StartCleaned
  <2>2. /\ UNCHANGED <<session, epoch, stops, closed>>
        /\ open' = open \/ open' = [open EXCEPT ![k] = @ \ {epoch[k]}]
    BY <1>2, Zenon DEF StartRefused, PrepareFails, StartCleaned
  <2>3. open'[k] \subseteq open[k]
    BY <2>2 DEF TypeOK
  <2>4. start[k].owns \in BOOLEAN /\ epoch[k] \in Nat
    BY DEF TypeOK, Starts
  <2>5. /\ \A gate \in settled : gate \in teardowns[k] \/ gate.signals = signals
        /\ teardowns[k] = {} /\ signals = {} => settled = {}
    <3>1. \A gate \in settled : gate \in teardowns[k] \/ gate.signals = signals
      BY DEF SettledGates
    <3>2. teardowns[k] = {} /\ signals = {} => settled = {}
      BY DEF SettledGates, Reaped
    <3>. QED  BY <3>1, <3>2
  <2>6. \A t \in open[k] : Covered(k, t) => \E gate \in settled : t \in gate.signals
    BY <2>4, SettledGatesCover
  <2>7. signals \subseteq {epoch[k]} /\ (~Local(k) => signals = {})
    BY DEF LocalSignals
  <2>. HIDE DEF signals, settled
  <2>8. ~Local(k) => gates = {}
    BY <1>0, <2>1, <2>5, <2>7 DEF RestInv
  <2>9. \A gate \in gates : \A t \in gate.signals : t <= epoch[k]
    BY <1>0, <2>1, <2>4, <2>5, <2>7 DEF RestInv, Seen
  <2>10. \A t \in open'[k] : Covered(k, t) => \E gate \in gates : t \in gate.signals
    BY <2>1, <2>3, <2>6 DEF Covered
  <2>11. RestInv(k)' /\ GivesBack(k)
    BY <1>0, <2>1, <2>2, <2>3, <2>8, <2>9, <2>10, RestFails
  <2>12. /\ held' \subseteq held \cup {k}
         /\ automatic' = automatic \/ \E x : automatic' = [automatic EXCEPT ![k] = x]
    BY <1>0, <2>1, FailStartRests
  <2>13. /\ start' = [start EXCEPT ![k] = NoStart]
         /\ \E x : manual' = [manual EXCEPT ![k] = x]
         /\ teardowns' = [teardowns EXCEPT ![k] = gates]
    BY <2>1, Zenon DEF FailStart, SettleStart
  <2>. QED  BY <2>2, <2>11, <2>12, <2>13, <1>c
<1>3. ASSUME NEW k \in Keys,
             Prepared(k) \/ Unauthorized(k) \/ Authorized(k) \/ ConnectFails(k)
      PROVE  Goal
  <2>1. RestInv(k)' /\ GivesBack(k)
    BY <1>0, <1>3, RestAdvances
  <2>2. /\ \E x : start' = [start EXCEPT ![k] = x]
        /\ open' = open \/ \E x : open' = [open EXCEPT ![k] = x]
        /\ teardowns' = teardowns \/ \E x : teardowns' = [teardowns EXCEPT ![k] = x]
        /\ UNCHANGED <<session, epoch, automatic, stops, manual, held, closed>>
    BY <1>3 DEF Prepared, Unauthorized, Authorized, ConnectFails, recovery
  <2>. QED  BY <2>1, <2>2, <1>c
<1>4. ASSUME NEW k \in Keys, Connected(k) PROVE Goal
  <2>1. RestInv(k)' /\ GivesBack(k)
    BY <1>0, <1>4, RestConnects
  <2>2. /\ \E x : start' = [start EXCEPT ![k] = x]
        /\ \E x : session' = [session EXCEPT ![k] = x]
        /\ \E x : manual' = [manual EXCEPT ![k] = x]
        /\ UNCHANGED <<epoch, open, automatic, teardowns, stops, held, closed>>
    BY <1>4 DEF Connected, SettleStart
  <2>. QED  BY <2>1, <2>2, <1>c
<1>5. ASSUME NEW k \in Keys, NEW s \in stops[k], StopStep(k, s) PROVE Goal
  <2>1. RestInv(k)' /\ GivesBack(k)
    BY <1>0, <1>5, RestStopEnds
  <2>2. held' \subseteq held
    BY <1>5, Zenon DEF StopStep, FinishStop, Released
  <2>3. /\ open' = open \/ \E x : open' = [open EXCEPT ![k] = x]
        /\ teardowns' = teardowns \/ \E x : teardowns' = [teardowns EXCEPT ![k] = x]
        /\ \E x : stops' = [stops EXCEPT ![k] = x]
        /\ UNCHANGED <<session, start, epoch, automatic, manual, closed>>
    BY <1>5, Zenon DEF StopStep, FinishStop, recovery
  <2>. QED  BY <2>1, <2>2, <2>3, <1>c
<1>6. ASSUME NEW k \in Keys, IdleFires(k) PROVE Goal
  <2>1. /\ BeginStop({k}, "idle", TRUE)
        /\ UNCHANGED <<start, epoch, open, automatic, manual, closed>>
    BY <1>6 DEF IdleFires
  <2>2. /\ \A j \in Keys : IF TRUE THEN "idle" # "restart" /\ manual'[j] = manual[j]
                          ELSE "idle" = "restart"
                               /\ manual'[j] = IF j \in {k} THEN "stopping" ELSE manual[j]
        /\ \A j \in Keys : j \notin {k} => automatic'[j] = automatic[j]
        /\ closed' \in {closed, TRUE} /\ UNCHANGED <<start, epoch, open>>
    BY <1>0, <2>1
  <2>3. {k} \in SUBSET Keys /\ TRUE \in BOOLEAN
    OBVIOUS
  <2>. QED  BY <2>1, <2>2, <2>3, <1>a
<1>7. ASSUME NEW p \in Profiles, CloseProfile(p) PROVE Goal
  <2>. DEFINE K == {k \in Keys : Profile(k) = p}
  <2>1. /\ BeginStop(K, "manual", TRUE) /\ automatic' = Cancelled(K)
        /\ UNCHANGED <<start, epoch, open, manual, closed>>
    BY <1>7 DEF CloseProfile
  <2>2. K \in SUBSET Keys
    OBVIOUS
  <2>. HIDE DEF K
  <2>3. \A j \in Keys : j \notin K => automatic'[j] = automatic[j]
    BY <2>1 DEF Cancelled
  <2>4. /\ \A j \in Keys : IF TRUE THEN "manual" # "restart" /\ manual'[j] = manual[j]
                          ELSE "manual" = "restart"
                               /\ manual'[j] = IF j \in K THEN "stopping" ELSE manual[j]
        /\ closed' \in {closed, TRUE} /\ UNCHANGED <<start, epoch, open>>
    BY <2>1
  <2>. QED  BY <2>1, <2>2, <2>3, <2>4, <1>a
<1>8. ASSUME Close PROVE Goal
  <2>1. /\ BeginStop(Known, "shutdown", TRUE) /\ automatic' = Cancelled(Known)
        /\ closed' = TRUE /\ UNCHANGED <<start, epoch, open, manual>>
    BY <1>8 DEF Close
  <2>2. Known \in SUBSET Keys
    BY DEF Known
  <2>3. \A j \in Keys : j \notin Known => automatic'[j] = automatic[j]
    BY <2>1 DEF Cancelled
  <2>4. /\ \A j \in Keys : IF TRUE THEN "shutdown" # "restart" /\ manual'[j] = manual[j]
                          ELSE "shutdown" = "restart"
                               /\ manual'[j] = IF j \in Known THEN "stopping" ELSE manual[j]
        /\ closed' \in {closed, TRUE} /\ UNCHANGED <<start, epoch, open>>
    BY <2>1
  <2>. QED  BY <2>1, <2>2, <2>3, <2>4, <1>a
<1>9. ASSUME NEW k \in Keys, Restart(k) PROVE Goal
  <2>1. /\ BeginStop({k}, "restart", FALSE) /\ automatic' = Cancelled({k})
        /\ manual' = [manual EXCEPT ![k] = "stopping"]
        /\ UNCHANGED <<start, epoch, open, closed>>
    BY <1>9 DEF Restart
  <2>2. /\ \A j \in Keys : j \notin {k} => automatic'[j] = automatic[j]
        /\ \A j \in Keys : manual'[j] = IF j \in {k} THEN "stopping" ELSE manual[j]
    BY <2>1 DEF Cancelled, TypeOK
  <2>. QED  BY <2>1, <2>2, <1>a
<1>10. ASSUME NEW k \in Keys, RestartContinues(k) PROVE Goal
  <2>1. ~\E s \in stops[k] : s.reason = "restart"
    BY <1>0, <1>10 DEF RestartContinues, RestartReady, RestInv
  <2>2. /\ UNCHANGED <<session, open, teardowns, stops, automatic, closed>>
        /\ \E x : manual' = [manual EXCEPT ![k] = x]
    BY <1>10 DEF RestartContinues, recovery
  <2>3. CASE BeginStart(k, "manual") /\ ~Starting(k)
    BY <1>b, <2>1, <2>2, <2>3
  <2>4. CASE /\ UNCHANGED <<start, epoch, held>>
             /\ \/ Starting(k) /\ manual' = [manual EXCEPT ![k] = "waiting"]
                \/ /\ closed \/ Blocking(teardowns[k])
                   /\ manual' = [manual EXCEPT ![k] = "none"]
    <3>1. closed \/ Starting(k) \/ teardowns[k] # {}
      BY <2>4 DEF Blocking
    <3>2. /\ HasSession(k)' = HasSession(k) /\ Starting(k)' = Starting(k)
          /\ \A t : Seen(k, t)' = Seen(k, t) /\ Covered(k, t)' = Covered(k, t)
      BY <2>2, <2>4 DEF HasSession, Starting, Seen, Covered
    <3>3. RestInv(k)'
      BY <1>0, <2>1, <2>2, <2>4, <3>2 DEF RestInv, Local
    <3>4. GivesBack(k)
      BY <2>2, <2>4, <3>1, <3>2 DEF GivesBack, Loose, Busy
    <3>. QED  BY <2>2, <2>4, <3>3, <3>4, <1>c
  <2>. QED  BY <1>10, <2>3, <2>4 DEF RestartContinues
<1>11. ASSUME NEW k \in Keys, RestartTimesOut(k) PROVE Goal
  <2>1. /\ UNCHANGED <<session, start, epoch, open, teardowns, stops, automatic, held, closed>>
        /\ manual' = [manual EXCEPT ![k] = "none"] /\ manual[k] = "waiting"
    BY <1>11 DEF RestartTimesOut, lifecycle, recovery
  <2>2. Starting(k)
    BY <1>11, <2>1 DEF RestartTimesOut, Settled, Microtask, RestartReady
  <2>3. /\ HasSession(k)' = HasSession(k) /\ Starting(k)' = Starting(k)
        /\ \A t : Seen(k, t)' = Seen(k, t) /\ Covered(k, t)' = Covered(k, t)
    BY <2>1 DEF HasSession, Starting, Seen, Covered
  <2>4. RestInv(k)' /\ GivesBack(k)
    BY <1>0, <2>1, <2>2, <2>3 DEF RestInv, GivesBack, Loose, Busy, Local
  <2>. QED  BY <2>1, <2>4, <1>c
<1>12. ASSUME NEW k \in Keys, RestartTimer(k) PROVE Goal
  <2>1. /\ ~Starting(k)
        /\ UNCHANGED <<session, epoch, open, teardowns, stops, manual, closed>> \/ ~Blocking(teardowns[k])
        /\ UNCHANGED <<session, open, teardowns, stops, manual, closed>>
    BY <1>12, Zenon DEF RestartTimer
  <2>2. CASE ~Blocking(teardowns[k])
    BY <1>12, <2>1, <2>2, <1>b DEF RestartTimer
  <2>3. CASE Blocking(teardowns[k])
    <3>1. /\ ScheduleRestart(k, automatic[k], held, teardowns[k])
          /\ UNCHANGED <<start, epoch>>
      BY <1>12, <2>3, Zenon DEF RestartTimer
    <3>2. /\ held' \subseteq held
          /\ automatic' = automatic \/ \E x : automatic' = [automatic EXCEPT ![k] = x]
      BY <3>1, Zenon DEF ScheduleRestart, Released
    <3>3. teardowns[k] # {}
      BY <2>3 DEF Blocking
    <3>4. /\ HasSession(k)' = HasSession(k) /\ Starting(k)' = Starting(k)
          /\ \A t : Seen(k, t)' = Seen(k, t) /\ Covered(k, t)' = Covered(k, t)
      BY <2>1, <3>1 DEF HasSession, Starting, Seen, Covered
    <3>5. RestInv(k)' /\ GivesBack(k)
      BY <1>0, <2>1, <3>1, <3>3, <3>4 DEF RestInv, GivesBack, Loose, Busy, Local
    <3>. QED  BY <2>1, <3>1, <3>2, <3>5, <1>c
  <2>. QED  BY <2>2, <2>3
<1>13. ASSUME NEW k \in Keys, StabilityTimer(k) PROVE Goal
  BY <1>13, <1>d DEF StabilityTimer, lifecycle, HasSession
<1>14. ASSUME NEW k \in Keys, NEW t \in open[k], TransportCloses(k, t) PROVE Goal
  <2>1. RestInv(k)' /\ GivesBack(k)
    BY <1>0, <1>14, RestCloses
  <2>2. /\ session' = session \/ \E x : session' = [session EXCEPT ![k] = x]
        /\ \E x : open' = [open EXCEPT ![k] = x]
        /\ \E x : teardowns' = [teardowns EXCEPT ![k] = x]
        /\ UNCHANGED <<start, epoch, stops, manual, closed>>
    BY <1>14, Zenon DEF TransportCloses
  <2>3. /\ held' \subseteq held
        /\ automatic' = automatic \/ \E x : automatic' = [automatic EXCEPT ![k] = x]
    <3>. DEFINE left == open[k] \ {t}
                gates == {gate \in teardowns[k] : ~gate.blocks \/ gate.signals \cap left # {}}
                freed == gates # teardowns[k] /\ ~(HasSession(k) \/ Starting(k)) /\ gates = {}
                pairs == IF freed THEN held \ {k} ELSE held
    <3>1. \/ held' = pairs /\ automatic' = automatic
          \/ held' = Released(pairs, k, gates) /\ automatic' = automatic
          \/ ScheduleRestart(k, gen[k], pairs, gates)
      BY <1>14, Zenon DEF TransportCloses, recovery
    <3>2. pairs \subseteq held /\ Released(pairs, k, gates) \subseteq held
      BY DEF Released
    <3>. HIDE DEF gates, pairs
    <3>. QED  BY <3>1, <3>2 DEF ScheduleRestart
  <2>. QED  BY <2>1, <2>2, <2>3, <1>c
<1>15. ASSUME NEW k \in Keys, BeginRequest(k) \/ \E r \in requests[k] : EndRequest(k, r)
       PROVE  Goal
  <2>1. /\ \/ HasSession(k) /\ session' = [session EXCEPT ![k] = Counted(k)]
           \/ \E r \in requests[k] : session' = [session EXCEPT ![k] = Finished(k, r)]
        /\ UNCHANGED <<start, epoch, open, teardowns, stops, manual, automatic, held, closed>>
    BY <1>15 DEF BeginRequest, EndRequest, recovery
  <2>2. /\ HasSession(k) => session[k].token # 0
        /\ session'[k].token = session[k].token
        /\ ~HasSession(k) => session'[k] = session[k]
        /\ \A j \in Keys \ {k} : session'[j] = session[j]
    BY <1>0, <2>1 DEF RestInv, TypeOK, Sessions, Counted, Finished
  <2>3. \A j \in Keys : HasSession(j)' = HasSession(j) /\ session'[j].token = session[j].token
    BY <2>2 DEF HasSession, NoSession
  <2>. QED  BY <2>1, <2>3, <1>d
<1>16. ASSUME UNCHANGED vars PROVE Goal
  BY <1>16, <1>d DEF vars, HasSession
<1>17. Goal
  BY <1>1, <1>2, <1>3, <1>4, <1>5, <1>6, <1>7, <1>8, <1>9, <1>10, <1>11, <1>12, <1>13,
     <1>14, <1>15, <1>16 DEF Next, Progress, Environment
<1>. QED  BY <1>17 DEF Goal

\* Whatever brings a pair to rest gives its slot back, with and without automatic
\* recovery and whatever stops, restarts, failed starts, crashes and late closes
\* came before (releaseProfileCapacity in stopProfile, start, the deferred
\* teardowns, scheduleAutomaticRestart and handleTransportClosed); all but the
\* failure of an automatic start that a stop has overtaken.
THEOREM RestReleases == Spec => SlotsAreGivenBack
<1>1. Init => RestInvs
  <2>. SUFFICES ASSUME Init, NEW k \in Keys PROVE RestInv(k) /\ CountInv(k)
    BY DEF RestInvs
  <2>. QED  BY FS_EmptySet DEF Init, RestInv, CountInv, HasSession, Starting, NoSession, NoStart
<1>2. TypeOK /\ RestInvs /\ [Next]_vars => RestInvs' /\ \A k \in Keys : GivesBack(k)
  <2>. SUFFICES ASSUME TypeOK, RestInvs, [Next]_vars
                PROVE  RestInvs' /\ \A k \in Keys : GivesBack(k)
    OBVIOUS
  <2>1. \A k \in Keys : CountInv(k)'
    BY CountStep DEF RestInvs
  <2>2. \A k \in Keys : RestInv(k)' /\ GivesBack(k)
    BY RestStep
  <2>. QED  BY <2>1, <2>2 DEF RestInvs
<1>3. ASSUME TypeOK, TypeOK', \A k \in Keys : GivesBack(k)
      PROVE  \A k \in held' : ~closed' /\ Resting(k)' =>
               \/ k \in held /\ Resting(k)
               \/ start[k].source = "automatic" /\ gen[k] # start[k].gen
  <2>. SUFFICES ASSUME NEW k \in held', ~closed', Resting(k)', ~Overtaken(k)
                PROVE  k \in held /\ Resting(k)
    BY DEF Overtaken
  <2>1. k \in Keys
    BY <1>3 DEF TypeOK
  <2>2. Loose(k)'
    BY <2>1 DEF Loose, Busy, Resting
  <2>3. Loose(k)
    BY <1>3, <2>1, <2>2 DEF GivesBack
  <2>. QED  BY <2>3 DEF Loose, Busy, Resting
<1>4. TypeOK /\ TypeOK' /\ RestInvs /\ [Next]_vars =>
        [\A k \in held' : ~closed' /\ Resting(k)' =>
           \/ k \in held /\ Resting(k)
           \/ start[k].source = "automatic" /\ gen[k] # start[k].gen]_vars
  BY <1>2, <1>3
<1>. QED  BY TypeCorrect, <1>1, <1>2, <1>4, PTL DEF Spec, SlotsAreGivenBack
=============================================================================
