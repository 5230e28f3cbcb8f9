------------------------------- MODULE HostProofs -------------------------------
(***************************************************************************)
(* Proofs about what a Miftah process holds of its machine, as MCHost puts *)
(* it together: the sessions of the HTTP host, the process trees of a      *)
(* local upstream and of a secret provider, and the lock that processes    *)
(* share.                                                                  *)
(***************************************************************************)
EXTENDS MCHost, FiniteSetTheorems, TLAPS

-----------------------------------------------------------------------------
(* The process trees.                                                      *)

\* Before it is spawned a child has no descendants, and a job ends with its helper.
TreeInv ==
  /\ leader \in {"none", "up", "gone"}
  /\ leader = "none" => kin = {}
  /\ win /\ leader = "gone" => kin = {}

\* What the tree does by itself and what the kernel reaps: a group that is gone
\* stays gone.
LEMMA TreeStepInv ==
  ASSUME TreeInv, Transport!TreeStep \/ Transport!Reaped
  PROVE  /\ TreeInv' /\ (leader # "none" <=> leader' # "none")
         /\ leader = "gone" => leader' = "gone"
         /\ ~Transport!GroupAlive => ~Transport!GroupAlive'
         /\ doomed' = doomed /\ win' = win
<1> USE DEF TreeInv, Transport!GroupAlive
<1>1. CASE Transport!LeaderEnds
  BY <1>1 DEF Transport!LeaderEnds
<1>2. CASE Transport!KinEnds
  BY <1>2 DEF Transport!KinEnds
<1>3. CASE \E k \in {"quiet", "loud", "stray"} \ kin : Transport!Forks(k)
  BY <1>3 DEF Transport!Forks
<1>4. CASE Transport!Reaped
  BY <1>4 DEF Transport!Reaped
<1> QED BY <1>1, <1>2, <1>3, <1>4 DEF Transport!TreeStep

\* A transport whose containment is cleared has nothing left to contain, and
\* nobody looks at a group that was neither spawned nor closed.
TransportInv ==
  /\ TreeInv
  /\ exitSeen => leader = "gone"
  /\ closeSeen => leader = "gone"
  /\ cleared => ~Transport!GroupAlive
  /\ emitted => cleared
  /\ ends \in [Transport!Ends -> {"none", "waiting", "forcing", "verify", "polling", "done", "failed"}]
  /\ \A k \in Transport!Ends : ends[k] # "none" => leader # "none" \/ explicit
  /\ emitted => leader # "none" \/ explicit

\* A child is spawned once, before anything was emitted.
LEMMA TransportStart ==
  ASSUME TransportInv, Transport!Start
  PROVE  TransportInv'
BY DEF TransportInv, TreeInv, Transport!Start, Transport!Spawned, Transport!GroupAlive, Transport!treeVars

\* The steps that leave the tree and the containment alone.
LEMMA TransportKept ==
  ASSUME TransportInv, UNCHANGED <<win, leader, kin, cleared, emitted>>,
         exitSeen' => leader = "gone", closeSeen' => leader = "gone",
         explicit => explicit',
         ends' \in [Transport!Ends -> {"none", "waiting", "forcing", "verify", "polling", "done", "failed"}],
         \A k \in Transport!Ends : ends'[k] # "none" => leader # "none" \/ explicit'
  PROVE  TransportInv'
BY DEF TransportInv, TreeInv, Transport!GroupAlive

\* One of the two ends of the transport moves on.
LEMMA TransportAtType ==
  ASSUME TransportInv, NEW k \in Transport!Ends,
         NEW phase \in {"none", "waiting", "forcing", "verify", "polling", "done", "failed"},
         Transport!At(k, phase)
  PROVE  /\ ends' \in [Transport!Ends -> {"none", "waiting", "forcing", "verify", "polling", "done", "failed"}]
         /\ \A j \in Transport!Ends : j # k => ends'[j] = ends[j]
         /\ ends'[k] = phase
BY DEF TransportInv, Transport!At

\* verifyContainment and its poll: the signal is released only where nobody is left.
LEMMA TransportChecks ==
  ASSUME TransportInv, NEW k \in Transport!Ends, Transport!Verify(k) \/ Transport!Poll(k)
  PROVE  TransportInv'
<1>1. UNCHANGED <<win, leader, kin, exitSeen, closeSeen, explicit>>
  BY DEF Transport!Verify, Transport!Poll
<1>2. ends[k] # "none"
  BY DEF Transport!Verify, Transport!Poll
<1>3. leader # "none" \/ explicit
  BY <1>2 DEF TransportInv
<1>4. ASSUME NEW phase \in {"none", "waiting", "forcing", "verify", "polling", "done", "failed"},
             Transport!At(k, phase)
      PROVE  /\ ends' \in [Transport!Ends -> {"none", "waiting", "forcing", "verify", "polling", "done", "failed"}]
             /\ \A j \in Transport!Ends : ends'[j] # "none" => leader # "none" \/ explicit'
  BY <1>1, <1>3, <1>4, TransportAtType DEF TransportInv
<1>5. CASE Transport!Unverified(k)
  <2>1. UNCHANGED <<cleared, emitted>> /\ Transport!At(k, "failed")
    BY <1>5 DEF Transport!Unverified
  <2> QED BY <1>1, <1>4, <2>1, TransportKept DEF TransportInv
<1>6. ASSUME Transport!Verified(k), ~Transport!GroupAlive PROVE TransportInv'
  <2>1. cleared' /\ Transport!At(k, "done")
    BY <1>6 DEF Transport!Verified
  <2>2. TreeInv' /\ ~Transport!GroupAlive'
    BY <1>1, <1>6 DEF TransportInv, TreeInv, Transport!GroupAlive
  <2> QED BY <1>1, <1>3, <1>4, <2>1, <2>2 DEF TransportInv
<1>7. CASE Transport!Verify(k)
  <2>1. CASE Transport!Gone /\ Transport!Verified(k)
    <3>1. ~Transport!GroupAlive
      BY <2>1 DEF TransportInv, TreeInv, Transport!Gone, Transport!GroupAlive
    <3> QED BY <1>6, <2>1, <3>1
  <2>2. CASE ~Transport!Gone /\ Transport!At(k, IF failure' THEN "failed" ELSE "polling")
             /\ UNCHANGED <<cleared, emitted>>
    <3>1. Transport!At(k, "failed") \/ Transport!At(k, "polling")
      BY <2>2
    <3> QED BY <1>1, <1>4, <2>2, <3>1, TransportKept DEF TransportInv
  <2> QED BY <1>5, <1>7, <2>1, <2>2 DEF Transport!Verify
<1>8. CASE Transport!Poll(k)
  BY <1>5, <1>6, <1>8 DEF Transport!Poll, Transport!Polled
<1> QED BY <1>7, <1>8

\* Every step of ContainedStdioClientTransport, and of the tree under it.
LEMMA TransportNext ==
  ASSUME TransportInv, Transport!Next
  PROVE  TransportInv'
<1>1. CASE Transport!Start
  BY <1>1, TransportStart
<1>2. CASE Transport!Escalate
  BY <1>2, TransportKept DEF Transport!Escalate, TransportInv
<1>3. CASE Transport!Close
  <2>1. Transport!At("closer", IF leader = "none" THEN "verify" ELSE "waiting") /\ explicit'
        /\ UNCHANGED <<win, leader, kin, exitSeen, closeSeen, cleared, emitted>>
    BY <1>3 DEF Transport!Close, Transport!treeVars
  <2>2. "closer" \in Transport!Ends
    BY DEF Transport!Ends
  <2>3. ends' \in [Transport!Ends -> {"none", "waiting", "forcing", "verify", "polling", "done", "failed"}]
    BY <2>1, <2>2, TransportAtType
  <2> QED BY <2>1, <2>3, TransportKept DEF TransportInv
<1>4. CASE Transport!Tree \/ Transport!Kernel
  <2>1. (Transport!TreeStep \/ Transport!Reaped) /\ UNCHANGED Transport!own
    BY <1>4 DEF Transport!Tree, Transport!Kernel
  <2>2. /\ TreeInv' /\ (leader # "none" <=> leader' # "none")
        /\ leader = "gone" => leader' = "gone"
        /\ ~Transport!GroupAlive => ~Transport!GroupAlive'
    BY <2>1, TreeStepInv DEF TransportInv
  <2> QED BY <2>1, <2>2 DEF TransportInv, Transport!own
<1>5. CASE Transport!ExitEvent
  BY <1>5, TransportKept DEF Transport!ExitEvent, TransportInv
<1>6. CASE Transport!CloseEvent
  <2>1. leader = "gone" /\ UNCHANGED <<win, leader, kin, exitSeen, explicit, cleared, emitted>>
        /\ (ends' = ends \/ Transport!At("finisher", "verify"))
    BY <1>6 DEF Transport!CloseEvent
  <2>2. "finisher" \in Transport!Ends
    BY DEF Transport!Ends
  <2>3. ends' \in [Transport!Ends -> {"none", "waiting", "forcing", "verify", "polling", "done", "failed"}]
    BY <2>1, <2>2, TransportAtType DEF TransportInv
  <2> QED BY <2>1, <2>3, TransportKept DEF TransportInv
<1>7. CASE Transport!ClosesByItself \/ Transport!GraceEnds \/ Transport!HelperStays
  <2>1. /\ UNCHANGED <<win, leader, kin, exitSeen, closeSeen, explicit, cleared, emitted>>
        /\ ends["closer"] # "none"
        /\ \E phase \in {"verify", "forcing", "failed"} : Transport!At("closer", phase)
    BY <1>7 DEF Transport!ClosesByItself, Transport!GraceEnds, Transport!HelperStays, Transport!treeVars
  <2>2. "closer" \in Transport!Ends
    BY DEF Transport!Ends
  <2>3. PICK phase \in {"verify", "forcing", "failed"} : Transport!At("closer", phase)
    BY <2>1
  <2>4. ends' \in [Transport!Ends -> {"none", "waiting", "forcing", "verify", "polling", "done", "failed"}]
    BY <2>2, <2>3, TransportAtType
  <2>5. leader # "none" \/ explicit
    BY <2>1, <2>2 DEF TransportInv
  <2> QED BY <2>1, <2>4, <2>5, TransportKept DEF TransportInv
<1>8. CASE \E k \in Transport!Ends : Transport!Verify(k) \/ Transport!Poll(k)
  BY <1>8, TransportChecks
<1> QED BY <1>1, <1>2, <1>3, <1>4, <1>5, <1>6, <1>7, <1>8 DEF Transport!Next, Transport!Progress

\* A terminated run whose termination is complete has killed or outlived its group.
SecretInv ==
  /\ TreeInv
  /\ leader = "none" => stage # "running" /\ termination = "none"
  /\ stage # "running" => leader = "none"
  /\ termination = "done" => ~Secret!GroupAlive \/ doomed

\* Every step of a run of runSecretCommand, and of the tree under it.
LEMMA SecretNext ==
  ASSUME SecretInv, Secret!Next
  PROVE  SecretInv'
<1>1. CASE Secret!Prepare \/ Secret!Unresolved
  BY <1>1 DEF SecretInv, TreeInv, Secret!Prepare, Secret!Unresolved, Secret!treeVars, Secret!GroupAlive
<1>2. CASE Secret!Spawn
  BY <1>2 DEF SecretInv, TreeInv, Secret!Spawn, Secret!Spawned, Secret!GroupAlive
<1>3. CASE Secret!GraceEnds
  BY <1>3 DEF SecretInv, TreeInv, Secret!GraceEnds, Secret!GroupAlive
<1>4. CASE Secret!ExitEvent \/ Secret!CloseEvent
  <2>1. UNCHANGED <<win, leader, kin, doomed, stage, termination>>
    BY <1>4 DEF Secret!ExitEvent, Secret!CloseEvent, Secret!treeVars
  <2> QED BY <2>1 DEF SecretInv, TreeInv, Secret!GroupAlive
<1>5. ASSUME NEW reason \in Secret!Reasons, Secret!Terminate(reason) PROVE SecretInv'
  BY <1>5 DEF SecretInv, TreeInv, Secret!Terminate, Secret!Signals, Secret!GroupAlive
<1>6. CASE Secret!Tree \/ Secret!Kernel
  <2>1. (Secret!TreeStep \/ Secret!Reaped) /\ UNCHANGED Secret!own
    BY <1>6 DEF Secret!Tree, Secret!Kernel
  <2>2. Transport!TreeStep \/ Transport!Reaped
    BY <2>1 DEF Secret!TreeStep, Secret!Reaped, Secret!LeaderEnds, Secret!KinEnds, Secret!Forks,
                Secret!GroupAlive, Transport!TreeStep, Transport!Reaped, Transport!LeaderEnds,
                Transport!KinEnds, Transport!Forks, Transport!GroupAlive
  <2>3. /\ TreeInv' /\ (leader # "none" <=> leader' # "none") /\ doomed' = doomed
        /\ ~Transport!GroupAlive => ~Transport!GroupAlive'
    BY <2>2, TreeStepInv DEF SecretInv
  <2> QED BY <2>1, <2>3 DEF SecretInv, Secret!own, Secret!GroupAlive, Transport!GroupAlive
<1> QED BY <1>1, <1>2, <1>3, <1>4, <1>5, <1>6 DEF Secret!Next, Secret!Steps

\* In whichever part the behaviour is.
TreesInv == (part = "transport" => TransportInv) /\ (part = "secret" => SecretInv)

\* Whichever part the behaviour is, its tree has not been spawned.
LEMMA TreesInit == HostInit => TreesInv
<1>1. Transport!Init => TransportInv
  BY DEF Transport!Init, Transport!TreeInit, TransportInv, TreeInv, Transport!GroupAlive, Transport!Ends
<1>2. Secret!Init => SecretInv
  BY DEF Secret!Init, Secret!TreeInit, SecretInv, TreeInv, Secret!GroupAlive
<1> QED BY <1>1, <1>2 DEF HostInit, TreesInv

\* The parts share no state: a step is one part's.
LEMMA TreesStep == TreesInv /\ [HostNext]_all => TreesInv'
<1> SUFFICES ASSUME TreesInv, [HostNext]_all PROVE TreesInv'
  OBVIOUS
<1>1. CASE Serve \/ Contend
  BY <1>1 DEF Serve, Contend, TreesInv
<1>2. CASE Carry
  BY <1>2, TransportNext DEF Carry, TreesInv
<1>3. CASE Query
  BY <1>3, SecretNext DEF Query, TreesInv
<1>4. CASE UNCHANGED all
  BY <1>4 DEF all, trees, transportOnly, secretOnly, TreesInv, TransportInv, SecretInv, TreeInv,
              Transport!GroupAlive, Secret!GroupAlive
<1> QED BY <1>1, <1>2, <1>3, <1>4 DEF HostNext

\* ProcessesContained: onclose is held back until nothing of the group is left,
\* and a terminated secret run settles only then, or when SIGKILL is on its way.
THEOREM TreesContained == HostSpec => []ProcessesContained
<1>1. TreesInv => ProcessesContained
  BY DEF TreesInv, ProcessesContained, TransportInv, SecretInv, Transport!ClosedMeansGone,
         Secret!NobodySurvives
<1>2. HostSpec => HostInit /\ [][HostNext]_all
  BY PTL DEF HostSpec
<1> QED BY <1>1, <1>2, TreesInit, TreesStep, PTL

-----------------------------------------------------------------------------
(* The HTTP host: types and what is known of each record.                  *)

HttpTypes ==
  /\ caller \in [Records -> Http!Callers]
  /\ runtime \in [Records -> {"none", "open", "closed", "broken"}]
  /\ counted \subseteq Records /\ pendingRecords \subseteq Records /\ ids \subseteq Records
  /\ sessions \subseteq Records /\ closing \subseteq Records
  /\ cleanup \in [Records -> Http!Cleanups]
  /\ tasks \in [Records -> Http!Tasks]
  /\ cleanupFailed \in BOOLEAN
  /\ closer \in [phase : {"open", "records", "tasks", "resolved", "rejected"}, waits : SUBSET Records]

\* Nothing has begun to end the record.
Fresh(r) == cleanup[r].phase = "none" /\ tasks[r] = "none" /\ r \notin closing

\* The records that have a place: with a runtime on its way, counted as pending,
\* published, or being closed.
InFlight == {r \in Records : caller[r] \in {"creating", "discarding"}}
Placed == sessions \cup counted \cup closing \cup InFlight

\* A record before it has a runtime, with it, and after: it is in one place, it
\* leaves its place only with its runtime, and what fails is remembered.
RecordInv(r) ==
  /\ cleanup[r].phase = "none" => cleanup[r] = Http!NoCleanup
  /\ caller[r] \in {"none", "reading", "creating", "discarding"} =>
       Fresh(r) /\ r \notin sessions \cup counted \cup ids
  /\ caller[r] \in {"none", "reading", "creating"} => runtime[r] = "none"
  /\ caller[r] = "discarding" => Http!closed
  /\ r \in counted => Fresh(r) /\ runtime[r] = "open" /\ r \notin ids \cup sessions
  /\ r \in sessions => Fresh(r) /\ runtime[r] = "open" /\ r \in ids
  /\ caller[r] \in {"connecting", "handling"} /\ r \notin ids /\ cleanup[r].phase = "none" =>
       r \in counted
  /\ r \in ids /\ cleanup[r].phase = "none" => r \in sessions \cup closing
  /\ tasks[r] # "none" => r \in ids
  /\ cleanup[r].phase = "none" /\ tasks[r] # "none" => r \in closing
  /\ cleanup[r].phase \in {"runtime", "transport", "failed"} => r \in closing
  /\ runtime[r] \in {"open", "broken"} => r \in Placed \/ Http!closed
  /\ cleanup[r].phase = "transport" => cleanup[r].failed \/ runtime[r] = "closed"
  /\ cleanup[r].phase = "done" => runtime[r] = "closed"
  /\ cleanup[r].phase = "failed" => cleanupFailed

\* A closed host has published nothing and waits for nothing to be published.
ShutInv == counted = pendingRecords /\ (Http!closed => sessions = {} /\ counted = {})

\* close() has whatever has its id and is not closed: in its hands, or in those
\* of a deferred cleanup or of the request that failed.
Watched(r) ==
  r \in sessions \/ tasks[r] # "none" \/ Http!Cleaned(r) \/ caller[r] = "cleaning" \/ r \in closer.waits
Awaited(r) == Http!Cleaned(r) \/ caller[r] = "cleaning" \/ r \in closer.waits
CloserInv ==
  /\ closer.phase = "open" => closer.waits = {}
  /\ closer.phase \in {"open", "records"} => \A r \in ids : Watched(r)
  /\ closer.phase = "tasks" => \A r \in ids : Awaited(r)

HttpInv == HttpTypes /\ (\A r \in Records : RecordInv(r)) /\ ShutInv /\ CloserInv

\* What a step does with one record leaves the others where they are.
Same(k) ==
  /\ UNCHANGED <<caller[k], runtime[k], cleanup[k], tasks[k]>>
  /\ k \in ids' <=> k \in ids
  /\ k \in sessions' <=> k \in sessions
  /\ k \in counted' <=> k \in counted
  /\ k \in pendingRecords' <=> k \in pendingRecords
  /\ k \in closing' <=> k \in closing
Later == (Http!closed => Http!closed') /\ (cleanupFailed => cleanupFailed')

\* What is known of a record is known as long as the record is the same.
LEMMA SameKept ==
  ASSUME NEW k \in Records, RecordInv(k), Same(k), Later
  PROVE  RecordInv(k)'
BY DEF RecordInv, Same, Later, Fresh, Placed, InFlight

\* One record changes, and close() does not move.
LEMMA OneRecord ==
  ASSUME HttpInv, NEW r \in Records, \A k \in Records : k # r => Same(k), HttpTypes', Later,
         closer' = closer, RecordInv(r)',
         counted' = pendingRecords', Http!closed => r \notin sessions' /\ r \notin counted',
         r \in ids' /\ closer.phase \in {"open", "records"} => Watched(r)',
         r \in ids' /\ closer.phase = "tasks" => Awaited(r)'
  PROVE  HttpInv'
<1>1. \A k \in Records : RecordInv(k)'
  BY SameKept DEF HttpInv
<1>2. ShutInv'
  BY DEF HttpInv, HttpTypes, ShutInv, Same, Http!closed
<1>3. CloserInv'
  BY DEF HttpInv, HttpTypes, CloserInv, Same, Watched, Awaited, Http!Cleaned
<1> QED BY <1>1, <1>2, <1>3 DEF HttpInv

\* A host that has just started has no records.
LEMMA HttpInit == Http!Init => HttpInv
<1> SUFFICES ASSUME Http!Init PROVE HttpInv
  OBVIOUS
<1>1. HttpTypes
  BY DEF Http!Init, HttpTypes, Http!Callers, Http!Tasks, Http!Cleanups, Http!NoCleanup
<1>2. ASSUME NEW r \in Records PROVE RecordInv(r)
  BY DEF Http!Init, RecordInv, Fresh, Http!NoCleanup
<1>3. ShutInv /\ CloserInv
  BY DEF Http!Init, ShutInv, CloserInv, Http!closed
<1> QED BY <1>1, <1>2, <1>3 DEF HttpInv

\* The steps of the request that only move its own caller on.
LEMMA CallerMoves ==
  ASSUME HttpInv, NEW r \in Records,
         Http!Arrive(r) \/ Http!Admit(r) \/ Http!CreateFails(r) \/ Http!Connects(r)
           \/ Http!Initialized(r) \/ Http!CallerCleaned(r)
  PROVE  HttpInv'
<1>1. /\ UNCHANGED <<runtime, counted, pendingRecords, ids, sessions, closing, cleanup, tasks,
                     cleanupFailed, closer>>
      /\ \E phase \in Http!Callers : caller' = [caller EXCEPT ![r] = phase]
  BY DEF Http!Arrive, Http!Admit, Http!CreateFails, Http!Connects, Http!Initialized,
         Http!CallerCleaned, Http!Goes, Http!Callers, Http!places
<1>2. caller \in [Records -> Http!Callers]
  BY DEF HttpInv, HttpTypes
<1>3. caller' \in [Records -> Http!Callers] /\ \A k \in Records : k # r => caller'[k] = caller[k]
  BY <1>1, <1>2
<1>4. HttpTypes' /\ Later /\ \A k \in Records : k # r => Same(k)
  BY <1>1, <1>3 DEF HttpInv, HttpTypes, Same, Later, Http!closed
<1>5. \/ caller[r] = "none" /\ caller'[r] = "reading"
      \/ caller[r] = "reading" /\ caller'[r] \in {"done", "creating"}
      \/ caller[r] = "creating" /\ caller'[r] = "done"
      \/ caller[r] = "connecting" /\ caller'[r] = "handling"
      \/ caller[r] = "handling" /\ caller'[r] = "done" /\ r \in ids
      \/ caller[r] = "cleaning" /\ caller'[r] = "done" /\ Http!Cleaned(r)
  BY <1>2 DEF Http!Arrive, Http!Admit, Http!CreateFails, Http!Connects, Http!Initialized,
              Http!CallerCleaned, Http!Goes
<1>6. RecordInv(r)'
  BY <1>1, <1>5 DEF HttpInv, RecordInv, Fresh, Placed, InFlight, Http!closed
<1>7. /\ counted' = pendingRecords'
      /\ Http!closed => r \notin sessions' /\ r \notin counted'
  BY <1>1 DEF HttpInv, ShutInv
<1>8. /\ r \in ids' /\ closer.phase \in {"open", "records"} => Watched(r)'
      /\ r \in ids' /\ closer.phase = "tasks" => Awaited(r)'
  BY <1>1, <1>5 DEF HttpInv, RecordInv, CloserInv, Watched, Awaited, Http!Cleaned
<1> QED BY <1>1, <1>4, <1>6, <1>7, <1>8, OneRecord

\* The factory returns, in time or too late, and the late runtime is discarded.
LEMMA RuntimeMade ==
  ASSUME HttpInv, NEW r \in Records, Http!Created(r) \/ Http!Discarded(r)
  PROVE  HttpInv'
<1>1. UNCHANGED <<ids, sessions, closing, cleanup, tasks, cleanupFailed, closer>>
  BY DEF Http!Created, Http!Discarded
<1>2. /\ caller \in [Records -> Http!Callers]
      /\ runtime \in [Records -> {"none", "open", "closed", "broken"}]
  BY DEF HttpInv, HttpTypes
<1>3. \/ /\ caller[r] = "creating" /\ Http!closed
         /\ caller' = [caller EXCEPT ![r] = "discarding"] /\ runtime' = [runtime EXCEPT ![r] = "open"]
         /\ UNCHANGED <<counted, pendingRecords>>
      \/ /\ caller[r] = "creating" /\ ~Http!closed
         /\ caller' = [caller EXCEPT ![r] = "connecting"] /\ runtime' = [runtime EXCEPT ![r] = "open"]
         /\ counted' = counted \cup {r} /\ pendingRecords' = pendingRecords \cup {r}
      \/ /\ caller[r] = "discarding" /\ caller' = [caller EXCEPT ![r] = "done"]
         /\ \E outcome \in {"closed", "broken"} : runtime' = [runtime EXCEPT ![r] = outcome]
         /\ UNCHANGED <<counted, pendingRecords>>
  BY DEF Http!Created, Http!Discarded, Http!Goes
<1>4. /\ caller' \in [Records -> Http!Callers]
      /\ runtime' \in [Records -> {"none", "open", "closed", "broken"}]
      /\ \A k \in Records : k # r => caller'[k] = caller[k] /\ runtime'[k] = runtime[k]
  BY <1>2, <1>3 DEF Http!Callers
<1>5. HttpTypes' /\ Later /\ \A k \in Records : k # r => Same(k)
  BY <1>1, <1>3, <1>4 DEF HttpInv, HttpTypes, Same, Later, Http!closed
<1>6. RecordInv(r) /\ ShutInv
  BY DEF HttpInv
<1>7. RecordInv(r)'
  BY <1>1, <1>2, <1>3, <1>6 DEF RecordInv, Fresh, Placed, InFlight, Http!closed
<1>8. /\ counted' = pendingRecords'
      /\ Http!closed => r \notin sessions' /\ r \notin counted'
      /\ r \notin ids'
  BY <1>1, <1>3, <1>6 DEF ShutInv, RecordInv
<1> QED BY <1>1, <1>5, <1>7, <1>8, OneRecord

\* onsessioninitialized.
LEMMA Published ==
  ASSUME HttpInv, NEW r \in Records, Http!SessionInitialized(r)
  PROVE  HttpInv'
<1>1. /\ UNCHANGED <<caller, runtime, closing, cleanup, tasks, cleanupFailed, closer>>
      /\ ids' = ids \cup {r} /\ sessions' = sessions \cup {r}
      /\ pendingRecords' = pendingRecords \ {r} /\ counted' = counted \ {r}
      /\ caller[r] = "handling" /\ r \notin ids /\ cleanup[r] = Http!NoCleanup
  BY DEF Http!SessionInitialized, Http!Publish
<1>2. RecordInv(r) /\ ShutInv
  BY DEF HttpInv
<1>3. r \in counted /\ ~Http!closed
  BY <1>1, <1>2 DEF RecordInv, ShutInv, Http!NoCleanup
<1>4. HttpTypes' /\ Later /\ \A k \in Records : k # r => Same(k)
  BY <1>1 DEF HttpInv, HttpTypes, Same, Later, Http!closed
<1>5. RecordInv(r)'
  BY <1>1, <1>2, <1>3 DEF RecordInv, Fresh, Placed, InFlight, Http!closed
<1>6. counted' = pendingRecords'
  BY <1>1, <1>2 DEF ShutInv
<1>7. closer.phase = "open" /\ Watched(r)'
  BY <1>1, <1>3 DEF Watched, Http!closed
<1> QED BY <1>1, <1>3, <1>4, <1>5, <1>6, <1>7, OneRecord

\* beginCleanup on one record that has a place.
LEMMA Scheduled ==
  ASSUME HttpInv, NEW r \in Records, Http!IdleFires(r) \/ Http!Deleted(r)
  PROVE  HttpInv'
<1>1. PICK task \in {"full", "keepTransport"} : r \in sessions /\ Http!ScheduleCleanup(r, task)
  BY DEF Http!IdleFires, Http!Deleted
<1>2. /\ UNCHANGED <<caller, runtime, ids, cleanup, cleanupFailed, closer>>
      /\ closing' = closing \cup {r} /\ sessions' = sessions \ {r}
      /\ pendingRecords' = pendingRecords \ {r} /\ counted' = counted \ {r}
      /\ tasks' = [tasks EXCEPT ![r] = task]
  BY <1>1 DEF Http!ScheduleCleanup, Http!BeginCleanup
<1>3. tasks \in [Records -> Http!Tasks]
  BY DEF HttpInv, HttpTypes
<1>4. /\ tasks' \in [Records -> Http!Tasks] /\ tasks'[r] = task
      /\ \A k \in Records : k # r => tasks'[k] = tasks[k]
  BY <1>2, <1>3 DEF Http!Tasks
<1>5. RecordInv(r) /\ ShutInv
  BY DEF HttpInv
<1>6. HttpTypes' /\ Later /\ \A k \in Records : k # r => Same(k)
  BY <1>2, <1>4 DEF HttpInv, HttpTypes, Same, Later, Http!closed
<1>7. RecordInv(r)'
  BY <1>1, <1>2, <1>4, <1>5 DEF RecordInv, Fresh, Placed, InFlight, Http!closed
<1>8. ~Http!closed /\ counted' = pendingRecords'
  BY <1>1, <1>2, <1>5 DEF ShutInv
<1>9. closer.phase = "open" /\ Watched(r)'
  BY <1>4, <1>8 DEF Watched, Http!closed
<1> QED BY <1>2, <1>6, <1>7, <1>8, <1>9, OneRecord

\* cleanupRecord on one record: it is begun, or was begun already.
CleanedUp(r) ==
  \/ /\ cleanup[r].phase # "none"
     /\ UNCHANGED <<cleanup, closing, sessions, pendingRecords, counted>>
  \/ /\ cleanup[r].phase = "none"
     /\ cleanup' \in [Records -> Http!Cleanups] /\ cleanup'[r].phase = "runtime"
     /\ \A k \in Records : k # r => cleanup'[k] = cleanup[k]
     /\ closing' = closing \cup {r} /\ sessions' = sessions \ {r}
     /\ pendingRecords' = pendingRecords \ {r} /\ counted' = counted \ {r}

\* cleanupRecord does no more than that.
LEMMA CleansUp ==
  ASSUME HttpInv, NEW r \in Records, NEW b \in BOOLEAN, Http!CleanupRecords({r}, b)
  PROVE  CleanedUp(r)
<1>1. cleanup \in [Records -> Http!Cleanups]
  BY DEF HttpInv, HttpTypes
<1>2. cleanup[r].phase = "none" <=> cleanup[r] = Http!NoCleanup
  BY DEF HttpInv, RecordInv, Http!NoCleanup
<1> DEFINE begun == [phase |-> "runtime", transport |-> b, failed |-> FALSE]
           fresh == {k \in {r} : cleanup[k] = Http!NoCleanup}
<1>3. /\ Http!BeginCleanup(fresh)
      /\ cleanup' = [k \in Records |-> IF k \in fresh THEN begun ELSE cleanup[k]]
  BY DEF Http!CleanupRecords
<1>4. begun \in Http!Cleanups /\ begun.phase = "runtime"
  BY DEF Http!Cleanups
<1> HIDE DEF begun
<1>5. CASE cleanup[r].phase = "none"
  <2>1. fresh = {r}
    BY <1>2, <1>5
  <2> HIDE DEF fresh
  <2>2. cleanup' = [k \in Records |-> IF k = r THEN begun ELSE cleanup[k]]
    BY <1>3, <2>1
  <2> QED BY <1>1, <1>3, <1>4, <1>5, <2>1, <2>2 DEF CleanedUp, Http!BeginCleanup
<1>6. CASE cleanup[r].phase # "none"
  <2>1. fresh = {}
    BY <1>2, <1>6
  <2> HIDE DEF fresh
  <2>2. cleanup' = cleanup
    BY <1>1, <1>3, <2>1
  <2>3. UNCHANGED <<closing, sessions, pendingRecords, counted>>
    BY <1>3, <2>1 DEF Http!BeginCleanup
  <2> QED BY <1>6, <2>2, <2>3 DEF CleanedUp
<1> QED BY <1>5, <1>6

\* The initialize request fails, whatever its record has come to.
LEMMA Fails ==
  ASSUME HttpInv, NEW r \in Records, Http!InitializeFails(r)
  PROVE  HttpInv'
<1>1. /\ UNCHANGED <<runtime, ids, tasks, cleanupFailed, closer>>
      /\ caller[r] \in {"connecting", "handling"} /\ caller' = [caller EXCEPT ![r] = "cleaning"]
      /\ CleanedUp(r)
  BY CleansUp DEF Http!InitializeFails, Http!Goes
<1>2. /\ caller \in [Records -> Http!Callers] /\ cleanup \in [Records -> Http!Cleanups]
  BY DEF HttpInv, HttpTypes
<1>3. /\ caller' \in [Records -> Http!Callers] /\ caller'[r] = "cleaning"
      /\ \A k \in Records : k # r => caller'[k] = caller[k]
  BY <1>1, <1>2 DEF Http!Callers
<1>4. RecordInv(r) /\ ShutInv
  BY DEF HttpInv
<1>5. HttpTypes' /\ Later /\ \A k \in Records : k # r => Same(k)
  BY <1>1, <1>3 DEF HttpInv, HttpTypes, Same, Later, CleanedUp, Http!closed
<1>6. RecordInv(r)'
  <2>1. CASE cleanup[r].phase # "none"
    BY <1>1, <1>3, <1>4, <2>1 DEF CleanedUp, RecordInv, Fresh, Placed, InFlight, Http!closed
  <2>2. CASE cleanup[r].phase = "none"
    BY <1>1, <1>3, <1>4, <2>2 DEF CleanedUp, RecordInv, Fresh, Placed, InFlight, Http!closed
  <2> QED BY <2>1, <2>2
<1>7. /\ counted' = pendingRecords'
      /\ Http!closed => r \notin sessions' /\ r \notin counted'
  BY <1>1, <1>4 DEF ShutInv, CleanedUp
<1>8. Watched(r)' /\ Awaited(r)'
  BY <1>3 DEF Watched, Awaited
<1> QED BY <1>1, <1>5, <1>6, <1>7, <1>8, OneRecord

\* A deferred cleanup runs, or shares one that was begun in the meantime.
LEMMA TaskRuns ==
  ASSUME HttpInv, NEW r \in Records, Http!RunTask(r)
  PROVE  HttpInv'
<1>1. /\ UNCHANGED <<caller, runtime, ids, cleanupFailed, closer>>
      /\ tasks[r] \in {"full", "keepTransport"} /\ tasks' = [tasks EXCEPT ![r] = "awaiting"]
      /\ CleanedUp(r)
  BY CleansUp DEF Http!RunTask
<1>2. tasks \in [Records -> Http!Tasks] /\ cleanup \in [Records -> Http!Cleanups]
  BY DEF HttpInv, HttpTypes
<1>3. /\ tasks' \in [Records -> Http!Tasks] /\ tasks'[r] = "awaiting"
      /\ \A k \in Records : k # r => tasks'[k] = tasks[k]
  BY <1>1, <1>2 DEF Http!Tasks
<1>4. RecordInv(r) /\ ShutInv
  BY DEF HttpInv
<1>5. HttpTypes' /\ Later /\ \A k \in Records : k # r => Same(k)
  BY <1>1, <1>3 DEF HttpInv, HttpTypes, Same, Later, CleanedUp, Http!closed
<1>6. RecordInv(r)'
  <2>1. CASE cleanup[r].phase # "none"
    BY <1>1, <1>3, <1>4, <2>1 DEF CleanedUp, RecordInv, Fresh, Placed, InFlight, Http!closed
  <2>2. CASE cleanup[r].phase = "none"
    BY <1>1, <1>3, <1>4, <2>2 DEF CleanedUp, RecordInv, Fresh, Placed, InFlight, Http!closed
  <2> QED BY <2>1, <2>2
<1>7. /\ counted' = pendingRecords'
      /\ Http!closed => r \notin sessions' /\ r \notin counted'
  BY <1>1, <1>4 DEF ShutInv, CleanedUp
<1>8. Watched(r)'
  BY <1>3 DEF Watched
<1>9. r \in ids' /\ closer.phase = "tasks" => Awaited(r)'
  BY <1>1 DEF HttpInv, CloserInv, Awaited, CleanedUp, Http!Cleaned
<1> QED BY <1>1, <1>5, <1>6, <1>7, <1>8, <1>9, OneRecord

\* How the promise of a cleanup that is under way settles.
SettledAs(r, failed) ==
  /\ cleanup' \in [Records -> Http!Cleanups]
  /\ cleanup'[r].phase = IF failed THEN "failed" ELSE "done"
  /\ \A k \in Records : k # r => cleanup'[k] = cleanup[k]
  /\ closing' = IF failed THEN closing ELSE closing \ {r}
  /\ cleanupFailed' \in BOOLEAN /\ (cleanupFailed \/ failed <=> cleanupFailed')
  /\ tasks' \in [Records -> Http!Tasks]
  /\ tasks'[r] = IF tasks[r] = "awaiting" THEN "none" ELSE tasks[r]
  /\ \A k \in Records : k # r => tasks'[k] = tasks[k]

\* The end of a cleanup, in the fields that matter.
LEMMA Settles ==
  ASSUME HttpInv, NEW r \in Records, NEW failed \in BOOLEAN, Http!Settle(r, failed)
  PROVE  SettledAs(r, failed)
<1>1. /\ cleanup \in [Records -> Http!Cleanups] /\ tasks \in [Records -> Http!Tasks]
      /\ cleanupFailed \in BOOLEAN
  BY DEF HttpInv, HttpTypes
<1> DEFINE phase == IF failed THEN "failed" ELSE "done"
           next == [cleanup[r] EXCEPT !.phase = phase]
           task == IF tasks[r] = "awaiting" THEN "none" ELSE tasks[r]
<1>2. cleanup' = [cleanup EXCEPT ![r] = next] /\ tasks' = [tasks EXCEPT ![r] = task]
      /\ cleanupFailed' = (cleanupFailed \/ failed)
      /\ closing' = IF failed THEN closing ELSE closing \ {r}
  BY DEF Http!Settle
<1>3. next \in Http!Cleanups /\ next.phase = phase /\ task \in Http!Tasks
  BY <1>1 DEF Http!Cleanups, Http!Tasks
<1> HIDE DEF next, task
<1>4. /\ cleanup' \in [Records -> Http!Cleanups] /\ cleanup'[r] = next
      /\ \A k \in Records : k # r => cleanup'[k] = cleanup[k]
  BY <1>1, <1>2, <1>3
<1>5. /\ tasks' \in [Records -> Http!Tasks] /\ tasks'[r] = task
      /\ \A k \in Records : k # r => tasks'[k] = tasks[k]
  BY <1>1, <1>2, <1>3
<1> QED BY <1>1, <1>2, <1>3, <1>4, <1>5 DEF SettledAs, task

\* A cleanup settles well only with the runtime closed.
LEMMA CleanupSettles ==
  ASSUME HttpInv, NEW r \in Records, NEW failed \in BOOLEAN, SettledAs(r, failed),
         cleanup[r].phase \in {"runtime", "transport"},
         runtime' \in [Records -> {"none", "open", "closed", "broken"}],
         \A k \in Records : k # r => runtime'[k] = runtime[k],
         ~failed => runtime'[r] = "closed",
         UNCHANGED <<caller, counted, pendingRecords, ids, sessions, closer>>
  PROVE  HttpInv'
<1>1. RecordInv(r) /\ ShutInv
  BY DEF HttpInv
<1>2. HttpTypes' /\ Later /\ \A k \in Records : k # r => Same(k)
  BY DEF HttpInv, HttpTypes, Same, Later, SettledAs, Http!closed
<1>3. r \in closing /\ r \notin sessions /\ r \notin counted
      /\ caller[r] \notin {"none", "reading", "creating", "discarding"}
  BY <1>1 DEF RecordInv, Fresh
<1>4. RecordInv(r)'
  <2>1. CASE failed
    BY <1>1, <1>3, <2>1 DEF SettledAs, RecordInv, Fresh, Placed, InFlight, Http!closed
  <2>2. CASE ~failed
    BY <1>1, <1>3, <2>2 DEF SettledAs, RecordInv, Fresh, Placed, InFlight, Http!closed
  <2> QED BY <2>1, <2>2
<1>5. counted' = pendingRecords' /\ (Http!closed => r \notin sessions' /\ r \notin counted')
  BY <1>1 DEF ShutInv
<1>6. Watched(r)' /\ Awaited(r)'
  BY DEF Watched, Awaited, SettledAs, Http!Cleaned
<1> QED BY <1>2, <1>4, <1>5, <1>6, OneRecord

\* runtime.close() ends a cleanup, or its first half.
LEMMA RuntimeClosesStep ==
  ASSUME HttpInv, NEW r \in Records, Http!RuntimeCloses(r)
  PROVE  HttpInv'
<1>1. cleanup[r].phase = "runtime"
      /\ UNCHANGED <<caller, counted, pendingRecords, ids, sessions, closer>>
  BY DEF Http!RuntimeCloses, Http!places
<1>2. PICK failed \in BOOLEAN :
        /\ runtime' = [runtime EXCEPT ![r] = IF failed THEN "broken" ELSE "closed"]
        /\ IF cleanup[r].transport
           THEN /\ cleanup' = [cleanup EXCEPT ![r].phase = "transport", ![r].failed = failed]
                /\ UNCHANGED <<closing, cleanupFailed, tasks>>
           ELSE Http!Settle(r, failed)
  BY DEF Http!RuntimeCloses
<1>3. /\ runtime \in [Records -> {"none", "open", "closed", "broken"}]
      /\ cleanup \in [Records -> Http!Cleanups]
  BY DEF HttpInv, HttpTypes
<1>4. /\ runtime' \in [Records -> {"none", "open", "closed", "broken"}]
      /\ runtime'[r] = IF failed THEN "broken" ELSE "closed"
      /\ \A k \in Records : k # r => runtime'[k] = runtime[k]
  BY <1>2, <1>3
<1>5. CASE ~cleanup[r].transport
  BY <1>1, <1>2, <1>4, <1>5, Settles, CleanupSettles
<1>6. CASE cleanup[r].transport
  <2> DEFINE first == [cleanup[r] EXCEPT !.phase = "transport"]
             next == [first EXCEPT !.failed = failed]
  <2>1. cleanup' = [cleanup EXCEPT ![r] = next] /\ UNCHANGED <<closing, cleanupFailed, tasks>>
    BY <1>2, <1>3, <1>6
  <2>2. first \in Http!Cleanups /\ first.phase = "transport"
    BY <1>3 DEF Http!Cleanups
  <2> HIDE DEF first
  <2>3. next \in Http!Cleanups /\ next.phase = "transport" /\ next.failed = failed
    BY <2>2 DEF Http!Cleanups
  <2> HIDE DEF next
  <2>4. /\ cleanup' \in [Records -> Http!Cleanups] /\ cleanup'[r] = next
        /\ \A k \in Records : k # r => cleanup'[k] = cleanup[k]
    BY <1>3, <2>1, <2>3
  <2>5. RecordInv(r) /\ ShutInv
    BY DEF HttpInv
  <2>6. HttpTypes' /\ Later /\ \A k \in Records : k # r => Same(k)
    BY <1>1, <1>4, <2>1, <2>4 DEF HttpInv, HttpTypes, Same, Later, Http!closed
  <2>7. r \in closing /\ r \notin sessions /\ r \notin counted
        /\ caller[r] \notin {"none", "reading", "creating", "discarding"}
    BY <1>1, <2>5 DEF RecordInv, Fresh
  <2>8. RecordInv(r)'
    BY <1>1, <1>4, <2>1, <2>3, <2>4, <2>5, <2>7 DEF RecordInv, Fresh, Placed, InFlight, Http!closed
  <2>9. /\ counted' = pendingRecords'
        /\ Http!closed => r \notin sessions' /\ r \notin counted'
    BY <1>1, <2>5 DEF ShutInv
  <2>10. /\ r \in ids' /\ closer.phase \in {"open", "records"} => Watched(r)'
         /\ r \in ids' /\ closer.phase = "tasks" => Awaited(r)'
    BY <1>1, <2>1 DEF HttpInv, CloserInv, Watched, Awaited, Http!Cleaned
  <2> QED BY <1>1, <2>6, <2>8, <2>9, <2>10, OneRecord
<1> QED BY <1>5, <1>6

\* transport.close() ends a cleanup, which fails if either half did.
LEMMA TransportClosesStep ==
  ASSUME HttpInv, NEW r \in Records, Http!TransportCloses(r)
  PROVE  HttpInv'
<1>1. cleanup[r].phase = "transport"
      /\ UNCHANGED <<caller, runtime, counted, pendingRecords, ids, sessions, closer>>
  BY DEF Http!TransportCloses, Http!places
<1>2. PICK failed \in BOOLEAN : Http!Settle(r, failed \/ cleanup[r].failed)
  BY DEF Http!TransportCloses
<1>3. /\ runtime \in [Records -> {"none", "open", "closed", "broken"}]
      /\ cleanup[r].failed \in BOOLEAN
  BY DEF HttpInv, HttpTypes, Http!Cleanups
<1> DEFINE bad == failed \/ cleanup[r].failed
<1>4. bad \in BOOLEAN /\ (~bad => runtime[r] = "closed")
  BY <1>1, <1>3 DEF HttpInv, RecordInv
<1>5. Http!Settle(r, bad)
  BY <1>2
<1> HIDE DEF bad
<1>6. SettledAs(r, bad)
  BY <1>4, <1>5, Settles
<1> QED BY <1>1, <1>3, <1>4, <1>6, CleanupSettles

\* close(): everything that has a session or waits for one is being cleaned up.
LEMMA CloseStep ==
  ASSUME HttpInv, Http!Close
  PROVE  HttpInv'
<1> DEFINE S == sessions \cup pendingRecords
           begun == [phase |-> "runtime", transport |-> TRUE, failed |-> FALSE]
           fresh == {r \in S : cleanup[r] = Http!NoCleanup}
<1>1. /\ ~Http!closed /\ closer' = [phase |-> "records", waits |-> S]
      /\ Http!BeginCleanup(fresh)
      /\ cleanup' = [k \in Records |-> IF k \in fresh THEN begun ELSE cleanup[k]]
      /\ UNCHANGED <<caller, runtime, ids, tasks, cleanupFailed>>
  BY DEF Http!Close, Http!CleanupRecords
<1>2. /\ S \subseteq Records /\ pendingRecords = counted
      /\ \A r \in S : RecordInv(r)
  BY DEF HttpInv, HttpTypes, ShutInv
<1>3. fresh = S
  BY <1>2 DEF RecordInv, Fresh
<1>4. begun \in Http!Cleanups /\ begun.phase = "runtime"
  BY DEF Http!Cleanups
<1> HIDE DEF fresh, begun
<1>5. /\ cleanup' = [k \in Records |-> IF k \in S THEN begun ELSE cleanup[k]]
      /\ closing' = closing \cup S /\ sessions' = {} /\ counted' = {} /\ pendingRecords' = {}
  BY <1>1, <1>2, <1>3 DEF Http!BeginCleanup
<1>6. /\ cleanup' \in [Records -> Http!Cleanups]
      /\ \A k \in S : cleanup'[k].phase = "runtime"
      /\ \A k \in Records \ S : cleanup'[k] = cleanup[k]
  BY <1>2, <1>4, <1>5 DEF HttpInv, HttpTypes
<1>7. closer'.phase = "records" /\ closer'.waits = S /\ Http!closed'
  BY <1>1 DEF Http!closed
<1>8. HttpTypes'
  BY <1>1, <1>2, <1>5, <1>6 DEF HttpInv, HttpTypes
<1>9. ASSUME NEW r \in Records PROVE RecordInv(r)'
  <2>1. RecordInv(r)
    BY DEF HttpInv
  <2>2. CASE r \in S
    BY <1>1, <1>2, <1>5, <1>6, <1>7, <2>1, <2>2 DEF RecordInv, Fresh, Placed, InFlight
  <2>3. CASE r \notin S
    BY <1>1, <1>2, <1>5, <1>6, <1>7, <2>1, <2>3 DEF RecordInv, Fresh, Placed, InFlight, Http!closed
  <2> QED BY <2>2, <2>3
<1>10. ShutInv'
  BY <1>5 DEF ShutInv
<1>11. CloserInv'
  <2>1. SUFFICES ASSUME NEW r \in ids PROVE Watched(r)'
    BY <1>1, <1>7 DEF CloserInv
  <2>2. Watched(r) /\ r \in Records /\ closer.waits \subseteq Records
    BY <1>1 DEF HttpInv, HttpTypes, CloserInv, Http!closed
  <2>3. closer.waits = {}
    BY <1>1 DEF HttpInv, CloserInv, Http!closed
  <2> QED BY <1>1, <1>2, <1>6, <1>7, <2>2, <2>3 DEF Watched, Http!Cleaned
<1> QED BY <1>8, <1>9, <1>10, <1>11 DEF HttpInv

\* close() goes on from the records to the deferred cleanups, and ends.
LEMMA CloserMoves ==
  ASSUME HttpInv, Http!CloseTasks \/ Http!CloseReturns
  PROVE  HttpInv'
<1>1. UNCHANGED <<caller, runtime, counted, pendingRecords, ids, sessions, closing, cleanup, tasks,
                  cleanupFailed>>
  BY DEF Http!CloseTasks, Http!CloseReturns, Http!places
<1>2. \/ /\ closer.phase = "records" /\ \A r \in closer.waits : Http!Cleaned(r)
         /\ closer' = [phase |-> "tasks", waits |-> {r \in Records : tasks[r] # "none"}]
      \/ /\ closer.phase = "tasks"
         /\ \E phase \in {"rejected", "resolved"} : closer' = [phase |-> phase, waits |-> {}]
  BY DEF Http!CloseTasks, Http!CloseReturns
<1>3. HttpTypes' /\ Http!closed /\ Http!closed'
  BY <1>1, <1>2 DEF HttpInv, HttpTypes, Http!closed
<1>4. \A r \in Records : RecordInv(r)'
  <2>1. ASSUME NEW r \in Records PROVE Same(r) /\ Later
    BY <1>1, <1>3 DEF Same, Later
  <2> QED BY <2>1, SameKept DEF HttpInv
<1>5. ShutInv'
  BY <1>1, <1>3 DEF HttpInv, ShutInv
<1>6. CloserInv'
  <2>1. CASE closer.phase = "records"
    <3>1. closer'.phase = "tasks" /\ closer'.waits = {r \in Records : tasks[r] # "none"}
      BY <1>2, <2>1
    <3>2. ASSUME NEW r \in ids PROVE Awaited(r)'
      <4>1. Watched(r) /\ r \in Records /\ r \notin sessions
        BY <1>3, <2>1 DEF HttpInv, HttpTypes, CloserInv, ShutInv
      <4> QED BY <1>1, <1>2, <2>1, <3>1, <4>1 DEF Watched, Awaited, Http!Cleaned
    <3> QED BY <1>1, <3>1, <3>2 DEF CloserInv
  <2>2. CASE closer.phase = "tasks"
    BY <1>2, <2>2 DEF CloserInv
  <2> QED BY <1>2, <2>1, <2>2
<1> QED BY <1>3, <1>4, <1>5, <1>6 DEF HttpInv

\* Every step of the host.
LEMMA HttpNext ==
  ASSUME HttpInv, Http!Next
  PROVE  HttpInv'
<1>1. ASSUME NEW r \in Records, Http!Progress(r) PROVE HttpInv'
  BY <1>1, CallerMoves, RuntimeMade, Published, Fails, TaskRuns, RuntimeClosesStep,
     TransportClosesStep DEF Http!Progress
<1>2. ASSUME NEW r \in Records, Http!Arrive(r) \/ Http!IdleFires(r) \/ Http!Deleted(r) PROVE HttpInv'
  BY <1>2, CallerMoves, Scheduled
<1>3. CASE Http!Close \/ Http!CloseTasks \/ Http!CloseReturns
  BY <1>3, CloseStep, CloserMoves
<1> QED BY <1>1, <1>2, <1>3 DEF Http!Next

-----------------------------------------------------------------------------
(* The HTTP host: places.                                                  *)

\* pendingInitializations counts the places taken before a session is
\* published, and an open host has given no more places than it has.
PlacesInv ==
  /\ pendingInits = Cardinality(counted \cup InFlight)
  /\ ~Http!closed => Cardinality(Placed) <= MaxSessions

\* The operators that HttpHost brings along are the ones the library speaks of.
LEMMA SameCardinality ==
  /\ \A S : Http!Cardinality(S) = Cardinality(S)
  /\ \A S : Http!IsFiniteSet(S) <=> IsFiniteSet(S)
BY DEF Http!Cardinality, Cardinality, Http!IsFiniteSet, IsFiniteSet

\* What HostAssumption says of the host's constants.
LEMMA HostConstants == IsFiniteSet(Records) /\ MaxSessions \in Nat /\ MaxSessions # 0
<1>1. Http!IsFiniteSet(Records) /\ MaxSessions \in Nat \ {0}
  BY HostAssumption DEF Http!HostAssumption
<1> QED BY <1>1, SameCardinality

\* A record has one place, and all sets of places are finite.
LEMMA PlacesFinite ==
  ASSUME HttpInv
  PROVE  /\ Placed \subseteq Records /\ IsFiniteSet(Placed)
         /\ \A S \in SUBSET Placed : IsFiniteSet(S) /\ Cardinality(S) \in Nat
         /\ sessions \cap closing = {} /\ counted \cap InFlight = {}
         /\ (counted \cup InFlight) \cap (sessions \cup closing) = {}
<1>1. Placed \subseteq Records
  BY DEF HttpInv, HttpTypes, Placed, InFlight
<1>2. IsFiniteSet(Placed)
  BY <1>1, FS_Subset, HostConstants
<1>3. \A S \in SUBSET Placed : IsFiniteSet(S) /\ Cardinality(S) \in Nat
  BY <1>2, FS_Subset, FS_CardinalityType
<1>4. /\ \A r \in sessions : r \in Records /\ r \notin closing /\ r \notin counted /\ r \notin InFlight
      /\ \A r \in counted : r \in Records /\ r \notin closing /\ r \notin InFlight
      /\ \A r \in InFlight : r \notin closing
  BY DEF HttpInv, HttpTypes, RecordInv, Fresh, InFlight
<1> QED BY <1>1, <1>2, <1>3, <1>4

\* The guard of createSession counts every place there is.
LEMMA FullCounts ==
  ASSUME HttpInv, PlacesInv
  PROVE  Http!Full <=> Cardinality(Placed) >= MaxSessions
<1> DEFINE P == counted \cup InFlight
<1>1. /\ IsFiniteSet(sessions) /\ IsFiniteSet(closing) /\ IsFiniteSet(P)
      /\ Cardinality(sessions) \in Nat /\ Cardinality(closing) \in Nat /\ Cardinality(P) \in Nat
  <2>1. sessions \subseteq Placed /\ closing \subseteq Placed /\ P \subseteq Placed
    BY DEF Placed
  <2> QED BY <2>1, PlacesFinite
<1>2. sessions \cap closing = {} /\ P \cap (sessions \cup closing) = {}
  BY PlacesFinite
<1>3. Placed = P \cup (sessions \cup closing)
  BY DEF Placed
<1>4. pendingInits = Cardinality(P)
  BY DEF PlacesInv
<1> HIDE DEF P
<1>5. /\ IsFiniteSet(sessions \cup closing)
      /\ Cardinality(sessions \cup closing) = Cardinality(sessions) + Cardinality(closing)
  <2>1. Cardinality(sessions \cap closing) = 0
    BY <1>2, FS_EmptySet
  <2>2. /\ IsFiniteSet(sessions \cup closing)
        /\ Cardinality(sessions \cup closing) =
             Cardinality(sessions) + Cardinality(closing) - Cardinality(sessions \cap closing)
    BY <1>1, FS_Union
  <2> QED BY <1>1, <2>1, <2>2
<1>6. Cardinality(Placed) = Cardinality(P) + Cardinality(sessions) + Cardinality(closing)
  <2> DEFINE R == sessions \cup closing
  <2>1. Cardinality(P \cap R) = 0
    BY <1>2, FS_EmptySet
  <2>2. IsFiniteSet(R)
    BY <1>5
  <2> HIDE DEF R
  <2>3. Cardinality(P \cup R) = Cardinality(P) + Cardinality(R) - Cardinality(P \cap R)
    BY <1>1, <2>2, FS_Union
  <2> QED BY <1>1, <1>3, <1>5, <2>1, <2>3 DEF R
<1>7. MaxSessions \in Nat
  BY HostConstants
<1>8. Http!Full <=> Cardinality(sessions) + pendingInits + Cardinality(closing) >= MaxSessions
  <2>1. Http!Full <=> Http!Cardinality(sessions) + pendingInits + Http!Cardinality(closing) >= MaxSessions
    BY DEF Http!Full
  <2> QED BY <2>1, SameCardinality
<1> QED BY <1>1, <1>4, <1>6, <1>7, <1>8

\* Steps that give nobody a place, and count as given back what they give back.
LEMMA PlacesKept ==
  ASSUME HttpInv, PlacesInv, HttpInv', Placed' \subseteq Placed,
         Http!closed => Http!closed',
         pendingInits' = Cardinality((counted \cup InFlight)')
  PROVE  PlacesInv'
<1>1. IsFiniteSet(Placed) /\ Cardinality(Placed) \in Nat
  BY PlacesFinite, FS_CardinalityType
<1>2. Cardinality(Placed') <= Cardinality(Placed)
  BY <1>1, FS_Subset
<1>3. Cardinality(Placed') \in Nat
  BY <1>1, FS_Subset, FS_CardinalityType
<1>4. MaxSessions \in Nat
  BY HostConstants
<1> QED BY <1>1, <1>2, <1>3, <1>4 DEF PlacesInv

\* The places of the pending records of S are given back, once.
LEMMA GivenBack ==
  ASSUME HttpInv, PlacesInv, NEW S \in SUBSET Records, counted' = counted \ S,
         InFlight' = InFlight, pendingInits' = pendingInits - Cardinality(S \cap counted)
  PROVE  pendingInits' = Cardinality((counted \cup InFlight)')
<1> DEFINE P == counted \cup InFlight
           T == S \cap counted
<1>1. IsFiniteSet(P)
  <2>1. P \subseteq Placed
    BY DEF Placed
  <2> QED BY <2>1, PlacesFinite
<1>2. (counted \cup InFlight)' = P \ T /\ P \cap T = T
  BY PlacesFinite
<1>3. pendingInits = Cardinality(P)
  BY DEF PlacesInv
<1> HIDE DEF P
<1>4. Cardinality(P \ T) = Cardinality(P) - Cardinality(P \cap T)
  BY <1>1, FS_Difference
<1> QED BY <1>2, <1>3, <1>4

\* A caller that moves on enters or leaves the creation of a runtime.
LEMMA FlightMoves ==
  ASSUME HttpInv, NEW r \in Records, NEW phase \in Http!Callers, caller' = [caller EXCEPT ![r] = phase]
  PROVE  InFlight' = IF phase \in {"creating", "discarding"} THEN InFlight \cup {r} ELSE InFlight \ {r}
<1>1. /\ caller'[r] = phase
      /\ \A k \in Records : k # r => caller'[k] = caller[k]
  BY DEF HttpInv, HttpTypes
<1> QED BY <1>1 DEF InFlight

\* createSession takes a place, or gives it back.
LEMMA PlacesOfCaller ==
  ASSUME HttpInv, PlacesInv, HttpInv', NEW r \in Records,
         Http!Admit(r) \/ Http!CreateFails(r) \/ Http!Created(r) \/ Http!Discarded(r)
  PROVE  PlacesInv'
<1> DEFINE P == counted \cup InFlight
<1>1. /\ RecordInv(r) /\ IsFiniteSet(P) /\ pendingInits = Cardinality(P) /\ Cardinality(P) \in Nat
      /\ IsFiniteSet(Placed) /\ Cardinality(Placed) \in Nat
  <2>1. P \subseteq Placed
    BY DEF Placed
  <2> QED BY <2>1, PlacesFinite, FS_CardinalityType DEF HttpInv, PlacesInv
<1>2. UNCHANGED <<sessions, closing, closer>>
  BY DEF Http!Admit, Http!CreateFails, Http!Created, Http!Discarded
<1>3. CASE Http!Admit(r) /\ Http!Full
  <2>1. caller[r] = "reading" /\ caller' = [caller EXCEPT ![r] = "done"]
        /\ UNCHANGED <<pendingInits, counted>>
    BY <1>3 DEF Http!Admit, Http!Goes
  <2>2. InFlight' = InFlight
    BY <2>1, FlightMoves DEF InFlight, Http!Callers
  <2> QED BY <1>1, <1>2, <2>1, <2>2, PlacesKept DEF Placed, Http!closed
<1>4. CASE Http!Admit(r) /\ ~Http!Full
  <2>1. caller[r] = "reading" /\ caller' = [caller EXCEPT ![r] = "creating"]
        /\ pendingInits' = pendingInits + 1 /\ UNCHANGED counted
    BY <1>4 DEF Http!Admit, Http!Goes
  <2>2. InFlight' = InFlight \cup {r}
    BY <2>1, FlightMoves DEF Http!Callers
  <2>3. r \notin P /\ (counted \cup InFlight)' = P \cup {r} /\ Placed' = Placed \cup {r}
    BY <1>1, <1>2, <2>1, <2>2 DEF RecordInv, InFlight, Placed
  <2> HIDE DEF P
  <2>4. Cardinality(P \cup {r}) = Cardinality(P) + 1
    BY <1>1, <2>3, FS_AddElement
  <2>5. Cardinality(Placed \cup {r}) <= Cardinality(Placed) + 1 /\ Cardinality(Placed \cup {r}) \in Nat
    <3>1. Cardinality(Placed \cup {r}) = IF r \in Placed THEN Cardinality(Placed) ELSE Cardinality(Placed) + 1
      BY <1>1, FS_AddElement
    <3> QED BY <1>1, <3>1
  <2>6. ~(Cardinality(Placed) >= MaxSessions) /\ MaxSessions \in Nat
    BY <1>4, FullCounts, HostConstants
  <2> QED BY <1>1, <2>1, <2>3, <2>4, <2>5, <2>6 DEF PlacesInv
<1>5. CASE Http!CreateFails(r) \/ Http!Discarded(r)
  <2>1. caller[r] \in {"creating", "discarding"} /\ caller' = [caller EXCEPT ![r] = "done"]
        /\ pendingInits' = pendingInits - 1 /\ UNCHANGED counted
    BY <1>5 DEF Http!CreateFails, Http!Discarded, Http!Goes
  <2>2. InFlight' = InFlight \ {r}
    BY <2>1, FlightMoves DEF Http!Callers
  <2>3. r \in P /\ (counted \cup InFlight)' = P \ {r} /\ Placed' \subseteq Placed
    BY <1>1, <1>2, <2>1, <2>2 DEF RecordInv, InFlight, Placed
  <2> HIDE DEF P
  <2>4. Cardinality(P \ {r}) = Cardinality(P) - 1
    BY <1>1, <2>3, FS_RemoveElement
  <2> QED BY <1>1, <1>2, <2>1, <2>3, <2>4, PlacesKept DEF Http!closed
<1>6. CASE Http!Created(r) /\ Http!closed
  <2>1. caller[r] = "creating" /\ caller' = [caller EXCEPT ![r] = "discarding"]
        /\ UNCHANGED <<pendingInits, counted>>
    BY <1>6 DEF Http!Created, Http!Goes
  <2>2. InFlight' = InFlight
    BY <2>1, FlightMoves DEF InFlight, Http!Callers
  <2> QED BY <1>1, <1>2, <2>1, <2>2, PlacesKept DEF Placed, Http!closed
<1>7. CASE Http!Created(r) /\ ~Http!closed
  <2>1. caller[r] = "creating" /\ caller' = [caller EXCEPT ![r] = "connecting"]
        /\ pendingInits' = pendingInits /\ counted' = counted \cup {r}
    BY <1>7 DEF Http!Created, Http!Goes
  <2>2. InFlight' = InFlight \ {r} /\ r \in InFlight
    BY <2>1, FlightMoves DEF InFlight, Http!Callers
  <2>3. (counted \cup InFlight)' = P /\ Placed' = Placed
    BY <1>2, <2>1, <2>2 DEF Placed
  <2> QED BY <1>1, <1>2, <2>1, <2>3, PlacesKept DEF Http!closed
<1> QED BY <1>3, <1>4, <1>5, <1>6, <1>7

\* Every other step moves records between places.
LEMMA PlacesOfRecords ==
  ASSUME HttpInv, PlacesInv, HttpInv', NEW S \in SUBSET Placed,
         counted' = counted \ S, pendingInits' = pendingInits - Cardinality(S \cap counted),
         sessions' \subseteq sessions \cup S, closing' \subseteq closing \cup S,
         InFlight' = InFlight, Http!closed => Http!closed'
  PROVE  PlacesInv'
<1>1. Placed' \subseteq Placed
  BY DEF Placed
<1>2. S \in SUBSET Records
  BY PlacesFinite
<1> QED BY <1>1, <1>2, GivenBack, PlacesKept

\* The steps that move no record but out of its cleanup.
LEMMA PlacesAside ==
  ASSUME HttpInv, PlacesInv, HttpInv', UNCHANGED <<counted, pendingInits, sessions, InFlight>>,
         closing' \subseteq closing, Http!closed => Http!closed'
  PROVE  PlacesInv'
<1>1. Placed' \subseteq Placed
  BY DEF Placed
<1> QED BY <1>1, PlacesKept DEF PlacesInv

\* cleanupRecord gives back the places of the records whose cleanup it begins.
LEMMA PlacesCleanedUp ==
  ASSUME HttpInv, PlacesInv, HttpInv', NEW S \in SUBSET Records, NEW b,
         \A r \in S : cleanup[r].phase = "none" => r \in Placed,
         Http!CleanupRecords(S, b), InFlight' = InFlight, Http!closed => Http!closed'
  PROVE  PlacesInv'
<1> DEFINE fresh == {r \in S : cleanup[r] = Http!NoCleanup}
<1>1. Http!BeginCleanup(fresh) /\ fresh \in SUBSET Placed
  BY DEF Http!CleanupRecords, Http!NoCleanup
<1> HIDE DEF fresh
<1>2. /\ counted' = counted \ fresh /\ pendingInits' = pendingInits - Cardinality(fresh \cap counted)
      /\ sessions' \subseteq sessions \cup fresh /\ closing' \subseteq closing \cup fresh
  BY <1>1, SameCardinality DEF Http!BeginCleanup
<1> QED BY <1>1, <1>2, PlacesOfRecords

\* Only close() itself moves on what it waits for.
LEMMA CloserSteps ==
  ASSUME Http!Next
  PROVE  closer' = closer \/ Http!Close \/ Http!CloseTasks \/ Http!CloseReturns
<1>1. ASSUME NEW r \in Records, Http!Progress(r) PROVE closer' = closer
  BY <1>1, Zenon DEF Http!Progress, Http!Admit, Http!CreateFails, Http!Created, Http!Discarded, Http!Connects,
            Http!SessionInitialized, Http!InitializeFails, Http!Initialized, Http!CallerCleaned,
            Http!RunTask, Http!RuntimeCloses, Http!TransportCloses
<1>2. ASSUME NEW r \in Records, Http!Arrive(r) \/ Http!IdleFires(r) \/ Http!Deleted(r)
      PROVE  closer' = closer
  BY <1>2 DEF Http!Arrive, Http!IdleFires, Http!Deleted, Http!ScheduleCleanup
<1> QED BY <1>1, <1>2 DEF Http!Next

\* How far each step of close() gets.
LEMMA ClosersPhase ==
  /\ Http!Close => closer'.phase = "records"
  /\ Http!CloseTasks => closer'.phase = "tasks"
  /\ Http!CloseReturns => closer'.phase \in {"rejected", "resolved"}
<1>1. ASSUME Http!Close PROVE closer'.phase = "records"
  <2>1. closer' = [phase |-> "records", waits |-> sessions \cup pendingRecords]
    BY <1>1, Zenon DEF Http!Close
  <2> QED BY <2>1
<1>2. ASSUME Http!CloseTasks PROVE closer'.phase = "tasks"
  <2>1. closer' = [phase |-> "tasks", waits |-> {r \in Records : tasks[r] # "none"}]
    BY <1>2, Zenon DEF Http!CloseTasks
  <2> QED BY <2>1
<1>3. ASSUME Http!CloseReturns PROVE closer'.phase \in {"rejected", "resolved"}
  BY <1>3 DEF Http!CloseReturns
<1> QED BY <1>1, <1>2, <1>3

\* Every step of the host, in its places.
LEMMA PlacesNext ==
  ASSUME HttpInv, PlacesInv, HttpInv', Http!Next
  PROVE  PlacesInv'
<1>1. Http!closed => Http!closed'
  BY CloserSteps, ClosersPhase DEF Http!closed
<1>2. ASSUME NEW r \in Records,
             Http!Admit(r) \/ Http!CreateFails(r) \/ Http!Created(r) \/ Http!Discarded(r)
      PROVE  PlacesInv'
  BY <1>2, PlacesOfCaller
<1>3. ASSUME NEW r \in Records,
             Http!Arrive(r) \/ Http!Connects(r) \/ Http!Initialized(r) \/ Http!CallerCleaned(r)
      PROVE  PlacesInv'
  <2>1. /\ UNCHANGED <<counted, pendingInits, sessions, closing>>
        /\ \E phase \in {"reading", "handling", "done"} : caller' = [caller EXCEPT ![r] = phase]
        /\ r \notin InFlight
    BY <1>3 DEF Http!Arrive, Http!Connects, Http!Initialized, Http!CallerCleaned, Http!Goes,
                Http!places, InFlight
  <2>2. PICK phase \in {"reading", "handling", "done"} : caller' = [caller EXCEPT ![r] = phase]
    BY <2>1
  <2>3. phase \in Http!Callers /\ phase \notin {"creating", "discarding"}
    BY DEF Http!Callers
  <2>4. InFlight' = InFlight
    <3>1. InFlight' = IF phase \in {"creating", "discarding"} THEN InFlight \cup {r} ELSE InFlight \ {r}
      BY <2>2, <2>3, FlightMoves
    <3> QED BY <2>1, <2>3, <3>1
  <2> QED BY <1>1, <2>1, <2>4, PlacesAside
<1>4. ASSUME NEW r \in Records, Http!RuntimeCloses(r) \/ Http!TransportCloses(r) PROVE PlacesInv'
  <2>1. UNCHANGED <<caller, counted, pendingInits, sessions>> /\ closing' \subseteq closing
    BY <1>4 DEF Http!RuntimeCloses, Http!TransportCloses, Http!Settle, Http!places
  <2>2. InFlight' = InFlight
    BY <2>1 DEF InFlight
  <2> QED BY <1>1, <2>1, <2>2, PlacesAside
<1>5. ASSUME NEW r \in Records, Http!SessionInitialized(r) PROVE PlacesInv'
  <2>1. /\ Http!Publish(r) /\ UNCHANGED <<caller, closing>>
        /\ caller[r] = "handling" /\ r \notin ids
    BY <1>5 DEF Http!SessionInitialized
  <2>2. r \in counted
    BY <2>1 DEF HttpInv, RecordInv, Http!Publish, Http!NoCleanup
  <2>3. {r} \in SUBSET Placed /\ InFlight' = InFlight
    BY <2>1, <2>2 DEF Placed, InFlight
  <2>4. /\ counted' = counted \ {r} /\ pendingInits' = pendingInits - Cardinality({r} \cap counted)
        /\ sessions' \subseteq sessions \cup {r} /\ closing' \subseteq closing \cup {r}
    BY <2>1, SameCardinality DEF Http!Publish
  <2> QED BY <1>1, <2>3, <2>4, PlacesOfRecords
<1>6. ASSUME NEW r \in Records, Http!InitializeFails(r) PROVE PlacesInv'
  <2>1. /\ Http!CleanupRecords({r}, TRUE) /\ caller' = [caller EXCEPT ![r] = "cleaning"]
        /\ caller[r] \in {"connecting", "handling"}
    BY <1>6 DEF Http!InitializeFails, Http!Goes
  <2>2. InFlight' = InFlight
    BY <2>1, FlightMoves DEF InFlight, Http!Callers
  <2>3. cleanup[r].phase = "none" => r \in Placed
    BY <2>1 DEF HttpInv, RecordInv, Placed
  <2> QED BY <1>1, <2>1, <2>2, <2>3, PlacesCleanedUp
<1>7. ASSUME NEW r \in Records, Http!RunTask(r) PROVE PlacesInv'
  <2>1. PICK b : Http!CleanupRecords({r}, b) /\ UNCHANGED caller /\ tasks[r] # "none"
    BY <1>7 DEF Http!RunTask
  <2>2. InFlight' = InFlight
    BY <2>1 DEF InFlight
  <2>3. cleanup[r].phase = "none" => r \in Placed
    BY <2>1 DEF HttpInv, RecordInv, Placed
  <2> QED BY <1>1, <2>1, <2>2, <2>3, PlacesCleanedUp
<1>8. ASSUME NEW r \in Records, Http!IdleFires(r) \/ Http!Deleted(r) PROVE PlacesInv'
  <2>1. /\ r \in sessions /\ Http!BeginCleanup({r}) /\ UNCHANGED caller
    BY <1>8 DEF Http!IdleFires, Http!Deleted, Http!ScheduleCleanup
  <2>2. {r} \in SUBSET Placed /\ InFlight' = InFlight
    BY <2>1 DEF Placed, InFlight
  <2>3. /\ counted' = counted \ {r} /\ pendingInits' = pendingInits - Cardinality({r} \cap counted)
        /\ sessions' \subseteq sessions \cup {r} /\ closing' \subseteq closing \cup {r}
    BY <2>1, SameCardinality DEF Http!BeginCleanup
  <2> QED BY <1>1, <2>2, <2>3, PlacesOfRecords
<1>9. CASE Http!Close
  <2>1. Http!CleanupRecords(sessions \cup pendingRecords, TRUE) /\ UNCHANGED caller
    BY <1>9 DEF Http!Close
  <2>2. sessions \cup pendingRecords \in SUBSET Placed /\ InFlight' = InFlight
    BY <2>1 DEF HttpInv, ShutInv, Placed, InFlight
  <2>3. sessions \cup pendingRecords \in SUBSET Records
    BY DEF HttpInv, HttpTypes
  <2> QED BY <1>1, <2>1, <2>2, <2>3, PlacesCleanedUp
<1>10. CASE Http!CloseTasks \/ Http!CloseReturns
  <2>1. UNCHANGED <<caller, counted, pendingInits, sessions, closing>>
    BY <1>10 DEF Http!CloseTasks, Http!CloseReturns, Http!places
  <2>2. InFlight' = InFlight
    BY <2>1 DEF InFlight
  <2> QED BY <1>1, <2>1, <2>2, PlacesAside
<1> QED BY <1>2, <1>3, <1>4, <1>5, <1>6, <1>7, <1>8, <1>9, <1>10 DEF Http!Next, Http!Progress

-----------------------------------------------------------------------------
(* The HTTP host: the theorems.                                            *)

HostInv == HttpInv /\ PlacesInv

\* A host that has just started has given no place.
LEMMA HostInitInv == HostInit => HostInv
<1> SUFFICES ASSUME HostInit PROVE HostInv
  OBVIOUS
<1>1. Http!Init
  BY DEF HostInit
<1>2. Placed = {} /\ counted \cup InFlight = {} /\ pendingInits = 0
  BY <1>1 DEF Http!Init, Placed, InFlight
<1>3. PlacesInv
  BY <1>2, FS_EmptySet, HostConstants DEF PlacesInv
<1> QED BY <1>1, <1>3, HttpInit DEF HostInv

\* The steps of the other parts leave the host alone.
LEMMA HostStepInv == HostInv /\ [HostNext]_all => HostInv'
<1> SUFFICES ASSUME HostInv, [HostNext]_all PROVE HostInv'
  OBVIOUS
<1>1. CASE Serve
  BY <1>1, HttpNext, PlacesNext DEF Serve, HostInv
<1>2. CASE Contend \/ Carry \/ Query \/ UNCHANGED all
  <2>1. UNCHANGED httpOnly
    BY <1>2 DEF Contend, Carry, Query, all
  <2> QED BY <2>1 DEF httpOnly, HostInv, HttpInv, HttpTypes, RecordInv, ShutInv, CloserInv, PlacesInv,
                      Fresh, Placed, InFlight, Watched, Awaited, Http!Cleaned, Http!closed
<1> QED BY <1>1, <1>2 DEF HostNext

\* The inductive invariant of HttpServerHost, in every behaviour of MCHost.
THEOREM HostInvariant == HostSpec => []HostInv
<1>1. HostSpec => HostInit /\ [][HostNext]_all
  BY PTL DEF HostSpec
<1> QED BY <1>1, HostInitInv, HostStepInv, PTL

\* The types of the host's maps: pendingInitializations among them, which counts
\* down without a guard, is never negative.
THEOREM TypeCorrect == HostSpec => []Http!TypeOK
<1>1. HostInv => Http!TypeOK
  <2> SUFFICES ASSUME HostInv PROVE Http!TypeOK
    OBVIOUS
  <2>1. counted \cup InFlight \in SUBSET Records
    BY DEF HostInv, HttpInv, HttpTypes, InFlight
  <2>2. /\ Cardinality(counted \cup InFlight) <= Cardinality(Records)
        /\ Cardinality(counted \cup InFlight) \in Nat
    BY <2>1, HostConstants, FS_Subset, FS_CardinalityType
  <2>3. pendingInits \in Nat /\ pendingInits <= Http!Cardinality(Records)
    BY <2>2, SameCardinality DEF HostInv, PlacesInv
  <2> QED BY <2>3, Zenon DEF HostInv, HttpInv, HttpTypes, Http!TypeOK
<1> QED BY <1>1, HostInvariant, PTL

\* SessionsServe: HttpServerHost routes requests only to open runtimes of an
\* open host, and creates no more session runtimes than maxSessions, whatever
\* initializations, cleanups and timers are under way or fail.
THEOREM SessionsAreServed == HostSpec => []SessionsServe
<1>1. HostInv => SessionsServe
  <2> SUFFICES ASSUME HostInv PROVE Http!RuntimesBounded /\ Http!SessionsServe
    BY DEF SessionsServe
  <2>1. Http!SessionsServe
    BY DEF HostInv, HttpInv, HttpTypes, RecordInv, ShutInv, Fresh, Http!SessionsServe, Http!closed
  <2>2. ASSUME ~Http!closed PROVE Cardinality(Http!Alive) <= MaxSessions
    <3>1. Http!Alive \subseteq Placed
      BY <2>2 DEF HostInv, HttpInv, RecordInv, Http!Alive
    <3>2. IsFiniteSet(Placed) /\ Cardinality(Placed) \in Nat /\ Cardinality(Placed) <= MaxSessions
      BY <2>2, PlacesFinite, FS_CardinalityType DEF HostInv, PlacesInv
    <3>3. Cardinality(Http!Alive) <= Cardinality(Placed) /\ Cardinality(Http!Alive) \in Nat
      BY <3>1, <3>2, FS_Subset, FS_CardinalityType
    <3>4. MaxSessions \in Nat
      BY HostConstants
    <3> QED BY <3>2, <3>3, <3>4
  <2>3. Http!RuntimesBounded
    <3>1. Http!Cardinality(Http!Alive) = Cardinality(Http!Alive)
      BY SameCardinality
    <3> QED BY <2>2, <3>1, Zenon DEF Http!RuntimesBounded
  <2> QED BY <2>1, <2>3
<1> QED BY <1>1, HostInvariant, PTL

\* CloseIsHonest: when close() resolves, no cleanup has failed and the runtime of
\* every session whose client had its answer is closed.
THEOREM CloseHonest == HostSpec => CloseIsHonest
<1>1. HostInv /\ [HostNext]_all =>
        [closer.phase # "resolved" /\ closer'.phase = "resolved" =>
           \A r \in ids : caller[r] = "done" => runtime[r] = "closed"]_(Http!vars)
  <2>1. SUFFICES ASSUME HostInv, HostNext, closer.phase # "resolved", closer'.phase = "resolved",
                        NEW r \in ids, caller[r] = "done"
                 PROVE  runtime[r] = "closed"
    BY DEF all, httpOnly, Http!vars
  <2>2. Http!CloseReturns
    <3>1. closer' # closer
      BY <2>1
    <3>2. Http!Next
      BY <2>1, <3>1 DEF HostNext, Serve, Contend, Carry, Query, httpOnly
    <3>3. Http!Close \/ Http!CloseTasks \/ Http!CloseReturns
      BY <3>1, <3>2, CloserSteps
    <3>4. ~Http!Close /\ ~Http!CloseTasks
      BY <2>1, ClosersPhase
    <3> QED BY <3>3, <3>4
  <2>3. closer.phase = "tasks" /\ ~cleanupFailed /\ \A k \in closer.waits : Http!Cleaned(k)
    BY <2>1, <2>2 DEF Http!CloseReturns
  <2>4. r \in Records /\ RecordInv(r) /\ Awaited(r)
    BY <2>1, <2>3 DEF HostInv, HttpInv, HttpTypes, CloserInv
  <2> QED BY <2>1, <2>3, <2>4 DEF Awaited, RecordInv, Http!Cleaned
<1>2. HostSpec => [][HostNext]_all
  BY PTL DEF HostSpec
<1> QED BY <1>1, <1>2, HostInvariant, PTL DEF CloseIsHonest, Http!CloseIsHonest

-----------------------------------------------------------------------------
(* The lock, for every number of contenders, older versions, neighbours    *)
(* and fallback ports.  On Linux whoever is past the pipe listens on it.   *)
(* On macOS, while no neighbour moves, everybody meets at one port, the    *)
(* first that no neighbour holds; the answers a contender scans the        *)
(* fallbacks for tell it which one that is.                                *)

Phases == {"out", "probe", "acquire", "companion", "confirm", "scan", "in", "leaving"}
PastPipe == {"companion", "confirm", "in", "leaving"}
Listeners == Holders \cup Neighbours \cup {None}

LockTypes ==
  /\ platform \in {"linux", "darwin"}
  /\ listens \in [Endpoints -> Listeners]
  /\ pc \in [Holders -> Phases]
  /\ saw \in [Contenders -> [Fallbacks -> Outcomes \cup {"none"}]]
  /\ moved \in BOOLEAN /\ missed \in BOOLEAN

\* An older version is in or out, and in with the legacy port, which is all it ever listens on.
OlderPlain ==
  \A o \in Older :
    /\ pc[o] \in {"out", "in"}
    /\ pc[o] = "in" => listens[Legacy] = o
    /\ \A e \in Endpoints : listens[e] = o => e = Legacy

\* What a contender listens on, on Linux: the pipe from its bind to its close, the legacy port inside.
PipeOf(c) ==
  /\ pc[c] # "scan"
  /\ pc[c] \in PastPipe <=> listens[Pipe] = c
  /\ \A e \in Ports : listens[e] = c => e = Legacy /\ pc[c] = "in"
OnPipe == platform = "linux" => \A c \in Contenders : PipeOf(c)

\* Who is inside on Linux is seen on the legacy port, or a neighbour is in its place.
SeenOf(c) == pc[c] = "in" => listens[Legacy] \in Neighbours \cup {c}
Companions == platform = "linux" /\ ~moved /\ ~missed => \A c \in Contenders : SeenOf(c)

\* What a contender listens on, on macOS: one port while it is inside.
PortsOf(c) ==
  /\ pc[c] \notin {"companion", "confirm", "leaving"}
  /\ \A e \in Endpoints : listens[e] = c => e # Pipe /\ pc[c] = "in"
OnPorts == platform = "darwin" => \A c \in Contenders : PortsOf(c)

\* A port that no neighbour holds, and the first of them.
Open(e) == listens[e] \notin Neighbours
First(e) == Open(e) /\ \A d \in Ports : d < e => ~Open(d)

\* While neighbours rest, it is the first port open to it, and answers that were true stay so.
MeetsOf(c) ==
  /\ pc[c] = "in" => \E e \in Ports : listens[e] = c /\ First(e)
  /\ pc[c] = "scan" => ~Open(Legacy)
  /\ \A e \in Fallbacks : /\ saw[c][e] = "available" => Open(e)
                          /\ saw[c][e] = "occupied" => ~Open(e)
Meeting == platform = "darwin" /\ ~moved => \A c \in Contenders : MeetsOf(c)

LockInv == LockTypes /\ OlderPlain /\ OnPipe /\ Companions /\ OnPorts /\ Meeting

---------------------------------------------------------------------------
LEMMA LockInitInv == ASSUME LockAssumption PROVE Init => LockInv
<1> SUFFICES ASSUME Init PROVE LockInv
  OBVIOUS
<1> USE DEF LockAssumption, Init
<1>1. LockTypes
  BY DEF LockTypes, Listeners, Phases, Outcomes, NoAnswers, Holders, Endpoints, Ports
<1>2. OlderPlain
  BY DEF OlderPlain, Holders, Endpoints
<1>3. OnPipe
  BY DEF OnPipe, PipeOf, PastPipe, Holders, Endpoints, Ports
<1>4. Companions
  BY DEF Companions, SeenOf, Holders
<1>5. OnPorts
  BY DEF OnPorts, PortsOf, Holders, Endpoints
<1>6. Meeting
  BY DEF Meeting, MeetsOf, Holders, NoAnswers
<1> QED BY <1>1, <1>2, <1>3, <1>4, <1>5, <1>6 DEF LockInv

\* The steps.  What Goes, Binds and Close do, argument by argument.
LEMMA GoesTo ==
  ASSUME LockTypes, NEW c \in Holders, NEW to \in Phases, Goes(c, to)
  PROVE  /\ pc' \in [Holders -> Phases] /\ pc'[c] = to
         /\ \A d \in Holders : d # c => pc'[d] = pc[d]
BY DEF LockTypes, Goes

LEMMA BindsTo ==
  ASSUME LockTypes, NEW c \in Listeners, NEW e \in Endpoints, Binds(c, e)
  PROVE  /\ listens' \in [Endpoints -> Listeners] /\ listens[e] = None /\ listens'[e] = c
         /\ \A d \in Endpoints : d # e => listens'[d] = listens[d]
BY DEF LockTypes, Binds

LEMMA Closes ==
  ASSUME LockTypes, NEW c, NEW S, Close(c, S)
  PROVE  /\ listens' \in [Endpoints -> Listeners]
         /\ \A e \in Endpoints :
              listens'[e] = IF e \in S /\ listens[e] = c THEN None ELSE listens[e]
BY DEF LockTypes, Close, Listeners

\* Neighbours rest when a holder binds or closes, so the ports open to holders are the same.
LEMMA OpenStays ==
  ASSUME LockAssumption,
         \A e \in Endpoints :
           listens'[e] = listens[e] \/ {listens[e], listens'[e]} \subseteq Holders \cup {None}
  PROVE  /\ \A e \in Ports : Open(e)' <=> Open(e)
         /\ \A e \in Ports : First(e)' <=> First(e)
<1>1. \A e \in Ports : Open(e)' <=> Open(e)
  BY DEF LockAssumption, Holders, Ports, Endpoints, Open
<1> QED BY <1>1 DEF First

\* A step of one contender that takes or frees endpoints for itself alone: what has to hold of it.
LEMMA OneMoves ==
  ASSUME LockAssumption, LockInv, LockTypes', NEW c \in Contenders,
         platform' = platform, moved' = moved, missed => missed',
         \A e \in Endpoints : listens'[e] = listens[e] \/ {listens[e], listens'[e]} \subseteq {c, None},
         \A d \in Holders : d # c => pc'[d] = pc[d],
         \A d \in Contenders : d # c => saw'[d] = saw[d],
         platform = "linux" => PipeOf(c)',
         platform = "linux" /\ ~moved /\ ~missed' => SeenOf(c)',
         platform = "darwin" => PortsOf(c)',
         platform = "darwin" /\ ~moved => MeetsOf(c)'
  PROVE  LockInv'
<1> USE DEF LockInv
<1>1. /\ c \in Holders /\ Contenders \subseteq Holders /\ Older \subseteq Holders
      /\ c \notin Older \cup Neighbours \cup {None}
      /\ Legacy \in Ports /\ Pipe \in Endpoints /\ Fallbacks \subseteq Ports /\ Ports \subseteq Endpoints
  BY DEF LockAssumption, Holders, Ports, Endpoints
<1>2. \A d \in Listeners : d \notin {c, None} =>
        \A e \in Endpoints : listens'[e] = d <=> listens[e] = d
  OBVIOUS
<1>3. OlderPlain'
  <2>1. \A o \in Older : o \in Listeners /\ o \notin {c, None}
    BY <1>1 DEF Listeners, LockAssumption, Holders
  <2> QED BY <1>1, <1>2, <2>1 DEF OlderPlain
<1>4. \A d \in Contenders : d # c => d \in Listeners /\ d \notin {c, None}
  BY DEF Listeners, LockAssumption, Holders
<1>5. OnPipe'
  <2>1. SUFFICES ASSUME platform = "linux", NEW d \in Contenders, d # c PROVE PipeOf(d)'
    BY DEF OnPipe
  <2> QED BY <1>1, <1>2, <1>4, <2>1 DEF OnPipe, PipeOf
<1>6. Companions'
  <2>1. SUFFICES ASSUME platform = "linux", ~moved, ~missed', NEW d \in Contenders, d # c
                 PROVE  SeenOf(d)'
    BY DEF Companions
  <2>2. SeenOf(d)
    BY <2>1 DEF Companions
  <2>3. \A n \in Neighbours : n \in Listeners /\ n \notin {c, None}
    BY <1>1 DEF Listeners, LockAssumption, Holders
  <2> QED BY <1>1, <1>2, <1>4, <2>1, <2>2, <2>3 DEF SeenOf
<1>7. OnPorts'
  <2>1. SUFFICES ASSUME platform = "darwin", NEW d \in Contenders, d # c PROVE PortsOf(d)'
    BY DEF OnPorts
  <2> QED BY <1>1, <1>2, <1>4, <2>1 DEF OnPorts, PortsOf
<1>8. Meeting'
  <2>1. SUFFICES ASSUME platform = "darwin", ~moved, NEW d \in Contenders, d # c PROVE MeetsOf(d)'
    BY DEF Meeting
  <2>2. MeetsOf(d)
    BY <2>1 DEF Meeting
  <2>3. /\ \A e \in Ports : Open(e)' <=> Open(e)
        /\ \A e \in Ports : First(e)' <=> First(e)
    <3>1. \A e \in Endpoints :
            listens'[e] = listens[e] \/ {listens[e], listens'[e]} \subseteq Holders \cup {None}
      BY <1>1
    <3> QED BY <3>1, OpenStays
  <2>4. pc'[d] = pc[d] /\ saw'[d] = saw[d]
    BY <1>1, <2>1
  <2>5. \A e \in Ports : listens'[e] = d <=> listens[e] = d
    BY <1>1, <1>2, <1>4, <2>1
  <2> QED BY <1>1, <2>2, <2>3, <2>4, <2>5 DEF MeetsOf
<1> QED BY <1>3, <1>5, <1>6, <1>7, <1>8
\* One lemma per action of a contender.
LEMMA Known ==
  ASSUME LockAssumption, LockInv, NEW c \in Contenders
  PROVE  /\ c \in Holders /\ c \in Listeners /\ c \notin Neighbours \cup {None}
         /\ LockTypes
         /\ Legacy \in Ports /\ Pipe \in Endpoints /\ Pipe \notin Ports
         /\ Fallbacks \subseteq Ports /\ Ports \subseteq Endpoints
         /\ platform = "linux" => PipeOf(c)
         /\ platform = "linux" /\ ~moved /\ ~missed => SeenOf(c)
         /\ platform = "darwin" => PortsOf(c)
         /\ platform = "darwin" /\ ~moved => MeetsOf(c)
BY DEF LockAssumption, Holders, Listeners, Ports, Endpoints, Fallbacks, Legacy, Pipe,
       LockInv, OnPipe, Companions, OnPorts, Meeting

LEMMA AskStep ==
  ASSUME LockAssumption, LockInv, NEW c \in Contenders, Ask(c)
  PROVE  LockInv'
<1>1. /\ pc' \in [Holders -> Phases] /\ pc'[c] = "probe" /\ pc[c] = "out"
      /\ \A d \in Holders : d # c => pc'[d] = pc[d]
  BY Known, GoesTo DEF Ask, Phases
<1>2. LockTypes'
  BY Known, <1>1 DEF Ask, LockTypes
<1> QED BY Known, OneMoves, <1>1, <1>2 DEF Ask, PipeOf, SeenOf, PortsOf, MeetsOf, PastPipe, Open, First

LEMMA GivesUpStep ==
  ASSUME LockAssumption, LockInv, NEW c \in Contenders, GivesUp(c)
  PROVE  LockInv'
<1>1. /\ pc' \in [Holders -> Phases] /\ pc'[c] = "out" /\ pc[c] \in {"probe", "acquire"}
      /\ \A d \in Holders : d # c => pc'[d] = pc[d]
  BY Known, GoesTo DEF GivesUp, Phases
<1>2. LockTypes'
  BY Known, <1>1 DEF GivesUp, LockTypes
<1> QED BY Known, OneMoves, <1>1, <1>2 DEF GivesUp, PipeOf, SeenOf, PortsOf, MeetsOf, PastPipe, Open, First

\* It scans the fallbacks only if a neighbour holds the legacy port.
LEMMA ProbeLegacyStep ==
  ASSUME LockAssumption, LockInv, NEW c \in Contenders, ProbeLegacy(c)
  PROVE  LockInv'
<1>1. PICK answer \in Answers(Legacy), to \in {"probe", "acquire", "scan"} :
        /\ Goes(c, to)
        /\ to = "scan" => platform # "linux" /\ answer = "occupied"
  BY DEF ProbeLegacy
<1>2. /\ pc' \in [Holders -> Phases] /\ pc'[c] = to
      /\ \A d \in Holders : d # c => pc'[d] = pc[d]
  BY Known, GoesTo, <1>1 DEF Phases
<1>3. LockTypes'
  BY Known, <1>2 DEF ProbeLegacy, LockTypes
<1>4. to = "scan" => ~Open(Legacy)
  BY Known, <1>1 DEF Answers, Truth, Open, LockTypes, Listeners
<1> QED BY Known, OneMoves, <1>1, <1>2, <1>3, <1>4
        DEF ProbeLegacy, PipeOf, SeenOf, PortsOf, MeetsOf, PastPipe, Open, First
\* On macOS the legacy port that it could bind is the first one open.
LEMMA AcquirePrimaryStep ==
  ASSUME LockAssumption, LockInv, NEW c \in Contenders, AcquirePrimary(c)
  PROVE  LockInv'
<1>1. pc[c] = "acquire" /\ UNCHANGED <<platform, saw, moved, missed>>
  BY DEF AcquirePrimary
<1>2. CASE listens[Primary] # None
  <2>1. /\ pc' \in [Holders -> Phases] /\ pc'[c] = "probe" /\ UNCHANGED listens
        /\ \A d \in Holders : d # c => pc'[d] = pc[d]
    BY Known, GoesTo, <1>2 DEF AcquirePrimary, Phases
  <2>2. LockTypes'
    BY Known, <1>1, <2>1 DEF LockTypes
  <2> QED BY Known, OneMoves, <1>1, <2>1, <2>2 DEF PipeOf, SeenOf, PortsOf, MeetsOf, PastPipe, Open, First
<1>3. CASE listens[Primary] = None
  <2>1. PICK to \in {"companion", "in"} :
          /\ Binds(c, Primary) /\ Goes(c, to)
          /\ to = "companion" <=> platform = "linux"
    BY <1>3 DEF AcquirePrimary
  <2>2. Primary \in Endpoints
    BY Known DEF Primary
  <2>3. /\ pc' \in [Holders -> Phases] /\ pc'[c] = to
        /\ \A d \in Holders : d # c => pc'[d] = pc[d]
    BY Known, GoesTo, <2>1 DEF Phases
  <2>4. /\ listens' \in [Endpoints -> Listeners] /\ listens[Primary] = None /\ listens'[Primary] = c
        /\ \A d \in Endpoints : d # Primary => listens'[d] = listens[d]
    BY Known, BindsTo, <2>1, <2>2
  <2>5. LockTypes'
    BY Known, <1>1, <2>3, <2>4 DEF LockTypes
  <2>6. platform = "linux" => PipeOf(c)'
    BY Known, <1>1, <2>1, <2>3, <2>4 DEF Primary, PipeOf, PastPipe
  <2>7. platform = "linux" /\ ~moved /\ ~missed' => SeenOf(c)'
    BY <2>1, <2>3 DEF SeenOf
  <2>8. platform = "darwin" => PortsOf(c)'
    BY Known, <2>1, <2>3, <2>4 DEF PortsOf, Primary
  <2>9. platform = "darwin" /\ ~moved => MeetsOf(c)'
    <3>1. SUFFICES ASSUME platform = "darwin", ~moved PROVE MeetsOf(c)'
      OBVIOUS
    <3>2. /\ to = "in" /\ Primary = Legacy
      BY <2>1, <3>1 DEF Primary
    <3>3. First(Legacy)'
      BY Known, <2>4, <3>2 DEF First, Open, Ports, Fallbacks, Legacy, LockAssumption
    <3>4. \A e \in Fallbacks : Open(e)' <=> Open(e)
      BY Known, <2>4, <3>2 DEF Open, Fallbacks, Legacy
    <3> QED BY Known, <1>1, <2>3, <2>4, <3>1, <3>2, <3>3, <3>4 DEF MeetsOf
  <2> QED BY Known, OneMoves, <1>1, <2>3, <2>4, <2>5, <2>6, <2>7, <2>8, <2>9
<1> QED BY <1>2, <1>3

LEMMA CompanionStep ==
  ASSUME LockAssumption, LockInv, NEW c \in Contenders, Companion(c)
  PROVE  LockInv'
<1>1. pc[c] = "companion" /\ UNCHANGED <<platform, saw, moved>>
  BY DEF Companion
<1>2. platform = "linux"
  BY Known, <1>1 DEF PortsOf, LockTypes
<1>3. missed' \in BOOLEAN /\ (missed => missed')
  <2>1. missed \in BOOLEAN
    BY Known DEF LockTypes
  <2>2. missed' = missed \/ missed' = TRUE
    BY DEF Companion
  <2> QED BY <2>1, <2>2
<1>4. PICK to \in {"confirm", "in"} : Goes(c, to)
  BY DEF Companion
<1>5. /\ pc' \in [Holders -> Phases] /\ pc'[c] = to
      /\ \A d \in Holders : d # c => pc'[d] = pc[d]
  BY Known, GoesTo, <1>4 DEF Phases
<1>6. CASE Binds(c, Legacy) /\ to = "in"
  <2>1. /\ listens' \in [Endpoints -> Listeners] /\ listens[Legacy] = None /\ listens'[Legacy] = c
        /\ \A d \in Endpoints : d # Legacy => listens'[d] = listens[d]
    BY Known, BindsTo, <1>6
  <2>2. LockTypes'
    BY Known, <1>1, <1>3, <1>5, <2>1 DEF LockTypes
  <2> QED BY Known, OneMoves, <1>1, <1>2, <1>3, <1>5, <1>6, <2>1, <2>2 DEF PipeOf, SeenOf, PastPipe
<1>7. CASE UNCHANGED listens /\ (to = "in" => missed')
  <2>1. LockTypes'
    BY Known, <1>1, <1>3, <1>5, <1>7 DEF LockTypes
  <2> QED BY Known, OneMoves, <1>1, <1>2, <1>3, <1>5, <1>7, <2>1 DEF PipeOf, SeenOf, PastPipe
<1>8. (Binds(c, Legacy) /\ to = "in") \/ (UNCHANGED listens /\ (to = "in" => missed'))
  <2>1. \A ph \in Phases : Goes(c, ph) => ph = to
    BY Known, GoesTo, <1>5
  <2> QED BY <2>1 DEF Companion, Phases
<1> QED BY <1>6, <1>7, <1>8
\* It goes in without a companion only if a neighbour was seen in its place, or missed says so.
LEMMA ConfirmStep ==
  ASSUME LockAssumption, LockInv, NEW c \in Contenders, Confirm(c)
  PROVE  LockInv'
<1>1. pc[c] = "confirm" /\ UNCHANGED <<platform, saw, moved>>
  BY DEF Confirm
<1>2. platform = "linux"
  BY Known, <1>1 DEF PortsOf, LockTypes
<1>3. PICK answer \in Answers(Legacy) :
        /\ IF answer = "held" THEN BacksOff(c) ELSE Goes(c, "in") /\ UNCHANGED listens
        /\ missed' = (missed \/ answer \in {"available", "unknown"})
  BY DEF Confirm
<1>4. missed' \in BOOLEAN /\ (missed => missed')
  BY <1>3
<1>5. CASE answer = "held"
  <2>1. /\ pc' \in [Holders -> Phases] /\ pc'[c] = "probe"
        /\ \A d \in Holders : d # c => pc'[d] = pc[d]
    BY Known, GoesTo, <1>3, <1>5 DEF BacksOff, Phases
  <2>2. /\ listens' \in [Endpoints -> Listeners]
        /\ \A e \in Endpoints :
             listens'[e] = IF e \in {Pipe} /\ listens[e] = c THEN None ELSE listens[e]
    BY Known, Closes, <1>3, <1>5 DEF BacksOff
  <2>3. LockTypes'
    BY Known, <1>1, <1>4, <2>1, <2>2 DEF LockTypes
  <2> QED BY Known, OneMoves, <1>1, <1>2, <1>4, <2>1, <2>2, <2>3 DEF PipeOf, SeenOf, PastPipe
<1>6. CASE answer # "held"
  <2>1. /\ pc' \in [Holders -> Phases] /\ pc'[c] = "in" /\ UNCHANGED listens
        /\ \A d \in Holders : d # c => pc'[d] = pc[d]
    BY Known, GoesTo, <1>3, <1>6 DEF Phases
  <2>2. LockTypes'
    BY Known, <1>1, <1>4, <2>1 DEF LockTypes
  <2>3. ~missed' => listens[Legacy] \in Neighbours
    <3>1. ~missed' => answer = "occupied"
      BY <1>3, <1>6 DEF Answers, Truth
    <3> QED BY Known, <3>1 DEF Answers, Truth, LockTypes, Listeners
  <2> QED BY Known, OneMoves, <1>1, <1>2, <1>4, <2>1, <2>2, <2>3 DEF PipeOf, SeenOf, PastPipe
<1> QED BY <1>5, <1>6

LEMMA ProbeFallbackStep ==
  ASSUME LockAssumption, LockInv, NEW c \in Contenders, NEW e \in Fallbacks, ProbeFallback(c, e)
  PROVE  LockInv'
<1>1. UNCHANGED <<platform, listens, pc, moved, missed>>
  BY DEF ProbeFallback
<1>2. PICK answer \in Answers(e) : saw' = [saw EXCEPT ![c][e] = answer]
  BY DEF ProbeFallback
<1>3. /\ answer \in Outcomes
      /\ answer = "available" => Open(e)
      /\ answer = "occupied" => ~Open(e)
  BY Known DEF Answers, Truth, Outcomes, Open, LockTypes, Listeners, LockAssumption, Holders
<1>4. /\ saw' \in [Contenders -> [Fallbacks -> Outcomes \cup {"none"}]]
      /\ saw'[c][e] = answer
      /\ \A f \in Fallbacks : f # e => saw'[c][f] = saw[c][f]
      /\ \A d \in Contenders : d # c => saw'[d] = saw[d]
  BY Known, <1>2, <1>3 DEF LockTypes
<1>5. LockTypes'
  BY Known, <1>1, <1>4 DEF LockTypes
<1>6. platform = "darwin" /\ ~moved => MeetsOf(c)'
  BY Known, <1>1, <1>3, <1>4 DEF MeetsOf, Open, First
<1> QED BY Known, OneMoves, <1>1, <1>4, <1>5, <1>6 DEF PipeOf, SeenOf, PortsOf

LEMMA LeaveStep ==
  ASSUME LockAssumption, LockInv, NEW c \in Contenders, Leave(c)
  PROVE  LockInv'
<1>1. pc[c] = "in" /\ UNCHANGED <<platform, saw, moved, missed>>
  BY DEF Leave
<1>2. PICK to \in {"leaving", "out"} :
        Goes(c, to) /\ (to = "leaving" <=> platform = "linux")
  BY DEF Leave
<1>3. PICK S \in {{Legacy}, Ports} :
        Close(c, S) /\ (platform # "linux" => S = Ports)
  BY DEF Leave
<1>4. /\ pc' \in [Holders -> Phases] /\ pc'[c] = to
      /\ \A d \in Holders : d # c => pc'[d] = pc[d]
  BY Known, GoesTo, <1>2 DEF Phases
<1>5. /\ listens' \in [Endpoints -> Listeners]
      /\ \A e \in Endpoints : listens'[e] = IF e \in S /\ listens[e] = c THEN None ELSE listens[e]
  BY Known, Closes, <1>3
<1>6. LockTypes'
  BY Known, <1>1, <1>4, <1>5 DEF LockTypes
<1>7. platform = "linux" => PipeOf(c)'
  BY Known, <1>1, <1>2, <1>3, <1>4, <1>5 DEF PipeOf, PastPipe, Ports, Endpoints, Legacy, Pipe, Fallbacks
<1>8. platform = "darwin" => PortsOf(c)' /\ (~moved => MeetsOf(c)')
  <2>1. SUFFICES ASSUME platform = "darwin" PROVE PortsOf(c)' /\ (~moved => MeetsOf(c)')
    OBVIOUS
  <2>2. to = "out" /\ \A e \in Endpoints : listens'[e] # c
    BY Known, <1>2, <1>3, <1>5, <2>1 DEF PortsOf, Endpoints
  <2>3. \A e \in Fallbacks : Open(e)' <=> Open(e)
    BY Known, <1>5 DEF Open, LockAssumption
  <2> QED BY Known, <1>1, <1>4, <2>1, <2>2, <2>3 DEF PortsOf, MeetsOf
<1> QED BY Known, OneMoves, <1>1, <1>2, <1>4, <1>5, <1>6, <1>7, <1>8 DEF SeenOf

LEMMA LeavePipeStep ==
  ASSUME LockAssumption, LockInv, NEW c \in Contenders, LeavePipe(c)
  PROVE  LockInv'
<1>1. pc[c] = "leaving" /\ UNCHANGED <<platform, saw, moved, missed>>
  BY DEF LeavePipe
<1>2. platform = "linux"
  BY Known, <1>1 DEF PortsOf, LockTypes
<1>3. /\ pc' \in [Holders -> Phases] /\ pc'[c] = "out"
      /\ \A d \in Holders : d # c => pc'[d] = pc[d]
  BY Known, GoesTo DEF LeavePipe, Phases
<1>4. /\ listens' \in [Endpoints -> Listeners]
      /\ \A e \in Endpoints : listens'[e] = IF e \in {Pipe} /\ listens[e] = c THEN None ELSE listens[e]
  BY Known, Closes DEF LeavePipe
<1>5. LockTypes'
  BY Known, <1>1, <1>3, <1>4 DEF LockTypes
<1> QED BY Known, OneMoves, <1>1, <1>2, <1>3, <1>4, <1>5 DEF PipeOf, SeenOf, PastPipe

\* The kernel closes what a process that dies was listening on.
LEMMA DiesStep ==
  ASSUME LockAssumption, LockInv, NEW c \in Contenders, Dies(c)
  PROVE  LockInv'
<1>1. saw' = [saw EXCEPT ![c] = NoAnswers] /\ UNCHANGED <<platform, moved, missed>>
  BY DEF Dies
<1>2. /\ pc' \in [Holders -> Phases] /\ pc'[c] = "out"
      /\ \A d \in Holders : d # c => pc'[d] = pc[d]
  BY Known, GoesTo DEF Dies, Phases
<1>3. /\ listens' \in [Endpoints -> Listeners]
      /\ \A e \in Endpoints :
           listens'[e] = IF e \in Endpoints /\ listens[e] = c THEN None ELSE listens[e]
  BY Known, Closes DEF Dies
<1>4. /\ saw' \in [Contenders -> [Fallbacks -> Outcomes \cup {"none"}]]
      /\ \A e \in Fallbacks : saw'[c][e] = "none"
      /\ \A d \in Contenders : d # c => saw'[d] = saw[d]
  BY Known, <1>1 DEF LockTypes, NoAnswers
<1>5. LockTypes'
  BY Known, <1>1, <1>2, <1>3, <1>4 DEF LockTypes
<1> QED BY Known, OneMoves, <1>1, <1>2, <1>3, <1>4, <1>5 DEF PipeOf, SeenOf, PortsOf, MeetsOf, PastPipe

\* The port it binds is the first one open: the others before it were seen occupied.
LEMMA BindFallbackStep ==
  ASSUME LockAssumption, LockInv, NEW c \in Contenders, BindFallback(c)
  PROVE  LockInv'
<1>1. /\ pc[c] = "scan" /\ saw' = [saw EXCEPT ![c] = NoAnswers]
      /\ UNCHANGED <<platform, moved, missed>>
  BY DEF BindFallback
<1>2. platform = "darwin"
  BY Known, <1>1 DEF PipeOf, LockTypes
<1>3. /\ saw' \in [Contenders -> [Fallbacks -> Outcomes \cup {"none"}]]
      /\ \A e \in Fallbacks : saw'[c][e] = "none"
      /\ \A d \in Contenders : d # c => saw'[d] = saw[d]
  BY Known, <1>1 DEF LockTypes, NoAnswers
<1>4. CASE Goes(c, "probe") /\ UNCHANGED listens
  <2>1. /\ pc' \in [Holders -> Phases] /\ pc'[c] = "probe"
        /\ \A d \in Holders : d # c => pc'[d] = pc[d]
    BY Known, GoesTo, <1>4 DEF Phases
  <2>2. LockTypes'
    BY Known, <1>1, <1>3, <1>4, <2>1 DEF LockTypes
  <2> QED BY Known, OneMoves, <1>1, <1>2, <1>3, <1>4, <2>1, <2>2 DEF PortsOf, MeetsOf
<1>5. ASSUME NEW e \in Fallbacks, Candidate(saw[c], e), Binds(c, e), Goes(c, "in")
      PROVE  LockInv'
  <2>1. /\ pc' \in [Holders -> Phases] /\ pc'[c] = "in"
        /\ \A d \in Holders : d # c => pc'[d] = pc[d]
    BY Known, GoesTo, <1>5 DEF Phases
  <2>2. e \in Endpoints /\ e \in Ports
    BY Known
  <2>3. /\ listens' \in [Endpoints -> Listeners] /\ listens[e] = None /\ listens'[e] = c
        /\ \A d \in Endpoints : d # e => listens'[d] = listens[d]
    BY Known, BindsTo, <1>5, <2>2
  <2>4. LockTypes'
    BY Known, <1>1, <1>3, <2>1, <2>3 DEF LockTypes
  <2>5. PortsOf(c)'
    BY Known, <2>1, <2>2, <2>3, <1>1, <1>2 DEF PortsOf
  <2>6. ASSUME ~moved PROVE First(e)'
    <3>1. \A d \in Ports : d < e => ~Open(d)
      BY Known, <1>1, <1>2, <1>5, <2>6 DEF MeetsOf, Candidate, Ports, Fallbacks, Legacy
    <3> QED BY Known, <2>2, <2>3, <3>1 DEF First, Open, Ports, Fallbacks, Legacy, LockAssumption
  <2>7. ~moved => MeetsOf(c)'
    BY Known, <1>3, <2>1, <2>2, <2>3, <2>6 DEF MeetsOf
  <2> QED BY Known, OneMoves, <1>1, <1>2, <1>3, <2>1, <2>3, <2>4, <2>5, <2>7
<1> QED BY <1>4, <1>5 DEF BindFallback
\* An older version moves only itself, on the legacy port.
LEMMA OlderStep ==
  ASSUME LockAssumption, LockInv, NEW o \in Older, OlderEnters(o) \/ OlderLeaves(o)
  PROVE  LockInv'
<1> USE DEF LockInv
<1>1. /\ o \in Holders /\ o \in Listeners /\ o \notin Contenders \cup Neighbours \cup {None}
      /\ Older \subseteq Holders /\ Contenders \subseteq Holders
      /\ Legacy \in Endpoints /\ Pipe \in Endpoints /\ Legacy # Pipe /\ LockTypes
      /\ Ports \subseteq Endpoints /\ Fallbacks \subseteq Endpoints
  BY DEF LockAssumption, Holders, Listeners, Endpoints, Ports, Legacy, Pipe, Fallbacks
<1>2. UNCHANGED <<platform, saw, moved, missed>>
  BY DEF OlderEnters, OlderLeaves
<1>3. PICK to \in {"in", "out"} :
        /\ Goes(o, to)
        /\ to = "in" => Binds(o, Legacy)
        /\ to = "out" => Close(o, {Legacy})
  BY DEF OlderEnters, OlderLeaves
<1>4. /\ pc' \in [Holders -> Phases] /\ pc'[o] = to
      /\ \A d \in Holders : d # o => pc'[d] = pc[d]
  BY <1>1, GoesTo, <1>3 DEF Phases
<1>5. /\ listens' \in [Endpoints -> Listeners]
      /\ to = "in" => listens[Legacy] = None /\ listens'[Legacy] = o
      /\ to = "out" => listens'[Legacy] # o
      /\ listens'[Legacy] # listens[Legacy] => {listens[Legacy], listens'[Legacy]} \subseteq {o, None}
      /\ \A d \in Endpoints : d # Legacy => listens'[d] = listens[d]
  <2>1. CASE to = "in"
    BY <1>1, <1>3, <2>1, BindsTo
  <2>2. CASE to = "out"
    BY <1>1, <1>3, <2>2, Closes
  <2> QED BY <2>1, <2>2
<1>6. LockTypes'
  BY <1>1, <1>2, <1>4, <1>5 DEF LockTypes
<1>7. OlderPlain'
  BY <1>1, <1>4, <1>5 DEF OlderPlain, Listeners, LockAssumption
<1>8. \A c \in Contenders : /\ pc'[c] = pc[c]
                            /\ \A e \in Endpoints : listens'[e] = c <=> listens[e] = c
  BY <1>1, <1>4, <1>5 DEF LockAssumption, Holders
<1>9. OnPipe'
  BY <1>1, <1>2, <1>8 DEF OnPipe, PipeOf
<1>10. Companions'
  <2>1. SUFFICES ASSUME platform = "linux", ~moved, ~missed, NEW c \in Contenders, pc[c] = "in"
                 PROVE  listens'[Legacy] \in Neighbours \cup {c}
    BY <1>2, <1>8 DEF Companions, SeenOf
  <2>2. listens[Legacy] \in Neighbours \cup {c}
    BY <2>1 DEF Companions, SeenOf
  <2> QED BY <1>1, <1>5, <2>2 DEF LockAssumption
<1>11. OnPorts'
  BY <1>1, <1>2, <1>8 DEF OnPorts, PortsOf
<1>12. Meeting'
  <2>1. \A e \in Endpoints :
          listens'[e] = listens[e] \/ {listens[e], listens'[e]} \subseteq Holders \cup {None}
    BY <1>1, <1>5
  <2>2. /\ \A e \in Ports : Open(e)' <=> Open(e)
        /\ \A e \in Ports : First(e)' <=> First(e)
    BY <2>1, OpenStays
  <2>3. Legacy \in Ports /\ Fallbacks \subseteq Ports
    BY DEF Ports
  <2> QED BY <1>1, <1>2, <1>8, <2>2, <2>3 DEF Meeting, MeetsOf
<1> QED BY <1>6, <1>7, <1>9, <1>10, <1>11, <1>12

\* A neighbour that comes or goes disturbs nobody's listeners, and moved says that it did.
LEMMA NeighbourStep ==
  ASSUME LockAssumption, LockInv, NEW n \in Neighbours,
         NeighbourGoes(n) \/ \E e \in Ports : NeighbourComes(n, e)
  PROVE  LockInv'
<1> USE DEF LockInv
<1>1. n \in Listeners /\ n \notin Holders \cup {None} /\ Ports \subseteq Endpoints
  BY DEF LockAssumption, Holders, Listeners, Endpoints
<1>2. UNCHANGED <<platform, pc, saw, missed>> /\ moved'
  BY DEF NeighbourGoes, NeighbourComes
<1>3. /\ listens' \in [Endpoints -> Listeners]
      /\ \A h \in Holders, e \in Endpoints : listens'[e] = h <=> listens[e] = h
  <2>1. CASE NeighbourGoes(n)
    BY <1>1, <2>1, Closes DEF NeighbourGoes, LockAssumption, Holders
  <2>2. ASSUME NEW e \in Ports, NeighbourComes(n, e)
        PROVE  /\ listens' \in [Endpoints -> Listeners]
               /\ \A h \in Holders, d \in Endpoints : listens'[d] = h <=> listens[d] = h
    BY <1>1, <2>2, BindsTo DEF NeighbourComes, LockAssumption, Holders
  <2> QED BY <2>1, <2>2
<1>4. moved' = TRUE
  BY DEF NeighbourGoes, NeighbourComes
<1>5. LockTypes'
  BY <1>2, <1>3, <1>4 DEF LockTypes
<1>6. Legacy \in Endpoints /\ Pipe \in Endpoints /\ Older \subseteq Holders /\ Contenders \subseteq Holders
  BY DEF Endpoints, Ports, Holders
<1>7. OlderPlain' /\ OnPipe' /\ OnPorts'
  BY <1>1, <1>2, <1>3, <1>6 DEF OlderPlain, OnPipe, PipeOf, OnPorts, PortsOf
<1>8. Companions' /\ Meeting'
  BY <1>2 DEF Companions, Meeting
<1> QED BY <1>5, <1>7, <1>8

LEMMA LockStepInv == ASSUME LockAssumption PROVE LockInv /\ [Next]_lockVars => LockInv'
<1>1. SUFFICES ASSUME LockInv, [Next]_lockVars PROVE LockInv'
  OBVIOUS
<1>2. CASE UNCHANGED lockVars
  BY <1>1, <1>2 DEF lockVars, LockInv, LockTypes, OlderPlain, OnPipe, PipeOf, Companions, SeenOf, OnPorts,
                    PortsOf, Meeting, MeetsOf, Open, First
<1>3. ASSUME NEW c \in Contenders,
             \/ Ask(c) \/ GivesUp(c) \/ ProbeLegacy(c) \/ AcquirePrimary(c) \/ Companion(c) \/ Confirm(c)
             \/ \E e \in Fallbacks : ProbeFallback(c, e)
             \/ BindFallback(c) \/ Leave(c) \/ LeavePipe(c) \/ Dies(c)
      PROVE  LockInv'
  BY <1>1, <1>3, AskStep, GivesUpStep, ProbeLegacyStep, AcquirePrimaryStep, CompanionStep, ConfirmStep,
     ProbeFallbackStep, BindFallbackStep, LeaveStep, LeavePipeStep, DiesStep
<1>4. ASSUME NEW o \in Older, OlderEnters(o) \/ OlderLeaves(o) PROVE LockInv'
  BY <1>1, <1>4, OlderStep
<1>5. ASSUME NEW n \in Neighbours, NeighbourGoes(n) \/ \E e \in Ports : NeighbourComes(n, e) PROVE LockInv'
  BY <1>1, <1>5, NeighbourStep
<1> QED BY <1>1, <1>2, <1>3, <1>4, <1>5 DEF Next

\* The inductive invariant, for every number of holders, neighbours and fallbacks.
THEOREM LockInvariant == ASSUME LockAssumption PROVE Spec => []LockInv
<1>1. Init => LockInv
  BY LockInitInv
<1>2. LockInv /\ [Next]_lockVars => LockInv'
  BY LockStepInv
<1> QED BY <1>1, <1>2, PTL DEF Spec

\* OneHolder: acquireLocalLock lets one contender in at a time, whatever probes come to nothing,
\* whatever dies and however older versions come and go, as far as OneHolder says.
THEOREM MutualExclusion == ASSUME LockAssumption PROVE Spec => []OneHolder
<1>1. LockInv => OneHolder
  <2>1. SUFFICES ASSUME LockInv PROVE OneHolder
    OBVIOUS
  <2>2. /\ Pipe \in Endpoints /\ Legacy \in Endpoints /\ Legacy \in Ports
        /\ \A e, d \in Ports : e = d \/ e < d \/ d < e
    BY <2>1 DEF LockAssumption, Endpoints, Ports, Fallbacks, Legacy
  <2>3. ASSUME platform = "linux", NEW c \in Inside(Contenders), NEW d \in Inside(Contenders)
        PROVE  c = d
    BY <2>1, <2>2, <2>3 DEF LockInv, OnPipe, PipeOf, PastPipe, Inside
  <2>4. ASSUME platform = "darwin", ~moved, NEW c \in Inside(Holders), NEW d \in Inside(Holders)
        PROVE  c = d
    <3>1. \A h \in Inside(Holders) : \E e \in Ports : listens[e] = h /\ First(e)
      <4>1. SUFFICES ASSUME NEW h \in Inside(Holders), h \in Older
                     PROVE  listens[Legacy] = h /\ First(Legacy)
        BY <2>1, <2>2, <2>4 DEF LockInv, Meeting, MeetsOf, Inside, Holders
      <4>2. listens[Legacy] = h
        BY <2>1, <4>1 DEF LockInv, OlderPlain, Inside
      <4> QED BY <2>1, <4>1, <4>2 DEF First, Open, LockAssumption, Ports, Fallbacks, Legacy
    <3>2. \A e, d2 \in Ports : First(e) /\ First(d2) => e = d2
      BY <2>2 DEF First
    <3> QED BY <3>1, <3>2
  <2>5. ASSUME platform = "linux", ~moved, ~missed, NEW c \in Inside(Holders), NEW d \in Inside(Holders)
        PROVE  c = d
    <3>1. \A h \in Inside(Holders) : h \in Older => listens[Legacy] = h
      BY <2>1 DEF LockInv, OlderPlain, Inside
    <3>2. \A h \in Inside(Holders) : h \in Contenders => listens[Legacy] \in Neighbours \cup {h}
      BY <2>1, <2>5 DEF LockInv, Companions, SeenOf, Inside
    <3>3. CASE c \in Contenders /\ d \in Contenders
      BY <2>3, <2>5, <3>3 DEF Inside
    <3>4. CASE c \in Older \/ d \in Older
      BY <2>1, <3>1, <3>2, <3>4 DEF LockAssumption, Inside, Holders
    <3> QED BY <3>3, <3>4 DEF Inside, Holders
  <2>6. platform = "linux" \/ platform = "darwin"
    BY <2>1 DEF LockInv, LockTypes
  <2>7. Inside(Contenders) \subseteq Inside(Holders)
    BY DEF Inside, Holders
  <2> QED BY <2>3, <2>4, <2>5, <2>6, <2>7 DEF OneHolder, Alone
<1> QED BY <1>1, LockInvariant, PTL

\* NothingLeftBehind: releaseLocalLock and the back-off close what acquireLocalLock opened.
THEOREM NoListenerLeft == ASSUME LockAssumption PROVE Spec => []NothingLeftBehind
<1>1. LockInv => NothingLeftBehind
  BY DEF LockInv, LockTypes, OnPipe, PipeOf, OnPorts, PortsOf, PastPipe, NothingLeftBehind, Endpoints
<1> QED BY <1>1, LockInvariant, PTL

\* LockIsExclusive: the two together, in the process as a whole, as the run of the host checks them.
THEOREM Exclusive == HostSpec => []LockIsExclusive
<1>1. OneHolder /\ NothingLeftBehind => LockIsExclusive
  BY DEF LockIsExclusive
<1>2. HostInit => Init
  BY DEF HostInit
<1>3. [HostNext]_all => [Next]_lockVars
  BY Zenon DEF HostNext, Serve, Contend, Carry, Query, all
<1>4. LockAssumption
  BY HostAssumption
<1>5. HostSpec => Spec
  BY <1>2, <1>3, PTL DEF HostSpec, Spec
<1> QED BY <1>1, <1>4, <1>5, MutualExclusion, NoListenerLeft, PTL
================================================================================
