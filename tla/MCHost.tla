-------------------------------- MODULE MCHost --------------------------------
(***************************************************************************)
(* What a Miftah process holds of its machine, side by side: the sessions  *)
(* of its HTTP host, the lock it shares with other processes (LocalLock,   *)
(* whose property is the run's as it is), the process tree of a local      *)
(* upstream and that of a secret provider.  They share no state, so a      *)
(* behaviour exercises one of them and the others rest.                    *)
(***************************************************************************)
EXTENDS LocalLock

CONSTANTS Records, MaxSessions

VARIABLES
  part,
  caller, runtime, pendingInits, counted, pendingRecords, ids, sessions, closing, cleanup,
  tasks, cleanupFailed, closer,                                                     \* http
  win, leader, kin, doomed, exitSeen, closeSeen,                             \* transport and secret
  explicit, forced, cleared, failure, emitted, ends,                         \* transport
  stage, kind, termination, settled                                          \* secret

httpOnly == <<caller, runtime, pendingInits, counted, pendingRecords, ids, sessions, closing, cleanup, tasks,
              cleanupFailed, closer>>
trees == <<win, leader, kin, doomed, exitSeen, closeSeen>>
transportOnly == <<explicit, forced, cleared, failure, emitted, ends>>
secretOnly == <<stage, kind, termination, settled>>
all == <<part, httpOnly, lockVars, trees, transportOnly, secretOnly>>

Http == INSTANCE HttpHost
Transport == INSTANCE ContainedTransport
Secret == INSTANCE SecretProcess

ASSUME HostAssumption == Http!HostAssumption /\ LockAssumption

NobodyListens == platform = "linux" /\ \A e \in Endpoints : listens[e] = None
NoTrees ==
  /\ win = None /\ leader = None /\ kin = None /\ doomed = None /\ exitSeen = None /\ closeSeen = None
NoTransport ==
  /\ explicit = None /\ forced = None /\ cleared = None /\ failure = None /\ emitted = None /\ ends = None
NoSecret == stage = None /\ kind = None /\ termination = None /\ settled = None

\* A behaviour is one part's; the HTTP host and the lock rest in an initial state, the others are not there.
HostInit ==
  /\ Http!Init /\ Init
  /\ \/ part = "http" /\ NobodyListens /\ NoTrees /\ NoTransport /\ NoSecret
     \/ part = "lock" /\ NoTrees /\ NoTransport /\ NoSecret
     \/ part = "transport" /\ Transport!Init /\ NobodyListens /\ NoSecret
     \/ part = "secret" /\ Secret!Init /\ NobodyListens /\ NoTransport

Serve == part = "http" /\ Http!Next /\ UNCHANGED <<part, lockVars, trees, transportOnly, secretOnly>>
Contend == part = "lock" /\ Next /\ UNCHANGED <<part, httpOnly, trees, transportOnly, secretOnly>>
Carry == part = "transport" /\ Transport!Next /\ UNCHANGED <<part, httpOnly, lockVars, secretOnly>>
Query == part = "secret" /\ Secret!Next /\ UNCHANGED <<part, httpOnly, lockVars, transportOnly>>

HostNext == Serve \/ Contend \/ Carry \/ Query

\* The fairness of each part: that of HttpHost, ContainedTransport and SecretProcess.
HostSpec ==
  /\ HostInit /\ [][HostNext]_all
  /\ \A r \in Records : WF_all(part = "http" /\ Http!Progress(r) /\ Serve)
  /\ WF_all(part = "http" /\ Http!CloseTasks /\ Serve)
  /\ WF_all(part = "http" /\ Http!CloseReturns /\ Serve)
  /\ WF_all(part = "transport" /\ Transport!Progress /\ Carry)
  /\ WF_all(part = "transport" /\ Transport!Kernel /\ Carry)
  /\ WF_all(part = "secret" /\ Secret!Steps /\ Query)
  /\ WF_all(part = "secret" /\ Secret!Terminate("timeout") /\ Query)
  /\ WF_all(part = "secret" /\ Secret!Kernel /\ Query)

---------------------------------------------------------------------------
\* Session runtimes not known to be closed never outnumber maxSessions, and requests reach only open
\* runtimes of an open host (HttpHost).
SessionsServe == part = "http" => Http!RuntimesBounded /\ Http!SessionsServe
\* When close() resolves, no answered session has its runtime left (HttpHost).
CloseIsHonest == Http!CloseIsHonest
\* A process group is gone before onclose, and gone or killed before a terminated secret run settles
\* (ContainedTransport, SecretProcess).
ProcessesContained ==
  /\ part = "transport" => Transport!ClosedMeansGone
  /\ part = "secret" => Secret!NobodySurvives
\* Every initialize request, every cleanup and close() come to an end (HttpHost); the end of a child is
\* reported by onclose or by a containment failure (ContainedTransport); every secret run settles unless
\* a process that left the group keeps stdout (SecretProcess).
EverythingSettles ==
  /\ Http!EverythingSettles
  /\ (part = "transport" /\ Transport!Ended) ~> (part = "transport" /\ Transport!Reported)
  /\ (part = "secret" /\ ~Secret!Settled) ~> (part = "secret" /\ (Secret!Settled \/ "stray" \in kin))
=============================================================================
