-------------------------------- MODULE HttpHost --------------------------------
(***************************************************************************)
(* The Streamable HTTP host (HttpServerHost): every initialize request     *)
(* creates a session runtime of its own, published under its session id    *)
(* by a callback of the transport and torn down by the client's DELETE, by *)
(* the idle timer, by a failure on the way, or by close().                 *)
(*                                                                         *)
(* A record stands for one initialize request and for the SessionRecord it *)
(* creates.  An action is what the host does between two awaits.  Header,  *)
(* origin and token checks come before and keep no state; the idle timer   *)
(* that a request rearms is armed already.  A cleanup may fail at either   *)
(* of its two steps, and its record then keeps its place for good.         *)
(***************************************************************************)
EXTENDS Naturals, FiniteSets

CONSTANTS
  Records,     \* initialize requests, each with the record it may create
  MaxSessions  \* server.http.maxSessions

HostAssumption == IsFiniteSet(Records) /\ MaxSessions \in Nat \ {0}

VARIABLES
  caller,         \* what the initialize request awaits
  runtime,        \* the session runtime it created
  pendingInits,   \* pendingInitializations
  counted,        \* the records whose `pending' flag is set
  pendingRecords, \* the set of that name
  ids,            \* the records that have their session id
  sessions,       \* the records in the map `sessions', each with its idle timer
  closing,        \* closingRecords
  cleanup,        \* the cleanup promise of a record, and how far it is
  tasks,          \* cleanupTasks: cleanups deferred with setImmediate
  cleanupFailed,  \* the flag of that name
  closer          \* close(): what it awaits, and how it ended

vars == <<caller, runtime, pendingInits, counted, pendingRecords, ids, sessions,
          closing, cleanup, tasks, cleanupFailed, closer>>

places == <<pendingInits, counted, pendingRecords, ids, sessions>>

NoCleanup == [phase |-> "none", transport |-> FALSE, failed |-> FALSE]
Cleanups == [phase : {"none", "runtime", "transport", "done", "failed"},
             transport : BOOLEAN, failed : BOOLEAN]
Callers == {"none", "reading", "creating", "discarding", "connecting", "handling",
            "cleaning", "done"}
Tasks == {"none", "full", "keepTransport", "awaiting"}

closed == closer.phase # "open"

CleanedOnly(r) == cleanup[r].phase = "done"  \* mutant: a rejection is not awaited
Cleaned(r) == cleanup[r].phase \in {"done", "failed"}

FullLate == Cardinality(sessions) + pendingInits >= MaxSessions \* mutant: closing is free
Full == Cardinality(sessions) + pendingInits + Cardinality(closing) >= MaxSessions

Init ==
  /\ caller = [r \in Records |-> "none"]
  /\ runtime = [r \in Records |-> "none"]
  /\ pendingInits = 0
  /\ counted = {} /\ pendingRecords = {} /\ ids = {} /\ sessions = {} /\ closing = {}
  /\ cleanup = [r \in Records |-> NoCleanup]
  /\ tasks = [r \in Records |-> "none"]
  /\ cleanupFailed = FALSE
  /\ closer = [phase |-> "open", waits |-> {}]

Goes(r, phase) == caller' = [caller EXCEPT ![r] = phase]

-----------------------------------------------------------------------------
(* Cleaning up.                                                            *)

\* beginCleanup and detach: the records leave the maps for closingRecords.
GivenBackTwice(S) ==                         \* mutant: `pending' is not looked at
  /\ closing' = closing \cup S
  /\ sessions' = sessions \ S
  /\ pendingRecords' = pendingRecords \ S
  /\ pendingInits' = pendingInits - Cardinality(S)
  /\ counted' = counted \ S
BeginCleanup(S) ==
  /\ closing' = closing \cup S
  /\ sessions' = sessions \ S
  /\ pendingRecords' = pendingRecords \ S
  /\ pendingInits' = pendingInits - Cardinality(S \cap counted)
  /\ counted' = counted \ S

\* cleanupRecord on every record of S: a cleanup that exists is shared.
CleanupRecords(S, transport) ==
  LET fresh == {r \in S : cleanup[r] = NoCleanup}
  IN  /\ BeginCleanup(fresh)
      /\ cleanup' = [r \in Records |->
           IF r \in fresh
           THEN [phase |-> "runtime", transport |-> transport, failed |-> FALSE]
           ELSE cleanup[r]]

\* scheduleCleanup: detached now, cleaned up by a later turn of the loop.
ScheduleCleanup(r, task) ==
  /\ cleanup[r] = NoCleanup /\ r \notin closing
  /\ BeginCleanup({r})
  /\ tasks' = [tasks EXCEPT ![r] = task]
  /\ UNCHANGED <<caller, runtime, ids, cleanup, cleanupFailed, closer>>

\* setImmediate runs the deferred cleanup.
RunTask(r) ==
  /\ tasks[r] \in {"full", "keepTransport"}
  /\ CleanupRecords({r}, tasks[r] = "full")
  /\ tasks' = [tasks EXCEPT ![r] = "awaiting"]
  /\ UNCHANGED <<caller, runtime, ids, cleanupFailed, closer>>

\* The promise of a cleanup settles, and that of its task with it.
Silenced(r, failed) ==                       \* mutant: the failure is not recorded
  /\ cleanup' = [cleanup EXCEPT ![r].phase = IF failed THEN "failed" ELSE "done"]
  /\ closing' = IF failed THEN closing ELSE closing \ {r}
  /\ tasks' = [tasks EXCEPT ![r] = IF @ = "awaiting" THEN "none" ELSE @]
  /\ UNCHANGED cleanupFailed
Settle(r, failed) ==
  /\ cleanup' = [cleanup EXCEPT ![r].phase = IF failed THEN "failed" ELSE "done"]
  /\ closing' = IF failed THEN closing ELSE closing \ {r}
  /\ cleanupFailed' = (cleanupFailed \/ failed)
  /\ tasks' = [tasks EXCEPT ![r] = IF @ = "awaiting" THEN "none" ELSE @]

\* runtime.close() returns or throws.
RuntimeCloses(r) ==
  /\ cleanup[r].phase = "runtime"
  /\ \E failed \in BOOLEAN :
       /\ runtime' = [runtime EXCEPT ![r] = IF failed THEN "broken" ELSE "closed"]
       /\ IF cleanup[r].transport
          THEN /\ cleanup' = [cleanup EXCEPT ![r].phase = "transport", ![r].failed = failed]
               /\ UNCHANGED <<closing, cleanupFailed, tasks>>
          ELSE Settle(r, failed)
  /\ UNCHANGED <<caller, places, closer>>

\* transport.close() returns or throws.
TransportCloses(r) ==
  /\ cleanup[r].phase = "transport"
  /\ \E failed \in BOOLEAN : Settle(r, failed \/ cleanup[r].failed)
  /\ UNCHANGED <<caller, runtime, places, closer>>

-----------------------------------------------------------------------------
(* Initializing a session.                                                 *)

\* route: an initialize request arrives while the host is open.
Arrive(r) ==
  /\ caller[r] = "none" /\ ~closed
  /\ Goes(r, "reading")
  /\ UNCHANGED <<runtime, places, closing, cleanup, tasks, cleanupFailed, closer>>

\* Its body is read.  createSession takes a place or answers 429; it does not
\* ask again whether the host is still open.
Admit(r) ==
  /\ caller[r] = "reading"
  /\ IF Full
     THEN Goes(r, "done") /\ UNCHANGED pendingInits
     ELSE Goes(r, "creating") /\ pendingInits' = pendingInits + 1
  /\ UNCHANGED <<runtime, counted, pendingRecords, ids, sessions, closing, cleanup, tasks,
                 cleanupFailed, closer>>

\* The factory fails: the place is given back.
CreateFails(r) ==
  /\ caller[r] = "creating"
  /\ Goes(r, "done")
  /\ pendingInits' = pendingInits - 1
  /\ UNCHANGED <<runtime, counted, pendingRecords, ids, sessions, closing, cleanup, tasks,
                 cleanupFailed, closer>>

\* The factory returns a runtime: a record of it, unless the host has closed.
Created(r) ==
  /\ caller[r] = "creating"
  /\ runtime' = [runtime EXCEPT ![r] = "open"]
  /\ IF closed
     THEN Goes(r, "discarding") /\ UNCHANGED <<counted, pendingRecords>>
     ELSE /\ Goes(r, "connecting")
          /\ counted' = counted \cup {r}
          /\ pendingRecords' = pendingRecords \cup {r}
  /\ UNCHANGED <<pendingInits, ids, sessions, closing, cleanup, tasks, cleanupFailed, closer>>

\* The runtime that came too late is closed, or fails to close.
Discarded(r) ==
  /\ caller[r] = "discarding"
  /\ \E outcome \in {"closed", "broken"} : runtime' = [runtime EXCEPT ![r] = outcome]
  /\ Goes(r, "done")
  /\ pendingInits' = pendingInits - 1
  /\ UNCHANGED <<counted, pendingRecords, ids, sessions, closing, cleanup, tasks,
                 cleanupFailed, closer>>

\* runtime.connect returns: the transport handles the initialize request.
Connects(r) ==
  /\ caller[r] = "connecting"
  /\ Goes(r, "handling")
  /\ UNCHANGED <<runtime, places, closing, cleanup, tasks, cleanupFailed, closer>>

\* onsessioninitialized: the session is published under its new id, unless its
\* cleanup has begun.
PublishAlways(r) ==                          \* mutant: a cleanup is not looked for
  /\ sessions' = sessions \cup {r}
  /\ pendingRecords' = pendingRecords \ {r}
  /\ counted' = counted \ {r}
  /\ pendingInits' = pendingInits - Cardinality({r} \cap counted)
Publish(r) ==
  /\ cleanup[r] = NoCleanup
  /\ sessions' = sessions \cup {r}
  /\ pendingRecords' = pendingRecords \ {r}
  /\ counted' = counted \ {r}
  /\ pendingInits' = pendingInits - Cardinality({r} \cap counted)

SessionInitialized(r) ==
  /\ caller[r] = "handling" /\ r \notin ids
  /\ Publish(r)
  /\ ids' = ids \cup {r}
  /\ UNCHANGED <<caller, runtime, closing, cleanup, tasks, cleanupFailed, closer>>

\* connect or handleRequest throws, or no session id came of it.
InitializeFails(r) ==
  /\ caller[r] \in {"connecting", "handling"}
  /\ CleanupRecords({r}, TRUE)
  /\ Goes(r, "cleaning")
  /\ UNCHANGED <<runtime, ids, tasks, cleanupFailed, closer>>

\* handleRequest returns and the session has its id.
Initialized(r) ==
  /\ caller[r] = "handling" /\ r \in ids
  /\ Goes(r, "done")
  /\ UNCHANGED <<runtime, places, closing, cleanup, tasks, cleanupFailed, closer>>

\* The cleanup the request waits for has settled, whichever way.
CallerCleaned(r) ==
  /\ caller[r] = "cleaning" /\ Cleaned(r)
  /\ Goes(r, "done")
  /\ UNCHANGED <<runtime, places, closing, cleanup, tasks, cleanupFailed, closer>>

-----------------------------------------------------------------------------
(* The life of a session and of the host.                                  *)

\* The idle timer of a session fires.
IdleFires(r) == r \in sessions /\ ScheduleCleanup(r, "full")

\* The client deletes its session; the transport closes itself.
Deleted(r) == r \in sessions /\ ScheduleCleanup(r, "keepTransport")

\* close(): every record in the maps is cleaned up at once.
Close ==
  /\ ~closed
  /\ closer' = [phase |-> "records", waits |-> sessions \cup pendingRecords]
  /\ CleanupRecords(sessions \cup pendingRecords, TRUE)
  /\ UNCHANGED <<caller, runtime, ids, tasks, cleanupFailed>>

\* Those cleanups have settled: the deferred ones are awaited next.
CloseTasks ==
  /\ closer.phase = "records" /\ \A r \in closer.waits : Cleaned(r)
  /\ closer' = [phase |-> "tasks", waits |-> {r \in Records : tasks[r] # "none"}]
  /\ UNCHANGED <<caller, runtime, places, closing, cleanup, tasks, cleanupFailed>>

\* All of them have settled; a cleanup that ever failed makes close() fail.
CloseReturns ==
  /\ closer.phase = "tasks" /\ \A r \in closer.waits : Cleaned(r)
  /\ closer' = [phase |-> IF cleanupFailed THEN "rejected" ELSE "resolved", waits |-> {}]
  /\ UNCHANGED <<caller, runtime, places, closing, cleanup, tasks, cleanupFailed>>

Progress(r) ==
  \/ Admit(r) \/ CreateFails(r) \/ Created(r) \/ Discarded(r) \/ Connects(r)
  \/ SessionInitialized(r) \/ InitializeFails(r) \/ Initialized(r) \/ CallerCleaned(r)
  \/ RunTask(r) \/ RuntimeCloses(r) \/ TransportCloses(r)

Next ==
  \/ \E r \in Records : Progress(r) \/ Arrive(r) \/ IdleFires(r) \/ Deleted(r)
  \/ Close \/ CloseTasks \/ CloseReturns

Spec == Init /\ [][Next]_vars

\* Requests are read, runtimes are created and closed in finite time, and the
\* event loop runs what is ready.
FairSpec ==
  /\ Spec
  /\ \A r \in Records : WF_vars(Progress(r))
  /\ WF_vars(CloseTasks) /\ WF_vars(CloseReturns)

-----------------------------------------------------------------------------
(* What must hold.                                                         *)

\* Type correctness of the host's maps.
TypeOK ==
  /\ caller \in [Records -> Callers]
  /\ runtime \in [Records -> {"none", "open", "closed", "broken"}]
  /\ pendingInits \in Nat /\ pendingInits <= Cardinality(Records)
  /\ counted \subseteq Records /\ pendingRecords \subseteq Records
  /\ ids \subseteq Records /\ sessions \subseteq Records /\ closing \subseteq Records
  /\ cleanup \in [Records -> Cleanups]
  /\ tasks \in [Records -> Tasks]
  /\ cleanupFailed \in BOOLEAN
  /\ closer \in [phase : {"open", "records", "tasks", "resolved", "rejected"},
                 waits : SUBSET Records]

\* The runtimes that are not known to be closed never outnumber maxSessions,
\* those of failed cleanups and of initializations under way included.
Alive == {r \in Records : runtime[r] \in {"open", "broken"}}
RuntimesBounded == ~closed => Cardinality(Alive) <= MaxSessions

\* Requests are routed only to a runtime that is open, of a host that is open:
\* nothing in the map of sessions is being cleaned up or about to be.
SessionsServe ==
  \A r \in sessions :
    /\ runtime[r] = "open" /\ cleanup[r] = NoCleanup /\ tasks[r] = "none"
    /\ r \notin closing /\ ~closed

\* Each initialization takes one place and gives it back once.
PlacesExact ==
  /\ pendingInits = Cardinality(counted)
       + Cardinality({r \in Records : caller[r] \in {"creating", "discarding"}})
  /\ sessions \cap closing = {} /\ counted \cap (sessions \cup closing) = {}
  /\ counted = pendingRecords

\* When close() resolves, every session whose initialize request had its answer
\* has closed its runtime, deferred cleanups included; a failure makes it reject.
CloseIsHonest ==
  [][closer.phase # "resolved" /\ closer'.phase = "resolved" =>
       \A r \in ids : caller[r] = "done" => runtime[r] = "closed"]_vars

\* When close() resolves every session runtime has closed.
CloseReapsRuntimes ==
  closer.phase = "resolved" => \A r \in Records : runtime[r] \in {"none", "closed"}

\* Every initialize request gets its answer, every cleanup that has begun
\* settles, and close() returns, whatever fails on the way.
EverythingSettles ==
  /\ \A r \in Records : caller[r] # "none" ~> caller[r] = "done"
  /\ \A r \in Records : r \in closing ~> Cleaned(r)
  /\ closed ~> closer.phase \in {"resolved", "rejected"}
=============================================================================
