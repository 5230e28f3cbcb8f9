--------------------------- MODULE OAuthLifecycle ---------------------------
(***************************************************************************)
(* OAuthConnectionLifecycle (oauth/connection-lifecycle.ts): the           *)
(* credential of one connection in the vault of the operating system and   *)
(* the record of its state in the metadata file, used by the calls of      *)
(* several processes.  Every call works under the connection's lock, which *)
(* the operating system takes back from a process that dies; a refresh is  *)
(* a task of its own that the calls of one process share.                  *)
(*                                                                         *)
(* A step is what runs between two awaits, ending with the effect of the   *)
(* store call it waits for: the checks that the code makes when such a     *)
(* call returns belong to its step.  A credential is a number; "stale" is  *)
(* the set of those whose expiry is near or past.                          *)
(***************************************************************************)
EXTENDS Naturals

CONSTANTS
  None,     \* no record, no credential, no holder
  Procs,    \* Miftah processes
  NumCalls, \* bound: calls of the lifecycle
  MaxCreds, \* bound: credentials the provider issues
  MaxFaults \* bound: failing store calls, lock timeouts and deaths of a process

VARIABLES
  record,   \* the metadata: credentialState and the credential its expiresAt is of
  vault,    \* the stored credential
  holder,   \* the task that holds the lock
  gen,      \* generations
  task,     \* the calls, and the refresh flight of each process and generation
  stale,
  issued,   \* credentials issued so far
  asked,    \* credentials that the provider was asked to renew, by flights that were not cut off
  faults

vars == <<record, vault, holder, gen, task, stale, issued, asked, faults>>
stores == <<record, vault>>

Calls == {None} \X (1..NumCalls)
Flights == Procs \X (0..NumCalls - 1)
Tasks == Calls \cup Flights
CallKinds == {"connect", "credential", "disconnect"}
Terminal == {"disconnected", "reauth-required"}

Absent(x) ==
  [kind |-> IF x \in Flights THEN "refresh" ELSE "none",
   proc |-> IF x \in Flights THEN x[1] ELSE None,
   gen |-> IF x \in Flights THEN x[2] ELSE 0,
   pc |-> "none", cred |-> None, old |-> None, aborted |-> FALSE, out |-> None]

\* deriveExpiryState and credentialState.
StateOf(cred) == IF cred \in stale THEN "expiring" ELSE "connected"
Entry(state, cred) == [state |-> state, exp |-> cred]
States == Terminal \cup {"connected", "expiring"}
Results == {"ok", "failed", "cancelled", "reauth", "timeout", "crashed"}

ASSUME ConstantsAssumption ==
  /\ MaxCreds \in Nat \ {0}
  /\ None \notin Nat \cup Procs \cup Tasks \cup Results
  /\ \A state \in States, cred \in {None} \cup 1..MaxCreds : Entry(state, cred) # None

\* There is no connection yet, or one that an earlier process connected.
Init ==
  /\ \/ record = None /\ vault = None /\ issued = 0
     \/ record = Entry("connected", 1) /\ vault = 1 /\ issued = 1
  /\ holder = None
  /\ gen = [p \in Procs |-> 0]
  /\ task = [x \in Tasks |-> Absent(x)]
  /\ stale = {} /\ asked = {} /\ faults = 0

IsCurrentGeneration(x) == gen[task[x].proc] = task[x].gen
Running(x) == task[x].pc \notin {"none", "done"}
Consumers(f) ==
  {c \in Calls : task[c].pc = "joined" /\ task[c].proc = task[f].proc /\ task[c].gen = task[f].gen}

Goto(x, pc) == task' = [task EXCEPT ![x].pc = pc] /\ UNCHANGED holder
\* Of a call that is over only what a credential call returns is kept.
Over(x, out) ==
  IF x \in Flights THEN [task[x] EXCEPT !.pc = "done", !.out = out]
  ELSE IF task[x].kind # "credential" THEN [Absent(x) EXCEPT !.pc = "done"]
  ELSE [Absent(x) EXCEPT !.pc = "done", !.out = out, !.cred = IF out = "ok" THEN task[x].cred ELSE None]
LockKept(x, out) ==  \* mutant: the lock is not released
  task' = [task EXCEPT ![x] = Over(x, out)] /\ UNCHANGED holder

\* The operation is over and the lock released.
End(x, out) == task' = [task EXCEPT ![x] = Over(x, out)] /\ holder' = None

At(x, kind, pc) == holder = x /\ task[x].kind = kind /\ task[x].pc = pc

---------------------------------------------------------------------------
(* Starting a call, and the lock.                                          *)

\* connect and disconnect first make every earlier operation of their process out of date.
Advances(kind) == kind \in {"connect", "disconnect"}

Start(c, p, kind) ==
  LET g == IF Advances(kind) THEN gen[p] + 1 ELSE gen[p] IN
  /\ task[c].pc = "none"
  /\ \A d \in Calls : d[2] < c[2] => task[d].pc # "none"
  /\ kind = "connect" => issued < MaxCreds
  /\ issued' = IF kind = "connect" THEN issued + 1 ELSE issued
  /\ gen' = [gen EXCEPT ![p] = g]
  /\ task' = [x \in Tasks |->
       IF x = c THEN [Absent(c) EXCEPT !.kind = kind, !.proc = p, !.gen = g, !.pc = "waiting",
                                       !.cred = IF kind = "connect" THEN issued + 1 ELSE None]
       ELSE IF Advances(kind) /\ x \in Flights /\ x[1] = p /\ Running(x)
            THEN [task[x] EXCEPT !.aborted = TRUE]
       ELSE task[x]]
  /\ UNCHANGED <<stores, holder, stale, asked, faults>>

\* The first check made under the lock.  Whoever waits in its process for a flight that released the
\* lock before has been told by then.
Acquire(x) ==
  /\ task[x].pc = "waiting"
  /\ holder = None
  /\ \A f \in Flights : f[1] = task[x].proc => task[f].pc # "done"
  /\ IF task[x].kind = "credential" /\ task[x].aborted
     THEN End(x, "cancelled")
     ELSE task' = [task EXCEPT ![x].pc = "locked"] /\ holder' = x
  /\ UNCHANGED <<stores, gen, stale, issued, asked, faults>>

\* The wait for the lock has its limit.
GiveUp(x) ==
  /\ task[x].pc = "waiting"
  /\ holder # None
  /\ faults < MaxFaults
  /\ faults' = faults + 1
  /\ task' = [task EXCEPT ![x] = Over(x, "failed")]
  /\ UNCHANGED <<stores, holder, gen, stale, issued, asked>>

\* The caller's signal: alone it cancels the wait of that caller, as the last one the flight.
\* Under the lock it is looked at only after these points.
CallerAborts(c) ==
  /\ task[c].kind = "credential" /\ ~task[c].aborted
  /\ task[c].pc \in {"waiting", "join", "joined"}
  /\ task' = [x \in Tasks |->
       IF x = c
       THEN IF task[c].pc = "joined"
            THEN Over(c, "cancelled")
            ELSE [task[c] EXCEPT !.aborted = TRUE]
       ELSE IF x \in Flights /\ Consumers(x) = {c} THEN [task[x] EXCEPT !.aborted = TRUE]
       ELSE task[x]]
  /\ UNCHANGED <<stores, holder, gen, stale, issued, asked, faults>>

---------------------------------------------------------------------------
(* register, status, disconnect, connect.                                  *)

Created == IF record = None THEN Entry("disconnected", None) ELSE record

\* The whole of register and of status, whose only effect is one write of the record.
Register ==
  /\ holder = None
  /\ record' = Created
  /\ UNCHANGED <<vault, holder, gen, task, stale, issued, asked, faults>>

Status ==
  /\ holder = None
  /\ record # None /\ record.state \notin Terminal /\ record.exp # None
  /\ record' = Entry(StateOf(record.exp), record.exp)
  /\ UNCHANGED <<vault, holder, gen, task, stale, issued, asked, faults>>

Disconnect(c) ==
  /\ At(c, "disconnect", "locked")
  /\ IF record = None THEN End(c, "failed") /\ UNCHANGED record
     ELSE record' = Entry("disconnected", None) /\ Goto(c, "delete")
  /\ UNCHANGED <<vault, gen, stale, issued, asked, faults>>

\* store.delete, the last step of several operations: what they end with is in "out".
Delete(x) ==
  /\ holder = x /\ task[x].pc = "delete"
  /\ vault' = None
  /\ End(x, IF task[x].out = None THEN "ok" ELSE task[x].out)
  /\ UNCHANGED <<record, gen, stale, issued, asked, faults>>

DeleteAndThrow(x, out) ==
  task' = [task EXCEPT ![x].pc = "delete", ![x].out = out] /\ UNCHANGED holder

Create(c) ==
  /\ At(c, "connect", "locked")
  /\ IF IsCurrentGeneration(c)
     THEN record' = Created /\ Goto(c, "save")
     ELSE UNCHANGED record /\ End(c, "cancelled")
  /\ UNCHANGED <<vault, gen, stale, issued, asked, faults>>

\* connect, and persistRefreshedCredential: the vault first, then the record.
Save(x) ==
  /\ holder = x /\ task[x].pc = "save"
  /\ vault' = task[x].cred
  /\ IF IsCurrentGeneration(x) THEN Goto(x, "record") ELSE DeleteAndThrow(x, "cancelled")
  /\ UNCHANGED <<record, gen, stale, issued, asked, faults>>

Record(x) ==
  /\ holder = x /\ task[x].pc = "record"
  /\ record' = Entry(IF task[x].kind = "connect" THEN StateOf(task[x].cred) ELSE "connected",
                     task[x].cred)
  /\ IF IsCurrentGeneration(x) THEN End(x, "ok") ELSE DeleteAndThrow(x, "cancelled")
  /\ UNCHANGED <<vault, gen, stale, issued, asked, faults>>

---------------------------------------------------------------------------
(* credential.                                                             *)

AnyState(c) ==  \* mutant: the state in the record is not looked at
  /\ At(c, "credential", "locked")
  /\ IF ~IsCurrentGeneration(c) THEN End(c, "cancelled")
     ELSE IF record = None THEN End(c, "failed")
     ELSE IF vault = None THEN Goto(c, "mark")
     ELSE /\ task' = [task EXCEPT ![c].pc = IF vault \in stale THEN "due" ELSE "ready",
                                  ![c].cred = vault]
          /\ UNCHANGED holder
  /\ UNCHANGED <<stores, gen, stale, issued, asked, faults>>

\* registry.get and store.load, and what they say.
Load(c) ==
  /\ At(c, "credential", "locked")
  /\ IF ~IsCurrentGeneration(c) THEN End(c, "cancelled")
     ELSE IF record = None THEN End(c, "failed")
     ELSE IF vault = None THEN Goto(c, "mark")
     ELSE IF record.state \in Terminal THEN End(c, "reauth")
     ELSE /\ task' = [task EXCEPT ![c].pc = IF vault \in stale THEN "due" ELSE "ready",
                                  ![c].cred = vault]
          /\ UNCHANGED holder
  /\ UNCHANGED <<stores, gen, stale, issued, asked, faults>>

\* There is a record but no credential; also the flight's.
Mark(x) ==
  /\ holder = x /\ task[x].pc = "mark"
  /\ record' = Entry("reauth-required", None)
  /\ End(x, IF ~IsCurrentGeneration(x) \/ (x \in Flights /\ task[x].aborted)
            THEN "cancelled" ELSE "reauth")
  /\ UNCHANGED <<vault, gen, stale, issued, asked, faults>>

Ready(c) ==
  /\ holder = c /\ task[c].pc = "ready"
  /\ record' = Entry("connected", task[c].cred)
  /\ End(c, IF IsCurrentGeneration(c) THEN "ok" ELSE "cancelled")
  /\ UNCHANGED <<vault, gen, stale, issued, asked, faults>>

Due(c) ==
  /\ holder = c /\ task[c].pc = "due"
  /\ record' = Entry("expiring", task[c].cred)
  /\ IF IsCurrentGeneration(c)
     THEN task' = [task EXCEPT ![c].pc = "join", ![c].cred = None] /\ holder' = None
     ELSE End(c, "cancelled")
  /\ UNCHANGED <<vault, gen, stale, issued, asked, faults>>

\* joinRefresh: without the lock again, one flight for the callers of a process, be it just over.
Join(c) ==
  LET f == <<task[c].proc, task[c].gen>>
      flight == IF task[f].pc # "none" THEN task[f] ELSE [Absent(f) EXCEPT !.pc = "waiting"]
  IN /\ task[c].pc = "join"
     /\ task' = IF ~IsCurrentGeneration(c) THEN [task EXCEPT ![c] = Over(c, "cancelled")]
                ELSE IF task[c].aborted
                THEN [task EXCEPT ![c] = Over(c, "cancelled"), ![f] = flight]
                ELSE [task EXCEPT ![c].pc = "joined", ![f] = flight]
     /\ UNCHANGED <<stores, holder, gen, stale, issued, asked, faults>>

---------------------------------------------------------------------------
(* The refresh flight.                                                     *)

\* registry.get and store.load: another process may have disconnected, or asked the credential,
\* while this one waited for the lock.
FlightLoad(f) ==
  /\ At(f, "refresh", "locked")
  /\ IF ~IsCurrentGeneration(f) THEN End(f, "cancelled")
     ELSE IF record.state \in Terminal
     THEN End(f, IF task[f].aborted \/ record.state = "disconnected" THEN "cancelled" ELSE "reauth")
     ELSE IF vault = None THEN Goto(f, "mark")
     ELSE IF vault \notin stale
     THEN task' = [task EXCEPT ![f].pc = "done", ![f].out = "ok", ![f].cred = vault] /\ holder' = None
     ELSE task' = [task EXCEPT ![f].pc = "asking", ![f].old = vault] /\ UNCHANGED holder
  /\ UNCHANGED <<stores, gen, stale, issued, asked, faults>>

Asking(f) == At(f, "refresh", "asking")

Answer(f) ==
  /\ Asking(f) /\ ~task[f].aborted
  /\ issued < MaxCreds
  /\ issued' = issued + 1
  /\ task' = [task EXCEPT ![f].pc = "persist", ![f].cred = issued + 1]
  /\ asked' = asked \cup {task[f].old}
  /\ UNCHANGED <<stores, holder, gen, stale, faults>>

\* The provider refuses or cannot be reached, or the deadline passes: terminalFailure.
Refuse(f, out) ==
  /\ Asking(f) /\ ~task[f].aborted
  /\ task' = [task EXCEPT ![f].pc = "fail", ![f].out = out, ![f].aborted = out = "timeout"]
  /\ asked' = asked \cup {task[f].old}
  /\ UNCHANGED <<stores, holder, gen, stale, issued, faults>>

Cancel(f) ==
  /\ Asking(f) /\ task[f].aborted
  /\ End(f, "cancelled")
  /\ UNCHANGED <<stores, gen, stale, issued, asked, faults>>

\* A flight that asked is cut off before the record says that its credential is given up.
CutOff(f) == asked' = asked \ {task[f].old}

RecordLater(f) ==  \* mutant: the old credential is not given up before the new one is stored
  /\ At(f, "refresh", "persist")
  /\ IF IsCurrentGeneration(f) THEN Goto(f, "save") ELSE End(f, "cancelled")
  /\ UNCHANGED <<stores, gen, stale, issued, asked, faults>>

\* persistRefreshedCredential begins by giving up the old credential, unless it is out of date by then.
Persist(f) ==
  /\ At(f, "refresh", "persist")
  /\ \/ /\ record' = Entry("reauth-required", None) /\ UNCHANGED asked
        /\ IF IsCurrentGeneration(f) THEN Goto(f, "save") ELSE End(f, "cancelled")
     \/ ~IsCurrentGeneration(f) /\ End(f, "cancelled") /\ CutOff(f) /\ UNCHANGED record
  /\ UNCHANGED <<vault, gen, stale, issued, faults>>

CredentialKept(f) ==  \* mutant: the refused credential stays in the vault
  /\ At(f, "refresh", "fail")
  /\ record' = Entry("reauth-required", None)
  /\ End(f, task[f].out)
  /\ UNCHANGED <<vault, gen, stale, issued, asked, faults>>

TerminalFailure(f) ==
  /\ At(f, "refresh", "fail")
  /\ \/ /\ record' = Entry("reauth-required", None) /\ UNCHANGED asked
        /\ IF IsCurrentGeneration(f) THEN Goto(f, "delete") ELSE End(f, task[f].out)
     \/ ~IsCurrentGeneration(f) /\ End(f, task[f].out) /\ CutOff(f) /\ UNCHANGED record
  /\ UNCHANGED <<vault, gen, stale, issued, faults>>

\* finishRefresh, and the consumers' promises.
Settle(f) ==
  /\ task[f].pc = "done"
  /\ task' = [x \in Tasks |->
       IF x = f THEN Absent(f)
       ELSE IF x \in Consumers(f)
       THEN [Over(x, task[f].out) EXCEPT !.cred = IF task[f].out = "ok" THEN task[f].cred ELSE None]
       ELSE task[x]]
  /\ UNCHANGED <<stores, holder, gen, stale, issued, asked, faults>>

---------------------------------------------------------------------------
(* The environment.                                                        *)

\* What follows when the store call that a task waits for fails.
Fails(x) ==
  LET pc == task[x].pc
      outdated == ~IsCurrentGeneration(x)
      flight == x \in Flights
  IN CASE pc = "record" /\ ~outdated -> DeleteAndThrow(x, "failed")
       [] flight /\ pc \in {"locked", "mark"} /\ (outdated \/ task[x].aborted) ->
            End(x, "cancelled")
       [] flight /\ pc = "locked" /\ ~outdated /\ ~task[x].aborted ->
            task' = [task EXCEPT ![x].pc = "fail", ![x].out = "reauth"] /\ UNCHANGED holder
       [] OTHER -> End(x, "failed")

\* What it would have written.
RecordWritten(x) ==
  LET t == task[x] IN
  CASE t.pc \in {"mark", "persist", "fail"} -> Entry("reauth-required", None)
    [] t.pc = "record" -> Entry(IF t.kind = "connect" THEN StateOf(t.cred) ELSE "connected", t.cred)
    [] t.pc = "ready" -> Entry("connected", t.cred)
    [] t.pc = "due" -> Entry("expiring", t.cred)
    [] t.pc = "locked" /\ t.kind = "connect" -> Created
    [] t.pc = "locked" /\ t.kind = "disconnect" /\ record # None -> Entry("disconnected", None)
    [] OTHER -> record
VaultWritten(x) ==
  IF task[x].pc = "save" THEN task[x].cred ELSE IF task[x].pc = "delete" THEN None ELSE vault

\* A call that fails has had no effect, or has had it all the same.
FailCall(x) ==
  /\ holder = x /\ task[x].pc # "asking"
  /\ faults < MaxFaults
  /\ faults' = faults + 1
  /\ Fails(x)
  /\ \/ UNCHANGED stores /\ (IF task[x].pc \in {"persist", "fail"} THEN CutOff(x) ELSE UNCHANGED asked)
     \/ record' = RecordWritten(x) /\ vault' = VaultWritten(x) /\ UNCHANGED asked
  /\ UNCHANGED <<gen, stale, issued>>

Crash(p) ==
  /\ \E x \in Tasks : task[x].proc = p /\ Running(x)
  /\ faults < MaxFaults
  /\ faults' = faults + 1
  /\ task' = [x \in Tasks |->
       IF task[x].proc # p \/ (x \in Calls /\ ~Running(x)) THEN task[x]
       ELSE IF x \in Flights THEN Absent(x)
       ELSE Over(x, "crashed")]
  /\ holder' = IF holder # None /\ task[holder].proc = p THEN None ELSE holder
  /\ gen' = [gen EXCEPT ![p] = 0]
  /\ IF holder # None /\ task[holder].proc = p /\ task[holder].pc \in {"persist", "fail"}
     THEN CutOff(holder) ELSE UNCHANGED asked
  /\ UNCHANGED <<stores, stale, issued>>

\* Time passes.
Age(cred) ==
  /\ cred # None /\ cred \notin stale
  /\ stale' = stale \cup {cred}
  /\ UNCHANGED <<stores, holder, gen, task, issued, asked, faults>>

---------------------------------------------------------------------------

\* What a task does of its own accord.
Proceed(x) ==
  \/ Acquire(x) \/ Delete(x) \/ Save(x) \/ Record(x) \/ Mark(x)
  \/ x \in Calls /\ (\/ Disconnect(x) \/ Create(x)
                     \/ Load(x) \/ Ready(x) \/ Due(x) \/ Join(x))
  \/ x \in Flights /\ (\/ FlightLoad(x) \/ Answer(x) \/ Cancel(x)
                       \/ \E out \in {"reauth", "timeout"} : Refuse(x, out)
                       \/ Persist(x) \/ TerminalFailure(x) \/ Settle(x))

Next ==
  \/ \E x \in Tasks : Proceed(x) \/ GiveUp(x) \/ FailCall(x)
  \/ \E c \in Calls : CallerAborts(c) \/ \E p \in Procs, kind \in CallKinds : Start(c, p, kind)
  \/ \E p \in Procs : Crash(p)
  \/ Register
  \/ Status
  \/ Age(vault)
  \/ record # None /\ Age(record.exp)

Spec == Init /\ [][Next]_vars

---------------------------------------------------------------------------
(* Properties.                                                             *)

\* The credential that the connection stands for.  While a refresh replaces it, its record says
\* that it is gone.
Renewing == holder \in Flights /\ task[holder].pc \in {"save", "record"}
Current ==
  IF record = None \/ vault = None THEN None
  ELSE IF Renewing THEN task[holder].old
  ELSE IF record.state \in Terminal THEN None
  ELSE vault

TypeOK ==
  /\ record = None \/ record.state \in States
  /\ vault \in {None} \cup 1..issued
  /\ holder \in {None} \cup Tasks
  /\ asked \subseteq 1..issued /\ stale \subseteq 1..issued

\* When no call is under way and nothing ever failed, a connection that says it is usable has the
\* credential whose expiry it reports, and one that says it is not has none in the vault.
QuietIsCoherent ==
  (\A x \in Tasks : ~Running(x)) /\ faults = 0 /\ record # None =>
    IF record.state \in Terminal THEN vault = None ELSE vault # None /\ record.exp = vault

\* The provider is not asked to renew a credential by two flights at a time, nor by one after another
\* whatever came of it, although both processes found it expiring: its refresh token may be used up.
\* But for a flight that was cut off: by its last caller or a connect or disconnect of its process, by
\* the death of its process, or by the failure of the write by which it gives the credential up.
AskedOnce ==
  \A f \in Flights : Asking(f) =>
    task[f].old \notin asked /\ \A g \in Flights \ {f} : Asking(g) => task[g].old # task[f].old

\* As long as a call is under way some task can go on by itself: nobody waits for a lock, a flight
\* or an answer that is not coming.  Every task has an end, so every call comes to its own.
NobodyIsStuck == (\E c \in Calls : Running(c)) => ENABLED (\E x \in Tasks : Proceed(x))
=============================================================================
