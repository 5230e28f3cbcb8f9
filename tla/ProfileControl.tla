------------------------------ MODULE ProfileControl ------------------------------
(***************************************************************************)
(* The control plane of Miftah: which credential profile is active.  A     *)
(* client is one Miftah process with its ProfileManager, driven by         *)
(* MiftahServer through its queue profileTransitions; all clients of one   *)
(* configuration share the state file of ProfileStateStore (the durable    *)
(* scopes, workspace and global).                                          *)
(*                                                                         *)
(* A switch saves the file, changes the memory and writes the audit log;   *)
(* a lock or an unlock changes the memory and writes the log; a write that *)
(* fails rolls all of it back (mutateAudited).  A reset is a switch to the *)
(* default profile.  A protected call works with the selection it captured *)
(* when it arrived.  Processes crash and start again.                      *)
(*                                                                         *)
(* A switch made by request r is selection r, and lease r when its profile *)
(* is leased.  Catalogue invalidation and notifications, which follow a    *)
(* switch in its turn of the queue, belong to other components.            *)
(***************************************************************************)
EXTENDS Naturals, Sequences

CONSTANTS
  Clients,       \* Miftah processes that share the configuration
  Profiles, DefaultProfile,
  Leased,        \* profiles with a lease for protected calls
  Confirmations, \* values of security.requireProfileSwitchConfirmation to consider
  MaxRequests    \* bound: requests that arrive

ASSUME ControlAssumption ==
  /\ DefaultProfile \in Profiles /\ Leased \subseteq Profiles
  /\ Confirmations \subseteq BOOLEAN
  /\ MaxRequests \in Nat

Requests == 1 .. MaxRequests
Nothing == 0
ASSUME NothingAssumption == Nothing \notin Profiles

VARIABLES
  confirm,   \* security.requireProfileSwitchConfirmation
  file,      \* the profile in the state file
  running,   \* the clients whose process runs
  memory,    \* the ProfileManager of each client
  queue,     \* profileTransitions of each client
  requests,  \* the requests of all clients, numbered as they arrive
  expired,   \* leases past their expiresAt
  settled,   \* history: the memory that the audit log accounts for
  recorded,  \* history: the switches in the audit log, by client and profile
  lastSwitch, \* history: the profile of the last switch that succeeded
  disturbed  \* history: what happened to the file since then was no switch

vars == <<confirm, file, running, memory, queue, requests, expired, settled, recorded, lastSwitch,
          disturbed>>
history == <<settled, recorded, lastSwitch, disturbed>>

\* A ProfileManager after initialize and beginSession.
Fresh(profile, durable) ==
  [active |-> profile, revision |-> 1, selection |-> Nothing, lease |-> Nothing,
   lock |-> Nothing, durable |-> durable]

NoSource == Fresh(DefaultProfile, Nothing)
Request(c, kind, profile, phase) ==
  [client |-> c, kind |-> kind, target |-> profile, phase |-> phase,
   source |-> NoSource, before |-> NoSource]

Init ==
  /\ confirm \in Confirmations
  /\ file \in Profiles \cup {Nothing}
  /\ running = {}
  /\ memory = [c \in Clients |-> Fresh(DefaultProfile, Nothing)]
  /\ queue = [c \in Clients |-> <<>>]
  /\ requests = [r \in Requests |-> Request(Nothing, "call", DefaultProfile, "free")]
  /\ expired = {}
  /\ settled = memory
  /\ recorded = {}
  /\ lastSwitch = file
  /\ disturbed = FALSE

-----------------------------------------------------------------------------
(* The state of a ProfileManager.                                          *)

\* issueLease
Undated(profile, r) == IF profile \in Leased THEN profile ELSE Nothing  \* mutant: no expiry of its own
Issued(profile, r) == IF profile \in Leased THEN r ELSE Nothing

\* persistAndCommit, after the save.
Committed(m, profile, r) ==
  [m EXCEPT !.active = profile, !.revision = @ + 1, !.selection = r,
            !.lease = Issued(profile, r), !.durable = profile]

\* lock
LockedTo(m) == [m EXCEPT !.lock = m.active, !.revision = @ + 1]

\* unlock
Unlocked(m) == IF m.lock = Nothing THEN m ELSE [m EXCEPT !.lock = Nothing, !.revision = @ + 1]

\* restoreMutationSnapshot, in memory.
LeaseForgotten(m, snapshot) == [snapshot EXCEPT !.lease = m.lease]  \* mutant
Restored(m, snapshot) == snapshot

\* ensureSwitchingEnabled
AlwaysEnabled(m) == TRUE  \* mutant
SwitchingEnabled(m) == m.lock = Nothing

\* ensureExpectedRevision: only a confirmed switch expects one.
ExpectedRevision(m, source) == confirm => m.revision = source.revision

\* hasExplicitCurrentSessionSelection and assertCapturedLeaseAllows.
EverAllowed(source, profile) ==  \* mutant: the expiry is not looked at
  /\ source.active = profile /\ source.selection # Nothing
  /\ profile \in Leased => source.lease # Nothing
Allowed(source, profile) ==
  /\ source.active = profile /\ source.selection # Nothing
  /\ profile \in Leased => source.lease # Nothing /\ source.lease \notin expired

-----------------------------------------------------------------------------
(* Requests.                                                               *)

Kinds == {"switch", "lock", "unlock", "call"}
Ended == {"done", "over"}
Transition(r) == requests[r].phase \in {"queued", "saving", "auditing", "undoing"}

At(r, phase) == requests[r].phase = phase
AtHead(r, phase) ==
  /\ At(r, phase)
  /\ LET turns == queue[requests[r].client] IN turns # <<>> /\ r = Head(turns)
Moves(r, phase) == requests' = [requests EXCEPT ![r].phase = phase]
\* A request that was carried out is done, any other is over; nothing else is
\* kept of it.
EndedRequest(c, phase) == Request(c, "call", DefaultProfile, phase)
Ends(r, phase) == requests' = [requests EXCEPT ![r] = EndedRequest(@.client, phase)]
LeavesQueue(r) == queue' = [queue EXCEPT ![requests[r].client] = Tail(@)]

\* captureStableProfileState: nothing is captured while a transition can still
\* be rolled back.  A request that looks at it no more keeps nothing of it.
Anytime(c) == TRUE  \* mutant
Stable(c) == queue[c] = <<>>

\* A request of the client; a call has the profile that it is routed to, and a
\* lock and an unlock need none.
Arrive(r, c, kind, profile) ==
  /\ c \in running
  /\ At(r, "free") /\ \A k \in Requests : k < r => ~At(k, "free")
  /\ kind \in {"lock", "unlock"} => profile = DefaultProfile
  /\ requests' = [requests EXCEPT ![r] = Request(c, kind, profile, "capturing")]
  /\ UNCHANGED <<confirm, file, running, memory, queue, expired, history>>

Capturing(q, phase, m) == [q EXCEPT !.phase = phase, !.source = m]
Capture(r) ==
  /\ At(r, "capturing")
  /\ LET c == requests[r].client
         next == CASE requests[r].kind = "call" -> "checking"
                   [] requests[r].kind = "switch" /\ confirm -> "confirming"
                   [] OTHER -> "queued"
     IN  /\ Stable(c)
         /\ requests' = [requests EXCEPT ![r] =
              Capturing(@, next, IF next = "queued" THEN NoSource ELSE memory[c])]
         /\ queue' = IF next = "queued" THEN [queue EXCEPT ![c] = Append(@, r)] ELSE queue
  /\ UNCHANGED <<confirm, file, running, memory, expired, history>>

\* requireProfileTransitionConfirmation: the approval is consumed, and the proof
\* it mints goes with the request; or there is none, and the request ends.
Confirmed(r) ==
  /\ At(r, "confirming")
  /\ Moves(r, "queued")
  /\ queue' = [queue EXCEPT ![requests[r].client] = Append(@, r)]
  /\ UNCHANGED <<confirm, file, running, memory, expired, history>>
NotConfirmed(r) ==
  /\ At(r, "confirming")
  /\ Ends(r, "over")
  /\ UNCHANGED <<confirm, file, running, memory, queue, expired, history>>

-----------------------------------------------------------------------------
(* The head of the queue.                                                  *)

\* mutateAudited takes its snapshot and begins to mutate.
Beginning(q, phase, m) == [q EXCEPT !.phase = phase, !.before = m]
Begin(r) ==
  /\ AtHead(r, "queued")
  /\ LET c == requests[r].client
         m == memory[c]
     IN  CASE requests[r].kind = "lock" ->
                /\ memory' = [memory EXCEPT ![c] = LockedTo(m)]
                /\ requests' = [requests EXCEPT ![r] = Beginning(@, "auditing", m)]
                /\ UNCHANGED queue
           [] requests[r].kind = "unlock" ->
                /\ memory' = [memory EXCEPT ![c] = Unlocked(m)]
                /\ requests' = [requests EXCEPT ![r] = Beginning(@, "auditing", m)]
                /\ UNCHANGED queue
           [] requests[r].kind = "switch" /\ SwitchingEnabled(m)
                /\ ExpectedRevision(m, requests[r].source) ->
                /\ requests' = [requests EXCEPT ![r] = Beginning(@, "saving", m)]
                /\ UNCHANGED <<memory, queue>>
           [] OTHER -> Ends(r, "over") /\ LeavesQueue(r) /\ UNCHANGED memory
  /\ UNCHANGED <<confirm, file, running, expired, history>>

\* The file is replaced in one rename, and the switch is committed in memory.
Saved(r) ==
  /\ AtHead(r, "saving")
  /\ LET c == requests[r].client
     IN  /\ file' = requests[r].target
         /\ memory' = [memory EXCEPT ![c] = Committed(@, requests[r].target, r)]
  /\ Moves(r, "auditing")
  /\ UNCHANGED <<confirm, running, queue, expired, history>>
SaveFails(r) ==
  /\ AtHead(r, "saving")
  /\ Ends(r, "over") /\ LeavesQueue(r)
  /\ UNCHANGED <<confirm, file, running, memory, expired, history>>

Audited(r) ==
  /\ AtHead(r, "auditing")
  /\ LET c == requests[r].client
     IN  /\ settled' = [settled EXCEPT ![c] = memory[c]]
         /\ IF requests[r].kind = "switch"
            THEN /\ recorded' = recorded \cup {<<r, c, requests[r].target>>}
                 /\ lastSwitch' = requests[r].target
                 /\ disturbed' = FALSE
            ELSE UNCHANGED <<recorded, lastSwitch, disturbed>>
  /\ Ends(r, "done") /\ LeavesQueue(r)
  /\ UNCHANGED <<confirm, file, running, memory, expired>>
AuditFails(r) ==
  /\ AtHead(r, "auditing")
  /\ Moves(r, "undoing")
  /\ UNCHANGED <<confirm, file, running, memory, queue, expired, history>>

\* restoreMutationSnapshot: the file first, which may fail, then the memory.
UndoStuck(r) == LeavesQueue(r) /\ UNCHANGED requests  \* mutant: a failed rollback is not answered
Answered(r) == LeavesQueue(r) /\ Ends(r, "over")
NotWritten(durable) == file  \* mutant: the file is not restored
Rewritten(durable) == durable
Undone(r) ==
  /\ AtHead(r, "undoing")
  /\ LET c == requests[r].client
         snapshot == requests[r].before
     IN  /\ file' = Rewritten(snapshot.durable)
         /\ memory' = [memory EXCEPT ![c] = Restored(@, snapshot)]
  /\ Ends(r, "over") /\ LeavesQueue(r)
  /\ UNCHANGED <<confirm, running, expired, history>>
UndoFails(r) ==
  /\ AtHead(r, "undoing")
  /\ LET c == requests[r].client
     IN  memory' = [memory EXCEPT ![c] = Restored(@, requests[r].before)]
  /\ Answered(r)
  /\ disturbed' = TRUE
  /\ UNCHANGED <<confirm, file, running, expired, settled, recorded, lastSwitch>>

-----------------------------------------------------------------------------
(* Protected calls, with the selection they captured: OperationPipeline.   *)

\* execute, up to its first await.
Check(r) ==
  /\ At(r, "checking")
  /\ IF Allowed(requests[r].source, requests[r].target) THEN Moves(r, "waiting")
     ELSE Ends(r, "over")
  /\ UNCHANGED <<confirm, file, running, memory, queue, expired, history>>

\* The approval, the upstream session and the identity have been awaited: the
\* captured lease is looked at again, and the operation goes out.
Execute(r) ==
  /\ At(r, "waiting")
  /\ IF Allowed(requests[r].source, requests[r].target)
     THEN Ends(r, "done") ELSE Ends(r, "over")
  /\ UNCHANGED <<confirm, file, running, memory, queue, expired, history>>
CallFails(r) ==
  /\ At(r, "waiting")
  /\ Ends(r, "over")
  /\ UNCHANGED <<confirm, file, running, memory, queue, expired, history>>

-----------------------------------------------------------------------------
(* The environment.                                                        *)

Expire(r) ==
  /\ r \notin expired
  /\ \/ \E c \in running : memory[c].lease = r
     \/ \E k \in Requests : requests[k].source.lease = r
  /\ expired' = expired \cup {r}
  /\ UNCHANGED <<confirm, file, running, memory, queue, requests, history>>

\* A process starts: load finds a profile, no file, or a file that it cannot
\* read or whose profile the configuration no longer has.
StartWith(c, profile, durable, unread) ==
  /\ c \notin running
  /\ running' = running \cup {c}
  /\ memory' = [memory EXCEPT ![c] = Fresh(profile, durable)]
  /\ settled' = [settled EXCEPT ![c] = Fresh(profile, durable)]
  /\ disturbed' = (disturbed \/ unread)
  /\ UNCHANGED <<confirm, file, queue, requests, expired, recorded, lastSwitch>>
Start(c) ==
  \/ file # Nothing /\ StartWith(c, file, file, FALSE)
  \/ file = Nothing /\ StartWith(c, DefaultProfile, Nothing, FALSE)
StartUnread(c) == file # Nothing /\ StartWith(c, DefaultProfile, Nothing, TRUE)

\* A process dies, and its requests with it.
Crash(c) ==
  /\ c \in running
  /\ running' = running \ {c}
  /\ memory' = [memory EXCEPT ![c] = NoSource]
  /\ settled' = [settled EXCEPT ![c] = NoSource]
  /\ queue' = [queue EXCEPT ![c] = <<>>]
  /\ requests' = [r \in Requests |->
       IF requests[r].client = c /\ requests[r].phase \notin Ended
       THEN EndedRequest(c, "over")
       ELSE requests[r]]
  /\ disturbed' = (disturbed \/ \E r \in Requests :
       requests[r].client = c /\ requests[r].kind = "switch"
         /\ requests[r].phase \in {"auditing", "undoing"})
  /\ UNCHANGED <<confirm, file, expired, recorded, lastSwitch>>

Progress(r) ==
  \/ Capture(r) \/ Confirmed(r) \/ NotConfirmed(r)
  \/ Begin(r) \/ Saved(r) \/ SaveFails(r) \/ Audited(r) \/ AuditFails(r) \/ Undone(r) \/ UndoFails(r)
  \/ Check(r) \/ Execute(r) \/ CallFails(r)

Next ==
  \/ \E r \in Requests : Progress(r) \/ Expire(r)
  \/ \E c \in Clients : Start(c) \/ StartUnread(c) \/ Crash(c)
  \/ \E r \in Requests, c \in Clients, kind \in Kinds, profile \in Profiles :
       Arrive(r, c, kind, profile)

Spec == Init /\ [][Next]_vars

\* Every await of a running process returns, one way or the other.
FairSpec == Spec /\ \A r \in Requests : WF_vars(Progress(r))

-----------------------------------------------------------------------------
(* What must hold.                                                         *)

Memories ==
  [active : Profiles, revision : Nat \ {0}, selection : Requests \cup {Nothing},
   lease : Requests \cup {Nothing}, lock : Profiles \cup {Nothing},
   durable : Profiles \cup {Nothing}]

Phases == Ended \cup {"free", "capturing", "confirming", "queued", "saving", "auditing", "undoing",
                      "checking", "waiting"}

RequestRecords ==
  [client : Clients \cup {Nothing}, kind : Kinds, target : Profiles, phase : Phases,
   source : Memories, before : Memories]

\* Type correctness of the managers, the queues and the requests.
TypeOK ==
  /\ confirm \in BOOLEAN /\ disturbed \in BOOLEAN
  /\ file \in Profiles \cup {Nothing} /\ lastSwitch \in Profiles \cup {Nothing}
  /\ running \subseteq Clients
  /\ memory \in [Clients -> Memories] /\ settled \in [Clients -> Memories]
  /\ queue \in [Clients -> Seq(Requests)]
  /\ requests \in [Requests -> RequestRecords]
  /\ expired \subseteq Requests /\ recorded \subseteq Requests \X Clients \X Profiles

\* Between transitions a client works with exactly the selection, lease, lock
\* and revision that the audit log accounts for, however many writes failed.
SettledIsRecorded == \A c \in Clients : queue[c] = <<>> => memory[c] = settled[c]

\* A locked profile stays the active one until it is unlocked.
LockHolds == \A c \in Clients : memory[c].lock # Nothing => memory[c].active = memory[c].lock

\* So a selection is kept as it was recorded and as it was locked.
SelectionsAreKept == SettledIsRecorded /\ LockHolds

\* A switch that was confirmed takes effect on the very selection, lock
\* included, that the person who confirmed it was looking at.
ConfirmedAsAsked ==
  [][\A r \in Requests :
       AtHead(r, "saving") /\ requests'[r].phase = "auditing" /\ confirm
         => requests[r].source = memory[requests[r].client]]_vars

\* A protected call goes out only with a selection of its own profile that the
\* log has, made in this session, whose lease has not expired by then.
CallsUnderSelection ==
  [][\A r \in Requests :
       At(r, "waiting") /\ requests'[r].phase = "done" =>
         LET source == requests[r].source
         IN  /\ <<source.selection, requests[r].client, requests[r].target>> \in recorded
             /\ requests[r].target \in Leased => source.selection \notin expired]_vars

\* So what is confirmed, and what is called, is as the client selected it.
ActsAsSelected == ConfirmedAsAsked /\ CallsUnderSelection

\* The file holds the last switch that succeeded, the one that a fresh process
\* restores, unless a switch is on its way, or a crash in the middle of one, a
\* failed rollback or an unreadable file came between.
FileHoldsLastSwitch ==
  \/ disturbed \/ file = lastSwitch
  \/ \E r \in Requests : Transition(r)

\* Every request is answered, unless its process dies.
EverythingAnswered ==
  \A r \in Requests : ~At(r, "free") ~> requests[r].phase \in Ended
=============================================================================
