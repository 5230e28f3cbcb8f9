-------------------------- MODULE ProfileControlProofs --------------------------
(***************************************************************************)
(* Proofs about ProfileControl: types, what memory is worth between        *)
(* transitions, locks, confirmed switches, protected calls, and the state  *)
(* file of a single process.                                               *)
(***************************************************************************)
EXTENDS ProfileControl, TLAPS

Busy(r) == requests[r].phase \in {"saving", "auditing", "undoing"}

\* Every request that has arrived has a client, which runs while it lasts.
Owned ==
  \A r \in Requests : ~At(r, "free") =>
    requests[r].client \in Clients
      /\ (requests[r].phase \notin Ended => requests[r].client \in running)

\* A transition that has begun is the head of its queue.
Turns ==
  \A r \in Requests : Busy(r) =>
    queue[requests[r].client] # <<>> /\ r = Head(queue[requests[r].client])

\* While no transition is going on, memory is what was settled.
QuietIsSettled ==
  \A c \in Clients :
    (\A r \in Requests : Busy(r) => requests[r].client # c) => memory[c] = settled[c]

\* What a transition makes of the settled state s.
Change(kind, target, r, s) ==
  CASE kind = "switch" -> Committed(s, target, r)
    [] kind = "lock" -> LockedTo(s)
    [] OTHER -> Unlocked(s)

\* A transition that has begun can go back to what was settled; until its save
\* it has changed nothing, and then it has changed just what it is for.
Began(q, r, m, s) ==
  /\ q.before = s
  /\ q.kind # "call"
  /\ q.kind = "switch" => s.lock = Nothing
  /\ q.phase = "saving" => q.kind = "switch" /\ m = s /\ (confirm => q.source = s)
  /\ q.phase # "saving" => m = Change(q.kind, q.target, r, s)
BusyKnows ==
  \A r \in Requests : Busy(r) =>
    Began(requests[r], r, memory[requests[r].client], settled[requests[r].client])

\* A captured selection is the settled one for as long as its revision is.
Captured(q) ==
  \/ q.phase = "confirming"
  \/ q.phase = "queued" /\ q.kind = "switch" /\ confirm
UpToDate(m, s) == m.revision <= s.revision /\ (m.revision = s.revision => m = s)
Sources ==
  \A r \in Requests : Captured(requests[r]) =>
    UpToDate(requests[r].source, settled[requests[r].client])

LockSound(m) == m.lock # Nothing => m.active = m.lock
SettledLocks == \A c \in Clients : LockSound(settled[c])

\* A selection made by a switch is in the log, and so is the lease it came with.
Sound(m, c, log) ==
  m.selection # Nothing =>
    /\ <<m.selection, c, m.active>> \in log
    /\ m.active \in Leased => m.lease = m.selection
SettledSelections == \A c \in Clients : Sound(settled[c], c, recorded)
CallSelections ==
  \A r \in Requests : requests[r].phase \in {"checking", "waiting"} =>
    Sound(requests[r].source, requests[r].client, recorded)

IInv ==
  /\ TypeOK /\ Owned /\ Turns /\ QuietIsSettled /\ BusyKnows /\ Sources
  /\ SettledLocks /\ SettledSelections /\ CallSelections

-----------------------------------------------------------------------------
(* The operators on managers and on requests.                              *)

LEMMA FreshType ==
  ASSUME NEW p \in Profiles, NEW d \in Profiles \cup {Nothing}
  PROVE  Fresh(p, d) \in Memories
BY DEF Fresh, Memories

LEMMA NoSourceType == NoSource \in Memories
BY FreshType, ControlAssumption DEF NoSource

\* What persistAndCommit, lock and unlock make of a manager, field by field.
LEMMA CommittedFields ==
  ASSUME NEW m \in Memories, NEW p \in Profiles, NEW r \in Requests
  PROVE  /\ Committed(m, p, r) \in Memories
         /\ Committed(m, p, r).revision > m.revision
         /\ Committed(m, p, r).active = p /\ Committed(m, p, r).selection = r
         /\ Committed(m, p, r).lock = m.lock
         /\ p \in Leased => Committed(m, p, r).lease = r
<1> DEFINE lease == Issued(p, r)
           m1 == [m EXCEPT !.active = p]
           m2 == [m1 EXCEPT !.revision = m.revision + 1]
           m3 == [m2 EXCEPT !.selection = r]
           m4 == [m3 EXCEPT !.lease = lease]
           m5 == [m4 EXCEPT !.durable = p]
<1>1. lease \in Requests \cup {Nothing} /\ (p \in Leased => lease = r)
  BY DEF Issued
<1>2. Committed(m, p, r) = m5
  BY DEF Committed
<1> HIDE DEF lease
<1>3. m1 \in Memories /\ m1.revision = m.revision /\ m1.active = p /\ m1.lock = m.lock
  BY DEF Memories
<1> HIDE DEF m1
<1>4. m2 \in Memories /\ m2.revision = m.revision + 1 /\ m2.active = p /\ m2.lock = m.lock
  BY <1>3 DEF Memories
<1> HIDE DEF m2
<1>5. m3 \in Memories /\ m3.revision = m.revision + 1 /\ m3.active = p /\ m3.lock = m.lock
      /\ m3.selection = r
  BY <1>4 DEF Memories
<1> HIDE DEF m3
<1>6. m4 \in Memories /\ m4.revision = m.revision + 1 /\ m4.active = p /\ m4.lock = m.lock
      /\ m4.selection = r /\ m4.lease = lease
  BY <1>1, <1>5 DEF Memories
<1> HIDE DEF m4
<1>7. m5 \in Memories /\ m5.revision = m.revision + 1 /\ m5.active = p /\ m5.lock = m.lock
      /\ m5.selection = r /\ m5.lease = lease
  BY <1>6 DEF Memories
<1> HIDE DEF m5
<1>8. m.revision \in Nat
  BY DEF Memories
<1> QED BY <1>1, <1>2, <1>7, <1>8

LEMMA LockedFields ==
  ASSUME NEW m \in Memories
  PROVE  /\ LockedTo(m) \in Memories
         /\ LockedTo(m).revision > m.revision
         /\ LockedTo(m).lock = m.active
         /\ LockedTo(m).active = m.active /\ LockedTo(m).selection = m.selection
         /\ LockedTo(m).lease = m.lease
<1> DEFINE m1 == [m EXCEPT !.lock = m.active]
           m2 == [m1 EXCEPT !.revision = m.revision + 1]
<1>1. LockedTo(m) = m2
  BY DEF LockedTo
<1>2. m1 \in Memories /\ m1.lock = m.active /\ m1.active = m.active
      /\ m1.selection = m.selection /\ m1.lease = m.lease
  BY DEF Memories
<1> HIDE DEF m1
<1>3. m2 \in Memories /\ m2.revision = m.revision + 1 /\ m2.lock = m.active
      /\ m2.active = m.active /\ m2.selection = m.selection /\ m2.lease = m.lease
  BY <1>2 DEF Memories
<1> HIDE DEF m2
<1>4. m.revision \in Nat
  BY DEF Memories
<1> QED BY <1>1, <1>3, <1>4

LEMMA UnlockedFields ==
  ASSUME NEW m \in Memories
  PROVE  /\ Unlocked(m) \in Memories
         /\ Unlocked(m) = m \/ Unlocked(m).revision > m.revision
         /\ Unlocked(m).lock = Nothing
         /\ Unlocked(m).active = m.active /\ Unlocked(m).selection = m.selection
         /\ Unlocked(m).lease = m.lease
<1> DEFINE m1 == [m EXCEPT !.lock = Nothing]
           m2 == [m1 EXCEPT !.revision = m.revision + 1]
<1>1. CASE m.lock = Nothing
  BY <1>1 DEF Unlocked
<1>2. CASE m.lock # Nothing
  <2>1. Unlocked(m) = m2
    BY <1>2 DEF Unlocked
  <2>2. m1 \in Memories /\ m1.lock = Nothing /\ m1.active = m.active
        /\ m1.selection = m.selection /\ m1.lease = m.lease
    BY DEF Memories
  <2> HIDE DEF m1
  <2>3. m2 \in Memories /\ m2.revision = m.revision + 1 /\ m2.lock = Nothing
        /\ m2.active = m.active /\ m2.selection = m.selection /\ m2.lease = m.lease
    BY <2>2 DEF Memories
  <2> HIDE DEF m2
  <2>4. m.revision \in Nat
    BY DEF Memories
  <2> QED BY <2>1, <2>3, <2>4
<1> QED BY <1>1, <1>2

\* Whatever a transition is for, it moves the revision up if it changes
\* anything, locks only the profile that is active, and selects nothing that
\* is not its own.
LEMMA ChangeFacts ==
  ASSUME NEW s \in Memories, NEW kind \in Kinds, NEW p \in Profiles, NEW r \in Requests
  PROVE  LET x == Change(kind, p, r, s)
         IN  /\ x \in Memories
             /\ x = s \/ x.revision > s.revision
             /\ LockSound(s) /\ (kind = "switch" => s.lock = Nothing) => LockSound(x)
             /\ kind = "switch" => x.selection = r /\ x.active = p /\ (p \in Leased => x.lease = r)
             /\ kind # "switch" =>
                  x.selection = s.selection /\ x.active = s.active /\ x.lease = s.lease
<1>1. CASE kind = "switch"
  <2>1. Change(kind, p, r, s) = Committed(s, p, r)
    BY <1>1 DEF Change
  <2> QED BY <1>1, <2>1, CommittedFields DEF LockSound
<1>2. CASE kind = "lock"
  <2>1. Change(kind, p, r, s) = LockedTo(s)
    BY <1>2 DEF Change
  <2> QED BY <1>2, <2>1, LockedFields DEF LockSound
<1>3. CASE kind # "switch" /\ kind # "lock"
  <2>1. Change(kind, p, r, s) = Unlocked(s)
    BY <1>3 DEF Change
  <2> QED BY <1>3, <2>1, UnlockedFields DEF LockSound
<1> QED BY <1>1, <1>2, <1>3

\* The ways in which a request changes.
LEMMA RequestType ==
  ASSUME NEW c \in Clients \cup {Nothing}, NEW kind \in Kinds, NEW p \in Profiles, NEW phase \in Phases
  PROVE  /\ Request(c, kind, p, phase) \in RequestRecords
         /\ Request(c, kind, p, phase).client = c /\ Request(c, kind, p, phase).phase = phase
BY NoSourceType DEF Request, RequestRecords

LEMMA EndedType ==
  ASSUME NEW c \in Clients \cup {Nothing}, NEW phase \in Ended
  PROVE  /\ EndedRequest(c, phase) \in RequestRecords
         /\ EndedRequest(c, phase).client = c /\ EndedRequest(c, phase).phase = phase
<1>1. "call" \in Kinds /\ phase \in Phases
  BY DEF Kinds, Phases
<1> QED BY <1>1, RequestType, ControlAssumption DEF EndedRequest

LEMMA MovedFields ==
  ASSUME NEW q \in RequestRecords, NEW phase \in Phases
  PROVE  LET x == [q EXCEPT !.phase = phase]
         IN  /\ x \in RequestRecords /\ x.phase = phase
             /\ x.client = q.client /\ x.kind = q.kind /\ x.target = q.target
             /\ x.source = q.source /\ x.before = q.before
BY DEF RequestRecords

LEMMA CapturingFields ==
  ASSUME NEW q \in RequestRecords, NEW phase \in Phases, NEW m \in Memories
  PROVE  LET x == Capturing(q, phase, m)
         IN  /\ x \in RequestRecords /\ x.phase = phase /\ x.source = m
             /\ x.client = q.client /\ x.kind = q.kind
<1> DEFINE x1 == [q EXCEPT !.phase = phase]
           x2 == [x1 EXCEPT !.source = m]
<1>1. Capturing(q, phase, m) = x2
  BY DEF Capturing
<1>2. x1 \in RequestRecords /\ x1.phase = phase /\ x1.client = q.client /\ x1.kind = q.kind
  BY MovedFields
<1> HIDE DEF x1
<1>3. x2 \in RequestRecords /\ x2.phase = phase /\ x2.source = m /\ x2.client = q.client
      /\ x2.kind = q.kind
  BY <1>2 DEF RequestRecords
<1> HIDE DEF x2
<1> QED BY <1>1, <1>3

LEMMA BeginningFields ==
  ASSUME NEW q \in RequestRecords, NEW phase \in Phases, NEW m \in Memories
  PROVE  LET x == Beginning(q, phase, m)
         IN  /\ x \in RequestRecords /\ x.phase = phase /\ x.before = m
             /\ x.client = q.client /\ x.kind = q.kind /\ x.target = q.target
             /\ x.source = q.source
<1> DEFINE x1 == [q EXCEPT !.phase = phase]
           x2 == [x1 EXCEPT !.before = m]
<1>1. Beginning(q, phase, m) = x2
  BY DEF Beginning
<1>2. x1 \in RequestRecords /\ x1.phase = phase /\ x1.client = q.client /\ x1.kind = q.kind
      /\ x1.target = q.target /\ x1.source = q.source
  BY MovedFields
<1> HIDE DEF x1
<1>3. x2 \in RequestRecords /\ x2.phase = phase /\ x2.before = m /\ x2.client = q.client
      /\ x2.kind = q.kind /\ x2.target = q.target /\ x2.source = q.source
  BY <1>2 DEF RequestRecords
<1> HIDE DEF x2
<1> QED BY <1>1, <1>3

-----------------------------------------------------------------------------
(* The initial states.                                                     *)

LEMMA InitIInv == Init => IInv
<1> SUFFICES ASSUME Init PROVE IInv
  OBVIOUS
<1>1. requests \in [Requests -> RequestRecords] /\ \A r \in Requests : At(r, "free")
  <2> DEFINE x == Request(Nothing, "call", DefaultProfile, "free")
  <2>1. "call" \in Kinds /\ "free" \in Phases
    BY DEF Kinds, Phases
  <2>2. x \in RequestRecords /\ x.phase = "free"
    BY <2>1, RequestType, ControlAssumption
  <2>3. requests = [r \in Requests |-> x]
    BY DEF Init
  <2> HIDE DEF x
  <2> QED BY <2>2, <2>3 DEF At
<1>2. memory \in [Clients -> Memories] /\ settled = memory
  BY FreshType, ControlAssumption DEF Init
<1>3. \A c \in Clients : memory[c].lock = Nothing /\ memory[c].selection = Nothing
  BY DEF Init, Fresh
<1>4. TypeOK
  <2>1. queue \in [Clients -> Seq(Requests)]
    BY DEF Init
  <2>2. confirm \in BOOLEAN /\ file \in Profiles \cup {Nothing} /\ lastSwitch = file
        /\ disturbed \in BOOLEAN /\ running = {} /\ expired = {} /\ recorded = {}
    BY ControlAssumption DEF Init
  <2> QED BY <1>1, <1>2, <2>1, <2>2 DEF TypeOK
<1>5. Owned /\ Turns /\ BusyKnows /\ Sources /\ CallSelections /\ QuietIsSettled
  BY <1>1, <1>2 DEF Owned, Turns, BusyKnows, Sources, CallSelections, QuietIsSettled, Busy, At, Captured
<1>6. SettledLocks /\ SettledSelections
  BY <1>2, <1>3 DEF SettledLocks, SettledSelections, LockSound, Sound
<1> QED BY <1>4, <1>5, <1>6 DEF IInv

-----------------------------------------------------------------------------
(* Three kinds of steps.  The first changes a request that is no transition *)
(* under way, and perhaps its place in the queue.                          *)

BusyPhases == {"saving", "auditing", "undoing"}

\* The queue of a client only grows at its end, or loses this head.
QueueMoves(r, c) ==
  \/ queue' = queue
  \/ queue' = [queue EXCEPT ![c] = Append(@, r)]
  \/ queue[c] # <<>> /\ r = Head(queue[c]) /\ queue' = [queue EXCEPT ![c] = Tail(@)]

LEMMA QueueMovesType ==
  ASSUME TypeOK, NEW r \in Requests, NEW c \in Clients, QueueMoves(r, c)
  PROVE  /\ queue' \in [Clients -> Seq(Requests)]
         /\ \A d \in Clients : queue[d] # <<>> /\ (d = c => r # Head(queue[d])) =>
              queue'[d] # <<>> /\ Head(queue'[d]) = Head(queue[d])
<1>1. queue \in [Clients -> Seq(Requests)]
  BY DEF TypeOK
<1>2. CASE queue' = queue
  BY <1>1, <1>2
<1>3. CASE queue' = [queue EXCEPT ![c] = Append(@, r)]
  <2> DEFINE longer == Append(queue[c], r)
  <2>1. queue[c] \in Seq(Requests)
    BY <1>1
  <2>2. longer \in Seq(Requests) /\ longer # <<>>
    BY <2>1
  <2>3. queue[c] # <<>> => Head(longer) = Head(queue[c])
    BY <2>1
  <2>4. queue' = [queue EXCEPT ![c] = longer]
    BY <1>3
  <2> HIDE DEF longer
  <2>5. queue'[c] = longer /\ \A d \in Clients : d # c => queue'[d] = queue[d]
    BY <1>1, <2>4
  <2>6. queue' \in [Clients -> Seq(Requests)]
    BY <1>1, <2>2, <2>4
  <2> QED BY <2>2, <2>3, <2>5, <2>6
<1>4. CASE queue[c] # <<>> /\ r = Head(queue[c]) /\ queue' = [queue EXCEPT ![c] = Tail(@)]
  <2> DEFINE shorter == Tail(queue[c])
  <2>1. queue[c] \in Seq(Requests)
    BY <1>1
  <2>2. shorter \in Seq(Requests)
    BY <1>4, <2>1
  <2>3. queue' = [queue EXCEPT ![c] = shorter]
    BY <1>4
  <2> HIDE DEF shorter
  <2>4. \A d \in Clients : d # c => queue'[d] = queue[d]
    BY <1>1, <2>3
  <2>5. queue' \in [Clients -> Seq(Requests)]
    BY <1>1, <2>2, <2>3
  <2> QED BY <1>4, <2>4, <2>5
<1> QED BY <1>2, <1>3, <1>4 DEF QueueMoves

LEMMA RequestStep ==
  ASSUME IInv, NEW r \in Requests, NEW x \in RequestRecords,
         requests' = [requests EXCEPT ![r] = x],
         UNCHANGED <<confirm, running, memory, settled, recorded>>,
         file' \in Profiles \cup {Nothing}, lastSwitch' \in Profiles \cup {Nothing},
         disturbed' \in BOOLEAN, expired' \subseteq Requests,
         ~Busy(r), x.phase \notin BusyPhases \cup {"free"}, x.client \in Clients,
         QueueMoves(r, x.client),
         x.phase \in Ended \/ x.client \in running,
         Captured(x) => UpToDate(x.source, settled[x.client]),
         x.phase \in {"checking", "waiting"} => Sound(x.source, x.client, recorded)
  PROVE  IInv'
<1> USE DEF IInv
<1>1. /\ requests'[r] = x
      /\ \A k \in Requests : k # r => requests'[k] = requests[k]
      /\ requests' \in [Requests -> RequestRecords]
  BY DEF TypeOK
<1>2. TypeOK'
  BY <1>1, QueueMovesType DEF TypeOK
<1>3. Owned'
  BY <1>1 DEF Owned, At
<1>4. \A k \in Requests : Busy(k)' => k # r /\ Busy(k) /\ requests'[k] = requests[k]
  BY <1>1 DEF Busy, BusyPhases
<1>5. \A k \in Requests : Busy(k) => requests[k].client \in Clients
  BY DEF Owned, Busy, At
<1>6. Turns'
  BY <1>4, <1>5, QueueMovesType DEF Turns
<1>7. QuietIsSettled'
  BY <1>1, <1>4 DEF QuietIsSettled, Busy
<1>8. BusyKnows'
  BY <1>4 DEF BusyKnows, Began
<1>9. Sources'
  BY <1>1 DEF Sources, Captured
<1>10. SettledLocks' /\ SettledSelections'
  BY DEF SettledLocks, SettledSelections
<1>11. CallSelections'
  BY <1>1 DEF CallSelections
<1> QED BY <1>2, <1>3, <1>6, <1>7, <1>8, <1>9, <1>10, <1>11

\* Only the head of its queue can be a transition under way.
LEMMA OnlyHead ==
  ASSUME IInv, NEW r \in Requests, queue[requests[r].client] # <<>>,
         r = Head(queue[requests[r].client])
  PROVE  \A k \in Requests : k # r /\ Busy(k) => requests[k].client # requests[r].client
BY DEF IInv, Turns

\* The second kind: the head of the queue begins, or goes on with, its transition.
LEMMA TransitionStep ==
  ASSUME IInv, NEW r \in Requests, NEW x \in RequestRecords, NEW mm \in Memories,
         requests' = [requests EXCEPT ![r] = x],
         memory' = [memory EXCEPT ![x.client] = mm],
         UNCHANGED <<confirm, running, queue, settled, recorded>>,
         file' \in Profiles \cup {Nothing}, lastSwitch' \in Profiles \cup {Nothing},
         disturbed' \in BOOLEAN, expired' \subseteq Requests,
         requests[r].phase # "free", requests[r].phase \notin Ended,
         queue[requests[r].client] # <<>>, r = Head(queue[requests[r].client]),
         x.client = requests[r].client, x.phase \in BusyPhases,
         Began(x, r, mm, settled[x.client])
  PROVE  IInv'
<1> USE DEF IInv
<1>1. /\ requests'[r] = x
      /\ \A k \in Requests : k # r => requests'[k] = requests[k]
      /\ requests' \in [Requests -> RequestRecords]
  BY DEF TypeOK
<1>2. x.client \in Clients /\ x.client \in running
  BY DEF Owned, At
<1>3. /\ memory'[x.client] = mm
      /\ \A c \in Clients : c # x.client => memory'[c] = memory[c]
      /\ memory' \in [Clients -> Memories]
  BY <1>2 DEF TypeOK
<1>4. TypeOK'
  BY <1>1, <1>3 DEF TypeOK
<1>5. Owned'
  BY <1>1, <1>2 DEF Owned, At
<1>6. \A k \in Requests : k # r /\ Busy(k)' =>
        Busy(k) /\ requests'[k] = requests[k] /\ requests[k].client \in Clients
          /\ requests[k].client # x.client
  BY <1>1, OnlyHead DEF Busy, Owned, At
<1>7. Turns'
  BY <1>1, <1>6 DEF Turns
<1>8. Busy(r)'
  BY <1>1 DEF Busy, BusyPhases
<1>9. QuietIsSettled'
  <2>1. SUFFICES ASSUME NEW c \in Clients, \A k \in Requests : Busy(k)' => requests'[k].client # c
                 PROVE  memory'[c] = settled'[c]
    BY DEF QuietIsSettled
  <2>2. c # x.client
    BY <1>1, <1>8, <2>1
  <2>3. \A k \in Requests : Busy(k) => requests[k].client # c
    BY <1>1, <2>1, <2>2 DEF Busy
  <2> QED BY <1>3, <2>2, <2>3 DEF QuietIsSettled
<1>10. BusyKnows'
  <2>1. SUFFICES ASSUME NEW k \in Requests, Busy(k)'
                 PROVE  Began(requests[k], k, memory[requests[k].client], settled[requests[k].client])'
    BY DEF BusyKnows
  <2>2. CASE k = r
    BY <1>1, <1>3, <2>2 DEF Began
  <2>3. CASE k # r
    BY <1>3, <1>6, <2>1, <2>3 DEF BusyKnows, Began
  <2> QED BY <2>2, <2>3
<1>11. ~Captured(x) /\ x.phase \notin {"checking", "waiting"}
  BY DEF Captured, BusyPhases
<1>12. Sources'
  BY <1>1, <1>11 DEF Sources, Captured
<1>13. SettledLocks' /\ SettledSelections'
  BY DEF SettledLocks, SettledSelections
<1>14. CallSelections'
  BY <1>1, <1>11 DEF CallSelections
<1> QED BY <1>4, <1>5, <1>7, <1>9, <1>10, <1>12, <1>13, <1>14

\* The third kind: a transition ends, and memory is settled again.
LEMMA EndStep ==
  ASSUME IInv, NEW r \in Requests, NEW phase \in Ended, NEW ss \in Memories,
         Busy(r), queue[requests[r].client] # <<>>, r = Head(queue[requests[r].client]),
         Ends(r, phase), LeavesQueue(r),
         memory' = [memory EXCEPT ![requests[r].client] = ss],
         settled' = [settled EXCEPT ![requests[r].client] = ss],
         UNCHANGED <<confirm, running>>,
         recorded \subseteq recorded', recorded' \subseteq Requests \X Clients \X Profiles,
         file' \in Profiles \cup {Nothing}, lastSwitch' \in Profiles \cup {Nothing},
         disturbed' \in BOOLEAN, expired' \subseteq Requests,
         ss = settled[requests[r].client] \/ ss.revision > settled[requests[r].client].revision,
         LockSound(ss), Sound(ss, requests[r].client, recorded')
  PROVE  IInv'
<1> USE DEF IInv
<1> DEFINE c == requests[r].client
           x == EndedRequest(c, phase)
<1>1. c \in Clients
  BY DEF Owned, At, Busy
<1>2. x \in RequestRecords /\ x.client = c /\ x.phase = phase
  BY <1>1, EndedType
<1>3. /\ requests'[r] = x
      /\ \A k \in Requests : k # r => requests'[k] = requests[k]
      /\ requests' \in [Requests -> RequestRecords]
  BY <1>2 DEF Ends, TypeOK
<1> HIDE DEF x
<1>4. /\ memory'[c] = ss /\ settled'[c] = ss
      /\ \A d \in Clients : d # c => memory'[d] = memory[d] /\ settled'[d] = settled[d]
      /\ memory' \in [Clients -> Memories] /\ settled' \in [Clients -> Memories]
  BY <1>1 DEF TypeOK
<1>5. QueueMoves(r, c)
  BY DEF QueueMoves, LeavesQueue
<1>6. TypeOK'
  BY <1>1, <1>3, <1>4, <1>5, QueueMovesType DEF TypeOK
<1>7. Owned'
  BY <1>1, <1>2, <1>3 DEF Owned, At
<1>8. \A k \in Requests : Busy(k)' =>
        k # r /\ Busy(k) /\ requests'[k] = requests[k] /\ requests[k].client \in Clients
          /\ requests[k].client # c
  BY <1>2, <1>3, OnlyHead DEF Busy, Owned, At, Ended
<1>9. Turns'
  BY <1>1, <1>5, <1>8, QueueMovesType DEF Turns
<1>10. QuietIsSettled'
  <2>1. SUFFICES ASSUME NEW d \in Clients, \A k \in Requests : Busy(k)' => requests'[k].client # d
                 PROVE  memory'[d] = settled'[d]
    BY DEF QuietIsSettled
  <2>2. CASE d = c
    BY <1>4, <2>2
  <2>3. CASE d # c
    <3>1. \A k \in Requests : Busy(k) => requests[k].client # d
      BY <1>3, <2>1, <2>3 DEF Busy
    <3> QED BY <1>4, <2>3, <3>1 DEF QuietIsSettled
  <2> QED BY <2>2, <2>3
<1>11. BusyKnows'
  BY <1>4, <1>8 DEF BusyKnows, Began
<1>12. Sources'
  <2>1. SUFFICES ASSUME NEW k \in Requests, Captured(requests'[k])
                 PROVE  UpToDate(requests'[k].source, settled'[requests'[k].client])
    BY DEF Sources, Captured
  <2>2. k # r /\ requests'[k] = requests[k] /\ Captured(requests[k])
    BY <1>2, <1>3, <2>1 DEF Captured, Ended
  <2>3. requests[k].client \in Clients /\ requests[k].source \in Memories
    BY <2>2 DEF Owned, At, Captured, TypeOK, RequestRecords
  <2>4. UpToDate(requests[k].source, settled[requests[k].client])
    BY <2>2 DEF Sources
  <2>5. CASE requests[k].client # c
    BY <1>4, <2>2, <2>3, <2>4, <2>5
  <2>6. CASE requests[k].client = c
    <3>1. /\ settled[c].revision \in Nat /\ ss.revision \in Nat
          /\ requests[k].source.revision \in Nat
      BY <1>1, <2>3 DEF TypeOK, Memories
    <3> QED BY <1>4, <2>2, <2>4, <2>6, <3>1 DEF UpToDate
  <2> QED BY <2>5, <2>6
<1>13. SettledLocks'
  BY <1>4 DEF SettledLocks
<1>14. SettledSelections'
  BY <1>4 DEF SettledSelections, Sound
<1>15. CallSelections'
  BY <1>2, <1>3 DEF CallSelections, Sound, Ended
<1> QED BY <1>6, <1>7, <1>9, <1>10, <1>11, <1>12, <1>13, <1>14, <1>15

-----------------------------------------------------------------------------
(* One lemma for each action.                                              *)

\* What is known of a request that has arrived.
LEMMA Known ==
  ASSUME IInv, NEW r \in Requests, ~At(r, "free")
  PROVE  /\ requests[r] \in RequestRecords /\ requests[r].client \in Clients
         /\ requests[r].phase \notin Ended => requests[r].client \in running
         /\ requests[r].kind \in Kinds /\ requests[r].target \in Profiles
         /\ requests[r].source \in Memories /\ requests[r].before \in Memories
         /\ memory[requests[r].client] \in Memories /\ settled[requests[r].client] \in Memories
<1>1. requests[r] \in RequestRecords
  BY DEF IInv, TypeOK
<1>2. requests[r].client \in Clients
      /\ (requests[r].phase \notin Ended => requests[r].client \in running)
  BY DEF IInv, Owned
<1>3. memory \in [Clients -> Memories] /\ settled \in [Clients -> Memories]
  BY DEF IInv, TypeOK
<1> QED BY <1>1, <1>2, <1>3 DEF RequestRecords

\* Where no transition is under way, memory is settled.
LEMMA QuietQueue ==
  ASSUME IInv, NEW c \in Clients, Stable(c)
  PROVE  memory[c] = settled[c]
BY DEF IInv, Stable, Turns, QuietIsSettled

LEMMA QuietHead ==
  ASSUME IInv, NEW r \in Requests, AtHead(r, "queued")
  PROVE  memory[requests[r].client] = settled[requests[r].client]
<1>1. ~Busy(r) /\ requests[r].client \in Clients
  BY Known DEF AtHead, At, Busy
<1>2. \A k \in Requests : Busy(k) => requests[k].client # requests[r].client
  BY <1>1, OnlyHead DEF AtHead
<1> QED BY <1>1, <1>2 DEF IInv, QuietIsSettled

LEMMA ArriveStep ==
  ASSUME IInv, NEW r \in Requests, NEW c \in Clients, NEW kind \in Kinds, NEW p \in Profiles,
         Arrive(r, c, kind, p)
  PROVE  IInv'
<1> DEFINE x == Request(c, kind, p, "capturing")
<1>1. x \in RequestRecords /\ x.client = c /\ x.phase = "capturing"
  BY RequestType DEF Phases
<1>2. requests' = [requests EXCEPT ![r] = x] /\ At(r, "free") /\ c \in running
      /\ UNCHANGED <<confirm, file, running, memory, queue, expired, history>>
  BY DEF Arrive
<1> HIDE DEF x
<1>3. ~Busy(r) /\ QueueMoves(r, x.client)
  BY <1>2 DEF At, Busy, QueueMoves
<1>4. ~Captured(x) /\ x.phase \notin BusyPhases \cup {"free", "checking", "waiting"}
  BY <1>1 DEF Captured, BusyPhases
<1>5. file \in Profiles \cup {Nothing} /\ lastSwitch \in Profiles \cup {Nothing}
      /\ disturbed \in BOOLEAN /\ expired \subseteq Requests
  BY DEF IInv, TypeOK
<1> QED BY <1>1, <1>2, <1>3, <1>4, <1>5, RequestStep DEF history

\* A request ends that was no transition under way.
LEMMA EndsQuietly ==
  ASSUME IInv, NEW r \in Requests, NEW phase \in Ended,
         ~At(r, "free"), ~Busy(r), Ends(r, phase), QueueMoves(r, requests[r].client),
         UNCHANGED <<confirm, file, running, memory, expired, history>>
  PROVE  IInv'
<1> DEFINE c == requests[r].client
           x == EndedRequest(c, phase)
<1>1. c \in Clients
  BY Known
<1>2. x \in RequestRecords /\ x.client = c /\ x.phase = phase
  BY <1>1, EndedType
<1>3. requests' = [requests EXCEPT ![r] = x]
  BY DEF Ends
<1> HIDE DEF x
<1>4. ~Captured(x) /\ x.phase \notin BusyPhases \cup {"free", "checking", "waiting"}
  BY <1>2 DEF Captured, BusyPhases, Ended
<1>5. file \in Profiles \cup {Nothing} /\ lastSwitch \in Profiles \cup {Nothing}
      /\ disturbed \in BOOLEAN /\ expired \subseteq Requests
  BY DEF IInv, TypeOK
<1> QED BY <1>1, <1>2, <1>3, <1>4, <1>5, RequestStep DEF history

\* A captured request goes on with what it has captured.
LEMMA MovesQuietly ==
  ASSUME IInv, NEW r \in Requests, NEW phase \in {"queued", "waiting"},
         ~At(r, "free"), requests[r].phase \notin Ended, ~Busy(r),
         Moves(r, phase), QueueMoves(r, requests[r].client),
         phase = "queued" => At(r, "confirming"), phase = "waiting" => At(r, "checking"),
         UNCHANGED <<confirm, file, running, memory, expired, history>>
  PROVE  IInv'
<1> DEFINE c == requests[r].client
           x == [requests[r] EXCEPT !.phase = phase]
<1>1. c \in Clients /\ c \in running /\ requests[r] \in RequestRecords
  BY Known
<1>2. x \in RequestRecords /\ x.client = c /\ x.phase = phase /\ x.source = requests[r].source
  BY <1>1, MovedFields DEF Phases
<1>3. requests' = [requests EXCEPT ![r] = x]
  BY DEF Moves
<1> HIDE DEF x
<1>4. x.phase \notin BusyPhases \cup {"free"}
  BY <1>2 DEF BusyPhases
<1>5. Captured(x) => UpToDate(x.source, settled[x.client])
  <2>1. SUFFICES ASSUME Captured(x) PROVE UpToDate(x.source, settled[x.client])
    OBVIOUS
  <2>2. Captured(requests[r])
    BY <1>2, <2>1 DEF Captured, At
  <2> QED BY <1>2, <2>2 DEF IInv, Sources
<1>6. x.phase \in {"checking", "waiting"} => Sound(x.source, x.client, recorded)
  BY <1>2 DEF IInv, CallSelections, At
<1>7. file \in Profiles \cup {Nothing} /\ lastSwitch \in Profiles \cup {Nothing}
      /\ disturbed \in BOOLEAN /\ expired \subseteq Requests
  BY DEF IInv, TypeOK
<1> QED BY <1>1, <1>2, <1>3, <1>4, <1>5, <1>6, <1>7, RequestStep DEF history

LEMMA CaptureStep ==
  ASSUME IInv, NEW r \in Requests, Capture(r)
  PROVE  IInv'
<1> DEFINE c == requests[r].client
           next == CASE requests[r].kind = "call" -> "checking"
                     [] requests[r].kind = "switch" /\ confirm -> "confirming"
                     [] OTHER -> "queued"
           m == IF next = "queued" THEN NoSource ELSE memory[c]
           x == Capturing(requests[r], next, m)
<1>1. At(r, "capturing") /\ Stable(c) /\ requests' = [requests EXCEPT ![r] = x]
      /\ queue' = (IF next = "queued" THEN [queue EXCEPT ![c] = Append(@, r)] ELSE queue)
      /\ UNCHANGED <<confirm, file, running, memory, expired, history>>
  BY DEF Capture
<1>2. /\ next \in {"checking", "confirming", "queued"}
      /\ next = "queued" => ~(requests[r].kind = "switch" /\ confirm)
  OBVIOUS
<1> HIDE DEF next
<1>3. ~Busy(r) /\ ~At(r, "free") /\ requests[r].phase \notin Ended
  BY <1>1 DEF At, Busy, Ended
<1>4. c \in Clients /\ c \in running /\ requests[r] \in RequestRecords /\ memory[c] \in Memories
  BY <1>3, Known
<1>5. memory[c] = settled[c]
  BY <1>1, <1>4, QuietQueue
<1>6. m \in Memories /\ (next # "queued" => m = settled[c])
  BY <1>4, <1>5, NoSourceType
<1> HIDE DEF m
<1>7. x \in RequestRecords /\ x.client = c /\ x.phase = next /\ x.source = m
      /\ x.kind = requests[r].kind
  <2>1. next \in Phases
    BY <1>2 DEF Phases
  <2> QED BY <1>4, <1>6, <2>1, CapturingFields
<1> HIDE DEF x
<1>8. QueueMoves(r, x.client)
  BY <1>1, <1>7 DEF QueueMoves
<1>9. settled[c].revision \in Nat
  BY <1>4, <1>5 DEF Memories
<1>10. Captured(x) => UpToDate(x.source, settled[x.client])
  BY <1>2, <1>6, <1>7, <1>9 DEF Captured, UpToDate
<1>11. Sound(settled[c], c, recorded)
  BY <1>4 DEF IInv, SettledSelections
<1>12. x.phase \in {"checking", "waiting"} => Sound(x.source, x.client, recorded)
  BY <1>2, <1>6, <1>7, <1>11
<1>13. x.phase \notin BusyPhases \cup {"free"}
  BY <1>2, <1>7 DEF BusyPhases
<1>14. file \in Profiles \cup {Nothing} /\ lastSwitch \in Profiles \cup {Nothing}
       /\ disturbed \in BOOLEAN /\ expired \subseteq Requests
  BY DEF IInv, TypeOK
<1> QED BY <1>1, <1>3, <1>4, <1>7, <1>8, <1>10, <1>12, <1>13, <1>14, RequestStep DEF history

LEMMA ConfirmedStep ==
  ASSUME IInv, NEW r \in Requests, Confirmed(r) \/ NotConfirmed(r)
  PROVE  IInv'
<1>1. At(r, "confirming") /\ ~Busy(r) /\ ~At(r, "free") /\ requests[r].phase \notin Ended
  BY DEF Confirmed, NotConfirmed, At, Busy, Ended
<1>2. CASE Confirmed(r)
  BY <1>1, <1>2, MovesQuietly DEF Confirmed, QueueMoves
<1>3. CASE NotConfirmed(r)
  BY <1>1, <1>3, EndsQuietly DEF NotConfirmed, QueueMoves, history, Ended
<1> QED BY <1>2, <1>3

LEMMA CallStep ==
  ASSUME IInv, NEW r \in Requests, Check(r) \/ Execute(r) \/ CallFails(r)
  PROVE  IInv'
<1>1. ~Busy(r) /\ ~At(r, "free") /\ requests[r].phase \notin Ended
  BY DEF Check, Execute, CallFails, At, Busy, Ended
<1>2. QueueMoves(r, requests[r].client)
      /\ UNCHANGED <<confirm, file, running, memory, expired, history>>
  BY DEF Check, Execute, CallFails, QueueMoves
<1>3. CASE Check(r) /\ Moves(r, "waiting")
  BY <1>1, <1>2, <1>3, MovesQuietly DEF Check, At
<1>4. CASE Ends(r, "over") \/ Ends(r, "done")
  BY <1>1, <1>2, <1>4, EndsQuietly DEF Ended
<1> QED BY <1>3, <1>4 DEF Check, Execute, CallFails

LEMMA BeginStep ==
  ASSUME IInv, NEW r \in Requests, Begin(r)
  PROVE  IInv'
<1> DEFINE q == requests[r]
           c == q.client
           m == memory[c]
<1>1. AtHead(r, "queued") /\ UNCHANGED <<confirm, file, running, expired, history>>
  BY DEF Begin
<1>2. At(r, "queued") /\ q.phase = "queued" /\ ~Busy(r) /\ ~At(r, "free") /\ q.phase \notin Ended
      /\ queue[c] # <<>> /\ r = Head(queue[c])
  BY <1>1 DEF AtHead, At, Busy, Ended
<1>3. c \in Clients /\ c \in running /\ q \in RequestRecords /\ m \in Memories /\ q.kind \in Kinds
      /\ q.source \in Memories /\ q.target \in Profiles
  BY <1>2, Known
<1>4. m = settled[c]
  BY <1>1, QuietHead
<1>5. file \in Profiles \cup {Nothing} /\ lastSwitch \in Profiles \cup {Nothing}
      /\ disturbed \in BOOLEAN /\ expired \subseteq Requests
  BY DEF IInv, TypeOK
<1>6. CASE q.kind \in {"lock", "unlock"}
  <2> DEFINE x == Beginning(q, "auditing", m)
             mm == Change(q.kind, q.target, r, m)
  <2>1. x \in RequestRecords /\ x.phase = "auditing" /\ x.before = m /\ x.client = c
        /\ x.kind = q.kind /\ x.target = q.target
    <3>1. "auditing" \in Phases
      BY DEF Phases
    <3> HIDE DEF q, m
    <3> QED BY <1>3, <3>1, BeginningFields
  <2>2. requests' = [requests EXCEPT ![r] = x] /\ queue' = queue
    BY <1>6 DEF Begin
  <2>3. memory' = [memory EXCEPT ![c] = mm]
    BY <1>6 DEF Begin, Change
  <2>4. mm \in Memories
    BY <1>3, ChangeFacts
  <2> HIDE DEF x, mm
  <2>5. mm = Change(x.kind, x.target, r, settled[c])
    BY <1>4, <2>1 DEF mm
  <2>6. Began(x, r, mm, settled[x.client])
    BY <1>4, <1>6, <2>1, <2>5 DEF Began
  <2>7. x.phase \in BusyPhases
    BY <2>1 DEF BusyPhases
  <2> QED BY <1>1, <1>2, <1>5, <2>1, <2>2, <2>3, <2>4, <2>6, <2>7, TransitionStep DEF history
<1>7. CASE q.kind = "switch" /\ SwitchingEnabled(m) /\ ExpectedRevision(m, q.source)
  <2> DEFINE x == Beginning(q, "saving", m)
  <2>1. x \in RequestRecords /\ x.phase = "saving" /\ x.before = m /\ x.client = c
        /\ x.kind = q.kind /\ x.target = q.target /\ x.source = q.source
    <3>1. "saving" \in Phases
      BY DEF Phases
    <3> HIDE DEF q, m
    <3> QED BY <1>3, <3>1, BeginningFields
  <2>2. requests' = [requests EXCEPT ![r] = x] /\ queue' = queue /\ memory' = memory
    BY <1>7 DEF Begin
  <2>3. memory' = [memory EXCEPT ![c] = m]
    BY <1>3, <2>2 DEF IInv, TypeOK
  <2> HIDE DEF x
  <2>4. confirm => q.source = settled[c]
    BY <1>2, <1>4, <1>7 DEF IInv, Sources, Captured, UpToDate, ExpectedRevision, At
  <2>5. Began(x, r, m, settled[x.client])
    BY <1>4, <1>7, <2>1, <2>4 DEF Began, SwitchingEnabled
  <2>6. x.phase \in BusyPhases
    BY <2>1 DEF BusyPhases
  <2> QED BY <1>1, <1>2, <1>3, <1>5, <2>1, <2>2, <2>3, <2>5, <2>6, TransitionStep DEF history
<1>8. CASE /\ q.kind \notin {"lock", "unlock"}
           /\ ~(q.kind = "switch" /\ SwitchingEnabled(m) /\ ExpectedRevision(m, q.source))
  <2>1. Ends(r, "over") /\ LeavesQueue(r) /\ memory' = memory
    BY <1>8 DEF Begin
  <2>2. QueueMoves(r, c)
    BY <1>2, <2>1 DEF QueueMoves, LeavesQueue
  <2> QED BY <1>1, <1>2, <2>1, <2>2, EndsQuietly DEF Ended
<1> QED BY <1>6, <1>7, <1>8

\* What is known of a transition under way.
LEMMA UnderWay ==
  ASSUME IInv, NEW r \in Requests, NEW phase \in BusyPhases, AtHead(r, phase)
  PROVE  /\ Busy(r) /\ requests[r].phase = phase
         /\ ~At(r, "free") /\ requests[r].phase \notin Ended
         /\ queue[requests[r].client] # <<>> /\ r = Head(queue[requests[r].client])
         /\ Began(requests[r], r, memory[requests[r].client], settled[requests[r].client])
         /\ file \in Profiles \cup {Nothing} /\ lastSwitch \in Profiles \cup {Nothing}
         /\ disturbed \in BOOLEAN /\ expired \subseteq Requests
         /\ recorded \subseteq Requests \X Clients \X Profiles
<1>1. Busy(r) /\ requests[r].phase = phase /\ ~At(r, "free") /\ requests[r].phase \notin Ended
      /\ queue[requests[r].client] # <<>> /\ r = Head(queue[requests[r].client])
  BY DEF AtHead, At, Busy, BusyPhases, Ended
<1>2. Began(requests[r], r, memory[requests[r].client], settled[requests[r].client])
  BY <1>1 DEF IInv, BusyKnows
<1> QED BY <1>1, <1>2 DEF IInv, TypeOK

LEMMA SavedStep ==
  ASSUME IInv, NEW r \in Requests, Saved(r)
  PROVE  IInv'
<1> DEFINE q == requests[r]
           c == q.client
           x == [q EXCEPT !.phase = "auditing"]
           mm == Committed(memory[c], q.target, r)
<1>1. AtHead(r, "saving") /\ file' = q.target /\ memory' = [memory EXCEPT ![c] = mm]
      /\ requests' = [requests EXCEPT ![r] = x]
      /\ UNCHANGED <<confirm, running, queue, expired, history>>
  BY DEF Saved, Moves
<1>2. q.phase = "saving" /\ ~At(r, "free") /\ q.phase \notin Ended
      /\ queue[c] # <<>> /\ r = Head(queue[c])
      /\ Began(q, r, memory[c], settled[c]) /\ lastSwitch \in Profiles \cup {Nothing}
      /\ disturbed \in BOOLEAN /\ expired \subseteq Requests
  BY <1>1, UnderWay DEF BusyPhases
<1>3. q \in RequestRecords /\ memory[c] \in Memories /\ q.target \in Profiles
  BY <1>2, Known
<1>4. x \in RequestRecords /\ x.phase = "auditing" /\ x.client = c /\ x.kind = q.kind
      /\ x.target = q.target /\ x.source = q.source /\ x.before = q.before
  BY <1>3, MovedFields DEF Phases
<1>5. mm \in Memories
  BY <1>3, CommittedFields
<1>6. q.kind = "switch" /\ mm = Change(q.kind, q.target, r, settled[c])
  BY <1>2 DEF Began, Change
<1> HIDE DEF x, mm
<1>7. Began(x, r, mm, settled[x.client])
  BY <1>2, <1>4, <1>6 DEF Began
<1>8. x.phase \in BusyPhases
  BY <1>4 DEF BusyPhases
<1> QED BY <1>1, <1>2, <1>3, <1>4, <1>5, <1>7, <1>8, TransitionStep DEF history

LEMMA AuditFailsStep ==
  ASSUME IInv, NEW r \in Requests, AuditFails(r)
  PROVE  IInv'
<1> DEFINE q == requests[r]
           c == q.client
           x == [q EXCEPT !.phase = "undoing"]
           mm == memory[c]
<1>1. AtHead(r, "auditing") /\ requests' = [requests EXCEPT ![r] = x]
      /\ UNCHANGED <<confirm, file, running, memory, queue, expired, history>>
  BY DEF AuditFails, Moves
<1>2. q.phase = "auditing" /\ ~At(r, "free") /\ q.phase \notin Ended
      /\ queue[c] # <<>> /\ r = Head(queue[c])
      /\ Began(q, r, memory[c], settled[c]) /\ lastSwitch \in Profiles \cup {Nothing}
      /\ disturbed \in BOOLEAN /\ expired \subseteq Requests /\ file \in Profiles \cup {Nothing}
  BY <1>1, UnderWay DEF BusyPhases
<1>3. q \in RequestRecords /\ mm \in Memories /\ c \in Clients
  BY <1>2, Known
<1>4. x \in RequestRecords /\ x.phase = "undoing" /\ x.client = c /\ x.kind = q.kind
      /\ x.target = q.target /\ x.source = q.source /\ x.before = q.before
  BY <1>3, MovedFields DEF Phases
<1>5. memory' = [memory EXCEPT ![c] = mm]
  BY <1>1, <1>3 DEF IInv, TypeOK
<1> HIDE DEF x
<1>6. Began(x, r, mm, settled[x.client])
  BY <1>2, <1>4 DEF Began
<1>7. x.phase \in BusyPhases
  BY <1>4 DEF BusyPhases
<1> QED BY <1>1, <1>2, <1>3, <1>4, <1>5, <1>6, <1>7, TransitionStep DEF history

\* A transition that changes nothing, or that is undone, ends in the settled state.
LEMMA BackStep ==
  ASSUME IInv, NEW r \in Requests, SaveFails(r) \/ Undone(r) \/ UndoFails(r)
  PROVE  IInv'
<1> DEFINE q == requests[r]
           c == q.client
           ss == settled[c]
<1>1. \E phase \in BusyPhases : AtHead(r, phase)
  BY DEF SaveFails, Undone, UndoFails, BusyPhases
<1>2. Busy(r) /\ ~At(r, "free") /\ queue[c] # <<>> /\ r = Head(queue[c])
      /\ Began(q, r, memory[c], ss) /\ file \in Profiles \cup {Nothing}
      /\ lastSwitch \in Profiles \cup {Nothing} /\ disturbed \in BOOLEAN /\ expired \subseteq Requests
      /\ recorded \subseteq Requests \X Clients \X Profiles
  BY <1>1, UnderWay
<1>3. c \in Clients /\ ss \in Memories
  BY <1>2, Known
<1>4. memory \in [Clients -> Memories] /\ settled \in [Clients -> Memories]
  BY DEF IInv, TypeOK
<1>5. memory' = [memory EXCEPT ![c] = ss]
  <2>1. CASE SaveFails(r)
    <3>1. memory[c] = ss
      BY <1>2, <2>1 DEF SaveFails, AtHead, At, Began
    <3> QED BY <1>4, <2>1, <3>1 DEF SaveFails
  <2>2. CASE Undone(r) \/ UndoFails(r)
    <3>1. q.before = ss
      BY <1>2 DEF Began
    <3>2. memory' = [memory EXCEPT ![c] = q.before]
      BY <2>2 DEF Undone, UndoFails, Restored
    <3> QED BY <3>1, <3>2
  <2> QED BY <2>1, <2>2
<1>6. settled' = [settled EXCEPT ![c] = ss]
  <2>1. settled' = settled
    BY DEF SaveFails, Undone, UndoFails, history
  <2> QED BY <1>4, <2>1
<1>7. Ends(r, "over") /\ LeavesQueue(r) /\ recorded' = recorded
      /\ UNCHANGED <<confirm, running, expired, lastSwitch>> /\ disturbed' \in BOOLEAN
  BY <1>2 DEF SaveFails, Undone, UndoFails, Answered, history
<1>8. file' \in Profiles \cup {Nothing}
  <2>1. q.before.durable \in Profiles \cup {Nothing}
    BY <1>2, <1>3 DEF Began, Memories
  <2> QED BY <1>2, <2>1 DEF SaveFails, Undone, UndoFails, Rewritten
<1>9. LockSound(ss) /\ Sound(ss, c, recorded)
  BY <1>3 DEF IInv, SettledLocks, SettledSelections
<1> HIDE DEF ss
<1> QED BY <1>2, <1>3, <1>5, <1>6, <1>7, <1>8, <1>9, EndStep DEF ss, Ended

LEMMA AuditedStep ==
  ASSUME IInv, NEW r \in Requests, Audited(r)
  PROVE  IInv'
<1> DEFINE q == requests[r]
           c == q.client
           s == settled[c]
           ss == memory[c]
<1>1. AtHead(r, "auditing") /\ Ends(r, "done") /\ LeavesQueue(r)
      /\ settled' = [settled EXCEPT ![c] = ss]
      /\ UNCHANGED <<confirm, file, running, memory, expired>>
  BY DEF Audited
<1>2. Busy(r) /\ q.phase = "auditing" /\ ~At(r, "free") /\ queue[c] # <<>> /\ r = Head(queue[c])
      /\ Began(q, r, ss, s) /\ file \in Profiles \cup {Nothing}
      /\ lastSwitch \in Profiles \cup {Nothing} /\ disturbed \in BOOLEAN /\ expired \subseteq Requests
      /\ recorded \subseteq Requests \X Clients \X Profiles
  BY <1>1, UnderWay DEF BusyPhases
<1>3. c \in Clients /\ s \in Memories /\ ss \in Memories /\ q.kind \in Kinds /\ q.target \in Profiles
  BY <1>2, Known
<1>4. memory' = [memory EXCEPT ![c] = ss]
  BY <1>1, <1>3 DEF IInv, TypeOK
<1>5. ss = Change(q.kind, q.target, r, s) /\ (q.kind = "switch" => s.lock = Nothing)
  BY <1>2 DEF Began
<1>6. LockSound(s) /\ Sound(s, c, recorded)
  BY <1>3 DEF IInv, SettledLocks, SettledSelections
<1> HIDE DEF s, ss
<1>7. LockSound(ss) /\ (ss = s \/ ss.revision > s.revision)
  BY <1>3, <1>5, <1>6, ChangeFacts
<1>8. /\ recorded \subseteq recorded' /\ recorded' \subseteq Requests \X Clients \X Profiles
      /\ lastSwitch' \in Profiles \cup {Nothing} /\ disturbed' \in BOOLEAN
      /\ q.kind = "switch" => <<r, c, q.target>> \in recorded'
  <2>1. CASE q.kind = "switch"
    <3>1. recorded' = recorded \cup {<<r, c, q.target>>} /\ lastSwitch' = q.target /\ disturbed' = FALSE
      BY <2>1 DEF Audited
    <3>2. <<r, c, q.target>> \in Requests \X Clients \X Profiles
      BY <1>3
    <3> QED BY <1>2, <1>3, <3>1, <3>2
  <2>2. CASE q.kind # "switch"
    BY <1>2, <2>2 DEF Audited
  <2> QED BY <2>1, <2>2
<1>9. Sound(ss, c, recorded')
  <2>1. CASE q.kind = "switch"
    <3>1. ss.selection = r /\ ss.active = q.target /\ (q.target \in Leased => ss.lease = r)
      BY <1>3, <1>5, <2>1, ChangeFacts
    <3> QED BY <1>8, <2>1, <3>1 DEF Sound
  <2>2. CASE q.kind # "switch"
    <3>1. ss.selection = s.selection /\ ss.active = s.active /\ ss.lease = s.lease
      BY <1>3, <1>5, <2>2, ChangeFacts
    <3> QED BY <1>6, <1>8, <3>1 DEF Sound
  <2> QED BY <2>1, <2>2
<1> QED BY <1>1, <1>2, <1>3, <1>4, <1>7, <1>8, <1>9, EndStep DEF s, Ended

LEMMA ExpireStep ==
  ASSUME IInv, NEW r \in Requests, Expire(r)
  PROVE  IInv'
<1>1. expired' = expired \cup {r}
      /\ UNCHANGED <<confirm, file, running, memory, queue, requests, history>>
  BY DEF Expire
<1>2. TypeOK'
  BY <1>1 DEF IInv, TypeOK, history
<1>3. Owned' /\ Turns' /\ QuietIsSettled'
  BY <1>1 DEF IInv, Owned, At, Turns, QuietIsSettled, Busy, history
<1>4. BusyKnows' /\ Sources'
  BY <1>1 DEF IInv, BusyKnows, Sources, Busy, Began, Captured, history
<1>5. SettledLocks' /\ SettledSelections' /\ CallSelections'
  BY <1>1 DEF IInv, SettledLocks, SettledSelections, CallSelections, history
<1> QED BY <1>2, <1>3, <1>4, <1>5 DEF IInv

\* A process that starts has no requests yet.
LEMMA StartStep ==
  ASSUME IInv, NEW c \in Clients, NEW p \in Profiles, NEW d \in Profiles \cup {Nothing},
         NEW unread \in BOOLEAN, StartWith(c, p, d, unread)
  PROVE  IInv'
<1> DEFINE m == Fresh(p, d)
<1>1. m \in Memories /\ m.lock = Nothing /\ m.selection = Nothing
  BY FreshType DEF Fresh
<1>2. /\ c \notin running /\ running' = running \cup {c}
      /\ memory' = [memory EXCEPT ![c] = m] /\ settled' = [settled EXCEPT ![c] = m]
      /\ disturbed' = (disturbed \/ unread)
      /\ UNCHANGED <<confirm, file, queue, requests, expired, recorded, lastSwitch>>
  BY DEF StartWith
<1> HIDE DEF m
<1>3. /\ memory'[c] = m /\ settled'[c] = m
      /\ \A k \in Clients : k # c => memory'[k] = memory[k] /\ settled'[k] = settled[k]
      /\ memory' \in [Clients -> Memories] /\ settled' \in [Clients -> Memories]
  BY <1>1, <1>2 DEF IInv, TypeOK
<1>4. disturbed' \in BOOLEAN
  BY <1>2 DEF IInv, TypeOK
<1>5. TypeOK'
  BY <1>2, <1>3, <1>4 DEF IInv, TypeOK
<1>6. \A r \in Requests : ~At(r, "free") /\ requests[r].phase \notin Ended =>
        requests[r].client \in Clients /\ requests[r].client # c
  BY <1>2 DEF IInv, Owned
<1>7. Owned' /\ Turns'
  BY <1>2 DEF IInv, Owned, At, Turns, Busy
<1>8. QuietIsSettled'
  BY <1>2, <1>3 DEF IInv, QuietIsSettled, Busy
<1>9. BusyKnows'
  <2>1. SUFFICES ASSUME NEW r \in Requests, Busy(r)
                 PROVE  Began(requests[r], r, memory'[requests[r].client],
                              settled'[requests[r].client])
    BY <1>2 DEF BusyKnows, Busy, Began
  <2>2. requests[r].client \in Clients /\ requests[r].client # c
    BY <1>6, <2>1 DEF At, Busy, Ended
  <2> QED BY <1>3, <2>1, <2>2 DEF IInv, BusyKnows
<1>10. Sources'
  <2>1. SUFFICES ASSUME NEW r \in Requests, Captured(requests[r])
                 PROVE  UpToDate(requests[r].source, settled'[requests[r].client])
    BY <1>2 DEF Sources, Captured
  <2>2. requests[r].client \in Clients /\ requests[r].client # c
    BY <1>6, <2>1 DEF At, Captured, Ended
  <2> QED BY <1>3, <2>1, <2>2 DEF IInv, Sources
<1>11. SettledLocks' /\ SettledSelections'
  BY <1>1, <1>2, <1>3 DEF IInv, SettledLocks, SettledSelections, LockSound, Sound
<1>12. CallSelections'
  BY <1>2 DEF IInv, CallSelections
<1> QED BY <1>5, <1>7, <1>8, <1>9, <1>10, <1>11, <1>12 DEF IInv

\* A process that dies leaves none of its requests.
LEMMA CrashStep ==
  ASSUME IInv, NEW c \in Clients, Crash(c)
  PROVE  IInv'
<1>1. /\ c \in running /\ running' = running \ {c}
      /\ memory' = [memory EXCEPT ![c] = NoSource] /\ settled' = [settled EXCEPT ![c] = NoSource]
      /\ queue' = [queue EXCEPT ![c] = <<>>]
      /\ UNCHANGED <<confirm, file, expired, recorded, lastSwitch>>
  BY DEF Crash
<1>2. disturbed' \in BOOLEAN
  BY DEF Crash, IInv, TypeOK
<1> DEFINE x == EndedRequest(c, "over")
           Dies(r) == requests[r].client = c /\ requests[r].phase \notin Ended
<1>3. x \in RequestRecords /\ x.client = c /\ x.phase = "over"
  BY EndedType DEF Ended
<1>4. requests' = [r \in Requests |-> IF Dies(r) THEN x ELSE requests[r]]
  BY DEF Crash
<1> HIDE DEF x
<1>5. requests \in [Requests -> RequestRecords]
  BY DEF IInv, TypeOK
<1>6. /\ requests' \in [Requests -> RequestRecords]
      /\ \A r \in Requests : Dies(r) => requests'[r] = x
      /\ \A r \in Requests : ~Dies(r) => requests'[r] = requests[r]
  BY <1>3, <1>4, <1>5
<1>7. /\ memory'[c] = NoSource /\ settled'[c] = NoSource
      /\ \A k \in Clients : k # c => memory'[k] = memory[k] /\ settled'[k] = settled[k]
      /\ memory' \in [Clients -> Memories] /\ settled' \in [Clients -> Memories]
  BY <1>1, NoSourceType DEF IInv, TypeOK
<1>8. queue' \in [Clients -> Seq(Requests)] /\ \A k \in Clients : k # c => queue'[k] = queue[k]
  BY <1>1 DEF IInv, TypeOK
<1>9. TypeOK'
  BY <1>1, <1>2, <1>6, <1>7, <1>8 DEF IInv, TypeOK
<1>10. \A r \in Requests : requests'[r].phase \notin Ended \cup {"free"} =>
         requests'[r] = requests[r] /\ requests[r].client \in Clients /\ requests[r].client # c
  BY <1>3, <1>6 DEF IInv, Owned, At, Ended
<1>11. Owned'
  <2>1. SUFFICES ASSUME NEW r \in Requests, requests'[r].phase # "free"
                 PROVE  /\ requests'[r].client \in Clients
                        /\ requests'[r].phase \notin Ended => requests'[r].client \in running'
    BY DEF Owned, At
  <2>2. CASE Dies(r)
    BY <1>3, <1>6, <2>2 DEF Ended
  <2>3. CASE ~Dies(r)
    BY <1>1, <1>6, <2>1, <2>3 DEF IInv, Owned, At
  <2> QED BY <2>2, <2>3
<1>12. \A r \in Requests : Busy(r)' =>
         Busy(r) /\ requests'[r] = requests[r] /\ requests[r].client \in Clients
           /\ requests[r].client # c
  BY <1>10 DEF Busy, Ended
<1>13. Turns'
  BY <1>8, <1>12 DEF IInv, Turns
<1>14. QuietIsSettled'
  <2>1. SUFFICES ASSUME NEW d \in Clients, \A r \in Requests : Busy(r)' => requests'[r].client # d
                 PROVE  memory'[d] = settled'[d]
    BY DEF QuietIsSettled
  <2>2. CASE d = c
    BY <1>7, <2>2
  <2>3. CASE d # c
    <3>1. \A r \in Requests : Busy(r) => requests[r].client # d
      BY <1>6, <2>1, <2>3 DEF Busy
    <3> QED BY <1>7, <2>3, <3>1 DEF IInv, QuietIsSettled
  <2> QED BY <2>2, <2>3
<1>15. BusyKnows'
  <2>1. SUFFICES ASSUME NEW r \in Requests, Busy(r)'
                 PROVE  Began(requests[r], r, memory[requests[r].client], settled[requests[r].client])'
    BY DEF BusyKnows
  <2>2. Began(requests[r], r, memory[requests[r].client], settled[requests[r].client])
    BY <1>12, <2>1 DEF IInv, BusyKnows
  <2> QED BY <1>1, <1>7, <1>12, <2>1, <2>2 DEF Began
<1>16. Sources'
  <2>1. SUFFICES ASSUME NEW r \in Requests, Captured(requests[r])'
                 PROVE  UpToDate(requests'[r].source, settled'[requests'[r].client])
    BY DEF Sources, UpToDate
  <2>2. requests'[r] = requests[r] /\ requests[r].client \in Clients /\ requests[r].client # c
    BY <1>10, <2>1 DEF Captured, Ended
  <2>3. Captured(requests[r])
    BY <1>1, <2>1, <2>2 DEF Captured
  <2> QED BY <1>7, <2>2, <2>3 DEF IInv, Sources
<1>17. SettledLocks' /\ SettledSelections'
  <2>1. NoSource.lock = Nothing /\ NoSource.selection = Nothing
    BY DEF NoSource, Fresh
  <2> QED BY <1>1, <1>7, <2>1 DEF IInv, SettledLocks, SettledSelections, LockSound, Sound
<1>18. CallSelections'
  <2>1. SUFFICES ASSUME NEW r \in Requests, requests'[r].phase \in {"checking", "waiting"}
                 PROVE  Sound(requests'[r].source, requests'[r].client, recorded)
    BY <1>1 DEF CallSelections, Sound
  <2>2. requests'[r] = requests[r]
    BY <1>10, <2>1 DEF Ended
  <2> QED BY <2>1, <2>2 DEF IInv, CallSelections
<1> QED BY <1>9, <1>11, <1>13, <1>14, <1>15, <1>16, <1>17, <1>18 DEF IInv

-----------------------------------------------------------------------------
(* The theorems.                                                           *)

LEMMA StepIInv == IInv /\ [Next]_vars => IInv'
<1> SUFFICES ASSUME IInv, [Next]_vars PROVE IInv'
  OBVIOUS
<1>1. ASSUME NEW r \in Requests, Progress(r) PROVE IInv'
  <2>1. CASE Capture(r)
    BY <2>1, CaptureStep
  <2>2. CASE Confirmed(r) \/ NotConfirmed(r)
    BY <2>2, ConfirmedStep
  <2>3. CASE Begin(r)
    BY <2>3, BeginStep
  <2>4. CASE Saved(r)
    BY <2>4, SavedStep
  <2>5. CASE SaveFails(r) \/ Undone(r) \/ UndoFails(r)
    BY <2>5, BackStep
  <2>6. CASE Audited(r)
    BY <2>6, AuditedStep
  <2>7. CASE AuditFails(r)
    BY <2>7, AuditFailsStep
  <2>8. CASE Check(r) \/ Execute(r) \/ CallFails(r)
    BY <2>8, CallStep
  <2> QED BY <1>1, <2>1, <2>2, <2>3, <2>4, <2>5, <2>6, <2>7, <2>8 DEF Progress
<1>2. ASSUME NEW r \in Requests, Expire(r) PROVE IInv'
  BY <1>2, ExpireStep
<1>3. ASSUME NEW c \in Clients, Start(c) \/ StartUnread(c) PROVE IInv'
  <2>1. file \in Profiles \cup {Nothing}
    BY DEF IInv, TypeOK
  <2>2. CASE file # Nothing /\ StartWith(c, file, file, FALSE)
    BY <2>1, <2>2, StartStep
  <2>3. CASE StartWith(c, DefaultProfile, Nothing, FALSE)
    BY <2>3, StartStep, ControlAssumption
  <2>4. CASE StartWith(c, DefaultProfile, Nothing, TRUE)
    BY <2>4, StartStep, ControlAssumption
  <2> QED BY <1>3, <2>2, <2>3, <2>4 DEF Start, StartUnread
<1>4. ASSUME NEW c \in Clients, Crash(c) PROVE IInv'
  BY <1>4, CrashStep
<1>5. ASSUME NEW r \in Requests, NEW c \in Clients, NEW kind \in Kinds, NEW p \in Profiles,
             Arrive(r, c, kind, p)
      PROVE  IInv'
  BY <1>5, ArriveStep
<1>6. CASE UNCHANGED vars
  BY <1>6 DEF vars, IInv, TypeOK, Owned, Turns, QuietIsSettled, BusyKnows, Sources, SettledLocks,
              SettledSelections, CallSelections, At, Busy, Began, Captured, Sound
<1> QED BY <1>1, <1>2, <1>3, <1>4, <1>5, <1>6 DEF Next

\* The inductive invariant: a process always knows what to go back to.
THEOREM Invariant == Spec => []IInv
<1>1. Init => IInv
  BY InitIInv
<1>2. IInv /\ [Next]_vars => IInv'
  BY StepIInv
<1> QED BY <1>1, <1>2, PTL DEF Spec

\* TypeOK, for every number of clients, profiles and requests.
THEOREM TypeCorrect == Spec => []TypeOK
<1>1. IInv => TypeOK
  BY DEF IInv
<1> QED BY <1>1, Invariant, PTL

\* SettledIsRecorded: mutateAudited leaves no trace of a transition that it did
\* not complete, whichever of its writes failed.
THEOREM MemoryIsRecorded == Spec => []SettledIsRecorded
<1>1. IInv => SettledIsRecorded
  BY DEF IInv, SettledIsRecorded, Turns, QuietIsSettled
<1> QED BY <1>1, Invariant, PTL

\* LockHolds: no transition, confirmed or rolled back, moves a locked client.
THEOREM LocksHold == Spec => []LockHolds
<1>1. IInv => LockHolds
  <2>1. SUFFICES ASSUME IInv, NEW c \in Clients PROVE LockSound(memory[c])
    BY DEF LockHolds, LockSound
  <2>2. LockSound(settled[c])
    BY <2>1 DEF IInv, SettledLocks
  <2>3. CASE memory[c] = settled[c]
    BY <2>2, <2>3
  <2>4. CASE memory[c] # settled[c]
    <3>1. PICK r \in Requests : Busy(r) /\ requests[r].client = c
      BY <2>1, <2>4 DEF IInv, QuietIsSettled
    <3>2. Began(requests[r], r, memory[c], settled[c])
      BY <2>1, <3>1 DEF IInv, BusyKnows
    <3>3. /\ memory[c] = Change(requests[r].kind, requests[r].target, r, settled[c])
          /\ requests[r].kind = "switch" => settled[c].lock = Nothing
      BY <2>4, <3>2 DEF Began
    <3>4. /\ requests[r].kind \in Kinds /\ requests[r].target \in Profiles
          /\ settled[c] \in Memories
      BY <2>1, <3>1, Known DEF Busy, At
    <3> QED BY <2>2, <3>3, <3>4, ChangeFacts
  <2> QED BY <2>3, <2>4
<1> QED BY <1>1, Invariant, PTL

\* ConfirmedAsAsked: the revision of the captured selection is enough to know
\* that nothing, a lock included, has come between the question and the save.
THEOREM SwitchesAsConfirmed == Spec => ConfirmedAsAsked
<1>1. IInv /\ [Next]_vars =>
        [\A r \in Requests :
           AtHead(r, "saving") /\ requests'[r].phase = "auditing" /\ confirm
             => requests[r].source = memory[requests[r].client]]_vars
  <2>1. SUFFICES ASSUME IInv, NEW r \in Requests, AtHead(r, "saving"), confirm
                 PROVE  requests[r].source = memory[requests[r].client]
    OBVIOUS
  <2>2. Busy(r) /\ requests[r].phase = "saving"
    BY <2>1 DEF AtHead, At, Busy
  <2> QED BY <2>1, <2>2 DEF IInv, BusyKnows, Began
<1> QED BY <1>1, Invariant, PTL DEF Spec, ConfirmedAsAsked

\* A call that has been waiting is done only by Execute, which has looked.
LEMMA OnlyExecuteAnswers ==
  ASSUME IInv, Next, NEW r \in Requests, At(r, "waiting"), requests'[r].phase = "done"
  PROVE  Allowed(requests[r].source, requests[r].target)
<1>1. requests \in [Requests -> RequestRecords]
  BY DEF IInv, TypeOK
<1>2. requests[r].phase = "waiting"
  BY DEF At
<1>3. \A k \in Requests : k # r /\ (\E x : requests' = [requests EXCEPT ![k] = x]) =>
        requests'[r] = requests[r]
  BY <1>1
<1>4. ASSUME NEW k \in Requests, Progress(k)
      PROVE  Allowed(requests[r].source, requests[r].target)
  <2>1. \E x : requests' = [requests EXCEPT ![k] = x]
    BY <1>4 DEF Progress, Capture, Confirmed, NotConfirmed, Begin, Saved, SaveFails, Audited,
                AuditFails, Undone, UndoFails, Answered, Check, Execute, CallFails, Moves, Ends
  <2>2. k = r
    BY <1>2, <1>3, <2>1
  <2>3. Check(r) \/ Execute(r) \/ CallFails(r)
    BY <1>2, <1>4, <2>2 DEF Progress, Capture, Confirmed, NotConfirmed, Begin, Saved, SaveFails,
                            Audited, AuditFails, Undone, UndoFails, AtHead, At
  <2>4. requests[r].client \in Clients
    BY <1>2, Known DEF At
  <2>5. ~Ends(r, "over")
    BY <1>1, <2>4, EndedType DEF Ends, Ended
  <2> QED BY <1>2, <2>3, <2>5 DEF Check, Execute, CallFails, At
<1>5. ASSUME NEW c \in Clients, Crash(c) PROVE FALSE
  <2>1. requests'[r] = EndedRequest(c, "over") \/ requests'[r] = requests[r]
    BY <1>5 DEF Crash
  <2> QED BY <1>2, <2>1, EndedType DEF Ended
<1>6. ASSUME NEW k \in Requests, NEW c \in Clients, NEW kind \in Kinds, NEW p \in Profiles,
             Arrive(k, c, kind, p)
      PROVE  FALSE
  <2>1. At(k, "free") /\ k # r
    BY <1>2, <1>6 DEF Arrive, At
  <2> QED BY <1>2, <1>3, <1>6, <2>1 DEF Arrive
<1>7. ASSUME requests' = requests PROVE FALSE
  BY <1>2, <1>7
<1> QED BY <1>4, <1>5, <1>6, <1>7 DEF Next, Expire, Start, StartUnread, StartWith

\* CallsUnderSelection: a protected call that goes out has a selection of the
\* log and, where its profile is leased, the lease that came with it.
THEOREM CallsAreSelected == Spec => CallsUnderSelection
<1>1. IInv /\ [Next]_vars =>
        [\A r \in Requests :
           At(r, "waiting") /\ requests'[r].phase = "done" =>
             LET source == requests[r].source
             IN  /\ <<source.selection, requests[r].client, requests[r].target>> \in recorded
                 /\ requests[r].target \in Leased => source.selection \notin expired]_vars
  <2>1. SUFFICES ASSUME IInv, Next, NEW r \in Requests, At(r, "waiting"), requests'[r].phase = "done"
                 PROVE  /\ <<requests[r].source.selection, requests[r].client, requests[r].target>>
                             \in recorded
                        /\ requests[r].target \in Leased => requests[r].source.selection \notin expired
    BY DEF vars
  <2>2. Sound(requests[r].source, requests[r].client, recorded)
    BY <2>1 DEF IInv, CallSelections, At
  <2>3. Allowed(requests[r].source, requests[r].target)
    BY <2>1, OnlyExecuteAnswers
  <2> QED BY <2>2, <2>3 DEF Allowed, Sound
<1> QED BY <1>1, Invariant, PTL DEF Spec, CallsUnderSelection

\* SelectionsAreKept: between transitions every client has the selection the log
\* accounts for, and a locked profile is the active one.
THEOREM SelectionsKept == Spec => []SelectionsAreKept
<1>1. SettledIsRecorded /\ LockHolds => SelectionsAreKept
  BY DEF SelectionsAreKept
<1> QED BY <1>1, MemoryIsRecorded, LocksHold, PTL

\* ActsAsSelected: confirmed switches and protected calls go by the selection
\* that was confirmed and recorded.
THEOREM ActsSelected == Spec => ActsAsSelected
BY SwitchesAsConfirmed, CallsAreSelected DEF ActsAsSelected

-----------------------------------------------------------------------------
(* The state file, when one process uses it.                               *)

\* The switches whose save is done and whose end is not.
Written(q) == q.kind = "switch" /\ q.phase \in {"auditing", "undoing"}

\* The file has the profile of the switch under way, otherwise the last switch
\* that succeeded, which is also what every rollback writes back.
WrittenIsInFile == \A r \in Requests : Written(requests[r]) => file = requests[r].target
FileIsLast == ~disturbed /\ (\A r \in Requests : ~Written(requests[r])) => file = lastSwitch
DurableIsLast == ~disturbed => \A c \in running : settled[c].durable = lastSwitch
FileInv == WrittenIsInFile /\ FileIsLast /\ DurableIsLast

LEMMA ChangeDurable ==
  ASSUME NEW s \in Memories, NEW kind \in Kinds, NEW p \in Profiles, NEW r \in Requests
  PROVE  Change(kind, p, r, s).durable = IF kind = "switch" THEN p ELSE s.durable
<1>1. CASE kind = "switch"
  BY <1>1 DEF Change, Committed, Memories
<1>2. CASE kind = "lock"
  BY <1>2 DEF Change, LockedTo, Memories
<1>3. CASE kind # "switch" /\ kind # "lock"
  BY <1>3 DEF Change, Unlocked, Memories
<1> QED BY <1>1, <1>2, <1>3

\* Steps that end no transition and begin none, and write no file.
LEMMA FileKept ==
  ASSUME FileInv, UNCHANGED <<file, running, settled, lastSwitch, disturbed>>,
         \A k \in Requests :
           /\ Written(requests'[k]) <=> Written(requests[k])
           /\ Written(requests[k]) => requests'[k].target = requests[k].target
  PROVE  FileInv'
<1>1. WrittenIsInFile'
  BY DEF FileInv, WrittenIsInFile, Written
<1>2. FileIsLast'
  BY DEF FileInv, FileIsLast, Written
<1>3. DurableIsLast'
  BY DEF FileInv, DurableIsLast
<1> QED BY <1>1, <1>2, <1>3 DEF FileInv

LEMMA FileKeptByRequest ==
  ASSUME IInv, FileInv, UNCHANGED <<file, running, settled, lastSwitch, disturbed>>,
         NEW r \in Requests, NEW x, requests' = [requests EXCEPT ![r] = x],
         ~Written(requests[r]), ~Written(x)
  PROVE  FileInv'
<1>1. requests \in [Requests -> RequestRecords]
  BY DEF IInv, TypeOK
<1>2. requests'[r] = x /\ \A k \in Requests : k # r => requests'[k] = requests[k]
  BY <1>1
<1>3. \A k \in Requests :
        /\ Written(requests'[k]) <=> Written(requests[k])
        /\ Written(requests[k]) => requests'[k].target = requests[k].target
  BY <1>2
<1> QED BY <1>3, FileKept

\* A request that is over, or done, has written nothing that is not accounted for.
LEMMA EndedNotWritten ==
  ASSUME NEW c, NEW phase
  PROVE  ~Written(EndedRequest(c, phase))
BY DEF Written, EndedRequest, Request

\* The steps of requests that are no transition under way, and the ones of a
\* transition that leave the file alone.
LEMMA FileAside ==
  ASSUME IInv, FileInv, NEW r \in Requests,
         \/ Capture(r) \/ Confirmed(r) \/ NotConfirmed(r) \/ Begin(r) \/ SaveFails(r)
         \/ Check(r) \/ Execute(r) \/ CallFails(r)
  PROVE  FileInv'
<1>1. requests[r].phase \in {"capturing", "confirming", "queued", "saving", "checking", "waiting"}
      /\ ~Written(requests[r])
  BY DEF Capture, Confirmed, NotConfirmed, Begin, SaveFails, Check, Execute, CallFails, AtHead, At,
         Written
<1>2. UNCHANGED <<file, running, settled, lastSwitch, disturbed>>
  BY DEF Capture, Confirmed, NotConfirmed, Begin, SaveFails, Check, Execute, CallFails, history
<1>3. ASSUME NEW phase \in Phases \ {"auditing", "undoing"}, Moves(r, phase) PROVE FileInv'
  <2> DEFINE x == [requests[r] EXCEPT !.phase = phase]
  <2>1. requests[r] \in RequestRecords
    BY DEF IInv, TypeOK
  <2>2. x.phase = phase
    BY <2>1 DEF RequestRecords
  <2>3. ~Written(x) /\ requests' = [requests EXCEPT ![r] = x]
    BY <1>3, <2>2 DEF Written, Moves
  <2> QED BY <1>1, <1>2, <2>3, FileKeptByRequest
<1>4. ASSUME NEW phase, Ends(r, phase) PROVE FileInv'
  <2> DEFINE x == EndedRequest(requests[r].client, phase)
  <2>1. requests' = [requests EXCEPT ![r] = x] /\ ~Written(x)
    BY <1>4, EndedNotWritten DEF Ends
  <2> QED BY <1>1, <1>2, <2>1, FileKeptByRequest
<1>5. CASE Capture(r)
  <2> DEFINE c == requests[r].client
             next == CASE requests[r].kind = "call" -> "checking"
                       [] requests[r].kind = "switch" /\ confirm -> "confirming"
                       [] OTHER -> "queued"
             m == IF next = "queued" THEN NoSource ELSE memory[c]
             x == Capturing(requests[r], next, m)
  <2>1. requests' = [requests EXCEPT ![r] = x]
    BY <1>5 DEF Capture
  <2>2. requests[r] \in RequestRecords /\ ~At(r, "free")
    BY <1>5 DEF IInv, TypeOK, Capture, At
  <2>3. next \in {"checking", "confirming", "queued"}
    OBVIOUS
  <2>4. m \in Memories
    BY <2>2, Known, NoSourceType
  <2> HIDE DEF next, m
  <2>5. x.phase = next
    <3>1. next \in Phases
      BY <2>3 DEF Phases
    <3>2. requests[r] \in RequestRecords
      BY <2>2
    <3> QED BY <2>4, <3>1, <3>2, CapturingFields
  <2>6. ~Written(x)
    BY <2>3, <2>5 DEF Written
  <2> QED BY <1>1, <1>2, <2>1, <2>6, FileKeptByRequest
<1>6. CASE Confirmed(r)
  BY <1>3, <1>6 DEF Confirmed, Phases
<1>7. CASE Begin(r)
  <2> DEFINE q == requests[r]
             m == memory[q.client]
  <2>1. q \in RequestRecords /\ ~At(r, "free") /\ m \in Memories
    BY <1>7, Known DEF IInv, TypeOK, Begin, AtHead, At
  <2>2. \/ Ends(r, "over")
        \/ q.kind \in {"lock", "unlock"} /\ requests' = [requests EXCEPT ![r] = Beginning(q, "auditing", m)]
        \/ requests' = [requests EXCEPT ![r] = Beginning(q, "saving", m)]
    BY <1>7 DEF Begin
  <2>3. Beginning(q, "auditing", m).kind = q.kind /\ Beginning(q, "saving", m).phase = "saving"
    <3>1. "auditing" \in Phases /\ "saving" \in Phases
      BY DEF Phases
    <3>2. Beginning(q, "auditing", m).kind = q.kind
      BY <2>1, <3>1, BeginningFields
    <3>3. Beginning(q, "saving", m).phase = "saving"
      BY <2>1, <3>1, BeginningFields
    <3> QED BY <3>2, <3>3
  <2>4. ~Written(Beginning(q, "saving", m))
    BY <2>3 DEF Written
  <2>5. q.kind \in {"lock", "unlock"} => ~Written(Beginning(q, "auditing", m))
    BY <2>3 DEF Written
  <2> QED BY <1>1, <1>2, <1>4, <2>2, <2>4, <2>5, FileKeptByRequest
<1>8. CASE Check(r)
  BY <1>3, <1>4, <1>8 DEF Check, Phases
<1>9. CASE NotConfirmed(r) \/ SaveFails(r) \/ Execute(r) \/ CallFails(r)
  BY <1>4, <1>9 DEF NotConfirmed, SaveFails, Execute, CallFails
<1> QED BY <1>5, <1>6, <1>7, <1>8, <1>9

\* A write to the log that fails leaves the file to the rollback.
LEMMA FileAuditFails ==
  ASSUME IInv, FileInv, NEW r \in Requests, AuditFails(r)
  PROVE  FileInv'
<1> DEFINE x == [requests[r] EXCEPT !.phase = "undoing"]
<1>1. requests \in [Requests -> RequestRecords]
  BY DEF IInv, TypeOK
<1>2. requests' = [requests EXCEPT ![r] = x] /\ requests[r].phase = "auditing"
      /\ UNCHANGED <<file, running, settled, lastSwitch, disturbed>>
  BY DEF AuditFails, Moves, AtHead, At, history
<1>3. x.phase = "undoing" /\ x.kind = requests[r].kind /\ x.target = requests[r].target
  BY <1>1, MovedFields DEF Phases
<1> HIDE DEF x
<1>4. requests'[r] = x /\ \A k \in Requests : k # r => requests'[k] = requests[k]
  BY <1>1, <1>2
<1>5. \A k \in Requests :
        /\ Written(requests'[k]) <=> Written(requests[k])
        /\ Written(requests[k]) => requests'[k].target = requests[k].target
  BY <1>2, <1>3, <1>4 DEF Written
<1> QED BY <1>2, <1>5, FileKept

\* With one process, the head of its queue is the only transition under way.
LEMMA Alone ==
  ASSUME IInv, \A c, d \in Clients : c = d, NEW r \in Requests, Busy(r),
         queue[requests[r].client] # <<>>, r = Head(queue[requests[r].client])
  PROVE  \A k \in Requests : k # r => ~Busy(k) /\ ~Written(requests[k])
<1>1. \A k \in Requests : Busy(k) => requests[k].client \in Clients
  BY DEF IInv, Owned, Busy, At, Ended
<1>2. \A k \in Requests : k # r /\ Busy(k) => requests[k].client # requests[r].client
  BY OnlyHead
<1> QED BY <1>1, <1>2 DEF Busy, Written

LEMMA FileSaved ==
  ASSUME IInv, FileInv, \A c, d \in Clients : c = d, NEW r \in Requests, Saved(r)
  PROVE  FileInv'
<1> DEFINE q == requests[r]
           x == [q EXCEPT !.phase = "auditing"]
<1>1. AtHead(r, "saving") /\ file' = q.target /\ requests' = [requests EXCEPT ![r] = x]
      /\ UNCHANGED <<running, settled, lastSwitch, disturbed>>
  BY DEF Saved, Moves, history
<1>2. Busy(r) /\ queue[q.client] # <<>> /\ r = Head(queue[q.client]) /\ q.phase = "saving"
      /\ Began(q, r, memory[q.client], settled[q.client])
  BY <1>1, UnderWay DEF BusyPhases
<1>3. requests \in [Requests -> RequestRecords]
  BY DEF IInv, TypeOK
<1>4. x.phase = "auditing" /\ x.kind = q.kind /\ x.target = q.target
  BY <1>3, MovedFields DEF Phases
<1> HIDE DEF x
<1>5. requests'[r] = x /\ \A k \in Requests : k # r => requests'[k] = requests[k]
  BY <1>1, <1>3
<1>6. Written(x)
  BY <1>2, <1>4 DEF Began, Written
<1>7. \A k \in Requests : k # r => ~Written(requests'[k])
  BY <1>2, <1>5, Alone
<1>8. WrittenIsInFile'
  BY <1>1, <1>4, <1>5, <1>7 DEF WrittenIsInFile
<1>9. FileIsLast'
  BY <1>5, <1>6 DEF FileIsLast
<1>10. DurableIsLast'
  BY <1>1 DEF FileInv, DurableIsLast
<1> QED BY <1>8, <1>9, <1>10 DEF FileInv

\* A switch that is recorded is the last one, and the settled state has it.
LEMMA FileAudited ==
  ASSUME IInv, FileInv, \A c, d \in Clients : c = d, NEW r \in Requests, Audited(r)
  PROVE  FileInv'
<1> DEFINE q == requests[r]
           c == q.client
           x == EndedRequest(c, "done")
<1>1. AtHead(r, "auditing") /\ requests' = [requests EXCEPT ![r] = x]
      /\ settled' = [settled EXCEPT ![c] = memory[c]] /\ UNCHANGED <<file, running>>
  BY DEF Audited, Ends
<1>2. Busy(r) /\ queue[c] # <<>> /\ r = Head(queue[c]) /\ q.phase = "auditing"
      /\ ~At(r, "free") /\ q.phase \notin Ended
      /\ Began(q, r, memory[c], settled[c])
  BY <1>1, UnderWay DEF BusyPhases
<1>3. requests \in [Requests -> RequestRecords] /\ settled \in [Clients -> Memories]
      /\ running \subseteq Clients
  BY DEF IInv, TypeOK
<1>4. c \in Clients /\ c \in running /\ q.kind \in Kinds /\ q.target \in Profiles
      /\ settled[c] \in Memories
  BY <1>2, Known
<1>5. requests'[r] = x /\ \A k \in Requests : k # r => requests'[k] = requests[k]
  BY <1>1, <1>3
<1>6. \A k \in Requests : ~Written(requests'[k])
  <2>1. \A k \in Requests : k # r => ~Written(requests[k])
    BY <1>2, Alone
  <2> QED BY <1>5, <2>1, EndedNotWritten
<1>7. settled'[c].durable = IF q.kind = "switch" THEN q.target ELSE settled[c].durable
  <2>1. settled'[c] = memory[c]
    BY <1>1, <1>3, <1>4
  <2>2. memory[c] = Change(q.kind, q.target, r, settled[c])
    BY <1>2 DEF Began
  <2> QED BY <1>4, <2>1, <2>2, ChangeDurable
<1>8. \A d \in running' : d = c
  BY <1>1, <1>3, <1>4
<1>9. CASE q.kind = "switch"
  <2>1. lastSwitch' = q.target
    BY <1>9 DEF Audited
  <2>2. file' = q.target
    BY <1>1, <1>2, <1>9 DEF FileInv, WrittenIsInFile, Written
  <2>3. DurableIsLast'
    BY <1>7, <1>8, <1>9, <2>1 DEF DurableIsLast
  <2> QED BY <1>6, <2>1, <2>2, <2>3 DEF FileInv, WrittenIsInFile, FileIsLast
<1>10. CASE q.kind # "switch"
  <2>1. UNCHANGED <<lastSwitch, disturbed>>
    BY <1>10 DEF Audited
  <2>2. \A k \in Requests : ~Written(requests[k])
    <3>1. ~Written(q)
      BY <1>10 DEF Written
    <3> QED BY <1>2, <3>1, Alone
  <2>3. ~disturbed => file = lastSwitch
    BY <2>2 DEF FileInv, FileIsLast
  <2>4. DurableIsLast'
    BY <1>4, <1>7, <1>8, <1>10, <2>1 DEF FileInv, DurableIsLast
  <2> QED BY <1>1, <1>6, <2>1, <2>3, <2>4 DEF FileInv, WrittenIsInFile, FileIsLast
<1> QED BY <1>9, <1>10

\* A rollback writes the profile of the settled state back, or disturbs the file.
LEMMA FileUndone ==
  ASSUME IInv, FileInv, \A c, d \in Clients : c = d, NEW r \in Requests, Undone(r) \/ UndoFails(r)
  PROVE  FileInv'
<1> DEFINE q == requests[r]
           c == q.client
           x == EndedRequest(c, "over")
<1>1. AtHead(r, "undoing") /\ requests' = [requests EXCEPT ![r] = x]
      /\ UNCHANGED <<running, settled, lastSwitch>>
  BY DEF Undone, UndoFails, Answered, Ends, history
<1>2. Busy(r) /\ queue[c] # <<>> /\ r = Head(queue[c]) /\ ~At(r, "free") /\ q.phase \notin Ended
      /\ q.before = settled[c]
  BY <1>1, UnderWay DEF BusyPhases, Began
<1>3. requests \in [Requests -> RequestRecords] /\ c \in running
  BY <1>2, Known DEF IInv, TypeOK
<1>4. requests'[r] = x /\ \A k \in Requests : k # r => requests'[k] = requests[k]
  BY <1>1, <1>3
<1>5. \A k \in Requests : ~Written(requests'[k])
  <2>1. \A k \in Requests : k # r => ~Written(requests[k])
    BY <1>2, Alone
  <2> QED BY <1>4, <2>1, EndedNotWritten
<1>6. CASE Undone(r)
  <2>1. file' = settled[c].durable /\ disturbed' = disturbed
    BY <1>2, <1>6 DEF Undone, Rewritten, history
  <2>2. ~disturbed => settled[c].durable = lastSwitch
    BY <1>3 DEF FileInv, DurableIsLast
  <2> QED BY <1>1, <1>5, <2>1, <2>2 DEF FileInv, WrittenIsInFile, FileIsLast, DurableIsLast
<1>7. CASE UndoFails(r)
  <2>1. disturbed'
    BY <1>7 DEF UndoFails
  <2> QED BY <1>5, <2>1 DEF FileInv, WrittenIsInFile, FileIsLast, DurableIsLast
<1> QED BY <1>6, <1>7

\* A process starts with the file as the last one left it.
LEMMA FileStart ==
  ASSUME IInv, FileInv, \A c, d \in Clients : c = d, NEW c \in Clients, Start(c) \/ StartUnread(c)
  PROVE  FileInv'
<1>1. c \notin running /\ running' = running \cup {c} /\ UNCHANGED <<file, requests, lastSwitch>>
  BY DEF Start, StartUnread, StartWith
<1>2. \A k \in Requests : ~Written(requests[k])
  BY <1>1 DEF IInv, Owned, At, Written, Ended
<1>3. settled \in [Clients -> Memories] /\ running' \subseteq {c}
  BY <1>1 DEF IInv, TypeOK
<1>4. CASE Start(c)
  <2>1. \/ settled' = [settled EXCEPT ![c] = Fresh(file, file)]
        \/ file = Nothing /\ settled' = [settled EXCEPT ![c] = Fresh(DefaultProfile, Nothing)]
    <3>1. CASE StartWith(c, file, file, FALSE)
      BY <3>1 DEF StartWith
    <3>2. CASE file = Nothing /\ StartWith(c, DefaultProfile, Nothing, FALSE)
      BY <3>2 DEF StartWith
    <3> QED BY <1>4, <3>1, <3>2 DEF Start
  <2>2. settled'[c].durable = file
    BY <1>3, <2>1 DEF Fresh
  <2>3. disturbed' = disturbed
    BY <1>4 DEF IInv, TypeOK, Start, StartWith
  <2>4. ~disturbed => file = lastSwitch
    BY <1>2 DEF FileInv, FileIsLast
  <2> QED BY <1>1, <1>2, <1>3, <2>2, <2>3, <2>4 DEF FileInv, WrittenIsInFile, FileIsLast,
                                                   DurableIsLast
<1>5. CASE StartUnread(c)
  <2>1. disturbed'
    BY <1>5 DEF StartUnread, StartWith
  <2> QED BY <1>1, <1>2, <2>1 DEF FileInv, WrittenIsInFile, FileIsLast, DurableIsLast
<1> QED BY <1>4, <1>5

\* A crash in the middle of a switch disturbs the file; any other leaves it.
LEMMA FileCrash ==
  ASSUME IInv, FileInv, \A c, d \in Clients : c = d, NEW c \in Clients, Crash(c)
  PROVE  FileInv'
<1>1. running' = running \ {c} /\ UNCHANGED <<file, lastSwitch>>
      /\ requests' = [k \in Requests |->
           IF requests[k].client = c /\ requests[k].phase \notin Ended
           THEN EndedRequest(c, "over") ELSE requests[k]]
  BY DEF Crash
<1>2. \A k \in Requests : Written(requests[k]) => requests[k].client = c
  BY DEF IInv, Owned, At, Written
<1>3. \A k \in Requests : ~Written(requests'[k])
  <2>1. SUFFICES ASSUME NEW k \in Requests, Written(requests[k]) PROVE ~Written(requests'[k])
    BY <1>1, EndedNotWritten
  <2>2. requests'[k] = EndedRequest(c, "over")
    BY <1>1, <1>2, <2>1 DEF Written, Ended
  <2> QED BY <2>2, EndedNotWritten
<1>4. running' = {}
  BY <1>1 DEF IInv, TypeOK
<1>5. ~disturbed' => ~disturbed /\ \A k \in Requests : ~Written(requests[k])
  BY <1>2 DEF Crash, Written, IInv, TypeOK
<1> QED BY <1>1, <1>3, <1>4, <1>5 DEF FileInv, WrittenIsInFile, FileIsLast, DurableIsLast

LEMMA FileArrive ==
  ASSUME IInv, FileInv, NEW r \in Requests, NEW c \in Clients, NEW kind \in Kinds,
         NEW p \in Profiles, Arrive(r, c, kind, p)
  PROVE  FileInv'
<1> DEFINE x == Request(c, kind, p, "capturing")
<1>1. requests' = [requests EXCEPT ![r] = x] /\ At(r, "free")
      /\ UNCHANGED <<file, running, settled, lastSwitch, disturbed>>
  BY DEF Arrive, history
<1>2. ~Written(requests[r]) /\ ~Written(x)
  BY <1>1 DEF At, Written, Request
<1> QED BY <1>1, <1>2, FileKeptByRequest

LEMMA FileStep ==
  ASSUME \A c, d \in Clients : c = d
  PROVE  IInv /\ FileInv /\ [Next]_vars => FileInv'
<1> SUFFICES ASSUME IInv, FileInv, [Next]_vars PROVE FileInv'
  OBVIOUS
<1>1. ASSUME NEW r \in Requests, Progress(r) PROVE FileInv'
  BY <1>1, FileAside, FileAuditFails, FileSaved, FileAudited, FileUndone DEF Progress
<1>2. ASSUME NEW r \in Requests, Expire(r) PROVE FileInv'
  BY <1>2, FileKept DEF Expire, history
<1>3. ASSUME NEW c \in Clients, Start(c) \/ StartUnread(c) PROVE FileInv'
  BY <1>3, FileStart
<1>4. ASSUME NEW c \in Clients, Crash(c) PROVE FileInv'
  BY <1>4, FileCrash
<1>5. ASSUME NEW r \in Requests, NEW c \in Clients, NEW kind \in Kinds, NEW p \in Profiles,
             Arrive(r, c, kind, p)
      PROVE  FileInv'
  BY <1>5, FileArrive
<1>6. CASE UNCHANGED vars
  BY <1>6, FileKept DEF vars
<1> QED BY <1>1, <1>2, <1>3, <1>4, <1>5, <1>6 DEF Next

\* FileHoldsLastSwitch, for one process: what a fresh process restores is the
\* last switch that succeeded, whichever saves, audits and rollbacks failed
\* and whenever the process died.  Other processes write the same file without
\* regard to each other, so it does not hold for two.
THEOREM FileKeepsSwitch ==
  ASSUME \A c, d \in Clients : c = d
  PROVE  Spec => []FileHoldsLastSwitch
<1>1. Init => FileInv
  BY DEF Init, FileInv, WrittenIsInFile, FileIsLast, DurableIsLast, Written, Request
<1>2. IInv /\ FileInv /\ [Next]_vars => FileInv'
  BY FileStep
<1>3. FileInv => FileHoldsLastSwitch
  BY DEF FileInv, FileIsLast, FileHoldsLastSwitch, Written, Transition
<1> QED BY <1>1, <1>2, <1>3, Invariant, PTL DEF Spec
=============================================================================
