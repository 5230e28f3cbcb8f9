---------------------------- MODULE ApprovalsProofs ----------------------------
(***************************************************************************)
(* GrantIsEarned and DelegatedTrail for every set of operations and every  *)
(* bound.  The log of an approval that nobody handles is settled by its    *)
(* record (Settled); the head of the queue may have one approval in hand,  *)
(* whose log then is as far as the job is (InHand); what no job has        *)
(* created yet is as it was at first (Untouched).  So an approval can be   *)
(* claimed only where its record or its continuation is still there, and   *)
(* who claims it takes both away before the next await.                    *)
(***************************************************************************)
EXTENDS Approvals, SequenceTheorems, TLAPS

\* The head of the queue, or the job that comes next.
First == Len(jobs) - Len(queue) + 1
Handled == IF queue = <<>> THEN Nobody ELSE jobs[First].found
Transit == expiredTransitions \cup (IF queue = <<>> THEN {} ELSE jobs[First].writing)

\* The queue is what has arrived and is not done, in order.
Queued ==
  /\ Len(queue) <= Len(jobs)
  /\ \A i \in 1 .. Len(queue) : queue[i] = Len(jobs) - Len(queue) + i
  /\ \A j \in 1 .. Len(jobs) :
       /\ j < First <=> jobs[j].phase = "done"
       /\ j > First => jobs[j].phase = "queued"
       /\ jobs[j].phase \in {"queued", "expire", "failing"} => jobs[j].found = Nobody
       /\ jobs[j].phase \in {"queued", "record", "done"} => jobs[j].writing = {}
       /\ jobs[j].phase = "consume" => jobs[j].kind = "call"
       /\ jobs[j].phase \in {"request", "decide", "record"} => jobs[j].found # Nobody
       /\ j = First /\ jobs[j].phase # "queued" => expiredTransitions = {}

\* Which jobs there are, and what the stores may hold, by mode.
ByMode ==
  /\ \A j \in 1 .. Len(jobs) :
       /\ jobs[j].kind \notin {"call", "look"} => jobs[j].target \in Jobs
       /\ jobs[j].kind = "call" => jobs[j].target \in Bindings
  /\ mode = "form" =>
       /\ \A a \in Jobs : records[a].status \in {"none", "pending", "expired"}
       /\ \A j \in 1 .. Len(jobs) : jobs[j].kind \in {"call", "look", "accept", "decline"}
  /\ mode = "delegated" =>
       /\ continuations = {}
       /\ \A j \in 1 .. Len(jobs) : jobs[j].kind \in {"call", "look", "approve", "deny"}

\* What the log can say of an approval.
R == <<"requested">>
RA == <<"requested", "approved">>
RD == <<"requested", "denied">>
RE == <<"requested", "expired">>
RAC == <<"requested", "approved", "consumed">>
RAE == <<"requested", "approved", "expired">>
REA == <<"requested", "expired", "approved">>
RED == <<"requested", "expired", "denied">>
REE == <<"requested", "expired", "expired">>
REAC == <<"requested", "expired", "approved", "consumed">>
Trails ==
  IF mode = "delegated" THEN {<<>>, R, RA, RD, RE, RAC, RAE}
  ELSE {<<>>, R, RA, RD, RE, RAC, REA, RED, REE, REAC}

\* No job has created it yet.
Untouched(a) ==
  /\ records[a] = NoRecord /\ audit[a] = <<>>
  /\ a \notin continuations /\ a \notin Transit /\ a \notin revoked

\* What record and log say of an approval that nobody handles, whose expiry is on its way or not, whose
\* continuation is live or not, and which was revoked or not.
Tale(status, trail, moving, open, lost) ==
  /\ status = "pending" => trail = R
  /\ status = "approved" => trail = RA
  /\ status = "denied" => trail = RD
  /\ status = "consumed" => trail = RAC
  /\ status = "expired" => trail \in {R, RA, RE, RAE} /\ (trail \in {R, RA} => moving)
  /\ moving => status \in {"none", "expired"} /\ trail \in {R, RA} /\ (mode = "form" => trail = R)
  /\ open => trail \in {R, RE}
  /\ trail \in Trails
  /\ mode = "delegated" /\ status = "none" /\ trail \in {R, RA} => lost \/ moving
Settled(a) == Tale(records[a].status, audit[a], a \in Transit, a \in continuations, a \in revoked)

\* A call has claimed it, and created or found it for its operation.
Claims(a) ==
  /\ mode = "delegated" /\ jobs[First].kind = "call" /\ jobs[a].target = jobs[First].target
  /\ records[a].status = "consumed" /\ audit[a] = RA
Asks(a) ==
  /\ jobs[First].kind = "call"
  /\ records[a].status = "pending"
  /\ jobs[First].created <=> a = First
  /\ IF a = First THEN audit[a] = <<>> /\ a \notin continuations ELSE audit[a] = R
  /\ a \in continuations => audit[a] = R
Rules(a) ==
  /\ mode = "delegated"
  /\ records[a].status = IF jobs[First].kind = "approve" THEN "approved" ELSE "denied"
  /\ jobs[First].kind \in {"approve", "deny"} /\ audit[a] = R
\* A person has answered for it, so its record and its continuation are gone.
Answers(a, events) ==
  /\ mode = "form" /\ records[a].status = "none" /\ a \notin continuations
  /\ \/ events \in {<<"expired">>, <<"denied">>} /\ jobs[First].outcome = "refused" /\ audit[a] \in {R, RE}
     \/ events = <<"approved", "consumed">> /\ jobs[First].outcome = "granted" /\ audit[a] \in {R, RE}
     \/ events = <<"consumed">> /\ jobs[First].outcome = "granted" /\ audit[a] \in {RA, REA}
  /\ jobs[First].kind \in {"accept", "decline"}
Recording(a, events) ==
  \/ Claims(a) /\ events = <<"consumed">> /\ jobs[First].outcome = "granted"
  \/ /\ jobs[First].kind = "call" /\ records[a].status = "pending" /\ audit[a] = <<>> /\ a = First
     /\ events = <<"requested">> /\ jobs[First].outcome = "required"
  \/ /\ Rules(a) /\ jobs[First].outcome = "decided"
     /\ events = IF jobs[First].kind = "approve" THEN <<"approved">> ELSE <<"denied">>
  \/ Answers(a, events)

\* The head of the queue handles it.
InHand(a) ==
  /\ a \notin Transit /\ a <= First
  /\ CASE jobs[First].phase = "consume" -> Claims(a)
       [] jobs[First].phase = "request" -> Asks(a)
       [] jobs[First].phase = "decide" -> Rules(a)
       [] jobs[First].phase = "record" -> Recording(a, jobs[First].events)
       [] OTHER -> FALSE

Stories ==
  \A a \in Jobs :
    IF a = Handled THEN InHand(a) ELSE IF a < First THEN Settled(a) ELSE Untouched(a)

\* An approval has the operation of the call that created it.
Bindings1 == \A a \in Jobs : records[a].status # "none" => a <= Len(jobs) /\ records[a].binding = jobs[a].target

\* A call that was let through has its approval for itself, and nobody can claim it again.
Grants ==
  \A j \in 1 .. Len(jobs) : Granted(j) =>
    LET a == jobs[j].found IN
    /\ a \in Jobs /\ a # Handled /\ a < First
    /\ a \notin continuations /\ a \notin Transit
    /\ records[a].status \in {"none", "consumed"}
    /\ audit[a] \in {RAC, REAC}
    /\ jobs[j].kind = "call" => jobs[a].target = jobs[j].target
    /\ \A k \in 1 .. Len(jobs) : Granted(k) /\ jobs[k].found = a => k = j

IInv == TypeOK /\ Queued /\ ByMode /\ Stories /\ Bindings1 /\ Grants

---------------------------------------------------------------------------
(* What the log says.                                                      *)

LEMMA SameSeq ==
  ASSUME NEW S, NEW s \in Seq(S), NEW t \in Seq(S), Len(s) = Len(t), \A i \in 1 .. Len(s) : s[i] = t[i]
  PROVE  s = t
OBVIOUS
LEMMA AppendIs ==
  ASSUME NEW S, NEW s \in Seq(S), NEW t \in Seq(S), NEW x \in S,
         Len(t) = Len(s) + 1, t[Len(t)] = x, \A i \in 1 .. Len(s) : t[i] = s[i]
  PROVE  Append(s, x) = t
<1>1. Append(s, x) \in Seq(S) /\ Len(Append(s, x)) = Len(s) + 1 /\ Append(s, x)[Len(s) + 1] = x
  BY AppendProperties
<1>2. \A i \in 1 .. Len(s) : Append(s, x)[i] = s[i]
  BY AppendProperties
<1>3. \A i \in 1 .. Len(t) : Append(s, x)[i] = t[i]
  BY <1>1, <1>2
<1> QED
  BY <1>1, <1>3, SameSeq
LEMMA Append0 == ASSUME NEW x PROVE Append(<<>>, x) = <<x>>
OBVIOUS
LEMMA Append1 == ASSUME NEW a, NEW x PROVE Append(<<a>>, x) = <<a, x>>
<1> DEFINE s == <<a>>
           t == <<a, x>>
<1>1. s \in Seq({a, x}) /\ t \in Seq({a, x}) /\ Len(s) = 1 /\ Len(t) = 2 /\ s[1] = a /\ t[1] = a /\ t[2] = x
  OBVIOUS
<1> HIDE DEF s, t
<1>2. Append(s, x) = t
  BY <1>1, AppendIs
<1> QED
  BY <1>2 DEF s, t
LEMMA Append2 == ASSUME NEW a, NEW b, NEW x PROVE Append(<<a, b>>, x) = <<a, b, x>>
<1> DEFINE S == {a, b, x}
           s == <<a, b>>
           t == <<a, b, x>>
<1>1. s \in Seq(S) /\ t \in Seq(S) /\ x \in S /\ Len(s) = 2 /\ Len(t) = 3
  OBVIOUS
<1>2. s[1] = a /\ s[2] = b /\ t[1] = a /\ t[2] = b /\ t[3] = x
  OBVIOUS
<1> HIDE DEF S, s, t
<1>3. \A i \in 1 .. Len(s) : i = 1 \/ i = 2
  BY <1>1
<1>4. \A i \in 1 .. Len(s) : t[i] = s[i]
  BY <1>3, <1>2
<1>5. Len(t) = Len(s) + 1 /\ t[Len(t)] = x
  BY <1>1, <1>2
<1>6. Append(s, x) = t
  BY <1>1, <1>4, <1>5, AppendIs, ZenonT(30)
<1> QED
  BY <1>6 DEF s, t
LEMMA Append3 == ASSUME NEW a, NEW b, NEW c, NEW x PROVE Append(<<a, b, c>>, x) = <<a, b, c, x>>
<1> DEFINE S == {a, b, c, x}
           s == <<a, b, c>>
           t == <<a, b, c, x>>
<1>1. s \in Seq(S) /\ t \in Seq(S) /\ x \in S /\ Len(s) = 3 /\ Len(t) = 4
  OBVIOUS
<1>2. s[1] = a /\ s[2] = b /\ s[3] = c /\ t[1] = a /\ t[2] = b /\ t[3] = c /\ t[4] = x
  OBVIOUS
<1> HIDE DEF S, s, t
<1>3. \A i \in 1 .. Len(s) : i = 1 \/ i = 2 \/ i = 3
  BY <1>1
<1>4. \A i \in 1 .. Len(s) : t[i] = s[i]
  BY <1>3, <1>2
<1>5. Len(t) = Len(s) + 1 /\ t[Len(t)] = x
  BY <1>1, <1>2
<1>6. Append(s, x) = t
  BY <1>1, <1>4, <1>5, AppendIs, ZenonT(30)
<1> QED
  BY <1>6 DEF s, t
LEMMA Longer ==
  /\ Append(<<>>, "requested") = R
  /\ Append(R, "approved") = RA /\ Append(R, "denied") = RD /\ Append(R, "expired") = RE
  /\ Append(RA, "consumed") = RAC /\ Append(RA, "expired") = RAE
  /\ Append(RE, "approved") = REA /\ Append(RE, "denied") = RED /\ Append(RE, "expired") = REE
  /\ Append(REA, "consumed") = REAC
BY Append0, Append1, Append2, Append3, ZenonT(30) DEF R, RA, RD, RE, RAC, RAE, REA, RED, REE, REAC

LEMMA Unlike ==
  /\ R \notin {<<>>, RA, RD, RE, RAC, RAE, REA, RED, REE, REAC}
  /\ RA \notin {<<>>, R, RD, RE, RAC, RAE, REA, RED, REE, REAC}
  /\ RE \notin {<<>>, R, RA, RD, RAC, RAE, REA, RED, REE, REAC}
  /\ RAC \notin {<<>>, R, RA, RD, RE, RAE, REAC}
  /\ REAC \notin {<<>>, R, RA, RD, RE, RAC, RAE, REA, RED, REE}
<1>1. R \notin {<<>>, RA, RD, RE, RAC, RAE, REA, RED, REE, REAC}
  BY DEF R, RA, RD, RE, RAC, RAE, REA, RED, REE, REAC
<1>2. RA \notin {<<>>, R, RD, RE, RAC, RAE, REA, RED, REE, REAC}
  BY DEF R, RA, RD, RE, RAC, RAE, REA, RED, REE, REAC
<1>3. RE \notin {<<>>, R, RA, RD, RAC, RAE, REA, RED, REE, REAC}
  BY DEF R, RA, RD, RE, RAC, RAE, REA, RED, REE, REAC
<1>4. RAC \notin {<<>>, R, RA, RD, RE, RAE, REAC}
  BY DEF R, RA, RD, RE, RAC, RAE, REA, RED, REE, REAC
<1>5. REAC \notin {<<>>, R, RA, RD, RE, RAC, RAE, REA, RED, REE}
  BY DEF R, RA, RD, RE, RAC, RAE, REA, RED, REE, REAC
<1> QED
  BY <1>1, <1>2, <1>3, <1>4, <1>5
LEMMA Distinct ==
  /\ \A t \in {<<>>, RD, RE, RAC, RAE, REA, RED, REE, REAC} : t \notin {R, RA}
  /\ R # RA /\ \A t \in {RAC, REAC, <<>>, RA, RD} : t \notin {R, RE}
  /\ \A t \in {RAC, REAC} : t \notin {<<>>, R, RA, RE, RAE, RD}
BY Unlike

---------------------------------------------------------------------------
(* What a step does to the queue and its jobs.                             *)

JobSet == [kind : Kinds, target : Bindings \cup Jobs \cup {Nobody},
           phase : {"queued", "expire", "consume", "request", "failing", "decide", "record", "done"},
           writing : SUBSET Jobs, found : Jobs \cup {Nobody}, created : BOOLEAN,
           late : BOOLEAN, fresh : SUBSET Jobs, events : Seq(Events),
           outcome : {"none", "granted", "refused", "required", "decided"}]
RecordSet == [status : {"none", "pending", "approved", "denied", "consumed", "expired"},
              binding : Bindings \cup {Nobody}, bearers : 0 .. MaxBearers]
Phases == {"expire", "consume", "request", "failing", "decide", "record"}

LEMMA Typed == TypeOK => jobs \in Seq(JobSet) /\ records \in [Jobs -> RecordSet]
BY DEF TypeOK, JobSet, RecordSet

LEMMA NewJobs ==
  ASSUME NEW kind \in Kinds, NEW target \in Bindings \cup Jobs \cup {Nobody}, NEW late \in BOOLEAN
  PROVE  NewJob(kind, target) \in JobSet /\ [NewJob(kind, target) EXCEPT !.late = late] \in JobSet
<1>1. <<>> \in Seq(Events)
  OBVIOUS
<1> QED
  BY <1>1 DEF NewJob, JobSet

LEMMA ExceptSeqs ==
  ASSUME NEW S, NEW s \in Seq(S), NEW i \in 1 .. Len(s), NEW x \in S
  PROVE  /\ [s EXCEPT ![i] = x] \in Seq(S) /\ Len([s EXCEPT ![i] = x]) = Len(s)
         /\ [s EXCEPT ![i] = x][i] = x
         /\ \A k \in 1 .. Len(s) : k # i => [s EXCEPT ![i] = x][k] = s[k]
BY ExceptSeq

\* The head of the queue is First.
LEMMA HeadIsFirst ==
  ASSUME TypeOK, Queued, queue # <<>>
  PROVE  /\ Head(queue) = First /\ First \in 1 .. Len(jobs) /\ First \in Jobs
         /\ Handled = jobs[First].found /\ jobs[First] \in JobSet
         /\ Transit = expiredTransitions \cup jobs[First].writing
<1>1. Len(queue) \in Nat \ {0} /\ Len(jobs) \in Nat /\ Head(queue) = queue[1] /\ queue[1] \in Jobs
  BY ElementOfSeq DEF TypeOK
<1>2. First \in 1 .. Len(jobs) /\ queue[1] = First
  BY <1>1 DEF Queued, First
<1> QED
  BY <1>1, <1>2, Typed, ElementOfSeq DEF Handled, Transit

LEMMA FirstIsNumber == ASSUME TypeOK, Queued PROVE First \in Nat /\ Len(jobs) \in Nat /\ First <= Len(jobs) + 1 /\ First >= 1
<1>1. Len(queue) \in Nat /\ Len(jobs) \in Nat
  BY DEF TypeOK
<1> QED
  BY <1>1 DEF Queued, First

\* The head of the queue becomes x and stays the head.
Stays(x) ==
  /\ queue' = queue /\ jobs' \in Seq(JobSet) /\ Len(jobs') = Len(jobs)
  /\ First' = First /\ Handled' = x.found
  /\ Transit' = expiredTransitions' \cup x.writing
  /\ jobs'[First] = x
  /\ \A i \in 1 .. Len(jobs) : i # First => jobs'[i] = jobs[i]

LEMMA StaysEffect ==
  ASSUME TypeOK, Queued, queue # <<>>, NEW x \in JobSet, jobs' = [jobs EXCEPT ![First] = x], queue' = queue
  PROVE  Stays(x)
<1>1. jobs \in Seq(JobSet) /\ First \in 1 .. Len(jobs)
  BY Typed, HeadIsFirst
<1>2. /\ jobs' \in Seq(JobSet) /\ Len(jobs') = Len(jobs) /\ jobs'[First] = x
      /\ \A i \in 1 .. Len(jobs) : i # First => jobs'[i] = jobs[i]
  BY <1>1, ExceptSeqs
<1>3. First' = First
  BY <1>2 DEF First
<1> QED
  BY <1>2, <1>3 DEF Stays, Handled, Transit

LEMMA StaysQueued ==
  ASSUME TypeOK, Queued, queue # <<>>, NEW x \in JobSet, Stays(x), x.phase \in Phases,
         x.phase \in {"expire", "failing"} => x.found = Nobody, x.phase = "record" => x.writing = {}, x.phase = "consume" => x.kind = "call",
         x.phase \in {"request", "decide", "record"} => x.found # Nobody,
         expiredTransitions' = {}
  PROVE  Queued'
<1>1. Len(jobs) \in Nat /\ First \in 1 .. Len(jobs) /\ First \in Nat
  BY FirstIsNumber, HeadIsFirst
<1>2. \A j \in 1 .. Len(jobs') :
        /\ j < First' <=> jobs'[j].phase = "done"
        /\ j > First' => jobs'[j].phase = "queued"
        /\ jobs'[j].phase \in {"queued", "expire", "failing"} => jobs'[j].found = Nobody
        /\ jobs'[j].phase \in {"queued", "record", "done"} => jobs'[j].writing = {}
        /\ jobs'[j].phase = "consume" => jobs'[j].kind = "call"
        /\ jobs'[j].phase \in {"request", "decide", "record"} => jobs'[j].found # Nobody
        /\ j = First' /\ jobs'[j].phase # "queued" => expiredTransitions' = {}
  <2> TAKE j \in 1 .. Len(jobs')
  <2>1. CASE j = First
    BY <1>1, <2>1 DEF Stays, Phases
  <2>2. CASE j # First
    BY <1>1, <2>2 DEF Stays, Queued
  <2> QED
    BY <2>1, <2>2
<1>3. Len(queue') <= Len(jobs') /\ \A i \in 1 .. Len(queue') : queue'[i] = Len(jobs') - Len(queue') + i
  BY DEF Stays, Queued
<1> QED
  BY <1>2, <1>3 DEF Queued

\* The head of the queue ends as x.
Leaves(x) ==
  /\ jobs' \in Seq(JobSet) /\ Len(jobs') = Len(jobs) /\ queue' \in Seq(Jobs)
  /\ First' = First + 1 /\ Handled' = Nobody
  /\ Transit' = expiredTransitions'
  /\ jobs'[First] = x
  /\ \A i \in 1 .. Len(jobs) : i # First => jobs'[i] = jobs[i]

LEMMA LeavesEffect ==
  ASSUME TypeOK, Queued, queue # <<>>, NEW x \in JobSet, jobs' = [jobs EXCEPT ![First] = x], queue' = Tail(queue),
         x.phase = "done", x.writing = {}
  PROVE  Leaves(x) /\ Queued'
<1>1. jobs \in Seq(JobSet) /\ First \in 1 .. Len(jobs) /\ Len(jobs) \in Nat /\ Len(queue) \in Nat \ {0}
      /\ queue \in Seq(Jobs) /\ First = Len(jobs) - Len(queue) + 1
  <2>1. jobs \in Seq(JobSet) /\ First \in 1 .. Len(jobs) /\ queue \in Seq(Jobs)
    BY Typed, HeadIsFirst DEF TypeOK
  <2>2. Len(jobs) \in Nat /\ Len(queue) \in Nat \ {0}
    BY <2>1
  <2> QED
    BY <2>1, <2>2 DEF First
<1>2. /\ jobs' \in Seq(JobSet) /\ Len(jobs') = Len(jobs) /\ jobs'[First] = x
      /\ \A i \in 1 .. Len(jobs) : i # First => jobs'[i] = jobs[i]
  BY <1>1, ExceptSeqs
<1>3. queue' \in Seq(Jobs) /\ Len(queue') = Len(queue) - 1 /\ \A i \in 1 .. Len(queue') : queue'[i] = queue[i + 1]
  BY <1>1, HeadTailProperties
<1>4. First' = First + 1
  BY <1>1, <1>2, <1>3 DEF First
<1>5. queue' # <<>> => First + 1 \in 1 .. Len(jobs) /\ jobs'[First + 1].phase = "queued"
  <2> HAVE queue' # <<>>
  <2>1. Len(queue') # 0
    BY <1>3
  <2>2. First + 1 \in 1 .. Len(jobs)
    BY <1>1, <1>3, <2>1
  <2> QED
    <3>1. jobs[First + 1].phase = "queued"
      BY <1>1, <2>2 DEF Queued
    <3>2. jobs'[First + 1] = jobs[First + 1]
      BY <1>1, <1>2, <2>2
    <3> QED
      BY <2>2, <3>1, <3>2
<1>6. \A j \in 1 .. Len(jobs') :
        /\ j < First' <=> jobs'[j].phase = "done"
        /\ j > First' => jobs'[j].phase = "queued"
        /\ jobs'[j].phase \in {"queued", "expire", "failing"} => jobs'[j].found = Nobody
        /\ jobs'[j].phase \in {"queued", "record", "done"} => jobs'[j].writing = {}
        /\ jobs'[j].phase = "consume" => jobs'[j].kind = "call"
        /\ jobs'[j].phase \in {"request", "decide", "record"} => jobs'[j].found # Nobody
        /\ j = First' /\ jobs'[j].phase # "queued" => expiredTransitions' = {}
  <2> TAKE j \in 1 .. Len(jobs')
  <2>1. CASE j = First
    BY <1>1, <1>2, <1>4, <2>1
  <2>2. CASE j # First
    BY <1>1, <1>2, <1>4, <2>2 DEF Queued
  <2> QED
    BY <2>1, <2>2
<1>7. Len(queue') <= Len(jobs') /\ \A i \in 1 .. Len(queue') : queue'[i] = Len(jobs') - Len(queue') + i
  BY <1>1, <1>2, <1>3 DEF Queued
<1>8. Queued'
  BY <1>6, <1>7 DEF Queued
<1>9. queue' # <<>> => jobs'[First + 1].found = Nobody /\ jobs'[First + 1].writing = {}
  BY <1>2, <1>5, <1>6
<1> QED
  BY <1>2, <1>3, <1>4, <1>8, <1>9 DEF Leaves, Handled, Transit


\* The head goes on, or ends, with its kind and target, and the other jobs stay as they are.
Others ==
  /\ jobs' \in Seq(JobSet) /\ Len(jobs') = Len(jobs) /\ queue' \in Seq(Jobs) /\ Queued'
  /\ jobs'[First].kind = jobs[First].kind /\ jobs'[First].target = jobs[First].target
  /\ \A i \in 1 .. Len(jobs) : i # First => jobs'[i] = jobs[i]
GoesOn(phase, found) ==
  /\ Others /\ First' = First /\ Handled' = found
  /\ jobs'[First].phase = phase /\ jobs'[First].found = found
IsOver(outcome) ==
  /\ Others /\ First' = First + 1 /\ Handled' = Nobody /\ Transit' = expiredTransitions'
  /\ jobs'[First].phase = "done" /\ jobs'[First].found = jobs[First].found /\ jobs'[First].outcome = outcome
Outcomes == {"granted", "refused", "required", "decided"}

LEMMA Heads ==
  ASSUME TypeOK, Queued, NEW j, NEW p, Running(j, p)
  PROVE  /\ queue # <<>> /\ j = First /\ jobs[First].phase = p /\ jobs[First].writing = {}
         /\ First \in Jobs /\ First \in 1 .. Len(jobs) /\ jobs[First] \in JobSet
         /\ Handled = jobs[First].found /\ Transit = expiredTransitions
         /\ p # "queued" => expiredTransitions = {}
         /\ p \in {"queued", "expire", "failing"} => Handled = Nobody
<1>1. queue # <<>> /\ j = First /\ jobs[First].phase = p /\ jobs[First].writing = {}
  BY HeadIsFirst DEF Running
<1>2. First \in Jobs /\ First \in 1 .. Len(jobs) /\ jobs[First] \in JobSet /\ Handled = jobs[First].found
  BY <1>1, HeadIsFirst
<1>3. Transit = expiredTransitions
  BY <1>1, HeadIsFirst
<1> QED
  BY <1>1, <1>2, <1>3 DEF Queued

LEMMA ExpiresEffect ==
  ASSUME TypeOK, Queued, NEW j, NEW p, Running(j, p),
         NEW phase \in Phases \ {"record"}, NEW found \in Jobs \cup {Nobody}, NEW created \in BOOLEAN,
         phase \in {"expire", "failing"} => found = Nobody, phase = "consume" => jobs[j].kind = "call",
         phase \in {"request", "decide"} => found # Nobody,
         Expires(j, phase, found, created)
  PROVE  /\ GoesOn(phase, found) /\ Transit' = Transit \cup Expiring /\ expiredTransitions' = {}
         /\ jobs'[First].created = created
<1> DEFINE x1 == [jobs[First] EXCEPT !.phase = phase]
           x2 == [x1 EXCEPT !.found = found]
           x3 == [x2 EXCEPT !.created = created]
           x4 == [x3 EXCEPT !.fresh = Expiring]
           x5 == [x4 EXCEPT !.writing = expiredTransitions \cup Expiring]
<1>1. queue # <<>> /\ j = First /\ jobs[First] \in JobSet /\ First \in 1 .. Len(jobs) /\ Transit = expiredTransitions
  BY Heads
<1>2. x1 \in JobSet /\ x1.phase = phase /\ x1.kind = jobs[First].kind /\ x1.target = jobs[First].target
  BY <1>1 DEF JobSet, Phases
<1> HIDE DEF x1
<1>3. x2 \in JobSet /\ x2.found = found /\ x2.phase = x1.phase /\ x2.kind = x1.kind /\ x2.target = x1.target
  BY <1>2 DEF JobSet
<1> HIDE DEF x2
<1>4. /\ x3 \in JobSet /\ x3.found = x2.found /\ x3.phase = x2.phase /\ x3.kind = x2.kind /\ x3.target = x2.target
      /\ x3.created = created
  BY <1>3 DEF JobSet
<1> HIDE DEF x3
<1>5. /\ x4 \in JobSet /\ x4.found = x3.found /\ x4.phase = x3.phase /\ x4.kind = x3.kind /\ x4.target = x3.target
      /\ x4.created = x3.created
  BY <1>4 DEF JobSet, Expiring
<1> HIDE DEF x4
<1>6. /\ x5 \in JobSet /\ x5.found = x4.found /\ x5.phase = x4.phase /\ x5.kind = x4.kind /\ x5.target = x4.target
      /\ x5.created = x4.created /\ x5.writing = expiredTransitions \cup Expiring
  BY <1>5 DEF JobSet, Expiring, TypeOK
<1>7. jobs' = [jobs EXCEPT ![First] = x5]
  BY <1>1 DEF Expires, x1, x2, x3, x4
<1> HIDE DEF x5
<1>8. Stays(x5)
  BY <1>1, <1>6, <1>7, StaysEffect DEF Expires
<1>9. Queued'
  BY <1>1, <1>2, <1>3, <1>4, <1>5, <1>6, <1>8, StaysQueued DEF Expires
<1> QED
  BY <1>1, <1>2, <1>3, <1>4, <1>5, <1>6, <1>8, <1>9 DEF Stays, GoesOn, Others, Expires, TypeOK

LEMMA RecordsEffect ==
  ASSUME TypeOK, Queued, NEW j, NEW p, Running(j, p), p # "queued",
         NEW a \in Jobs, NEW events \in Seq(Events), NEW outcome \in Outcomes,
         Records(j, a, events, outcome), expiredTransitions' = expiredTransitions
  PROVE  /\ GoesOn("record", a) /\ Transit' = {} /\ Transit = {}
         /\ jobs'[First].events = events /\ jobs'[First].outcome = outcome
<1> DEFINE x1 == [jobs[First] EXCEPT !.phase = "record"]
           x2 == [x1 EXCEPT !.found = a]
           x3 == [x2 EXCEPT !.events = events]
           x4 == [x3 EXCEPT !.outcome = outcome]
<1>1. /\ queue # <<>> /\ j = First /\ jobs[First] \in JobSet /\ First \in 1 .. Len(jobs)
      /\ Transit = {} /\ expiredTransitions = {} /\ jobs[First].writing = {}
  BY Heads
<1>2. /\ x1 \in JobSet /\ x1.phase = "record" /\ x1.kind = jobs[First].kind /\ x1.target = jobs[First].target
      /\ x1.writing = {}
  BY <1>1 DEF JobSet
<1> HIDE DEF x1
<1>3. /\ x2 \in JobSet /\ x2.found = a /\ x2.phase = x1.phase /\ x2.kind = x1.kind /\ x2.target = x1.target
      /\ x2.writing = {}
  BY <1>2 DEF JobSet
<1> HIDE DEF x2
<1>4. /\ x3 \in JobSet /\ x3.found = x2.found /\ x3.phase = x2.phase /\ x3.kind = x2.kind /\ x3.target = x2.target
      /\ x3.writing = {} /\ x3.events = events
  BY <1>3 DEF JobSet
<1> HIDE DEF x3
<1>5. /\ x4 \in JobSet /\ x4.found = x3.found /\ x4.phase = x3.phase /\ x4.kind = x3.kind /\ x4.target = x3.target
      /\ x4.writing = {} /\ x4.events = x3.events /\ x4.outcome = outcome
  BY <1>4 DEF JobSet, Outcomes
<1>6. jobs' = [jobs EXCEPT ![First] = x4]
  BY <1>1 DEF Records, x1, x2, x3
<1> HIDE DEF x4
<1>7. Stays(x4)
  BY <1>1, <1>5, <1>6, StaysEffect DEF Records
<1>8. Queued'
  BY <1>1, <1>2, <1>3, <1>4, <1>5, <1>7, StaysQueued DEF Phases, Jobs, Nobody
<1> QED
  BY <1>1, <1>2, <1>3, <1>4, <1>5, <1>7, <1>8 DEF Stays, GoesOn, Others, TypeOK

LEMMA EndsEffect ==
  ASSUME TypeOK, Queued, queue # <<>>, NEW j, j = Head(queue), NEW outcome \in Outcomes, Ends(j, outcome)
  PROVE  IsOver(outcome)
<1> DEFINE x0 == NewJob(jobs[First].kind, jobs[First].target)
           x1 == [x0 EXCEPT !.phase = "done"]
           x2 == [x1 EXCEPT !.found = jobs[First].found]
           x3 == [x2 EXCEPT !.outcome = outcome]
<1>1. j = First /\ jobs[First] \in JobSet /\ First \in 1 .. Len(jobs)
  BY HeadIsFirst
<1>2. x0 \in JobSet /\ x0.kind = jobs[First].kind /\ x0.target = jobs[First].target /\ x0.writing = {}
  BY <1>1, NewJobs DEF JobSet, NewJob
<1> HIDE DEF x0
<1>3. x1 \in JobSet /\ x1.phase = "done" /\ x1.kind = x0.kind /\ x1.target = x0.target /\ x1.writing = {}
  BY <1>2 DEF JobSet
<1> HIDE DEF x1
<1>4. /\ x2 \in JobSet /\ x2.found = jobs[First].found /\ x2.phase = x1.phase /\ x2.kind = x1.kind
      /\ x2.target = x1.target /\ x2.writing = {}
  BY <1>1, <1>3 DEF JobSet
<1> HIDE DEF x2
<1>5. /\ x3 \in JobSet /\ x3.found = x2.found /\ x3.phase = x2.phase /\ x3.kind = x2.kind
      /\ x3.target = x2.target /\ x3.writing = {} /\ x3.outcome = outcome
  BY <1>4 DEF JobSet, Outcomes
<1>6. jobs' = [jobs EXCEPT ![First] = x3] /\ queue' = Tail(queue)
  BY <1>1 DEF Ends, Done, x0, x1, x2
<1> HIDE DEF x3
<1>7. Leaves(x3) /\ Queued'
  BY <1>3, <1>4, <1>5, <1>6, LeavesEffect
<1> QED
  BY <1>1, <1>2, <1>3, <1>4, <1>5, <1>7 DEF Leaves, IsOver, Others


---------------------------------------------------------------------------
(* What a step does to the records.                                        *)

LEMMA NobodyIsNone == Nobody \notin Jobs
BY DEF Jobs, Nobody

LEMMA ModeIs == ASSUME TypeOK PROVE mode \in {"form", "delegated"}
BY ApprovalsAssumption DEF TypeOK

LEMMA RecordTypes ==
  ASSUME TypeOK
  PROVE  /\ NoRecord \in RecordSet
         /\ Expired \in [Jobs -> RecordSet] /\ Undiscarded(Expired) \in [Jobs -> RecordSet]
         /\ \A r \in [Jobs -> RecordSet] : \A a : Without(r, a) \in [Jobs -> RecordSet]
<1>1. NoRecord \in RecordSet
  BY ApprovalsAssumption DEF NoRecord, RecordSet
<1>2. \A r \in RecordSet : [r EXCEPT !.status = "expired"] \in RecordSet
  BY DEF RecordSet
<1>3. Expired \in [Jobs -> RecordSet]
  BY <1>2, Typed DEF Expired
<1> QED
  BY <1>1, <1>3 DEF Undiscarded, Without

LEMMA ExpiredFacts ==
  ASSUME TypeOK, NEW a \in Jobs
  PROVE  /\ Expired[a].binding = records[a].binding /\ Expired[a].bearers = records[a].bearers
         /\ a \in Expiring => records[a].status \in {"pending", "approved"} /\ Expired[a].status = "expired"
         /\ a \notin Expiring => Expired[a] = records[a]
         /\ Expired[a].status = "none" <=> records[a].status = "none"
<1>1. records[a] \in RecordSet
  BY Typed
<1>2. a \in Expiring => records[a].status \in {"pending", "approved"}
  BY DEF Expiring, Live
<1>3. Expired[a] = IF a \in Expiring THEN [records[a] EXCEPT !.status = "expired"] ELSE records[a]
  BY DEF Expired
<1> QED
  BY <1>1, <1>2, <1>3 DEF RecordSet

LEMMA WithoutFacts ==
  ASSUME NEW r, NEW x, NEW a \in Jobs
  PROVE  Without(r, x)[a] = (IF a = x THEN NoRecord ELSE r[a]) /\ NoRecord.status = "none"
BY DEF Without, NoRecord

\* The stories, once the store has marked what is due.
LEMMA ExpiredStories ==
  ASSUME IInv, Handled = Nobody, NEW a \in Jobs
  PROVE  /\ a < First => Tale(Expired[a].status, audit[a], a \in Transit \cup Expiring, a \in continuations, a \in revoked)
         /\ ~(a < First) => /\ Expired[a] = NoRecord /\ audit[a] = <<>> /\ a \notin continuations
                            /\ a \notin Transit \cup Expiring /\ a \notin revoked
<1>1. TypeOK /\ a # Handled
  BY DEF IInv, Jobs, Nobody
<1>2. a < First => Settled(a)
  BY <1>1 DEF IInv, Stories
<1>3. ~(a < First) => Untouched(a)
  BY <1>1 DEF IInv, Stories
<1>4. ASSUME a < First PROVE Tale(Expired[a].status, audit[a], a \in Transit \cup Expiring, a \in continuations, a \in revoked)
  <2>1. CASE a \in Expiring
    <3>1. records[a].status \in {"pending", "approved"} /\ Expired[a].status = "expired"
      BY <1>1, <2>1, ExpiredFacts
    <3>2. a \notin Transit
      BY <1>2, <1>4, <3>1 DEF Settled, Tale
    <3>3. mode = "form" => records[a].status = "pending"
      BY <3>1 DEF IInv, ByMode
    <3>4. Tale(records[a].status, audit[a], FALSE, a \in continuations, a \in revoked)
      BY <1>2, <1>4, <3>2 DEF Settled, Tale
    <3>5. Tale("expired", audit[a], TRUE, a \in continuations, a \in revoked)
      BY <1>1, <3>1, <3>3, <3>4, ModeIs, Distinct DEF Tale
    <3> QED
      BY <2>1, <3>1, <3>5
  <2>2. CASE a \notin Expiring
    BY <1>1, <1>2, <1>4, <2>2, ExpiredFacts DEF Settled
  <2> QED
    BY <2>1, <2>2
<1>5. ASSUME ~(a < First) PROVE Expired[a] = NoRecord /\ a \notin Expiring
  BY <1>1, <1>3, <1>5, ExpiredFacts DEF Untouched, NoRecord
<1> QED
  BY <1>3, <1>4, <1>5 DEF Untouched

---------------------------------------------------------------------------
(* What a step leaves as it was.                                           *)

Closed(a) ==
  /\ a # Handled /\ a < First /\ a \notin continuations /\ a \notin Transit
  /\ records[a].status \in {"none", "consumed"} /\ audit[a] \in {RAC, REAC}

LEMMA GrantsKept ==
  ASSUME TypeOK, Queued, Grants, Others, First \in 1 .. Len(jobs),
         jobs'[First].phase = "done" => jobs'[First].outcome # "granted",
         \A a \in Jobs : Closed(a) => Closed(a)'
  PROVE  Grants'
<1> SUFFICES ASSUME NEW j \in 1 .. Len(jobs'), Granted(j)', NEW a, a = jobs'[j].found
             PROVE  /\ a \in Jobs /\ Closed(a)'
                    /\ jobs'[j].kind = "call" => jobs'[a].target = jobs'[j].target
                    /\ \A k \in 1 .. Len(jobs') : Granted(k)' /\ jobs'[k].found = a => k = j
  BY DEF Grants, Closed
<1>1. Len(jobs') = Len(jobs) /\ j # First /\ jobs'[j] = jobs[j] /\ Granted(j)
  BY DEF Others, Granted
<1>2. /\ a \in Jobs /\ Closed(a)
      /\ jobs[j].kind = "call" => jobs[a].target = jobs[j].target
      /\ \A k \in 1 .. Len(jobs) : Granted(k) /\ jobs[k].found = a => k = j
  BY <1>1 DEF Grants, Closed
<1>3. a \in 1 .. Len(jobs)
  BY <1>2, FirstIsNumber DEF Closed, Jobs
<1>4. jobs'[a].target = jobs[a].target
  BY <1>3 DEF Others
<1>5. \A k \in 1 .. Len(jobs') : Granted(k)' => Granted(k) /\ jobs'[k].found = jobs[k].found
  BY DEF Others, Granted
<1> QED
  BY <1>1, <1>2, <1>4, <1>5

LEMMA GrantsGrow ==
  ASSUME TypeOK, Queued, Grants, Others, First \in 1 .. Len(jobs),
         jobs'[First].phase = "done", jobs'[First].outcome = "granted",
         \A a \in Jobs : Closed(a) => Closed(a)',
         NEW b \in Jobs, b = Handled, b = jobs'[First].found, Closed(b)',
         b \in 1 .. Len(jobs), jobs[First].kind = "call" => jobs[b].target = jobs[First].target
  PROVE  Grants'
<1> SUFFICES ASSUME NEW j \in 1 .. Len(jobs'), Granted(j)', NEW a, a = jobs'[j].found
             PROVE  /\ a \in Jobs /\ Closed(a)'
                    /\ jobs'[j].kind = "call" => jobs'[a].target = jobs'[j].target
                    /\ \A k \in 1 .. Len(jobs') : Granted(k)' /\ jobs'[k].found = a => k = j
  BY DEF Grants, Closed
<1>1. \A k \in 1 .. Len(jobs') : k # First /\ Granted(k)' =>
        k \in 1 .. Len(jobs) /\ jobs'[k] = jobs[k] /\ Granted(k)
  BY DEF Others, Granted
<1>2. \A k \in 1 .. Len(jobs') : k # First /\ Granted(k)' =>
        /\ jobs[k].found \in Jobs /\ Closed(jobs[k].found)
        /\ jobs[k].kind = "call" => jobs[jobs[k].found].target = jobs[k].target
        /\ \A i \in 1 .. Len(jobs) : Granted(i) /\ jobs[i].found = jobs[k].found => i = k
  BY <1>1 DEF Grants, Closed
<1>3. \A k \in 1 .. Len(jobs') : k # First /\ Granted(k)' => jobs'[k].found # b
  BY <1>1, <1>2 DEF Closed
<1>4. \A i \in 1 .. Len(jobs) : jobs'[i].target = jobs[i].target /\ jobs'[i].kind = jobs[i].kind
  BY DEF Others
<1>5. CASE j = First
  BY <1>3, <1>4, <1>5 DEF Others
<1>6. CASE j # First
  <2>1. a \in Jobs /\ Closed(a) /\ Closed(a)' /\ a = jobs[j].found
    BY <1>1, <1>2, <1>6
  <2>2. a \in 1 .. Len(jobs)
    BY <2>1, FirstIsNumber DEF Closed, Jobs
  <2>3. jobs'[j].kind = "call" => jobs'[a].target = jobs'[j].target
    BY <1>1, <1>2, <1>4, <1>6, <2>1, <2>2
  <2>4. \A k \in 1 .. Len(jobs') : Granted(k)' /\ jobs'[k].found = a => k = j
    <3> TAKE k \in 1 .. Len(jobs')
    <3>1. CASE k = First
      BY <1>3, <1>6, <3>1
    <3>2. CASE k # First
      BY <1>1, <1>2, <1>6, <2>1, <3>2
    <3> QED
      BY <3>1, <3>2
  <2> QED
    BY <2>1, <2>3, <2>4
<1> QED
  BY <1>5, <1>6

LEMMA ByModeKept ==
  ASSUME ByMode, Others, mode' = mode, First \in 1 .. Len(jobs),
         mode = "form" => \A a \in Jobs : records'[a].status \in {"none", "pending", "expired"},
         mode = "delegated" => continuations' = {}
  PROVE  ByMode'
<1>1. Len(jobs') = Len(jobs) /\ \A i \in 1 .. Len(jobs) : jobs'[i].kind = jobs[i].kind /\ jobs'[i].target = jobs[i].target
  BY DEF Others
<1> QED
  BY <1>1 DEF ByMode

LEMMA Bindings1Kept ==
  ASSUME TypeOK, Queued, Bindings1, Others, First \in 1 .. Len(jobs),
         \A a \in Jobs : records'[a].status # "none" =>
            records[a].status # "none" /\ records'[a].binding = records[a].binding
  PROVE  Bindings1'
<1>1. Len(jobs') = Len(jobs) /\ \A i \in 1 .. Len(jobs) : jobs'[i].target = jobs[i].target
  BY DEF Others
<1> SUFFICES ASSUME NEW a \in Jobs, records'[a].status # "none"
             PROVE  a <= Len(jobs) /\ records'[a].binding = jobs'[a].target
  BY <1>1 DEF Bindings1
<1>2. a <= Len(jobs) /\ records'[a].binding = jobs[a].target
  BY DEF Bindings1
<1> QED
  BY <1>1, <1>2, FirstIsNumber DEF Jobs


---------------------------------------------------------------------------
(* The steps.                                                              *)

LEMMA InitInv == Init => IInv
<1> SUFFICES ASSUME Init PROVE IInv
  OBVIOUS
<1>1. <<>> \in Seq(JobSet) /\ <<>> \in Seq(Jobs) /\ <<>> \in Seq(Events) /\ Len(<<>>) = 0
  OBVIOUS
<1>2. TypeOK
  <2>1. records \in [Jobs -> RecordSet]
    BY ApprovalsAssumption DEF Init, NoRecord, RecordSet
  <2>2. clock \in 0 .. MaxJobs
    BY ApprovalsAssumption DEF Init
  <2> QED
    BY <1>1, <2>1, <2>2 DEF Init, TypeOK, RecordSet, JobSet
<1>3. Queued /\ ByMode /\ Grants /\ First = 1
  BY <1>1, ModeIs, <1>2 DEF Init, Queued, ByMode, Grants, First, NoRecord
<1>4. Bindings1
  BY DEF Init, Bindings1, NoRecord
<1>5. Stories
  <2> SUFFICES ASSUME NEW a \in Jobs PROVE a # Handled /\ ~(a < First) /\ Untouched(a)
    BY DEF Stories
  <2> QED
    BY <1>3 DEF Jobs, Init, Handled, Transit, Nobody, Untouched
<1> QED
  BY <1>2, <1>3, <1>4, <1>5 DEF IInv

LEMMA ArriveStep ==
  ASSUME IInv, NEW job \in JobSet, Arrive(job),
         job.phase = "queued", job.writing = {}, job.found = Nobody,
         job.kind \notin {"call", "look"} => job.target \in Jobs, job.kind = "call" => job.target \in Bindings,
         mode = "form" => job.kind \in {"call", "look", "accept", "decline"},
         mode = "delegated" => job.kind \in {"call", "look", "approve", "deny"}
  PROVE  IInv'
<1>1. TypeOK /\ Queued /\ ByMode /\ Stories /\ Bindings1 /\ Grants
  BY DEF IInv
<1>2. /\ Len(jobs) \in Nat /\ Len(queue) \in Nat /\ First \in Nat /\ First <= Len(jobs) + 1 /\ First >= 1
      /\ First = Len(jobs) - Len(queue) + 1 /\ Len(queue) <= Len(jobs)
  <2>1. Len(jobs) \in Nat /\ Len(queue) \in Nat /\ Len(queue) <= Len(jobs)
    BY <1>1 DEF TypeOK, Queued
  <2> QED
    BY <2>1 DEF First
<1>3. Len(jobs) + 1 \in Jobs
  BY <1>2, ApprovalsAssumption DEF Arrive, Jobs
<1>4. /\ jobs' \in Seq(JobSet) /\ Len(jobs') = Len(jobs) + 1 /\ jobs'[Len(jobs) + 1] = job
      /\ \A i \in 1 .. Len(jobs) : jobs'[i] = jobs[i]
  BY <1>1, Typed, AppendProperties DEF Arrive
<1>5. /\ queue' \in Seq(Jobs) /\ Len(queue') = Len(queue) + 1 /\ queue'[Len(queue) + 1] = Len(jobs) + 1
      /\ \A i \in 1 .. Len(queue) : queue'[i] = queue[i]
  BY <1>1, <1>3, AppendProperties DEF Arrive, TypeOK
<1>6. First' = First /\ queue' # <<>>
  BY <1>2, <1>4, <1>5 DEF First
<1>7. Handled' = Handled /\ Transit' = Transit
  <2>1. CASE queue = <<>>
    <3>1. First = Len(jobs) + 1
      BY <1>2, <2>1
    <3> QED
      BY <1>4, <1>6, <2>1, <3>1 DEF Handled, Transit, Arrive
  <2>2. CASE queue # <<>>
    <3>1. First \in 1 .. Len(jobs)
      BY <1>1, <2>2, HeadIsFirst
    <3> QED
      BY <1>4, <1>6, <2>2, <3>1 DEF Handled, Transit, Arrive
  <2> QED
    BY <2>1, <2>2
<1>8. TypeOK'
  BY <1>1, <1>4, <1>5 DEF TypeOK, Arrive, JobSet
<1>9. \A i \in 1 .. Len(jobs') : (i \in 1 .. Len(jobs) /\ jobs'[i] = jobs[i]) \/ (i = Len(jobs) + 1 /\ jobs'[i] = job)
  <2> TAKE i \in 1 .. Len(jobs')
  <2>1. i \in 1 .. Len(jobs) \/ i = Len(jobs) + 1
    BY <1>2, <1>4
  <2>2. i \in 1 .. Len(jobs) => jobs'[i] = jobs[i]
    BY <1>4
  <2>3. i = Len(jobs) + 1 => jobs'[i] = job
    BY <1>4
  <2> QED
    BY <2>1, <2>2, <2>3
<1>10. Queued'
  <2>1. Len(queue') <= Len(jobs') /\ \A i \in 1 .. Len(queue') : queue'[i] = Len(jobs') - Len(queue') + i
    <3>1. \A i \in 1 .. Len(queue') : i \in 1 .. Len(queue) \/ i = Len(queue) + 1
      BY <1>2, <1>5
    <3>2. \A i \in 1 .. Len(queue) : queue'[i] = Len(jobs) - Len(queue) + i
      BY <1>1, <1>5 DEF Queued
    <3>3. Len(jobs') - Len(queue') = Len(jobs) - Len(queue) /\ Len(queue') <= Len(jobs')
      BY <1>2, <1>4, <1>5
    <3>4. queue'[Len(queue) + 1] = Len(jobs) - Len(queue) + (Len(queue) + 1)
      BY <1>2, <1>5
    <3> QED
      BY <3>1, <3>2, <3>3, <3>4
  <2>2. \A j \in 1 .. Len(jobs') :
          /\ j < First' <=> jobs'[j].phase = "done"
          /\ j > First' => jobs'[j].phase = "queued"
          /\ jobs'[j].phase \in {"queued", "expire", "failing"} => jobs'[j].found = Nobody
          /\ jobs'[j].phase \in {"queued", "record", "done"} => jobs'[j].writing = {}
          /\ jobs'[j].phase = "consume" => jobs'[j].kind = "call"
          /\ jobs'[j].phase \in {"request", "decide", "record"} => jobs'[j].found # Nobody
          /\ j = First' /\ jobs'[j].phase # "queued" => expiredTransitions' = {}
    BY <1>1, <1>2, <1>6, <1>9 DEF Queued, Arrive
  <2> QED
    BY <2>1, <2>2 DEF Queued
<1>11. ByMode'
  BY <1>1, <1>9 DEF ByMode, Arrive
<1>12. Bindings1'
  <2> SUFFICES ASSUME NEW a \in Jobs, records[a].status # "none"
               PROVE  a <= Len(jobs') /\ records[a].binding = jobs'[a].target
    BY DEF Bindings1, Arrive
  <2>1. a <= Len(jobs) /\ records[a].binding = jobs[a].target
    BY <1>1 DEF Bindings1
  <2> QED
    BY <1>2, <1>4, <2>1 DEF Jobs
<1>13. Grants'
  <2> SUFFICES ASSUME NEW j \in 1 .. Len(jobs'), Granted(j)', NEW a, a = jobs'[j].found
               PROVE  /\ a \in Jobs /\ Closed(a)'
                      /\ jobs'[j].kind = "call" => jobs'[a].target = jobs'[j].target
                      /\ \A k \in 1 .. Len(jobs') : Granted(k)' /\ jobs'[k].found = a => k = j
    BY DEF Grants, Closed
  <2>1. \A k \in 1 .. Len(jobs') : Granted(k)' => k \in 1 .. Len(jobs) /\ jobs'[k] = jobs[k] /\ Granted(k)
    BY <1>9 DEF Granted
  <2>2. /\ a \in Jobs /\ Closed(a) /\ jobs[j].found = a
        /\ jobs[j].kind = "call" => jobs[a].target = jobs[j].target
        /\ \A k \in 1 .. Len(jobs) : Granted(k) /\ jobs[k].found = a => k = j
    BY <1>1, <2>1 DEF Grants, Closed
  <2>3. a \in 1 .. Len(jobs) /\ jobs'[a] = jobs[a]
    BY <1>2, <1>4, <2>2 DEF Closed, Jobs
  <2>4. Closed(a)'
    BY <1>6, <1>7, <2>2 DEF Closed, Arrive
  <2> QED
    BY <2>1, <2>2, <2>3, <2>4
<1>14. Stories'
  <2> SUFFICES ASSUME NEW a \in Jobs
               PROVE  /\ a = Handled => InHand(a)'
                      /\ a # Handled /\ a < First => Settled(a)'
                      /\ a # Handled /\ ~(a < First) => Untouched(a)'
    BY <1>6, <1>7 DEF Stories
  <2>1. ASSUME a = Handled PROVE InHand(a)'
    <3>1. queue # <<>>
      BY <2>1 DEF Handled, Jobs, Nobody
    <3>2. First \in 1 .. Len(jobs) /\ InHand(a)
      BY <1>1, <2>1, <3>1, HeadIsFirst DEF Stories
    <3>3. jobs'[First] = jobs[First] /\ jobs'[a] = jobs[a]
      BY <1>2, <1>4, <3>2 DEF InHand, Jobs
    <3> QED
      BY <1>6, <1>7, <3>2, <3>3 DEF InHand, Claims, Asks, Rules, Recording, Answers, Arrive
  <2>2. ASSUME a # Handled, a < First PROVE Settled(a)'
    BY <1>1, <1>7, <2>2 DEF Stories, Settled, Tale, Trails, Arrive
  <2>3. ASSUME a # Handled, ~(a < First) PROVE Untouched(a)'
    BY <1>1, <1>7, <2>3 DEF Stories, Untouched, Arrive
  <2> QED
    BY <2>1, <2>2, <2>3
<1> QED
  BY <1>8, <1>10, <1>11, <1>12, <1>13, <1>14 DEF IInv


\* An approval that nobody handles keeps its story, whether its continuation stays or not.
LEMMA Remains ==
  ASSUME NEW a \in Jobs, mode' = mode, records'[a] = records[a], audit'[a] = audit[a],
         a \in continuations' => a \in continuations, a \in Transit' <=> a \in Transit, a \in revoked' <=> a \in revoked
  PROVE  (Settled(a) => Settled(a)') /\ (Untouched(a) => Untouched(a)')
BY DEF Settled, Tale, Trails, Untouched

\* What no job had created is settled once its turn is over.
LEMMA UntouchedIsSettled == ASSUME NEW a, Untouched(a)' PROVE Settled(a)'
BY Distinct DEF Untouched, Settled, Tale, Trails, NoRecord

\* The head goes on to write expiries, with `found' in hand if there is one.
LEMMA ExpiresStep ==
  ASSUME IInv, NEW j, NEW p, Running(j, p), Handled = Nobody,
         NEW phase \in Phases \ {"record"}, NEW found \in Jobs \cup {Nobody}, NEW created \in BOOLEAN,
         phase \in {"expire", "failing"} => found = Nobody, phase = "consume" => jobs[j].kind = "call",
         phase \in {"request", "decide"} => found # Nobody,
         Expires(j, phase, found, created),
         UNCHANGED <<mode, continuations, clock, audit, revoked>>,
         records' \in [Jobs -> RecordSet],
         mode = "form" => \A a \in Jobs : records'[a].status \in {"none", "pending", "expired"},
         \A a \in Jobs : a # found =>
           \/ records'[a] = Expired[a]
           \/ Expired[a].status \notin {"pending", "approved"} /\ records'[a] = NoRecord,
         found \in Jobs => /\ InHand(found)' /\ ~Closed(found)
                           /\ found <= Len(jobs) /\ records'[found].binding = jobs[found].target
  PROVE  IInv'
<1>1. TypeOK /\ Queued /\ ByMode /\ Stories /\ Bindings1 /\ Grants
  BY DEF IInv
<1>2. First \in 1 .. Len(jobs) /\ queue # <<>>
  BY <1>1, Heads
<1>3. GoesOn(phase, found) /\ Transit' = Transit \cup Expiring /\ expiredTransitions' = {}
  BY <1>1, ExpiresEffect
<1>4. Others /\ First' = First /\ Handled' = found /\ jobs'[First].phase = phase
  BY <1>3 DEF GoesOn
<1>5. TypeOK'
  BY <1>1, <1>3, <1>4 DEF TypeOK, Others, JobSet, RecordSet
<1>6. ByMode'
  BY <1>1, <1>2, <1>4, ByModeKept DEF ByMode
<1>7. \A a \in Jobs : a # found /\ records'[a].status # "none" =>
        records[a].status # "none" /\ records'[a].binding = records[a].binding
  BY <1>1, ExpiredFacts DEF NoRecord
<1>8. Bindings1'
  <2>1. \A i \in 1 .. Len(jobs) : jobs'[i].target = jobs[i].target
    BY <1>4 DEF Others
  <2> SUFFICES ASSUME NEW a \in Jobs, records'[a].status # "none"
               PROVE  a <= Len(jobs) /\ records'[a].binding = jobs'[a].target
    BY <1>4 DEF Bindings1, Others
  <2>2. a <= Len(jobs) /\ records'[a].binding = jobs[a].target
    BY <1>1, <1>7 DEF Bindings1
  <2> QED
    BY <1>1, <2>1, <2>2, FirstIsNumber DEF Jobs
<1>9. Grants'
  <2>1. \A a \in Jobs : Closed(a) => Closed(a)'
    <3> SUFFICES ASSUME NEW a \in Jobs, Closed(a) PROVE Closed(a)'
      OBVIOUS
    <3>1. a # found /\ a \notin Expiring /\ Expired[a] = records[a]
      BY <1>1, ExpiredFacts DEF Closed
    <3>2. records'[a].status \in {"none", "consumed"}
      BY <3>1 DEF Closed, NoRecord
    <3> QED
      BY <1>3, <1>4, <3>1, <3>2 DEF Closed
  <2>2. phase # "done"
    BY DEF Phases
  <2> QED
    BY <1>1, <1>2, <1>4, <2>1, <2>2, GrantsKept
<1>10. Stories'
  <2> SUFFICES ASSUME NEW a \in Jobs, a # found
               PROVE  /\ a < First => Settled(a)'
                      /\ ~(a < First) => Untouched(a)'
    BY <1>4 DEF Stories
  <2>1. /\ a < First => Tale(Expired[a].status, audit[a], a \in Transit', a \in continuations, a \in revoked)
        /\ ~(a < First) => /\ Expired[a] = NoRecord /\ audit[a] = <<>> /\ a \notin continuations
                           /\ a \notin Transit' /\ a \notin revoked
    BY <1>3, ExpiredStories
  <2>2. CASE records'[a] = Expired[a]
    BY <2>1, <2>2 DEF Settled, Untouched, Tale, Trails
  <2>3. CASE Expired[a].status \notin {"pending", "approved"} /\ records'[a] = NoRecord
    <3>1. Expired[a].status \in {"none", "denied", "consumed", "expired"}
      BY <1>1, <2>3, RecordTypes DEF RecordSet
    <3> QED
      BY <2>1, <2>3, <3>1, Distinct DEF Settled, Untouched, Tale, Trails, NoRecord
  <2> QED
    BY <2>2, <2>3
<1> QED
  BY <1>4, <1>5, <1>6, <1>8, <1>9, <1>10 DEF IInv, Others

\* The head goes on to record events of an approval, which it has in hand from now on or had before.
LEMMA RecordsStep ==
  ASSUME IInv, NEW j, NEW p, Running(j, p), p # "queued",
         NEW a \in Jobs, NEW events \in Seq(Events), NEW outcome \in Outcomes, Handled \in {Nobody, a},
         Records(j, a, events, outcome), UNCHANGED <<mode, clock, expiredTransitions, audit, revoked>>,
         records' = records \/ records' = Without(records, a),
         continuations' \subseteq continuations \cup {a}, mode = "delegated" => continuations' = {},
         InHand(a)', ~Closed(a)
  PROVE  IInv'
<1>1. TypeOK /\ Queued /\ ByMode /\ Stories /\ Bindings1 /\ Grants
  BY DEF IInv
<1>2. First \in 1 .. Len(jobs) /\ queue # <<>>
  BY <1>1, Heads
<1>3. GoesOn("record", a) /\ Transit' = {} /\ Transit = {}
  BY <1>1, RecordsEffect
<1>4. Others /\ First' = First /\ Handled' = a /\ jobs'[First].phase = "record"
  BY <1>3 DEF GoesOn
<1>5. records' \in [Jobs -> RecordSet] /\ \A b \in Jobs : records'[b] = records[b] \/ (b = a /\ records'[b].status = "none")
  BY <1>1, Typed, RecordTypes, WithoutFacts
<1>6. TypeOK'
  BY <1>1, <1>4, <1>5 DEF TypeOK, Others, JobSet, RecordSet
<1>7. ByMode'
  BY <1>1, <1>2, <1>4, <1>5, ByModeKept DEF ByMode
<1>8. Bindings1'
  BY <1>1, <1>2, <1>4, <1>5, Bindings1Kept
<1>9. Grants'
  <2>1. \A b \in Jobs : Closed(b) => Closed(b)'
    BY <1>3, <1>4, <1>5 DEF Closed
  <2> QED
    BY <1>1, <1>2, <1>4, <2>1, GrantsKept
<1>10. Stories'
  <2> SUFFICES ASSUME NEW b \in Jobs, b # a
               PROVE  /\ b < First => Settled(b)'
                      /\ ~(b < First) => Untouched(b)'
    BY <1>4 DEF Stories
  <2>1. b # Handled /\ records'[b] = records[b]
    BY <1>5 DEF Jobs, Nobody
  <2>2. (Settled(b) => Settled(b)') /\ (Untouched(b) => Untouched(b)')
    BY <1>3, <2>1, Remains
  <2> QED
    BY <1>1, <2>1, <2>2 DEF Stories
<1> QED
  BY <1>4, <1>6, <1>7, <1>8, <1>9, <1>10 DEF IInv, Others

\* The head ends; x is what it had in hand, or what it has just changed, if there is any such thing.
LEMMA EndsStep ==
  ASSUME IInv, queue # <<>>, NEW j, j = Head(queue), NEW outcome \in Outcomes, Ends(j, outcome),
         NEW x \in Jobs \cup {Nobody}, Handled \in {Nobody, x},
         UNCHANGED <<mode, clock>>, expiredTransitions' = Transit,
         records' \in [Jobs -> RecordSet], audit' \in [Jobs -> Seq(Events)], revoked' \subseteq Jobs,
         \A b \in continuations' : b \in continuations \/ (b = x /\ b \in Jobs), mode = "delegated" => continuations' = {},
         \A b \in Jobs : b # x => records'[b] = records[b] /\ audit'[b] = audit[b] /\ (b \in revoked' <=> b \in revoked),
         x \in Jobs => /\ Settled(x)' /\ x <= First
                       /\ records'[x].status = "none" \/ records'[x] = records[x]
                       /\ Handled = Nobody => ~Closed(x),
         outcome = "granted" => /\ x \in Jobs /\ x = Handled /\ records'[x].status \in {"none", "consumed"}
                                /\ audit'[x] \in {RAC, REAC} /\ x \notin continuations' /\ x \notin Transit
                                /\ jobs[First].kind = "call" => jobs[x].target = jobs[First].target
  PROVE  IInv'
<1>1. TypeOK /\ Queued /\ ByMode /\ Stories /\ Bindings1 /\ Grants
  BY DEF IInv
<1>2. First \in 1 .. Len(jobs) /\ First \in Nat /\ Len(jobs) \in Nat /\ Handled = jobs[First].found /\ First \in Jobs
  BY <1>1, HeadIsFirst, FirstIsNumber
<1>3. IsOver(outcome)
  BY <1>1, EndsEffect
<1>4. /\ Others /\ First' = First + 1 /\ Handled' = Nobody /\ Transit' = Transit
      /\ jobs'[First].phase = "done" /\ jobs'[First].outcome = outcome /\ jobs'[First].found = Handled
  BY <1>2, <1>3 DEF IsOver
<1>5. Transit \subseteq Jobs
  BY <1>1, HeadIsFirst DEF TypeOK, JobSet
<1>6. TypeOK'
  BY <1>1, <1>4, <1>5 DEF TypeOK, Others, JobSet, RecordSet
<1>7. \A b \in Jobs : records'[b] = records[b] \/ records'[b].status = "none"
  OBVIOUS
<1>8. ByMode'
  BY <1>1, <1>2, <1>4, <1>7, ByModeKept DEF ByMode
<1>9. Bindings1'
  BY <1>1, <1>2, <1>4, <1>7, Bindings1Kept
<1>10. \A b \in Jobs : Closed(b) => Closed(b)'
  <2> SUFFICES ASSUME NEW b \in Jobs, Closed(b) PROVE Closed(b)'
    OBVIOUS
  <2>1. b # x /\ b # Nobody
    BY DEF Closed, Jobs, Nobody
  <2> QED
    BY <1>2, <1>4, <2>1 DEF Closed, Jobs
<1>11. Grants'
  <2>1. CASE outcome # "granted"
    BY <1>1, <1>2, <1>4, <1>10, <2>1, GrantsKept
  <2>2. CASE outcome = "granted"
    <3>1. Closed(x)'
      BY <1>2, <1>4, <2>2 DEF Closed, Jobs, Nobody
    <3>2. x \in 1 .. Len(jobs)
      BY <1>2, <2>2 DEF Jobs
    <3> QED
      BY <1>1, <1>2, <1>4, <1>10, <2>2, <3>1, <3>2, GrantsGrow
  <2> QED
    BY <2>1, <2>2
<1>12. Stories'
  <2> SUFFICES ASSUME NEW b \in Jobs
               PROVE  /\ b < First + 1 => Settled(b)'
                      /\ ~(b < First + 1) => Untouched(b)'
    BY <1>4 DEF Stories, Jobs, Nobody
  <2>1. CASE b = x
    BY <1>2, <2>1 DEF Jobs
  <2>2. CASE b # x
    <3>1. b # Handled /\ (Settled(b) => Settled(b)') /\ (Untouched(b) => Untouched(b)')
      BY <1>4, <2>2, Remains DEF Jobs, Nobody
    <3>2. b < First => Settled(b)
      BY <1>1, <3>1 DEF Stories
    <3>3. ~(b < First) => Untouched(b)
      BY <1>1, <3>1 DEF Stories
    <3>4. Untouched(b)' => Settled(b)'
      BY UntouchedIsSettled
    <3> QED
      BY <1>2, <3>1, <3>2, <3>3, <3>4 DEF Jobs
  <2> QED
    BY <2>1, <2>2
<1> QED
  BY <1>4, <1>6, <1>8, <1>9, <1>11, <1>12 DEF IInv, Others


LEMMA ExpiredForm ==
  ASSUME IInv, mode = "form", NEW a \in Jobs
  PROVE  Expired[a].status \in {"none", "pending", "expired"}
BY ExpiredFacts DEF IInv, ByMode

\* A pending or granted approval, once what is due is marked: it is on record so, and nothing else is said of it.
LEMMA BoundFacts ==
  ASSUME IInv, Handled = Nobody, NEW a \in Jobs, Expired[a].status \in {"pending", "approved"}
  PROVE  /\ a < First /\ a <= Len(jobs) /\ a \notin Transit \cup Expiring /\ ~Closed(a)
         /\ records[a].binding = jobs[a].target /\ Expired[a] = records[a]
         /\ Expired[a].status = "pending" => audit[a] = R
         /\ Expired[a].status = "approved" => audit[a] = RA /\ mode = "delegated"
<1>1. TypeOK /\ Queued /\ Bindings1
  BY DEF IInv
<1>2. a < First
  BY ExpiredStories DEF NoRecord
<1>3. Tale(Expired[a].status, audit[a], a \in Transit \cup Expiring, a \in continuations, a \in revoked)
  BY <1>2, ExpiredStories
<1>4. Expired[a] = records[a] /\ ~Closed(a)
  BY <1>1, ExpiredFacts DEF Closed
<1>5. a <= Len(jobs) /\ records[a].binding = jobs[a].target
  BY <1>1, <1>4 DEF Bindings1
<1>6. mode = "form" => Expired[a].status # "approved"
  BY ExpiredForm
<1> QED
  BY <1>1, <1>2, <1>3, <1>4, <1>5, <1>6, ModeIs DEF Tale

LEMMA ExpiresNone ==
  ASSUME IInv, NEW j, NEW p, Running(j, p), Handled = Nobody,
         NEW phase \in {"expire", "consume", "failing"}, phase = "consume" => jobs[j].kind = "call",
         Expires(j, phase, Nobody, FALSE),
         UNCHANGED <<mode, continuations, clock, audit, revoked>>,
         records' \in [Jobs -> RecordSet],
         \A a \in Jobs : \/ records'[a] = Expired[a]
                         \/ Expired[a].status \notin {"pending", "approved"} /\ records'[a] = NoRecord
  PROVE  IInv'
<1>1. phase \in Phases \ {"record"} /\ Nobody \notin Jobs
  BY DEF Phases, Jobs, Nobody
<1>2. mode = "form" => \A a \in Jobs : records'[a].status \in {"none", "pending", "expired"}
  BY ExpiredForm DEF NoRecord
<1> QED
  BY <1>1, <1>2, ExpiresStep

LEMMA BeginStep == ASSUME IInv, NEW j, Begin(j) PROVE IInv'
<1>1. Running(j, "queued") /\ Handled = Nobody /\ TypeOK
  BY Heads DEF Begin, IInv
<1> QED
  BY <1>1, ExpiresNone, RecordTypes DEF Begin

LEMMA ConsumeStep == ASSUME IInv, NEW j, Consume(j) PROVE IInv'
<1>1. Running(j, "expire") /\ TypeOK /\ Queued /\ jobs[j].kind = "call"
  BY DEF Consume, IInv
<1>2. Handled = Nobody /\ j = First /\ First \in 1 .. Len(jobs)
  BY <1>1, Heads
<1>3. Expired \in [Jobs -> RecordSet]
  BY <1>1, RecordTypes
<1>4. CASE Bound(Expired, "approved", jobs[j].target) = {}
  BY <1>1, <1>2, <1>3, <1>4, ExpiresNone DEF Consume
<1>5. CASE Bound(Expired, "approved", jobs[j].target) # {}
  <2>1. PICK a \in Bound(Expired, "approved", jobs[j].target) :
          records' = Claimed(Expired, a) /\ Expires(j, "consume", a, FALSE)
    BY <1>5 DEF Consume
  <2>2. a \in Jobs /\ Expired[a].status = "approved" /\ Expired[a].binding = jobs[j].target
    BY DEF Bound
  <2>3. /\ a < First /\ a <= Len(jobs) /\ a \notin Transit \cup Expiring /\ ~Closed(a) /\ audit[a] = RA
        /\ records[a].binding = jobs[a].target /\ Expired[a] = records[a] /\ mode = "delegated"
    BY <1>2, <2>2, BoundFacts
  <2>4. /\ records' \in [Jobs -> RecordSet] /\ records'[a].status = "consumed" /\ records'[a].binding = Expired[a].binding
        /\ \A b \in Jobs : b # a => records'[b] = Expired[b]
    BY <1>3, <2>1, <2>2 DEF Claimed, RecordSet
  <2>5. GoesOn("consume", a) /\ Transit' = Transit \cup Expiring
    BY <1>1, <1>2, <2>1, <2>2, ExpiresEffect DEF Phases
  <2>6. /\ First' = First /\ jobs'[First].phase = "consume" /\ jobs'[First].kind = "call"
        /\ jobs'[a].target = jobs[a].target /\ jobs'[First].target = jobs[First].target
    BY <1>1, <1>2, <2>2, <2>3, <2>5 DEF GoesOn, Others, Jobs
  <2>7. InHand(a)'
    BY <1>2, <2>2, <2>3, <2>4, <2>5, <2>6 DEF InHand, Claims, Consume, Jobs
  <2> QED
    BY <1>1, <1>2, <2>1, <2>2, <2>3, <2>4, <2>7, ExpiresStep DEF Consume, Phases
<1> QED
  BY <1>4, <1>5

LEMMA RequestStep == ASSUME IInv, NEW j, Request(j) PROVE IInv'
<1>1. Running(j, "consume") /\ TypeOK /\ Queued /\ jobs[j].found = Nobody
  BY DEF Request, IInv
<1>2. Handled = Nobody /\ j = First /\ First \in 1 .. Len(jobs) /\ First \in Jobs /\ jobs[First].kind = "call"
      /\ jobs[First] \in JobSet
  BY <1>1, Heads DEF Queued
<1> DEFINE pending == Bound(Expired, "pending", jobs[j].target)
           kept == Undiscarded(Expired)
<1>3. Expired \in [Jobs -> RecordSet] /\ kept \in [Jobs -> RecordSet]
  BY <1>1, RecordTypes
<1>4. \A a \in Jobs : \/ kept[a] = Expired[a]
                      \/ Expired[a].status \notin {"pending", "approved"} /\ kept[a] = NoRecord
  BY DEF Undiscarded
<1>5. mode = "form" => \A a \in Jobs : Expired[a].status \in {"none", "pending", "expired"}
                                         /\ kept[a].status \in {"none", "pending", "expired"}
  BY <1>4, ExpiredForm DEF NoRecord
<1>9. UNCHANGED <<mode, continuations, clock, audit, revoked>> /\ "request" \in Phases \ {"record"}
  BY DEF Request, Phases
<1>6. ASSUME NEW a \in pending, OneMoreBearer(a), records' = [Expired EXCEPT ![a].bearers = @ + 1],
             Expires(j, "request", a, FALSE)
      PROVE  IInv'
  <2>1. a \in Jobs /\ Expired[a].status = "pending" /\ Expired[a].binding = jobs[j].target
    BY DEF Bound
  <2>2. /\ a < First /\ a <= Len(jobs) /\ a \notin Transit \cup Expiring /\ ~Closed(a) /\ audit[a] = R
        /\ records[a].binding = jobs[a].target /\ Expired[a] = records[a]
    BY <1>2, <2>1, BoundFacts
  <2>3. records[a].bearers + 1 \in 0 .. MaxBearers
    BY <1>1, <1>6, <2>1, Typed, ApprovalsAssumption DEF OneMoreBearer, RecordSet
  <2>4. /\ records' \in [Jobs -> RecordSet] /\ records'[a].status = "pending" /\ records'[a].binding = Expired[a].binding
        /\ \A b \in Jobs : b # a => records'[b] = Expired[b]
    BY <1>3, <1>6, <2>1, <2>2, <2>3 DEF RecordSet
  <2>5. /\ GoesOn("request", a) /\ Transit' = Transit \cup Expiring /\ jobs'[First].created = FALSE
    BY <1>1, <1>2, <1>6, <2>1, ExpiresEffect, NobodyIsNone DEF Phases
  <2>6. First' = First /\ jobs'[First].phase = "request" /\ jobs'[First].kind = "call"
    BY <1>2, <2>5 DEF GoesOn, Others
  <2>7. InHand(a)'
    BY <1>2, <2>1, <2>2, <2>4, <2>5, <2>6 DEF InHand, Asks, Request, Jobs
  <2>8. mode = "form" => \A b \in Jobs : records'[b].status \in {"none", "pending", "expired"}
    BY <1>5, <2>4
  <2>11. Expires(j, "request", a, FALSE) /\ records' \in [Jobs -> RecordSet]
    BY <1>6, <2>4
  <2>12. \A b \in Jobs : b # a => records'[b] = Expired[b]
    BY <2>4
  <2>13. InHand(a)' /\ ~Closed(a) /\ a <= Len(jobs) /\ records'[a].binding = jobs[a].target /\ a \in Jobs
    BY <2>1, <2>2, <2>4, <2>7
  <2> HIDE DEF kept, pending
  <2> QED
    BY <1>1, <1>2, <1>9, <2>8, <2>11, <2>12, <2>13, ExpiresStep, NobodyIsNone
<1>7. ASSUME records' = [kept EXCEPT ![j] = [status |-> "pending", binding |-> jobs[j].target, bearers |-> 1]],
             Expires(j, "request", j, TRUE)
      PROVE  IInv'
  <2>1. jobs[j].target \in Bindings
    BY <1>2 DEF IInv, ByMode
  <2>2. [status |-> "pending", binding |-> jobs[j].target, bearers |-> 1] \in RecordSet
    BY <2>1, ApprovalsAssumption DEF RecordSet
  <2>3. /\ records' \in [Jobs -> RecordSet] /\ records'[j].status = "pending" /\ records'[j].binding = jobs[j].target
        /\ \A b \in Jobs : b # j => records'[b] = kept[b]
    BY <1>2, <1>3, <1>7, <2>2
  <2>4. ~(j < First) /\ ~Closed(j)
    BY <1>1, <1>2, FirstIsNumber DEF Closed
  <2>5. audit[j] = <<>> /\ j \notin continuations /\ j \notin Transit \cup Expiring
    BY <1>2, <2>4, ExpiredStories
  <2>6. GoesOn("request", j) /\ Transit' = Transit \cup Expiring /\ jobs'[First].created = TRUE
    BY <1>1, <1>2, <1>7, ExpiresEffect, NobodyIsNone DEF Phases
  <2>7. First' = First /\ jobs'[First].phase = "request" /\ jobs'[First].kind = "call"
    BY <1>2, <2>6 DEF GoesOn, Others
  <2>8. InHand(j)'
    BY <1>2, <2>3, <2>5, <2>6, <2>7 DEF InHand, Asks, Request, Jobs
  <2>9. mode = "form" => \A b \in Jobs : records'[b].status \in {"none", "pending", "expired"}
    BY <1>5, <2>3
  <2>10. j <= Len(jobs)
    BY <1>1, <1>2, FirstIsNumber
  <2>11. Expires(j, "request", j, TRUE) /\ records' \in [Jobs -> RecordSet]
    BY <1>7, <2>3
  <2>12. \A b \in Jobs : b # j => \/ records'[b] = Expired[b]
                                  \/ Expired[b].status \notin {"pending", "approved"} /\ records'[b] = NoRecord
    <3> SUFFICES ASSUME NEW b \in Jobs, b # j
                 PROVE  \/ records'[b] = Expired[b]
                        \/ Expired[b].status \notin {"pending", "approved"} /\ records'[b] = NoRecord
      OBVIOUS
    <3>1. records'[b] = kept[b]
      BY <2>3
    <3> QED
      BY <1>4, <3>1
  <2>13. InHand(j)' /\ ~Closed(j) /\ j <= Len(jobs) /\ records'[j].binding = jobs[j].target /\ j \in Jobs
    BY <1>2, <2>3, <2>4, <2>8, <2>10
  <2> HIDE DEF kept, pending
  <2> QED
    BY <1>1, <1>2, <1>9, <2>9, <2>11, <2>12, <2>13, ExpiresStep, NobodyIsNone
<1>8. ASSUME records' = kept \/ records' = Expired, Expires(j, "failing", Nobody, FALSE) PROVE IInv'
  BY <1>1, <1>2, <1>3, <1>4, <1>8, ExpiresNone DEF Request
<1> QED
  BY <1>6, <1>7, <1>8 DEF Request


\* What the head of the queue has in hand is InHand, and open to nobody else.
LEMMA HandledFacts ==
  ASSUME IInv, NEW a \in Jobs, a = Handled
  PROVE  /\ queue # <<>> /\ jobs[First].found = a /\ InHand(a) /\ ~Closed(a) /\ a <= First
         /\ First \in 1 .. Len(jobs) /\ a \in 1 .. Len(jobs)
<1>1. queue # <<>>
  BY DEF Handled, Jobs, Nobody
<1>2. First \in 1 .. Len(jobs) /\ jobs[First].found = a
  BY <1>1, HeadIsFirst DEF IInv
<1>3. InHand(a)
  BY DEF IInv, Stories
<1> QED
  BY <1>1, <1>2, <1>3 DEF InHand, Closed, Jobs

LEMMA RecordClaimStep == ASSUME IInv, NEW j, RecordClaim(j) PROVE IInv'
<1>1. Running(j, "consume") /\ TypeOK /\ Queued /\ jobs[j].found # Nobody
  BY DEF RecordClaim, IInv
<1>2. j = First /\ First \in 1 .. Len(jobs) /\ jobs[First].phase = "consume" /\ jobs[First].found = Handled
      /\ jobs[First] \in JobSet
  BY <1>1, Heads
<1>3. PICK a \in Jobs : a = Handled
  BY <1>1, <1>2 DEF JobSet
<1>4. Claims(a) /\ ~Closed(a) /\ a \in 1 .. Len(jobs) /\ a <= First
  BY <1>2, <1>3, HandledFacts DEF InHand
<1>5. <<"consumed">> \in Seq(Events) /\ "granted" \in Outcomes
  BY DEF Events, Outcomes
<1>6. Records(j, a, <<"consumed">>, "granted") /\ UNCHANGED <<mode, records, continuations, clock, expiredTransitions, audit, revoked>>
  BY <1>2, <1>3 DEF RecordClaim
<1>7. /\ GoesOn("record", a) /\ Transit' = {}
      /\ jobs'[First].events = <<"consumed">> /\ jobs'[First].outcome = "granted"
  BY <1>1, <1>5, <1>6, RecordsEffect
<1>8. /\ First' = First /\ jobs'[First].phase = "record" /\ jobs'[First].kind = jobs[First].kind
      /\ jobs'[a].target = jobs[a].target /\ jobs'[First].target = jobs[First].target
  BY <1>2, <1>4, <1>7 DEF GoesOn, Others
<1>9. Claims(a)'
  BY <1>4, <1>6, <1>8 DEF Claims
<1>10. InHand(a)'
  BY <1>4, <1>7, <1>8, <1>9 DEF InHand, Recording
<1>11. mode = "delegated" => continuations' = {}
  BY <1>6 DEF IInv, ByMode
<1> QED
  BY <1>1, <1>3, <1>4, <1>5, <1>6, <1>10, <1>11, RecordsStep

\* A job that ends with nothing in hand.
LEMMA EndsNone ==
  ASSUME IInv, NEW j, NEW p, Running(j, p), p # "queued", Handled = Nobody,
         NEW outcome \in {"refused", "decided"}, Ends(j, outcome),
         UNCHANGED <<mode, records, continuations, clock, expiredTransitions, audit, revoked>>
  PROVE  IInv'
<1>1. TypeOK /\ Queued
  BY DEF IInv
<1>2. queue # <<>> /\ j = Head(queue) /\ expiredTransitions' = Transit
  BY <1>1, Heads DEF Running
<1>3. /\ records' \in [Jobs -> RecordSet] /\ audit' \in [Jobs -> Seq(Events)] /\ revoked' \subseteq Jobs
      /\ \A b \in continuations' : b \in continuations \/ (b = Nobody /\ b \in Jobs)
      /\ mode = "delegated" => continuations' = {}
      /\ \A b \in Jobs : b # Nobody => records'[b] = records[b] /\ audit'[b] = audit[b] /\ (b \in revoked' <=> b \in revoked)
  BY <1>1, Typed DEF TypeOK, IInv, ByMode
<1>4. Nobody \notin Jobs /\ outcome \in Outcomes /\ outcome # "granted"
  BY DEF Jobs, Nobody, Outcomes
<1> QED
  BY <1>2, <1>3, <1>4, EndsStep

LEMMA LookedStep == ASSUME IInv, NEW j, Looked(j) PROVE IInv'
<1>1. Running(j, "expire") /\ Handled = Nobody
  BY Heads DEF Looked, IInv
<1> QED
  BY <1>1, EndsNone DEF Looked

LEMMA FailStep == ASSUME IInv, NEW j, Fail(j) PROVE IInv'
<1>1. Running(j, "failing") /\ Handled = Nobody
  BY Heads DEF Fail, IInv
<1> QED
  BY <1>1, EndsNone DEF Fail

LEMMA DecideStep == ASSUME IInv, NEW j, Decide(j) PROVE IInv'
<1>1. Running(j, "expire") /\ TypeOK /\ Queued /\ jobs[j].kind \in {"approve", "deny"}
  BY DEF Decide, IInv
<1>2. Handled = Nobody /\ j = First /\ First \in 1 .. Len(jobs)
  BY <1>1, Heads
<1>3. Expired \in [Jobs -> RecordSet]
  BY <1>1, RecordTypes
<1>4. mode = "delegated" /\ jobs[j].target \in Jobs
  BY <1>1, <1>2, ModeIs DEF IInv, ByMode
<1>5. UNCHANGED <<mode, continuations, clock, audit, revoked>> /\ "decide" \in Phases \ {"record"}
  BY DEF Decide, Phases
<1>6. CASE Expired[jobs[j].target].status # "pending"
  <2>1. records' = Expired /\ Expires(j, "failing", Nobody, FALSE)
    BY <1>6 DEF Decide
  <2> QED
    BY <1>1, <1>2, <1>3, <1>5, <2>1, ExpiresNone
<1>7. CASE Expired[jobs[j].target].status = "pending"
  <2>1. PICK a \in Jobs : a = jobs[j].target
    BY <1>4
  <2> DEFINE status == IF jobs[j].kind = "approve" THEN "approved" ELSE "denied"
  <2>2. records' = [Expired EXCEPT ![a].status = status] /\ Expires(j, "decide", a, FALSE)
    BY <1>7, <2>1 DEF Decide
  <2>3. /\ a < First /\ a <= Len(jobs) /\ a \notin Transit \cup Expiring /\ ~Closed(a) /\ audit[a] = R
        /\ records[a].binding = jobs[a].target /\ Expired[a] = records[a]
    BY <1>2, <1>7, <2>1, BoundFacts
  <2>4. /\ records' \in [Jobs -> RecordSet] /\ records'[a].status = status /\ records'[a].binding = Expired[a].binding
        /\ \A b \in Jobs : b # a => records'[b] = Expired[b]
    BY <1>3, <2>2 DEF RecordSet
  <2>5. GoesOn("decide", a) /\ Transit' = Transit \cup Expiring
    BY <1>1, <1>2, <1>5, <2>2, ExpiresEffect, NobodyIsNone
  <2>6. First' = First /\ jobs'[First].phase = "decide" /\ jobs'[First].kind = jobs[First].kind
    BY <1>2, <2>5 DEF GoesOn, Others
  <2>7. Rules(a)'
    BY <1>1, <1>2, <1>4, <1>5, <2>3, <2>4, <2>6 DEF Rules
  <2>8. InHand(a)' /\ ~Closed(a) /\ a <= Len(jobs) /\ records'[a].binding = jobs[a].target
    BY <1>2, <2>3, <2>4, <2>5, <2>6, <2>7 DEF InHand, Jobs
  <2>9. Expires(j, "decide", a, FALSE) /\ records' \in [Jobs -> RecordSet] /\ \A b \in Jobs : b # a => records'[b] = Expired[b]
    BY <2>2, <2>4
  <2> QED
    BY <1>1, <1>2, <1>4, <1>5, <2>8, <2>9, ExpiresStep, NobodyIsNone
<1> QED
  BY <1>6, <1>7

LEMMA RecordDecisionStep == ASSUME IInv, NEW j, RecordDecision(j) PROVE IInv'
<1>1. Running(j, "decide") /\ TypeOK /\ Queued
  BY DEF RecordDecision, IInv
<1>2. j = First /\ First \in 1 .. Len(jobs) /\ jobs[First].phase = "decide" /\ jobs[First].found = Handled
      /\ jobs[First] \in JobSet
  BY <1>1, Heads
<1>3. PICK a \in Jobs : a = Handled
  BY <1>1, <1>2 DEF JobSet, Queued
<1> DEFINE events == <<IF jobs[j].kind = "approve" THEN "approved" ELSE "denied">>
<1>4. Rules(a) /\ ~Closed(a) /\ a \in 1 .. Len(jobs) /\ a <= First
  BY <1>2, <1>3, HandledFacts DEF InHand
<1>5. events \in Seq(Events) /\ "decided" \in Outcomes
  BY DEF Events, Outcomes
<1>6. Records(j, a, events, "decided") /\ UNCHANGED <<mode, records, continuations, clock, expiredTransitions, audit, revoked>>
  BY <1>2, <1>3 DEF RecordDecision
<1>7. events = IF jobs[First].kind = "approve" THEN <<"approved">> ELSE <<"denied">>
  BY <1>2
<1> HIDE DEF events
<1>8. /\ GoesOn("record", a) /\ Transit' = {}
      /\ jobs'[First].events = events /\ jobs'[First].outcome = "decided"
  BY <1>1, <1>5, <1>6, RecordsEffect
<1>9. First' = First /\ jobs'[First].phase = "record" /\ jobs'[First].kind = jobs[First].kind
  BY <1>2, <1>8 DEF GoesOn, Others
<1>10. Rules(a)'
  BY <1>4, <1>6, <1>9 DEF Rules
<1>11. InHand(a)'
  BY <1>4, <1>7, <1>8, <1>9, <1>10 DEF InHand, Recording
<1>12. mode = "delegated" => continuations' = {}
  BY <1>6 DEF IInv, ByMode
<1> QED
  BY <1>1, <1>3, <1>4, <1>5, <1>6, <1>11, <1>12, RecordsStep

LEMMA RequestedStep == ASSUME IInv, NEW j, Requested(j) PROVE IInv'
<1>1. Running(j, "request") /\ TypeOK /\ Queued
  BY DEF Requested, IInv
<1>2. /\ j = First /\ First \in 1 .. Len(jobs) /\ jobs[First].phase = "request" /\ jobs[First].found = Handled
      /\ jobs[First] \in JobSet /\ expiredTransitions = Transit
  BY <1>1, Heads
<1>3. PICK a \in Jobs : a = Handled
  BY <1>1, <1>2 DEF JobSet, Queued
<1>4. Asks(a) /\ ~Closed(a) /\ a \in 1 .. Len(jobs) /\ a <= First /\ a \notin Transit
  BY <1>2, <1>3, HandledFacts DEF InHand
<1>5. <<"requested">> \in Seq(Events) /\ "required" \in Outcomes /\ "refused" \in Outcomes
  BY DEF Events, Outcomes
<1> DEFINE left == {b \in continuations : ~Due(b)}
<1>6. UNCHANGED <<mode, clock, expiredTransitions, audit, revoked>> /\ queue # <<>> /\ j = Head(queue)
  BY <1>1 DEF Requested, Running
\* What the job does once the continuation is minted, or needed none.
<1>7. ASSUME IF jobs[j].created THEN Records(j, a, <<"requested">>, "required") ELSE Ends(j, "required"),
             records' = records, continuations' \subseteq continuations \cup {a}, mode = "delegated" => continuations' = {}
      PROVE  IInv'
  <2>1. CASE jobs[j].created
    <3>1. Records(j, a, <<"requested">>, "required")
      BY <1>7, <2>1
    <3>2. /\ GoesOn("record", a) /\ Transit' = {}
          /\ jobs'[First].events = <<"requested">> /\ jobs'[First].outcome = "required"
      BY <1>1, <1>5, <1>6, <3>1, RecordsEffect
    <3>3. First' = First /\ jobs'[First].phase = "record" /\ jobs'[First].kind = jobs[First].kind
      BY <1>2, <3>2 DEF GoesOn, Others
    <3>4. a = First
      BY <1>2, <1>4, <2>1 DEF Asks
    <3>5. Recording(a, <<"requested">>)'
      BY <1>4, <1>6, <1>7, <3>2, <3>3, <3>4 DEF Asks, Recording
    <3>6. InHand(a)'
      BY <1>4, <3>2, <3>3, <3>5 DEF InHand
    <3> QED
      BY <1>1, <1>3, <1>4, <1>5, <1>6, <1>7, <3>1, <3>6, RecordsStep
  <2>2. CASE ~jobs[j].created
    <3>1. Ends(j, "required") /\ a # First /\ audit[a] = R /\ records[a].status = "pending"
      BY <1>2, <1>4, <1>7, <2>2 DEF Asks
    <3>2. Transit' = Transit
      BY <1>1, <1>2, <1>5, <1>6, <3>1, EndsEffect DEF IsOver
    <3>3. Settled(a)'
      BY <1>4, <1>6, <1>7, <3>1, <3>2, Unlike DEF Settled, Tale, Trails
    <3>4. /\ records' \in [Jobs -> RecordSet] /\ audit' \in [Jobs -> Seq(Events)] /\ revoked' \subseteq Jobs
          /\ expiredTransitions' = Transit
          /\ \A b \in continuations' : b \in continuations \/ (b = a /\ b \in Jobs)
          /\ \A b \in Jobs : b # a => records'[b] = records[b] /\ audit'[b] = audit[b] /\ (b \in revoked' <=> b \in revoked)
      BY <1>1, <1>2, <1>3, <1>6, <1>7, Typed DEF TypeOK
    <3> QED
      BY <1>3, <1>4, <1>5, <1>6, <1>7, <3>1, <3>3, <3>4, EndsStep
  <2> QED
    BY <2>1, <2>2
<1>8. ASSUME Ends(j, "refused"), continuations' = left, records' = Without(records, a), mode = "form" PROVE IInv'
  <2>1. Transit' = Transit /\ records'[a].status = "none"
    BY <1>1, <1>2, <1>5, <1>6, <1>8, EndsEffect, WithoutFacts DEF IsOver
  <2>2. Settled(a)'
    BY <1>4, <1>6, <1>8, <2>1, Unlike DEF Settled, Tale, Trails, Asks
  <2>3. /\ records' \in [Jobs -> RecordSet] /\ audit' \in [Jobs -> Seq(Events)] /\ revoked' \subseteq Jobs
        /\ expiredTransitions' = Transit
        /\ \A b \in continuations' : b \in continuations \/ (b = a /\ b \in Jobs)
        /\ \A b \in Jobs : b # a => records'[b] = records[b] /\ audit'[b] = audit[b] /\ (b \in revoked' <=> b \in revoked)
    <3>1. records' \in [Jobs -> RecordSet] /\ \A b \in Jobs : b # a => records'[b] = records[b]
      BY <1>1, <1>8, Typed, RecordTypes, WithoutFacts
    <3>2. \A b \in continuations' : b \in continuations
      BY <1>8
    <3> QED
      BY <1>1, <1>2, <1>6, <3>1, <3>2 DEF TypeOK
  <2>4. Ends(j, "refused") /\ mode # "delegated"
    BY <1>8
  <2> HIDE DEF left
  <2> QED
    BY <1>3, <1>4, <1>5, <1>6, <2>1, <2>2, <2>3, <2>4, EndsStep
<1>9. CASE mode = "delegated"
  BY <1>2, <1>3, <1>7, <1>9 DEF Requested, IInv, ByMode
<1>10. CASE mode = "form"
  <2>1. CASE Cardinality(left) < MaxRecords
    BY <1>2, <1>3, <1>7, <1>10, <2>1 DEF Requested
  <2>2. CASE ~(Cardinality(left) < MaxRecords)
    BY <1>2, <1>3, <1>8, <1>10, <2>2 DEF Requested
  <2> QED
    BY <2>1, <2>2
<1> QED
  BY <1>1, <1>9, <1>10, ModeIs


LEMMA CompleteStep == ASSUME IInv, NEW j, Complete(j) PROVE IInv'
<1>1. Running(j, "expire") /\ TypeOK /\ Queued /\ jobs[j].kind \in {"accept", "decline"}
  BY DEF Complete, IInv
<1>2. /\ j = First /\ First \in 1 .. Len(jobs) /\ Handled = Nobody /\ expiredTransitions = {} /\ Transit = {}
      /\ queue # <<>> /\ j = Head(queue)
  BY <1>1, Heads DEF Running
<1>3. mode = "form" /\ jobs[j].target \in Jobs
  BY <1>1, <1>2, ModeIs DEF IInv, ByMode
<1>4. UNCHANGED <<mode, clock, expiredTransitions, audit, revoked>>
  BY DEF Complete
<1>5. PICK a \in Jobs : a = jobs[j].target
  BY <1>3
<1>6. CASE a \notin continuations
  <2>1. Ends(j, "refused") /\ UNCHANGED <<records, continuations>>
    BY <1>5, <1>6 DEF Complete
  <2> QED
    BY <1>1, <1>2, <1>4, <2>1, EndsNone
<1>7. CASE a \in continuations
  <2>1. continuations' = continuations \ {a} /\ records' = Without(records, a)
    BY <1>5, <1>7 DEF Complete
  <2>2. ~Untouched(a) /\ a # Handled
    BY <1>2, <1>7, NobodyIsNone DEF Untouched
  <2>3. a < First /\ Settled(a)
    BY <2>2 DEF IInv, Stories
  <2>4. audit[a] \in {R, RE} /\ ~Closed(a)
    BY <1>7, <2>3 DEF Settled, Tale, Closed
  <2>5. /\ records' \in [Jobs -> RecordSet] /\ records'[a].status = "none"
        /\ \A b \in Jobs : b # a => records'[b] = records[b]
    BY <1>1, <2>1, Typed, RecordTypes, WithoutFacts
  <2>6. ASSUME Ends(j, "refused") PROVE IInv'
    <3>1. Transit' = Transit
      BY <1>1, <1>2, <1>4, <2>6, EndsEffect DEF IsOver, Outcomes
    <3>2. Settled(a)'
      BY <1>2, <1>3, <1>4, <2>1, <2>3, <2>4, <2>5, <3>1, Unlike DEF Settled, Tale, Trails
    <3>3. /\ audit' \in [Jobs -> Seq(Events)] /\ revoked' \subseteq Jobs /\ expiredTransitions' = Transit
          /\ \A b \in continuations' : b \in continuations
          /\ \A b \in Jobs : b # a => records'[b] = records[b] /\ audit'[b] = audit[b] /\ (b \in revoked' <=> b \in revoked)
      BY <1>1, <1>2, <1>4, <2>1, <2>5 DEF TypeOK
    <3>4. "refused" \in Outcomes /\ a <= First
      BY <1>1, <2>3, FirstIsNumber DEF Outcomes, Jobs
    <3> QED
      BY <1>2, <1>3, <1>4, <2>4, <2>5, <2>6, <3>2, <3>3, <3>4, EndsStep
  <2>7. ASSUME NEW events \in Seq(Events), NEW outcome \in Outcomes, Records(j, a, events, outcome),
               \/ events \in {<<"expired">>, <<"denied">>} /\ outcome = "refused"
               \/ events = <<"approved", "consumed">> /\ outcome = "granted"
        PROVE  IInv'
    <3>1. /\ GoesOn("record", a) /\ Transit' = {}
          /\ jobs'[First].events = events /\ jobs'[First].outcome = outcome
      BY <1>1, <1>4, <2>7, RecordsEffect
    <3>2. First' = First /\ jobs'[First].phase = "record" /\ jobs'[First].kind = jobs[First].kind
      BY <1>2, <3>1 DEF GoesOn, Others
    <3>3. /\ mode' = "form" /\ records'[a].status = "none" /\ a \notin continuations' /\ audit'[a] \in {R, RE}
          /\ jobs'[First'].outcome = outcome /\ jobs'[First'].kind \in {"accept", "decline"}
      BY <1>1, <1>2, <1>3, <1>4, <2>1, <2>4, <2>5, <3>1, <3>2
    <3>4. Answers(a, events)'
      BY <2>7, <3>1, <3>2, <3>3 DEF Answers
    <3>5. a \notin Transit' /\ a <= First'
      BY <1>1, <2>3, <3>1, <3>2, FirstIsNumber DEF Jobs
    <3>6. InHand(a)'
      BY <3>1, <3>2, <3>4, <3>5 DEF InHand, Recording
    <3> QED
      BY <1>1, <1>2, <1>3, <1>4, <2>1, <2>4, <2>7, <3>1, <3>6, RecordsStep
  <2>8. /\ <<"expired">> \in Seq(Events) /\ <<"denied">> \in Seq(Events) /\ <<"approved", "consumed">> \in Seq(Events)
        /\ "refused" \in Outcomes /\ "granted" \in Outcomes
    BY DEF Events, Outcomes
  <2>9. \/ Ends(j, "refused") \/ Records(j, a, <<"expired">>, "refused")
        \/ Records(j, a, <<"approved", "consumed">>, "granted") \/ Records(j, a, <<"denied">>, "refused")
    <3>1. CASE jobs[j].late /\ a \in jobs[j].fresh
      BY <1>5, <1>7, <3>1 DEF Complete
    <3>2. CASE jobs[j].late /\ a \notin jobs[j].fresh
      BY <1>5, <1>7, <3>2 DEF Complete
    <3>3. CASE ~jobs[j].late /\ jobs[j].kind = "accept"
      BY <1>5, <1>7, <3>3 DEF Complete
    <3>4. CASE ~jobs[j].late /\ jobs[j].kind # "accept"
      BY <1>5, <1>7, <3>4 DEF Complete
    <3> QED
      BY <3>1, <3>2, <3>3, <3>4
  <2> QED
    BY <2>6, <2>7, <2>8, <2>9
<1> QED
  BY <1>6, <1>7


LEMMA OneEvent == \A e : Len(<<e>>) = 1 /\ Head(<<e>>) = e
OBVIOUS
LEMMA TwoEvents == \A e, f : Len(<<e, f>>) = 2 /\ Head(<<e, f>>) = e /\ Tail(<<e, f>>) = <<f>> /\ <<e, f>> # <<e>>
OBVIOUS

LEMMA RecordStep == ASSUME IInv, NEW j, Record(j) PROVE IInv'
<1>1. Running(j, "record") /\ TypeOK /\ Queued
  BY DEF Record, IInv
<1>2. /\ j = First /\ First \in 1 .. Len(jobs) /\ jobs[First].phase = "record" /\ jobs[First].found = Handled
      /\ jobs[First] \in JobSet /\ expiredTransitions = Transit /\ expiredTransitions = {}
      /\ queue # <<>> /\ j = Head(queue) /\ jobs[First].writing = {}
  BY <1>1, Heads DEF Running
<1>3. PICK a \in Jobs : a = Handled
  BY <1>1, <1>2 DEF JobSet, Queued
<1>4. Recording(a, jobs[First].events) /\ ~Closed(a) /\ a \in 1 .. Len(jobs) /\ a <= First /\ a \notin Transit
  BY <1>2, <1>3, HandledFacts DEF InHand
<1> DEFINE events == jobs[j].events
<1>5. UNCHANGED <<mode, clock, expiredTransitions>>
  BY DEF Record
<1>6. records \in [Jobs -> RecordSet] /\ audit[a] \in Seq(Events) /\ (mode = "delegated" => continuations = {})
  BY <1>1, Typed DEF TypeOK, IInv, ByMode
\* The write fails.
<1>7. ASSUME Ends(j, "refused"), records' = Without(records, a), continuations' = continuations \ {a},
             revoked' = revoked \cup {a}, audit' = audit
      PROVE  IInv'
  <2>1. "refused" \in Outcomes
    BY DEF Outcomes
  <2>2. Transit' = Transit
    BY <1>1, <1>2, <1>5, <1>7, <2>1, EndsEffect DEF IsOver
  <2>3. /\ records' \in [Jobs -> RecordSet] /\ records'[a].status = "none"
        /\ \A b \in Jobs : b # a => records'[b] = records[b]
    BY <1>1, <1>6, <1>7, RecordTypes, WithoutFacts
  <2>4. audit[a] \in Trails
    BY <1>1, <1>4, ModeIs DEF Recording, Claims, Rules, Answers, Trails
  <2>5. Settled(a)'
    BY <1>4, <1>5, <1>7, <2>2, <2>3, <2>4 DEF Settled, Tale, Trails
  <2>6. /\ audit' \in [Jobs -> Seq(Events)] /\ revoked' \subseteq Jobs /\ expiredTransitions' = Transit
        /\ \A b \in continuations' : b \in continuations
        /\ \A b \in Jobs : b # a => records'[b] = records[b] /\ audit'[b] = audit[b] /\ (b \in revoked' <=> b \in revoked)
    BY <1>1, <1>2, <1>3, <1>5, <1>7, <2>3 DEF TypeOK
  <2> QED
    BY <1>2, <1>3, <1>4, <1>5, <1>6, <1>7, <2>1, <2>3, <2>5, <2>6, EndsStep
\* It was the last one.
<1>8. ASSUME NEW e \in Events, jobs[First].events = <<e>>, audit' = [audit EXCEPT ![a] = Append(@, e)],
             Ends(j, jobs[j].outcome), UNCHANGED <<records, continuations, revoked>>
      PROVE  IInv'
  <2>1. audit'[a] = Append(audit[a], e) /\ audit' \in [Jobs -> Seq(Events)]
        /\ \A b \in Jobs : b # a => audit'[b] = audit[b]
    BY <1>1, <1>6, <1>8 DEF TypeOK
  <2>2. jobs[j].outcome \in Outcomes
    BY <1>2, <1>4 DEF Outcomes, Recording, Answers
  <2>3. Transit' = Transit
    BY <1>1, <1>2, <1>5, <1>8, <2>2, EndsEffect DEF IsOver
  <2>4. \/ /\ mode = "delegated" /\ records[a].status = "consumed" /\ audit'[a] = RAC
           /\ jobs[First].outcome = "granted" /\ jobs[First].kind = "call" /\ jobs[a].target = jobs[First].target
        \/ records[a].status = "pending" /\ audit'[a] = R /\ jobs[First].outcome = "required"
        \/ mode = "delegated" /\ records[a].status = "approved" /\ audit'[a] = RA /\ jobs[First].outcome = "decided"
        \/ mode = "delegated" /\ records[a].status = "denied" /\ audit'[a] = RD /\ jobs[First].outcome = "decided"
        \/ /\ mode = "form" /\ records[a].status = "none" /\ a \notin continuations /\ audit'[a] \in {RE, REE, RD, RED}
           /\ jobs[First].outcome = "refused"
        \/ /\ mode = "form" /\ records[a].status = "none" /\ a \notin continuations /\ audit'[a] \in {RAC, REAC}
           /\ jobs[First].outcome = "granted" /\ jobs[First].kind \in {"accept", "decline"}
    <3>1. CASE Claims(a) /\ <<e>> = <<"consumed">> /\ jobs[First].outcome = "granted"
      <4>1. e = "consumed"
        BY <3>1
      <4> QED
        BY <2>1, <3>1, <4>1, Longer DEF Claims
    <3>2. CASE /\ jobs[First].kind = "call" /\ records[a].status = "pending" /\ audit[a] = <<>> /\ a = First
               /\ <<e>> = <<"requested">> /\ jobs[First].outcome = "required"
      <4>1. e = "requested"
        BY <3>2
      <4> QED
        BY <2>1, <3>2, <4>1, Longer
    <3>3. CASE /\ Rules(a) /\ jobs[First].outcome = "decided"
               /\ <<e>> = IF jobs[First].kind = "approve" THEN <<"approved">> ELSE <<"denied">>
      <4>1. e = IF jobs[First].kind = "approve" THEN "approved" ELSE "denied"
        BY <3>3
      <4> QED
        BY <2>1, <3>3, <4>1, Longer DEF Rules
    <3>4. CASE Answers(a, <<e>>)
      <4>1. CASE <<e>> \in {<<"expired">>, <<"denied">>} /\ jobs[First].outcome = "refused" /\ audit[a] \in {R, RE}
        <5>1. e \in {"expired", "denied"}
          BY <4>1
        <5> QED
          BY <2>1, <3>4, <4>1, <5>1, Longer DEF Answers
      <4>2. CASE <<e>> = <<"consumed">> /\ jobs[First].outcome = "granted" /\ audit[a] \in {RA, REA}
        <5>1. e = "consumed"
          BY <4>2
        <5> QED
          BY <2>1, <3>4, <4>2, <5>1, Longer DEF Answers
      <4>3. <<e>> # <<"approved", "consumed">>
        OBVIOUS
      <4> QED
        BY <3>4, <4>1, <4>2, <4>3 DEF Answers
    <3> QED
      BY <1>4, <1>8, <3>1, <3>2, <3>3, <3>4 DEF Recording
  <2>5. Settled(a)'
    <3>1. a \notin Transit' /\ mode' = mode /\ records' = records /\ continuations' = continuations
      BY <1>4, <1>5, <1>8, <2>3
    <3>2. /\ records[a].status = "consumed" => audit'[a] = RAC
          /\ records[a].status = "pending" => audit'[a] = R
          /\ records[a].status = "approved" => audit'[a] = RA
          /\ records[a].status = "denied" => audit'[a] = RD
          /\ records[a].status # "expired" /\ audit'[a] \in {RAC, R, RA, RD, RE, REE, RED, REAC}
          /\ a \in continuations => audit'[a] = R
          /\ mode = "delegated" => audit'[a] \in {RAC, R, RA, RD} /\ records[a].status # "none"
      BY <1>6, <2>4
    <3>3. audit'[a] \in Trails
      BY <1>1, <3>2, ModeIs DEF Trails
    <3> QED
      BY <1>1, <3>1, <3>2, <3>3, ModeIs DEF Settled, Tale, Trails
  <2>6. jobs[First].outcome = "granted" =>
          /\ records'[a].status \in {"none", "consumed"} /\ audit'[a] \in {RAC, REAC} /\ a \notin continuations'
          /\ jobs[First].kind = "call" => jobs[a].target = jobs[First].target
    BY <1>6, <1>8, <2>4
  <2>7. /\ revoked' \subseteq Jobs /\ expiredTransitions' = Transit
        /\ \A b \in continuations' : b \in continuations
        /\ mode = "delegated" => continuations' = {}
        /\ \A b \in Jobs : b # a => records'[b] = records[b] /\ audit'[b] = audit[b] /\ (b \in revoked' <=> b \in revoked)
    BY <1>1, <1>2, <1>5, <1>6, <1>8, <2>1 DEF TypeOK
  <2>8. PICK outcome \in Outcomes : outcome = jobs[First].outcome
    BY <1>2, <2>2
  <2>9. records' = records /\ records' \in [Jobs -> RecordSet] /\ Ends(j, outcome)
    BY <1>2, <1>6, <1>8, <2>8
  <2>10. outcome = "granted" => /\ a \in Jobs /\ a = Handled /\ records'[a].status \in {"none", "consumed"}
                                /\ audit'[a] \in {RAC, REAC} /\ a \notin continuations' /\ a \notin Transit
                                /\ jobs[First].kind = "call" => jobs[a].target = jobs[First].target
    BY <1>3, <1>4, <2>6, <2>8
  <2>11. Settled(a)' /\ a <= First /\ (records'[a].status = "none" \/ records'[a] = records[a]) /\ ~Closed(a)
    BY <1>4, <2>5, <2>9
  <2>12. UNCHANGED <<mode, clock>> /\ queue # <<>> /\ j = Head(queue) /\ expiredTransitions' = Transit
    BY <1>2, <1>5
  <2>13. \A b \in Jobs : b # a => records'[b] = records[b] /\ audit'[b] = audit[b] /\ (b \in revoked' <=> b \in revoked)
    BY <2>7
  <2>14. /\ a \in Jobs \cup {Nobody} /\ Handled \in {Nobody, a} /\ audit' \in [Jobs -> Seq(Events)]
         /\ revoked' \subseteq Jobs /\ (mode = "delegated" => continuations' = {})
    BY <1>3, <2>1, <2>7
  <2>15. \A b \in continuations' : b \in continuations \/ (b = a /\ b \in Jobs)
    BY <2>7
  <2>16. a \in Jobs => /\ Settled(a)' /\ a <= First
                       /\ records'[a].status = "none" \/ records'[a] = records[a]
                       /\ Handled = Nobody => ~Closed(a)
    BY <2>11
  <2> HIDE DEF events
  <2>17. CASE outcome # "granted"
    <3>1. outcome = "granted" => /\ a \in Jobs /\ a = Handled /\ records'[a].status \in {"none", "consumed"}
                                 /\ audit'[a] \in {RAC, REAC} /\ a \notin continuations' /\ a \notin Transit
                                 /\ jobs[First].kind = "call" => jobs[a].target = jobs[First].target
      BY <2>17
    <3>2. queue # <<>> /\ j = Head(queue) /\ Ends(j, outcome) /\ UNCHANGED <<mode, clock>> /\ expiredTransitions' = Transit
          /\ records' \in [Jobs -> RecordSet]
      BY <2>9, <2>12
    <3> HIDE <2>9, <2>10, <2>12
    <3> QED
      BY <3>1, <3>2, <2>13, <2>14, <2>15, <2>16, EndsStep
  <2>18. CASE outcome = "granted"
    <3>1. a \in Jobs /\ a = Handled /\ records'[a].status \in {"none", "consumed"}
      BY <2>10, <2>18
    <3>2. audit'[a] \in {RAC, REAC} /\ a \notin continuations' /\ a \notin Transit
      BY <2>10, <2>18
    <3>3. jobs[First].kind = "call" => jobs[a].target = jobs[First].target
      BY <2>10, <2>18
    <3> QED
      BY <3>1, <3>2, <3>3, <2>9, <2>12, <2>13, <2>14, <2>15, <2>16, <2>18, EndsStep
  <2> QED
    BY <2>17, <2>18
\* There is another one.
<1>9. ASSUME jobs[First].events = <<"approved", "consumed">>, audit' = [audit EXCEPT ![a] = Append(@, "approved")],
             jobs' = [jobs EXCEPT ![j].events = Tail(@)], queue' = queue, UNCHANGED <<records, continuations, revoked>>
      PROVE  IInv'
  <2> DEFINE x == [jobs[First] EXCEPT !.events = <<"consumed">>]
  <2>1. <<"consumed">> \in Seq(Events) /\ Tail(<<"approved", "consumed">>) = <<"consumed">>
    BY TwoEvents DEF Events
  <2>2. /\ x \in JobSet /\ x.phase = "record" /\ x.found = a /\ x.writing = {} /\ x.events = <<"consumed">>
        /\ x.kind = jobs[First].kind /\ x.target = jobs[First].target /\ x.outcome = jobs[First].outcome
    BY <1>2, <1>3, <2>1 DEF JobSet
  <2>3. jobs' = [jobs EXCEPT ![First] = x]
    BY <1>2, <1>9, <2>1
  <2> HIDE DEF x
  <2>4. Stays(x)
    BY <1>1, <1>2, <1>9, <2>2, <2>3, StaysEffect
  <2>5. Queued'
    BY <1>1, <1>2, <1>3, <1>5, <2>2, <2>4, StaysQueued, NobodyIsNone DEF Phases
  <2>6. Others /\ First' = First /\ Handled' = a /\ Transit' = Transit
    BY <1>1, <1>2, <1>5, <1>9, <2>2, <2>4, <2>5 DEF Stays, Others, TypeOK
  <2>7. /\ jobs'[First].phase = "record" /\ jobs'[First].events = <<"consumed">>
        /\ jobs'[First].outcome = jobs[First].outcome /\ jobs'[First].kind = jobs[First].kind
    BY <2>2, <2>4 DEF Stays
  <2>8. Answers(a, <<"approved", "consumed">>)
    <3>1. <<"approved", "consumed">> \notin {<<"consumed">>, <<"requested">>, <<"approved">>, <<"denied">>}
      OBVIOUS
    <3> QED
      BY <1>4, <1>9, <3>1 DEF Recording
  <2>9. /\ mode = "form" /\ records[a].status = "none" /\ a \notin continuations /\ audit[a] \in {R, RE}
        /\ jobs[First].outcome = "granted" /\ jobs[First].kind \in {"accept", "decline"}
    <3>1. <<"approved", "consumed">> \notin {<<"expired">>, <<"denied">>, <<"consumed">>}
      OBVIOUS
    <3> QED
      BY <2>8, <3>1 DEF Answers
  <2>10. audit' \in [Jobs -> Seq(Events)] /\ audit'[a] \in {RA, REA} /\ \A b \in Jobs : b # a => audit'[b] = audit[b]
    <3>1. audit'[a] = Append(audit[a], "approved") /\ Append(audit[a], "approved") \in Seq(Events)
      BY <1>1, <1>6, <1>9 DEF TypeOK, Events
    <3> QED
      BY <1>1, <1>9, <2>9, <3>1, Longer DEF TypeOK
  <2>11. Answers(a, <<"consumed">>)'
    BY <1>5, <1>9, <2>6, <2>7, <2>9, <2>10 DEF Answers
  <2>12. InHand(a)'
    BY <1>4, <2>6, <2>7, <2>11 DEF InHand, Recording
  <2>13. TypeOK'
    BY <1>1, <1>5, <1>9, <2>6, <2>10 DEF TypeOK, Others, JobSet
  <2>14. ByMode' /\ Bindings1'
    BY <1>1, <1>2, <1>5, <1>6, <1>9, <2>6, ByModeKept, Bindings1Kept DEF IInv, ByMode
  <2>15. Grants'
    <3>1. \A b \in Jobs : Closed(b) => Closed(b)'
      BY <1>3, <1>9, <2>6, <2>10 DEF Closed
    <3> QED
      BY <1>1, <1>2, <2>6, <2>7, <3>1, GrantsKept DEF IInv
  <2>16. Stories'
    <3> SUFFICES ASSUME NEW b \in Jobs, b # a
                 PROVE  /\ b < First => Settled(b)'
                        /\ ~(b < First) => Untouched(b)'
      BY <2>6, <2>12 DEF Stories
    <3>1. b # Handled /\ audit'[b] = audit[b]
      BY <1>3, <2>10
    <3>2. (Settled(b) => Settled(b)') /\ (Untouched(b) => Untouched(b)')
      BY <1>5, <1>9, <2>6, <3>1, Remains
    <3> QED
      BY <3>1, <3>2 DEF IInv, Stories
  <2> QED
    BY <2>5, <2>13, <2>14, <2>15, <2>16 DEF IInv
<1>10. \/ /\ Ends(j, "refused") /\ records' = Without(records, a) /\ continuations' = continuations \ {a}
          /\ revoked' = revoked \cup {a} /\ audit' = audit
       \/ /\ audit' = [audit EXCEPT ![a] = Append(@, Head(events))]
          /\ UNCHANGED <<records, continuations, revoked>>
          /\ IF Len(events) = 1 THEN Ends(j, jobs[j].outcome)
             ELSE jobs' = [jobs EXCEPT ![j].events = Tail(@)] /\ queue' = queue
  BY <1>2, <1>3 DEF Record
<1>11. (\E e \in Events : jobs[First].events = <<e>>) \/ jobs[First].events = <<"approved", "consumed">>
  BY <1>4 DEF Recording, Answers, Events
<1>12. CASE jobs[First].events = <<"approved", "consumed">>
  <2>1. Len(events) = 2 /\ Head(events) = "approved" /\ ~(Len(events) = 1)
    <3>1. events = <<"approved", "consumed">>
      BY <1>2, <1>12
    <3> HIDE DEF events
    <3> QED
      BY <3>1, TwoEvents
  <2> HIDE DEF events
  <2>2. CASE /\ Ends(j, "refused") /\ records' = Without(records, a) /\ continuations' = continuations \ {a}
             /\ revoked' = revoked \cup {a} /\ audit' = audit
    BY <1>7, <2>2
  <2>3. CASE /\ audit' = [audit EXCEPT ![a] = Append(@, "approved")] /\ UNCHANGED <<records, continuations, revoked>>
             /\ jobs' = [jobs EXCEPT ![j].events = Tail(@)] /\ queue' = queue
    BY <1>9, <1>12, <2>3
  <2> QED
    BY <1>10, <2>1, <2>2, <2>3
<1>13. ASSUME NEW e \in Events, jobs[First].events = <<e>> PROVE IInv'
  <2>1. Len(events) = 1 /\ Head(events) = e
    BY <1>2, <1>13, OneEvent
  <2> QED
    BY <1>2, <1>7, <1>8, <1>10, <1>13, <2>1
<1> QED
  BY <1>11, <1>12, <1>13

\* While expiries are being written: the job has begun and is not recording yet.
LEMMA WritingFacts ==
  ASSUME IInv, queue # <<>>, jobs[First].writing # {}
  PROVE  /\ jobs[First].phase \in {"expire", "consume", "request", "failing", "decide"}
         /\ expiredTransitions = {} /\ Transit = jobs[First].writing
<1>1. First \in 1 .. Len(jobs) /\ jobs[First] \in JobSet /\ Transit = expiredTransitions \cup jobs[First].writing
  BY HeadIsFirst DEF IInv
<1>2. jobs[First].phase \notin {"queued", "record", "done"}
  BY <1>1 DEF IInv, Queued
<1> QED
  BY <1>1, <1>2 DEF IInv, Queued, JobSet

LEMMA WriteExpiredStep == ASSUME IInv, NEW j, WriteExpired(j) PROVE IInv'
<1>1. queue # <<>> /\ j = Head(queue) /\ UNCHANGED <<mode, continuations, clock>>
  BY DEF WriteExpired
<1>2. TypeOK /\ Queued /\ ByMode /\ Stories /\ Bindings1 /\ Grants
  BY DEF IInv
<1>3. /\ j = First /\ First \in 1 .. Len(jobs) /\ jobs[First] \in JobSet /\ First \in Nat
      /\ Handled = jobs[First].found /\ Handled \in Jobs \cup {Nobody}
  BY <1>1, <1>2, HeadIsFirst DEF JobSet, Jobs
<1>4. jobs[First].writing # {}
  BY <1>3 DEF WriteExpired
<1>5. /\ jobs[First].phase \in {"expire", "consume", "request", "failing", "decide"}
      /\ expiredTransitions = {} /\ Transit = jobs[First].writing
  BY <1>1, <1>4, WritingFacts
<1>6. ASSUME NEW a \in jobs[j].writing, audit' = [audit EXCEPT ![a] = Append(@, "expired")],
             jobs' = [jobs EXCEPT ![j].writing = @ \ {a}], UNCHANGED <<records, expiredTransitions, queue, revoked>>
      PROVE  IInv'
  <2> DEFINE x == [jobs[First] EXCEPT !.writing = @ \ {a}]
  <2>1. a \in Jobs /\ a \in Transit
    BY <1>3, <1>5, <1>6 DEF JobSet
  <2>2. /\ x \in JobSet /\ x.phase = jobs[First].phase /\ x.found = jobs[First].found /\ x.writing = Transit \ {a}
        /\ x.kind = jobs[First].kind /\ x.target = jobs[First].target /\ x.created = jobs[First].created
    BY <1>3, <1>5 DEF JobSet
  <2>3. jobs' = [jobs EXCEPT ![First] = x]
    BY <1>3, <1>6
  <2> HIDE DEF x
  <2>4. Stays(x)
    BY <1>1, <1>2, <1>6, <2>2, <2>3, StaysEffect
  <2>5. Queued'
    <3>1. /\ x.phase \in {"expire", "failing"} => x.found = Nobody
          /\ x.phase = "consume" => x.kind = "call"
          /\ x.phase \in {"request", "decide", "record"} => x.found # Nobody
      BY <1>2, <1>3, <2>2 DEF Queued
    <3>2. x.phase \in Phases /\ x.phase # "record" /\ expiredTransitions' = {}
      BY <1>5, <1>6, <2>2 DEF Phases
    <3> QED
      BY <1>1, <1>2, <2>2, <2>4, <3>1, <3>2, StaysQueued
  <2>6. Others /\ First' = First /\ Handled' = Handled /\ Transit' = Transit \ {a}
    BY <1>2, <1>3, <1>5, <1>6, <2>2, <2>4, <2>5 DEF Stays, Others, TypeOK
  <2>7. /\ jobs'[First].phase = jobs[First].phase /\ jobs'[First].created = jobs[First].created
        /\ jobs'[First].kind = jobs[First].kind /\ jobs'[First].target = jobs[First].target
    BY <2>2, <2>4 DEF Stays
  <2>8. /\ audit[a] \in Seq(Events) /\ audit'[a] = Append(audit[a], "expired") /\ "expired" \in Events
        /\ \A b \in Jobs : b # a => audit'[b] = audit[b]
    BY <1>2, <1>6, <2>1 DEF TypeOK, Events
  <2>9. audit' \in [Jobs -> Seq(Events)]
    BY <1>2, <1>6, <2>1, <2>8, AppendProperties DEF TypeOK
  <2>10. TypeOK'
    BY <1>1, <1>2, <1>6, <2>6, <2>9 DEF TypeOK, Others, JobSet
  <2>11. ByMode' /\ Bindings1'
    BY <1>1, <1>2, <1>3, <1>6, <2>6, ByModeKept, Bindings1Kept DEF ByMode
  <2>12. Grants'
    <3>1. \A b \in Jobs : Closed(b) => Closed(b)'
      BY <1>1, <1>6, <2>1, <2>6, <2>8 DEF Closed
    <3>2. jobs'[First].phase # "done"
      BY <1>5, <2>7
    <3> QED
      BY <1>2, <1>3, <2>6, <3>1, <3>2, GrantsKept
  <2>13. a # Handled /\ a < First
    <3>1. a # Handled
      BY <2>1, <1>2 DEF Stories, InHand
    <3> QED
      BY <1>2, <2>1, <3>1 DEF Stories, Untouched
  <2>14. Settled(a)'
    <3>1. Tale(records[a].status, audit[a], TRUE, a \in continuations, a \in revoked)
      BY <1>2, <2>1, <2>13 DEF Stories, Settled, Tale
    <3>2. /\ records[a].status \in {"none", "expired"} /\ audit[a] \in {R, RA} /\ (mode = "form" => audit[a] = R)
          /\ a \in continuations => audit[a] = R
      BY <3>1, Unlike DEF Tale
    <3>3. audit'[a] \in {RE, RAE} /\ (mode = "form" => audit'[a] = RE) /\ (a \in continuations => audit'[a] = RE)
      BY <2>8, <3>2, Longer
    <3>4. audit'[a] \in Trails /\ a \notin Transit'
      BY <1>2, <2>6, <3>3, ModeIs DEF Trails
    <3> QED
      BY <1>1, <1>6, <3>2, <3>3, <3>4, Distinct DEF Settled, Tale, Trails
  <2>15. Stories'
    <3> SUFFICES ASSUME NEW b \in Jobs
                 PROVE  /\ b = Handled => InHand(b)'
                        /\ b # Handled /\ b < First => Settled(b)'
                        /\ b # Handled /\ ~(b < First) => Untouched(b)'
      BY <2>6 DEF Stories
    <3>1. ASSUME b = Handled PROVE InHand(b)'
      <4>1. /\ InHand(b) /\ b \in 1 .. Len(jobs)
        BY <3>1, HandledFacts
      <4>2. jobs'[b].target = jobs[b].target /\ audit'[b] = audit[b]
        BY <2>6, <2>8, <2>13, <3>1, <4>1 DEF Others
      <4>3. jobs[First].phase # "record"
        BY <1>5
      <4> QED
        BY <1>1, <1>6, <2>6, <2>7, <4>1, <4>2, <4>3 DEF InHand, Claims, Asks, Rules
    <3>2. ASSUME b # Handled, b # a PROVE (Settled(b) => Settled(b)') /\ (Untouched(b) => Untouched(b)')
      BY <1>1, <1>6, <2>6, <2>8, <3>2, Remains
    <3> QED
      BY <1>2, <2>13, <2>14, <3>1, <3>2 DEF Stories
  <2> QED
    BY <2>5, <2>10, <2>11, <2>12, <2>15 DEF IInv
\* The write fails: what is left is put back, and what the job has in hand is revoked.
<1>7. ASSUME expiredTransitions' = jobs[j].writing \cup expiredTransitions, Ends(j, "refused"),
             records' = Without(records, jobs[j].found),
             revoked' = revoked \cup ({jobs[j].found} \ {Nobody}), audit' = audit
      PROVE  IInv'
  <2>1. PICK x \in Jobs \cup {Nobody} : x = Handled
    BY <1>3
  <2>2. /\ records' = Without(records, x) /\ revoked' = revoked \cup ({x} \ {Nobody}) /\ expiredTransitions' = Transit
        /\ "refused" \in Outcomes
    BY <1>3, <1>5, <1>7, <2>1 DEF Outcomes
  <2>3. records \in [Jobs -> RecordSet] /\ records' \in [Jobs -> RecordSet]
    BY <1>2, <2>2, Typed, RecordTypes
  <2>4. \A b \in Jobs : b # x => records'[b] = records[b] /\ audit'[b] = audit[b] /\ (b \in revoked' <=> b \in revoked)
    BY <1>7, <2>2, WithoutFacts
  <2>5. Transit' = Transit
    BY <1>1, <1>2, <1>7, <2>2, EndsEffect DEF IsOver
  <2>6. ASSUME x \in Jobs
        PROVE  Settled(x)' /\ x <= First /\ (records'[x].status = "none" \/ records'[x] = records[x])
    <3>1. InHand(x) /\ x <= First
      BY <2>1, <2>6, HandledFacts
    <3>2. /\ audit[x] \in {<<>>, R, RA} /\ (mode = "form" => audit[x] # RA) /\ (x \in continuations => audit[x] = R)
      BY <1>2, <1>5, <3>1, Unlike DEF InHand, Claims, Asks, Rules, ByMode
    <3>3. records'[x].status = "none" /\ x \in revoked' /\ x \notin Transit'
      BY <2>2, <2>5, <2>6, <3>1, WithoutFacts, NobodyIsNone DEF InHand
    <3>4. audit[x] \in Trails
      BY <1>2, <3>2, ModeIs DEF Trails
    <3> QED
      BY <1>1, <1>7, <3>1, <3>2, <3>3, <3>4 DEF Settled, Tale, Trails
  <2>7. /\ audit' \in [Jobs -> Seq(Events)] /\ revoked' \subseteq Jobs
        /\ \A b \in continuations' : b \in continuations \/ (b = x /\ b \in Jobs)
        /\ mode = "delegated" => continuations' = {}
    BY <1>1, <1>2, <1>7, <2>1, <2>2 DEF TypeOK, ByMode
  <2>8. x \in Jobs => /\ Settled(x)' /\ x <= First
                      /\ records'[x].status = "none" \/ records'[x] = records[x]
                      /\ Handled = Nobody => ~Closed(x)
    BY <2>1, <2>6, NobodyIsNone
  <2>9. Handled \in {Nobody, x}
    BY <2>1
  <2>10. queue # <<>> /\ j = Head(queue) /\ UNCHANGED <<mode, clock>> /\ expiredTransitions' = Transit
    BY <1>1, <2>2
  <2>11. "refused" \in Outcomes /\ records' \in [Jobs -> RecordSet] /\ Ends(j, "refused")
    BY <1>7, <2>2, <2>3
  <2> QED
    BY <2>4, <2>7, <2>8, <2>9, <2>10, <2>11, EndsStep
<1> QED
  BY <1>1, <1>6, <1>7 DEF WriteExpired

\* Time passes, or nothing happens.
LEMMA SameInv ==
  ASSUME IInv, clock' \in 0 .. MaxJobs,
         UNCHANGED <<mode, records, continuations, expiredTransitions, queue, jobs, audit, revoked>>
  PROVE  IInv'
<1>1. /\ mode' = mode /\ records' = records /\ continuations' = continuations /\ queue' = queue
      /\ expiredTransitions' = expiredTransitions /\ jobs' = jobs /\ audit' = audit /\ revoked' = revoked
  OBVIOUS
<1>2. First' = First
  BY <1>1 DEF First
<1>3. Handled' = Handled /\ Transit' = Transit
  BY <1>1, <1>2 DEF Handled, Transit
<1>4. TypeOK'
  BY <1>1 DEF IInv, TypeOK
<1>5. Queued' /\ ByMode' /\ Bindings1'
  BY <1>1, <1>2 DEF IInv, Queued, ByMode, Bindings1
<1>6. Grants'
  BY <1>1, <1>2, <1>3 DEF IInv, Grants, Granted
<1>7. Stories'
  <2> SUFFICES ASSUME NEW a \in Jobs
               PROVE  /\ a = Handled => InHand(a)'
                      /\ a # Handled /\ a < First => Settled(a)'
                      /\ a # Handled /\ ~(a < First) => Untouched(a)'
    BY <1>2, <1>3 DEF Stories
  <2>1. InHand(a) => InHand(a)'
    BY <1>1, <1>2, <1>3 DEF InHand, Claims, Asks, Rules, Recording, Answers
  <2>2. (Settled(a) => Settled(a)') /\ (Untouched(a) => Untouched(a)')
    BY <1>1, <1>3, Remains
  <2> QED
    BY <2>1, <2>2 DEF IInv, Stories
<1> QED
  BY <1>4, <1>5, <1>6, <1>7 DEF IInv

LEMMA Arrivals ==
  ASSUME IInv
  PROVE  /\ \A binding \in Bindings : Call(binding) => IInv'
         /\ Look => IInv'
         /\ \A a \in Jobs : \A kind \in {"approve", "deny"} : Decision(kind, a) => IInv'
         /\ \A a \in Jobs : \A kind \in {"accept", "decline"} : Answer(kind, a) => IInv'
<1>1. ASSUME NEW binding \in Bindings, Call(binding) PROVE IInv'
  <2> DEFINE job == NewJob("call", binding)
  <2>1. job \in JobSet
    BY NewJobs DEF Kinds
  <2>2. job.phase = "queued" /\ job.writing = {} /\ job.found = Nobody /\ job.kind = "call" /\ job.target = binding
    BY DEF NewJob
  <2>3. Arrive(job)
    BY <1>1 DEF Call
  <2> HIDE DEF job
  <2> QED
    BY <2>1, <2>2, <2>3, ArriveStep
<1>2. ASSUME Look PROVE IInv'
  <2> DEFINE job == NewJob("look", Nobody)
  <2>1. job \in JobSet
    BY NewJobs DEF Kinds
  <2>2. job.phase = "queued" /\ job.writing = {} /\ job.found = Nobody /\ job.kind = "look"
    BY DEF NewJob
  <2>3. Arrive(job)
    BY <1>2 DEF Look
  <2> HIDE DEF job
  <2> QED
    BY <2>1, <2>2, <2>3, ArriveStep
<1>3. ASSUME NEW a \in Jobs, NEW kind \in {"approve", "deny"}, Decision(kind, a) PROVE IInv'
  <2> DEFINE job == NewJob(kind, a)
  <2>1. job \in JobSet
    BY NewJobs DEF Kinds
  <2>2. job.phase = "queued" /\ job.writing = {} /\ job.found = Nobody /\ job.kind \in {"approve", "deny"} /\ job.target = a
    BY DEF NewJob
  <2>3. Arrive(job) /\ mode = "delegated"
    BY <1>3 DEF Decision
  <2> HIDE DEF job
  <2> QED
    BY <2>1, <2>2, <2>3, ArriveStep
<1>4. ASSUME NEW a \in Jobs, NEW kind \in {"accept", "decline"}, Answer(kind, a) PROVE IInv'
  <2> DEFINE new == NewJob(kind, a)
             job == [new EXCEPT !.late = Due(a)]
  <2>1. new \in JobSet
    BY NewJobs DEF Kinds
  <2>2. /\ new.phase = "queued" /\ new.writing = {} /\ new.found = Nobody
        /\ new.kind \in {"accept", "decline"} /\ new.target = a
    BY DEF NewJob
  <2>3. Arrive(job) /\ mode = "form"
    BY <1>4 DEF Answer
  <2> HIDE DEF new
  <2>4. /\ job \in JobSet /\ job.phase = new.phase /\ job.writing = new.writing /\ job.found = new.found
        /\ job.kind = new.kind /\ job.target = new.target
    <3>1. PICK late \in BOOLEAN : job = [new EXCEPT !.late = late]
      <4>1. Due(a) \in BOOLEAN
        BY DEF Due
      <4> QED
        BY <4>1, Zenon
    <3> HIDE DEF job
    <3> QED
      BY <2>1, <3>1 DEF JobSet
  <2> HIDE DEF job
  <2> QED
    BY <2>2, <2>3, <2>4, ArriveStep
<1> QED
  BY <1>1, <1>2, <1>3, <1>4

\* Every step of the specification keeps the invariant.
LEMMA NextInv == IInv /\ [Next]_vars => IInv'
<1> SUFFICES ASSUME IInv, [Next]_vars PROVE IInv'
  OBVIOUS
<1>1. ASSUME NEW j \in Jobs, Step(j) PROVE IInv'
  BY <1>1, BeginStep, WriteExpiredStep, LookedStep, ConsumeStep, RecordClaimStep, RequestStep, FailStep,
     RequestedStep, DecideStep, RecordDecisionStep, CompleteStep, RecordStep DEF Step
<1>2. CASE Elapse
  BY <1>2, SameInv DEF Elapse, Jobs
<1>3. CASE UNCHANGED vars
  <2>1. clock' \in 0 .. MaxJobs /\ UNCHANGED <<mode, records, continuations, expiredTransitions, queue, jobs, audit, revoked>>
    BY <1>3 DEF vars, IInv, TypeOK
  <2> QED
    BY <2>1, SameInv
<1> QED
  BY <1>1, <1>2, <1>3, Arrivals DEF Next

---------------------------------------------------------------------------
(* What it gives.                                                          *)

\* The stores, the queue and the log of approvals keep their types.
THEOREM TypeCorrect == Spec => []TypeOK
<1>1. IInv => TypeOK
  BY DEF IInv
<1> QED
  BY <1>1, InitInv, NextInv, PTL DEF Spec

\* A log that ends in a grant that was earned.
LEMMA EarnedTrails ==
  ASSUME NEW t \in {RAC, REAC}
  PROVE  /\ Len(t) > 2 /\ t[1] = "requested" /\ t[Len(t) - 1] = "approved" /\ t[Len(t)] = "consumed"
         /\ \A i \in 1 .. Len(t) : t[i] # "denied"
<1>1. CASE t = RAC
  BY <1>1 DEF RAC
<1>2. CASE t = REAC
  BY <1>2 DEF REAC
<1> QED
  BY <1>1, <1>2

LEMMA EarnedInv == IInv => GrantIsEarned
<1> SUFFICES ASSUME IInv, NEW j \in DOMAIN jobs, Granted(j)
             PROVE  /\ \A k \in DOMAIN jobs : Granted(k) /\ jobs[k].found = jobs[j].found => k = j
                    /\ jobs[j].kind = "call" => jobs[jobs[j].found].target = jobs[j].target
                    /\ audit[jobs[j].found] \in {RAC, REAC}
  BY EarnedTrails DEF GrantIsEarned, GrantedOnce, GrantIsRecorded
<1>1. DOMAIN jobs = 1 .. Len(jobs)
  BY DEF IInv, TypeOK
<1> QED
  BY <1>1 DEF IInv, Grants

\* A call that policy wants confirmed passes once for an approval of its very
\* operation, which the log says was requested, granted and consumed, and not
\* denied: however the decisions, answers, expiries and failing writes interleave.
THEOREM GrantsEarned == Spec => []GrantIsEarned
BY EarnedInv, InitInv, NextInv, PTL DEF Spec

\* What the log of a delegated agent's approvals can be, and how often it ends.
AgentTrails == {<<>>, R, RA, RD, RE, RAC, RAE}
Over == {"denied", "expired", "consumed"}
LEMMA TrailsEnd ==
  /\ \A t \in AgentTrails : \A i, k \in DOMAIN t : t[i] \in Over /\ t[k] \in Over => i = k
  /\ \A t \in {RD, RE, RAC, RAE} : \E i \in DOMAIN t : t[i] \in Over
<1>1. \A t \in {<<>>, R, RA} : \A i \in DOMAIN t : t[i] \notin Over
  BY DEF R, RA, Over
<1>2. \A t \in {RD, RE} : DOMAIN t = 1 .. 2 /\ t[1] \notin Over /\ t[2] \in Over
  BY DEF RD, RE, Over
<1>3. \A t \in {RAC, RAE} : DOMAIN t = 1 .. 3 /\ t[1] \notin Over /\ t[2] \notin Over /\ t[3] \in Over
  BY DEF RAC, RAE, Over
<1>4. \A t \in {RD, RE} : \A i \in DOMAIN t : t[i] \in Over => i = 2
  BY <1>2
<1>5. \A t \in {RAC, RAE} : \A i \in DOMAIN t : t[i] \in Over => i = 3
  BY <1>3
<1> QED
  BY <1>1, <1>2, <1>3, <1>4, <1>5 DEF AgentTrails

LEMMA TrailInv == IInv => DelegatedTrail
<1> SUFFICES ASSUME IInv, mode = "delegated", NEW a \in Jobs
             PROVE  /\ \A i, k \in Ended(a) : i = k
                    /\ \/ audit[a] = <<>> \/ Live(a) \/ a \in continuations \cup revoked
                       \/ Ended(a) # {} \/ InTransit(a)
  BY DEF DelegatedTrail, EndsOnce, EndIsRecorded
<1>1. TypeOK /\ Queued /\ Stories /\ records[a] \in RecordSet
  BY Typed DEF IInv
<1>2. queue # <<>> => First \in DOMAIN jobs /\ jobs[First].phase # "done"
  <2> HAVE queue # <<>>
  <2>1. First \in 1 .. Len(jobs) /\ First \in Nat
    BY <1>1, HeadIsFirst, FirstIsNumber
  <2> QED
    BY <1>1, <2>1 DEF TypeOK, Queued
<1>3. a \in Transit \/ a = Handled => InTransit(a)
  BY <1>2, NobodyIsNone DEF Transit, Handled, InTransit
<1>4. Ended(a) = {i \in DOMAIN audit[a] : audit[a][i] \in Over}
  BY DEF Ended, Over
<1>5. CASE a = Handled
  <2>1. audit[a] \in {<<>>, R, RA}
    <3>1. InHand(a)
      BY <1>1, <1>5 DEF Stories
    <3>2. /\ Claims(a) => audit[a] = RA
          /\ Asks(a) => audit[a] \in {<<>>, R}
          /\ Rules(a) => audit[a] = R
          /\ Recording(a, jobs[First].events) => audit[a] \in {<<>>, R, RA}
      BY DEF Claims, Asks, Rules, Recording, Answers
    <3> QED
      BY <3>1, <3>2 DEF InHand
  <2>2. audit[a] \in AgentTrails
    BY <2>1 DEF AgentTrails
  <2> QED
    BY <1>3, <1>4, <1>5, <2>2, TrailsEnd
<1>6. CASE a # Handled /\ a < First
  <2>1. Tale(records[a].status, audit[a], a \in Transit, a \in continuations, a \in revoked)
    BY <1>1, <1>6 DEF Stories, Settled
  <2>2. audit[a] \in AgentTrails
    BY <2>1 DEF Tale, Trails, AgentTrails
  <2>3. audit[a] \in {R, RA} => Live(a) \/ a \in revoked \/ a \in Transit
    BY <1>1, <2>1, Distinct DEF Tale, Live, RecordSet
  <2>4. audit[a] \in {RD, RE, RAC, RAE} => Ended(a) # {}
    BY <1>4, TrailsEnd
  <2> QED
    BY <1>3, <1>4, <2>2, <2>3, <2>4, TrailsEnd DEF AgentTrails
<1>7. CASE a # Handled /\ ~(a < First)
  <2>1. audit[a] = <<>>
    BY <1>1, <1>7 DEF Stories, Untouched
  <2> QED
    BY <1>4, <2>1, TrailsEnd DEF AgentTrails
<1> QED
  BY <1>5, <1>6, <1>7

\* With a delegated agent every approval ends at most once in the log, and its
\* end is there or on its way, unless a failing write revoked the approval.
THEOREM DelegatedTrails == Spec => []DelegatedTrail
BY TrailInv, InitInv, NextInv, PTL DEF Spec
=============================================================================
