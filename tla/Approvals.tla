-------------------------------- MODULE Approvals --------------------------------
(***************************************************************************)
(* The approvals of one MCP connection: ApprovalStore and the store of     *)
(* form continuations, as MiftahServer drives them through its queue       *)
(* approvalTransitions.  A call that policy wants confirmed consumes an    *)
(* approval or leaves one pending; a delegated agent decides it with the   *)
(* bearer it was given, a person by answering a form whose continuation    *)
(* the client sends back with the call.                                    *)
(*                                                                         *)
(* A job is one entry of the queue, numbered as it arrives; the approval   *)
(* that a call creates has the number of the call.  An action is what the  *)
(* head of the queue does between two awaits, and every await is a write   *)
(* to the audit log, which may fail (fail-closed).  What a bearer or a     *)
(* digest looks like is left out: a job names the approval or the binding  *)
(* they stand for.  The approvals whose expiry is to be written are a set: *)
(* the code has them in the order of their creation, which is that of      *)
(* their deadlines and of their numbers.                                   *)
(***************************************************************************)
EXTENDS Naturals, Sequences, FiniteSets

CONSTANTS
  Bindings,    \* what an approval may be bound to: one exact operation each
  Modes,       \* the confirmation paths to consider
  MaxJobs,     \* bound: jobs that arrive
  MaxRecords,  \* DEFAULT_MAX_RECORDS, of both stores
  MaxBearers   \* MAX_BEARERS_PER_PENDING_APPROVAL

ASSUME ApprovalsAssumption ==
  /\ Modes \subseteq {"form", "delegated"}
  /\ MaxJobs \in Nat /\ MaxRecords \in Nat \ {0} /\ MaxBearers \in Nat \ {0}

Jobs == 1 .. MaxJobs
Nobody == 0
Kinds == {"call", "look", "approve", "deny", "accept", "decline"}

VARIABLES
  mode,           \* form elicitation, or the delegated-agent mode
  records,        \* the ApprovalStore
  continuations,  \* the ApprovalContinuationStore: approvals with a live continuation
  clock,          \* the approvals up to this number are past their expiresAt
  expiredTransitions, \* approvals whose expiry is not in the audit log yet
  queue,          \* approvalTransitions
  jobs,           \* the jobs that have arrived
  audit,          \* the approval events of each approval, in order
  revoked         \* history: approvals revoked because an audit write failed

vars == <<mode, records, continuations, clock, expiredTransitions, queue, jobs, audit, revoked>>

NoRecord == [status |-> "none", binding |-> Nobody, bearers |-> 0]
Events == {"requested", "approved", "denied", "expired", "consumed"}

Due(a) == a <= clock
Live(a) == records[a].status \in {"pending", "approved"}

Init ==
  /\ mode \in Modes
  /\ records = [a \in Jobs |-> NoRecord]
  /\ continuations = {}
  /\ clock = 0
  /\ expiredTransitions = {}
  /\ queue = <<>>
  /\ jobs = <<>>
  /\ audit = [a \in Jobs |-> <<>>]
  /\ revoked = {}

-----------------------------------------------------------------------------
(* The store.                                                              *)

\* expire: the approvals it marks, and the records after it.
Expiring == {a \in Jobs : Live(a) /\ Due(a)}
Unexpired == records  \* mutant: the status stays
Expired == [a \in Jobs |-> IF a \in Expiring THEN [records[a] EXCEPT !.status = "expired"]
                           ELSE records[a]]

\* revoke
Kept(recs, a) == recs  \* mutant: the approval stays after a failed audit write
Without(recs, a) == [b \in Jobs |-> IF b = a THEN NoRecord ELSE recs[b]]

\* The records with a status that are bound to an operation.
Bound(recs, status, binding) ==
  {a \in Jobs : recs[a].status = status /\ recs[a].binding = binding}

\* discardTerminalRecords
Undiscarded(recs) ==
  [a \in Jobs |-> IF recs[a].status \in {"pending", "approved"} THEN recs[a] ELSE NoRecord]

\* The status a consumed approval gets.
Reusable(recs, a) == recs  \* mutant: consume leaves it approved
Claimed(recs, a) == [recs EXCEPT ![a].status = "consumed"]

\* issueToken: a pending approval has a bounded number of bearers.
AlwaysOneMore(a) == TRUE  \* mutant: the bearers are not counted
OneMoreBearer(a) == records[a].bearers < MaxBearers

-----------------------------------------------------------------------------
(* Jobs.                                                                   *)

NewJob(kind, target) ==
  [kind |-> kind, target |-> target, phase |-> "queued", writing |-> {}, found |-> Nobody,
   created |-> FALSE, late |-> FALSE, fresh |-> {}, events |-> <<>>, outcome |-> "none"]

Running(j, phase) ==
  queue # <<>> /\ j = Head(queue) /\ jobs[j].phase = phase /\ jobs[j].writing = {}

\* A job that has ended keeps its approval and its outcome.
Done(j, outcome) ==
  [NewJob(jobs[j].kind, jobs[j].target) EXCEPT
     !.phase = "done", !.found = jobs[j].found, !.outcome = outcome]

EndsStuck(j, outcome) ==  \* mutant: the queue does not go on after a rejection
  /\ jobs' = [jobs EXCEPT ![j] = Done(j, outcome)]
  /\ queue' = IF outcome = "refused" THEN queue ELSE Tail(queue)
Ends(j, outcome) ==
  /\ jobs' = [jobs EXCEPT ![j] = Done(j, outcome)]
  /\ queue' = Tail(queue)

\* A job goes on to record events of the approval it found.
Records(j, a, events, outcome) ==
  /\ jobs' = [jobs EXCEPT ![j].phase = "record", ![j].found = a,
                          ![j].events = events, ![j].outcome = outcome]
  /\ UNCHANGED queue

\* A job goes on to write the expiries there are, those that the store marks
\* now included.
Expires(j, phase, found, created) ==
  /\ jobs' = [jobs EXCEPT ![j].phase = phase, ![j].found = found, ![j].created = created,
                          ![j].fresh = Expiring,
                          ![j].writing = expiredTransitions \cup Expiring]
  /\ expiredTransitions' = {}
  /\ UNCHANGED queue

Arrive(job) ==
  /\ Len(jobs) < MaxJobs
  /\ jobs' = Append(jobs, job)
  /\ queue' = Append(queue, Len(jobs) + 1)
  /\ UNCHANGED <<mode, records, continuations, clock, expiredTransitions, audit, revoked>>

\* requireApproval without a continuation.
Call(binding) == Arrive(NewJob("call", binding))

\* miftah_list_approvals, and a call that nobody could approve: they only expire.
Look == Arrive(NewJob("look", Nobody))

\* miftah_approve and miftah_deny, with the bearer of an approval.
Decision(kind, a) ==
  /\ mode = "delegated"
  /\ \E j \in DOMAIN jobs : jobs[j].outcome = "required" /\ jobs[j].phase = "done"
                            /\ jobs[j].found = a
  /\ Arrive(NewJob(kind, a))

\* finishFormApproval, up to the queue: the continuation is looked up and the
\* deadline is compared before the job gets its turn.
Answer(kind, a) ==
  /\ mode = "form" /\ a \in continuations
  /\ Arrive([NewJob(kind, a) EXCEPT !.late = Due(a)])

\* The deadline of the next approval passes.
Elapse ==
  /\ \E a \in Jobs :
       /\ (Live(a) \/ a \in continuations) /\ ~Due(a)
       /\ \A b \in Jobs : (Live(b) \/ b \in continuations) /\ ~Due(b) => a <= b
       /\ clock' = a
  /\ UNCHANGED <<mode, records, continuations, expiredTransitions, queue, jobs, audit, revoked>>

-----------------------------------------------------------------------------
(* The head of the queue.                                                  *)

\* expireApprovals, the first thing every job does.
Begin(j) ==
  /\ Running(j, "queued")
  /\ records' = Expired
  /\ Expires(j, "expire", Nobody, FALSE)
  /\ UNCHANGED <<mode, continuations, clock, audit, revoked>>

\* writeExpiredApprovalTransitions: one event, or a failure that restores those
\* left and, by the stage of the job, revokes what it has just changed.
WriteExpired(j) ==
  /\ queue # <<>> /\ j = Head(queue)
  /\ \/ \E a \in jobs[j].writing :
          /\ \A b \in jobs[j].writing : a <= b
          /\ audit' = [audit EXCEPT ![a] = Append(@, "expired")]
          /\ jobs' = [jobs EXCEPT ![j].writing = @ \ {a}]
          /\ UNCHANGED <<records, expiredTransitions, queue, revoked>>
     \/ /\ jobs[j].writing # {}
        /\ expiredTransitions' = jobs[j].writing \cup expiredTransitions
        /\ Ends(j, "refused")
        /\ records' = Without(records, jobs[j].found)
        /\ revoked' = revoked \cup ({jobs[j].found} \ {Nobody})
        /\ UNCHANGED audit
  /\ UNCHANGED <<mode, continuations, clock>>

Looked(j) ==
  /\ Running(j, "expire") /\ jobs[j].kind = "look"
  /\ Ends(j, "decided")
  /\ UNCHANGED <<mode, records, continuations, clock, expiredTransitions, audit, revoked>>

\* consume: the approval granted for this very operation is claimed.
Consume(j) ==
  /\ Running(j, "expire") /\ jobs[j].kind = "call"
  /\ LET granted == Bound(Expired, "approved", jobs[j].target)
     IN  IF granted = {}
         THEN records' = Expired /\ Expires(j, "consume", Nobody, FALSE)
         ELSE \E a \in granted :
                /\ \A b \in granted : a <= b
                /\ records' = Claimed(Expired, a)
                /\ Expires(j, "consume", a, FALSE)
  /\ UNCHANGED <<mode, continuations, clock, audit, revoked>>

\* The claim is recorded.
RecordClaim(j) ==
  /\ Running(j, "consume") /\ jobs[j].found # Nobody
  /\ Records(j, jobs[j].found, <<"consumed">>, "granted")
  /\ UNCHANGED <<mode, records, continuations, clock, expiredTransitions, audit, revoked>>

\* request: a bearer for the pending approval of this operation, or a new one.
\* A safe bearer may not be found; a form needs none.
Request(j) ==
  /\ Running(j, "consume") /\ jobs[j].found = Nobody
  /\ LET binding == jobs[j].target
         pending == Bound(Expired, "pending", binding)
         kept    == Undiscarded(Expired)
         fits    == Cardinality({a \in Jobs : kept[a] # NoRecord}) < MaxRecords
     IN  \/ \E a \in pending :
              /\ OneMoreBearer(a)
              /\ records' = [Expired EXCEPT ![a].bearers = @ + 1]
              /\ Expires(j, "request", a, FALSE)
         \/ /\ pending = {} /\ fits
            /\ records' = [kept EXCEPT ![j] =
                             [status |-> "pending", binding |-> binding, bearers |-> 1]]
            /\ Expires(j, "request", j, TRUE)
         \/ /\ \/ mode = "delegated"
               \/ pending = {} /\ ~fits
               \/ \E a \in pending : ~OneMoreBearer(a)
            /\ records' = IF pending = {} THEN kept ELSE Expired
            /\ Expires(j, "failing", Nobody, FALSE)
  /\ UNCHANGED <<mode, continuations, clock, audit, revoked>>

\* The operation of the store has thrown, and so does the job.
Fail(j) ==
  /\ Running(j, "failing")
  /\ Ends(j, "refused")
  /\ UNCHANGED <<mode, records, continuations, clock, expiredTransitions, audit, revoked>>

\* mint, for a form; then a new approval is recorded as requested.
Requested(j) ==
  /\ Running(j, "request")
  /\ LET a    == jobs[j].found
         left == {b \in continuations : ~Due(b)}
         Tell == IF jobs[j].created
                 THEN Records(j, a, <<"requested">>, "required")
                 ELSE Ends(j, "required")
     IN  CASE mode = "delegated" -> Tell /\ UNCHANGED <<records, continuations>>
           [] mode = "form" /\ Cardinality(left) < MaxRecords ->
                Tell /\ continuations' = left \cup {a} /\ UNCHANGED records
           [] OTHER -> /\ Ends(j, "refused")
                       /\ continuations' = left
                       /\ records' = Without(records, a)
  /\ UNCHANGED <<mode, clock, expiredTransitions, audit, revoked>>

\* approve and deny: only a pending approval that is not past its deadline.
Decide(j) ==
  /\ Running(j, "expire") /\ jobs[j].kind \in {"approve", "deny"}
  /\ LET a == jobs[j].target
     IN  IF Expired[a].status = "pending"
         THEN /\ records' = [Expired EXCEPT ![a].status =
                               IF jobs[j].kind = "approve" THEN "approved" ELSE "denied"]
              /\ Expires(j, "decide", a, FALSE)
         ELSE /\ records' = Expired
              /\ Expires(j, "failing", Nobody, FALSE)
  /\ UNCHANGED <<mode, continuations, clock, audit, revoked>>

RecordDecision(j) ==
  /\ Running(j, "decide")
  /\ Records(j, jobs[j].found, <<IF jobs[j].kind = "approve" THEN "approved" ELSE "denied">>,
             "decided")
  /\ UNCHANGED <<mode, records, continuations, clock, expiredTransitions, audit, revoked>>

\* complete and revoke: the continuation is spent, whatever the answer.
Complete(j) ==
  /\ Running(j, "expire") /\ jobs[j].kind \in {"accept", "decline"}
  /\ LET a == jobs[j].target
     IN  IF a \notin continuations
         THEN Ends(j, "refused") /\ UNCHANGED <<records, continuations>>
         ELSE /\ continuations' = continuations \ {a}
              /\ records' = Without(records, a)
              /\ CASE jobs[j].late /\ a \in jobs[j].fresh -> Ends(j, "refused")
                   [] jobs[j].late /\ a \notin jobs[j].fresh ->
                        Records(j, a, <<"expired">>, "refused")
                   [] ~jobs[j].late /\ jobs[j].kind = "accept" ->
                        Records(j, a, <<"approved", "consumed">>, "granted")
                   [] OTHER -> Records(j, a, <<"denied">>, "refused")
  /\ UNCHANGED <<mode, clock, expiredTransitions, audit, revoked>>

\* writeApproval: the job goes on, or its approval is revoked and it is refused.
Record(j) ==
  /\ Running(j, "record")
  /\ LET a == jobs[j].found
         events == jobs[j].events
     IN  \/ /\ audit' = [audit EXCEPT ![a] = Append(@, Head(events))]
            /\ IF Len(events) = 1
               THEN Ends(j, jobs[j].outcome)
               ELSE jobs' = [jobs EXCEPT ![j].events = Tail(@)] /\ UNCHANGED queue
            /\ UNCHANGED <<records, continuations, revoked>>
         \/ /\ Ends(j, "refused")
            /\ records' = Without(records, a)
            /\ continuations' = continuations \ {a}
            /\ revoked' = revoked \cup {a}
            /\ UNCHANGED audit
  /\ UNCHANGED <<mode, clock, expiredTransitions>>

Step(j) ==
  \/ Begin(j) \/ WriteExpired(j) \/ Looked(j) \/ Consume(j) \/ RecordClaim(j) \/ Request(j) \/ Fail(j)
  \/ Requested(j) \/ Decide(j) \/ RecordDecision(j) \/ Complete(j) \/ Record(j)

Next ==
  \/ \E j \in Jobs : Step(j)
  \/ \E binding \in Bindings : Call(binding)
  \/ \E a \in Jobs :
       \/ \E kind \in {"approve", "deny"} : Decision(kind, a)
       \/ \E kind \in {"accept", "decline"} : Answer(kind, a)
  \/ Look \/ Elapse

Spec == Init /\ [][Next]_vars

\* Every write to the audit log returns, one way or the other.
FairSpec == Spec /\ \A j \in Jobs : WF_vars(Step(j))

-----------------------------------------------------------------------------
(* What must hold.                                                         *)

\* Type correctness of the stores, the queue and the log.
TypeOK ==
  /\ mode \in Modes
  /\ records \in [Jobs -> [status : {"none", "pending", "approved", "denied", "consumed", "expired"},
                           binding : Bindings \cup {Nobody}, bearers : 0 .. MaxBearers]]
  /\ continuations \subseteq Jobs /\ revoked \subseteq Jobs
  /\ clock \in 0 .. MaxJobs
  /\ expiredTransitions \subseteq Jobs /\ queue \in Seq(Jobs)
  /\ jobs \in Seq([kind : Kinds, target : Bindings \cup Jobs \cup {Nobody},
                   phase : {"queued", "expire", "consume", "request", "failing", "decide",
                            "record", "done"},
                   writing : SUBSET Jobs, found : Jobs \cup {Nobody}, created : BOOLEAN,
                   late : BOOLEAN, fresh : SUBSET Jobs, events : Seq(Events),
                   outcome : {"none", "granted", "refused", "required", "decided"}])
  /\ audit \in [Jobs -> Seq(Events)]

Granted(j) == jobs[j].phase = "done" /\ jobs[j].outcome = "granted"

\* An approval lets one call pass, whoever else finds it, answers for it or
\* retries with it, and it is an approval for exactly that operation.
GrantedOnce ==
  \A j \in DOMAIN jobs : Granted(j) =>
    /\ \A k \in DOMAIN jobs : Granted(k) /\ jobs[k].found = jobs[j].found => k = j
    /\ jobs[j].kind = "call" => jobs[jobs[j].found].target = jobs[j].target

\* No call passes before the log says that its approval was requested, granted
\* and consumed, and that it was not denied.
GrantIsRecorded ==
  \A j \in DOMAIN jobs : Granted(j) =>
    LET trail == audit[jobs[j].found]
        last  == Len(trail)
    IN  /\ last > 2 /\ trail[1] = "requested" /\ trail[last - 1] = "approved" /\ trail[last] = "consumed"
        /\ \A i \in 1 .. last : trail[i] # "denied"

\* So a grant is earned: an approval of this very operation, on record, for one call.
GrantIsEarned == GrantedOnce /\ GrantIsRecorded

Ended(a) == {i \in DOMAIN audit[a] : audit[a][i] \in {"denied", "expired", "consumed"}}
InTransit(a) ==
  \/ a \in expiredTransitions
  \/ \E j \in DOMAIN jobs : jobs[j].phase # "done" /\ (a \in jobs[j].writing \/ jobs[j].found = a)

\* An approval ends once: as consumed, as denied or as expired.
EndsOnce == \A a \in Jobs : \A i, k \in Ended(a) : i = k

\* An approval that the log calls expired lets no call pass any more.
ExpiredIsFinal ==
  \A a \in Jobs : ~\E i, k \in DOMAIN audit[a] : audit[a][i] = "expired" /\ audit[a][k] = "consumed"

\* An approval that was requested does not vanish: its end is in the log or on
\* its way there, unless an audit write failed and it was revoked for that.
EndIsRecorded ==
  \A a \in Jobs :
    \/ audit[a] = <<>> \/ Live(a) \/ a \in continuations \cup revoked
    \/ Ended(a) # {} \/ InTransit(a)

\* With a delegated agent the log tells the whole story of every approval.
DelegatedTrail == mode = "delegated" => EndsOnce /\ EndIsRecorded

\* Every job gets its turn and ends, whichever audit writes fail.
EverythingAnswered ==
  \A j \in Jobs : j \in DOMAIN jobs ~> j \in DOMAIN jobs /\ jobs[j].phase = "done"
=============================================================================
