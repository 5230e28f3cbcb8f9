------------------------------- MODULE LocalLock -------------------------------
(***************************************************************************)
(* withOAuthLocalLock: a lock between the processes of one host that is    *)
(* held by listening.  On Linux (and Windows) a private pipe is the lock   *)
(* and the legacy TCP port only tells older versions that it is taken; on  *)
(* macOS the legacy port is the lock, unless an unrelated program listens  *)
(* there: then the first free port of a fixed list of fallbacks is.        *)
(*                                                                         *)
(* A contender is one attempt of the current version, on one key; an older *)
(* one knows the legacy port only.  Neighbours are unrelated listeners,    *)
(* Miftah's locks on other keys among them.  An action is one probe, one   *)
(* bind or one close; a probe may come to nothing ("unknown") at any time. *)
(***************************************************************************)
EXTENDS Integers, FiniteSets

CONSTANTS
  Contenders,    \* of this version
  Older,         \* of an older version
  Neighbours,    \* unrelated programs
  NumFallbacks,  \* the fallback ports of macOS
  None

LockAssumption ==
  /\ NumFallbacks \in Nat
  /\ Contenders \cap Older = {} /\ (Contenders \cup Older) \cap Neighbours = {}
  /\ None \notin Contenders \cup Older \cup Neighbours

Legacy == 0
Pipe == -1
Fallbacks == 1..NumFallbacks
Ports == {Legacy} \cup Fallbacks
Endpoints == {Pipe} \cup Ports
Holders == Contenders \cup Older

VARIABLES
  platform,
  listens,   \* the listener of each endpoint
  pc,        \* where a contender is
  saw,       \* what its probes of the fallbacks have answered so far
  moved,     \* a neighbour has come or gone
  missed     \* a contender went in without its companion, and saw nobody in its place

lockVars == <<platform, listens, pc, saw, moved, missed>>

Outcomes == {"available", "held", "occupied", "unknown"}
NoAnswers == [e \in Fallbacks |-> "none"]

\* acquisitionEndpoint
Primary == IF platform = "linux" THEN Pipe ELSE Legacy

Init ==
  /\ platform \in {"linux", "darwin"}
  /\ listens \in [Endpoints -> Neighbours \cup {None}]
  /\ listens[Pipe] = None
  /\ \A n \in Neighbours : \A e, d \in Endpoints : listens[e] = n /\ listens[d] = n => e = d
  /\ pc = [c \in Holders |-> "out"]
  /\ saw = [c \in Contenders |-> NoAnswers]
  /\ moved = FALSE /\ missed = FALSE

Goes(c, to) == pc' = [pc EXCEPT ![c] = to]

\* inspectLocalLockEndpoint: the greeting of this key, another one, a refusal, or none of it in time.
Truth(e) ==
  IF listens[e] = None THEN "available" ELSE IF listens[e] \in Holders THEN "held" ELSE "occupied"
Answers(e) == {Truth(e), "unknown"}

\* tryAcquireLocalLock: exclusive creation.
Binds(c, e) == listens[e] = None /\ listens' = [listens EXCEPT ![e] = c]

\* releaseLocalLock, of every listener in S; the kernel does it for a process that ends.
Close(c, S) == listens' = [e \in Endpoints |-> IF e \in S /\ listens[e] = c THEN None ELSE listens[e]]

Ask(c) ==
  /\ pc[c] = "out"
  /\ Goes(c, "probe")
  /\ UNCHANGED <<platform, listens, saw, moved, missed>>

\* The wait is over at the head of the loop, or a bind fails for another reason than being late.
GivesUp(c) ==
  /\ pc[c] \in {"probe", "acquire"}
  /\ Goes(c, "out")
  /\ UNCHANGED <<platform, listens, saw, moved, missed>>

\* The legacy port is looked at first: it says wait, bind, or scan the fallbacks.
ProbeLegacy(c) ==
  /\ pc[c] = "probe"
  /\ \E answer \in Answers(Legacy) :
       \/ answer = "available" /\ Goes(c, "acquire")
       \/ answer = "held" /\ Goes(c, "probe")
       \/ answer = "occupied" /\ Goes(c, IF platform = "linux" THEN "acquire" ELSE "scan")
       \/ answer = "unknown" /\ Goes(c, IF platform = "linux" THEN "acquire" ELSE "probe")
  /\ UNCHANGED <<platform, listens, saw, moved, missed>>

AcquirePrimary(c) ==
  /\ pc[c] = "acquire"
  /\ IF listens[Primary] = None
     THEN Binds(c, Primary) /\ Goes(c, IF platform = "linux" THEN "companion" ELSE "in")
     ELSE Goes(c, "probe") /\ UNCHANGED listens
  /\ UNCHANGED <<platform, saw, moved, missed>>

\* The companion on the legacy port; without it, a second look unless the wait is over.
Companion(c) ==
  /\ pc[c] = "companion"
  /\ \/ Binds(c, Legacy) /\ Goes(c, "in") /\ UNCHANGED missed
     \/ Goes(c, "confirm") /\ UNCHANGED <<listens, missed>>
     \/ Goes(c, "in") /\ missed' = TRUE /\ UNCHANGED listens
  /\ UNCHANGED <<platform, saw, moved>>

KeepsPipe(c) == UNCHANGED listens /\ Goes(c, "probe")   \* mutant: the primary lock is kept
BacksOff(c) == Close(c, {Pipe}) /\ Goes(c, "probe")
Confirm(c) ==
  /\ pc[c] = "confirm"
  /\ \E answer \in Answers(Legacy) :
       /\ IF answer = "held" THEN BacksOff(c) ELSE Goes(c, "in") /\ UNCHANGED listens
       /\ missed' = (missed \/ answer \in {"available", "unknown"})
  /\ UNCHANGED <<platform, saw, moved>>

\* tryAcquireMacOSFallback: all probes at once, each answering in its own time.
ProbeFallback(c, e) ==
  /\ pc[c] = "scan" /\ saw[c][e] = "none"
  /\ \E answer \in Answers(e) : saw' = [saw EXCEPT ![c][e] = answer]
  /\ UNCHANGED <<platform, listens, pc, moved, missed>>

\* No choice while any port is held or silent; then the first that is available.
AnyFree(answers, e) == answers[e] = "available"          \* mutant: the other answers are not awaited
Candidate(answers, e) ==
  /\ answers[e] = "available"
  /\ \A d \in Fallbacks : answers[d] \in {"available", "occupied"}
  /\ \A d \in Fallbacks : d < e => answers[d] = "occupied"

BindFallback(c) ==
  /\ pc[c] = "scan" /\ \A e \in Fallbacks : saw[c][e] # "none"
  /\ \/ \E e \in Fallbacks : Candidate(saw[c], e) /\ Binds(c, e) /\ Goes(c, "in")
     \/ /\ \A e \in Fallbacks : Candidate(saw[c], e) => listens[e] # None
        /\ Goes(c, "probe") /\ UNCHANGED listens
  /\ saw' = [saw EXCEPT ![c] = NoAnswers]
  /\ UNCHANGED <<platform, moved, missed>>

\* The operation is over: the companion closes before the pipe.
Leave(c) ==
  /\ pc[c] = "in"
  /\ IF platform = "linux"
     THEN Close(c, {Legacy}) /\ Goes(c, "leaving")
     ELSE Close(c, Ports) /\ Goes(c, "out")
  /\ UNCHANGED <<platform, saw, moved, missed>>
LeavePipe(c) ==
  /\ pc[c] = "leaving"
  /\ Close(c, {Pipe}) /\ Goes(c, "out")
  /\ UNCHANGED <<platform, saw, moved, missed>>

Dies(c) ==
  /\ pc[c] # "out"
  /\ Close(c, Endpoints) /\ Goes(c, "out")
  /\ saw' = [saw EXCEPT ![c] = NoAnswers]
  /\ UNCHANGED <<platform, moved, missed>>

\* An older version listens on the legacy port, or waits.
OlderEnters(o) ==
  /\ pc[o] = "out" /\ Binds(o, Legacy) /\ Goes(o, "in")
  /\ UNCHANGED <<platform, saw, moved, missed>>
OlderLeaves(o) ==
  /\ pc[o] = "in" /\ Close(o, {Legacy}) /\ Goes(o, "out")
  /\ UNCHANGED <<platform, saw, moved, missed>>

NeighbourComes(n, e) ==
  /\ \A d \in Endpoints : listens[d] # n
  /\ Binds(n, e)
  /\ moved' = TRUE
  /\ UNCHANGED <<platform, pc, saw, missed>>
NeighbourGoes(n) ==
  /\ \E e \in Endpoints : listens[e] = n
  /\ Close(n, Endpoints)
  /\ moved' = TRUE
  /\ UNCHANGED <<platform, pc, saw, missed>>

Next ==
  \/ \E c \in Contenders :
       \/ Ask(c) \/ GivesUp(c) \/ ProbeLegacy(c) \/ AcquirePrimary(c) \/ Companion(c) \/ Confirm(c)
       \/ \E e \in Fallbacks : ProbeFallback(c, e)
       \/ BindFallback(c) \/ Leave(c) \/ LeavePipe(c) \/ Dies(c)
  \/ \E o \in Older : OlderEnters(o) \/ OlderLeaves(o)
  \/ \E n \in Neighbours : NeighbourGoes(n) \/ \E e \in Ports : NeighbourComes(n, e)

Spec == Init /\ [][Next]_lockVars

---------------------------------------------------------------------------
Inside(S) == {c \in S : pc[c] = "in"}
Alone(S) == \A c, d \in Inside(S) : c = d

\* A kernel that creates the pipe for one process at a time is all that contenders of this version
\* need on Linux, whatever listens on the ports; on macOS they need neighbours that stay as they
\* are; and while neighbours rest and companions are never missing, older versions are kept out too.
OneHolder ==
  /\ platform = "linux" \/ ~moved => Alone(Contenders)
  /\ ~moved /\ ~missed => Alone(Holders)

\* No listener outlives what it was opened for: a contender that waits, scans or is done holds nothing.
NothingLeftBehind ==
  \A e \in Endpoints :
    listens[e] \in Contenders => pc[listens[e]] \in {"companion", "confirm", "in", "leaving"}

\* What withOAuthLocalLock is for, and what it leaves.
LockIsExclusive == OneHolder /\ NothingLeftBehind

\* "or one key could split across locks", "Retrying the same endpoint avoids bypassing a still-live
\* holder through a different endpoint": two contenders of this version never hold one key.
NeverSplit == Alone(Contenders)
=============================================================================
