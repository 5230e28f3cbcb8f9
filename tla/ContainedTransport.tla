--------------------------- MODULE ContainedTransport ---------------------------
(***************************************************************************)
(* ContainedStdioClientTransport: the stdio transport of a local upstream. *)
(* onclose is what lets the process manager reuse the upstream's place, so *)
(* it is held back until the process group (or the Windows job) is seen to *)
(* be gone, whether close() asked for the end or the child ended by        *)
(* itself, and for good once that cannot be established.                   *)
(*                                                                         *)
(* An action is what runs between two awaits; timers may fire at any time. *)
(***************************************************************************)
EXTENDS ProcessTree

VARIABLES
  exitSeen,   \* the child's `exit' event
  closeSeen,  \* its `close' event: childClose has resolved
  explicit,   \* explicitlyClosing
  forced,     \* forceTermination exists
  cleared,    \* containedPid is undefined
  failure,    \* containmentFailure
  emitted,    \* closeEmitted
  ends        \* closeContainedChild and finishUnexpectedClose: how far each is

transportVars == <<treeVars, exitSeen, closeSeen, explicit, forced, cleared, failure, emitted, ends>>

Ends == {"closer", "finisher"}

Init ==
  /\ TreeInit
  /\ exitSeen = FALSE /\ closeSeen = FALSE /\ explicit = FALSE
  /\ forced = FALSE /\ cleared = TRUE /\ failure = FALSE /\ emitted = FALSE
  /\ ends = [k \in Ends |-> "none"]

At(k, phase) == ends' = [ends EXCEPT ![k] = phase]

\* start: spawn gives a process or an error.
Start ==
  /\ ~explicit
  /\ \E ok \in BOOLEAN : Spawned(ok) /\ cleared' = ~ok /\ exitSeen' = ~ok
  /\ UNCHANGED <<closeSeen, explicit, forced, failure, emitted, ends>>

\* What the transport can see of the group's end: the helper's exit on Windows.
Gone == cleared \/ (IF win THEN exitSeen ELSE ~GroupAlive)

\* forceTerminate: one signal in the life of the transport; it may be refused, and a
\* helper that has ended while its exit is not known yet takes none.
ForceTerminate ==
  IF forced THEN UNCHANGED <<forced, failure, doomed>>
  ELSE /\ forced' = TRUE
       /\ \/ Gone /\ UNCHANGED <<failure, doomed>>
          \/ ~Gone /\ GroupAlive /\ doomed' = TRUE /\ UNCHANGED failure
          \/ ~Gone /\ failure' = TRUE /\ UNCHANGED doomed

\* The manager asks for it.
Escalate ==
  /\ leader # "none" /\ ~forced /\ ForceTerminate
  /\ UNCHANGED <<win, leader, kin, exitSeen, closeSeen, explicit, cleared, emitted, ends>>

\* At the child's exit its group is killed: whoever of it holds stdio delays `close'.
WaitsForClose == UNCHANGED <<forced, failure, doomed>>      \* mutant: only `close' reaps
ReapsAtExit == IF explicit \/ win THEN UNCHANGED <<forced, failure, doomed>> ELSE ForceTerminate
ExitEvent ==
  /\ leader = "gone" /\ ~exitSeen
  /\ exitSeen' = TRUE
  /\ ReapsAtExit
  /\ UNCHANGED <<win, leader, kin, closeSeen, explicit, cleared, emitted, ends>>

\* `close' comes when nobody holds the child's stdio any more.
CloseEvent ==
  /\ leader = "gone" /\ exitSeen /\ ~closeSeen /\ ~StdioHeld
  /\ closeSeen' = TRUE
  /\ IF explicit
     THEN UNCHANGED <<forced, failure, doomed, ends>>
     ELSE /\ At("finisher", "verify")
          /\ IF win THEN UNCHANGED <<forced, failure, doomed>> ELSE ForceTerminate
  /\ UNCHANGED <<win, leader, kin, exitSeen, explicit, cleared, emitted>>

\* close(): stdin ends, and the child is given two seconds.
Close ==
  /\ ~explicit
  /\ explicit' = TRUE
  /\ At("closer", IF leader = "none" THEN "verify" ELSE "waiting")
  /\ UNCHANGED <<treeVars, exitSeen, closeSeen, forced, cleared, failure, emitted>>

ClosesByItself ==
  /\ ends["closer"] \in {"waiting", "forcing"} /\ closeSeen
  /\ At("closer", "verify")
  /\ UNCHANGED <<treeVars, exitSeen, closeSeen, explicit, forced, cleared, failure, emitted>>

\* They are over, or forceTerminate was called; the Windows helper gets a second more.
GraceEnds ==
  /\ ends["closer"] = "waiting"
  /\ ForceTerminate
  /\ At("closer", IF win THEN "forcing" ELSE "verify")
  /\ UNCHANGED <<win, leader, kin, exitSeen, closeSeen, explicit, cleared, emitted>>
HelperStays ==
  /\ ends["closer"] = "forcing" /\ ~closeSeen
  /\ failure' = TRUE /\ At("closer", "failed")
  /\ UNCHANGED <<treeVars, exitSeen, closeSeen, explicit, forced, cleared, emitted>>

\* verifyContainment ends well (emitClose follows), or not.
Verified(k) ==
  /\ cleared' = TRUE
  /\ emitted' = (emitted \/ ~failure)
  /\ At(k, "done")
  /\ UNCHANGED <<failure, forced, doomed>>
Unverified(k) ==
  /\ failure' = TRUE /\ At(k, "failed")
  /\ UNCHANGED <<cleared, emitted, forced, doomed>>

\* verifyContainment: is the group gone?  If not, it is killed, and watched.
Verify(k) ==
  /\ ends[k] = "verify"
  /\ \/ failure /\ Unverified(k)
     \/ ~failure /\ Gone /\ Verified(k)
     \/ /\ ~failure /\ ~Gone /\ ~win
        /\ ForceTerminate
        /\ At(k, IF failure' THEN "failed" ELSE "polling")
        /\ UNCHANGED <<cleared, emitted>>
  /\ UNCHANGED <<win, leader, kin, exitSeen, closeSeen, explicit>>

\* waitForPosixProcessGroupExit, for a second.
PollsOnce(k) == Verified(k)                         \* mutant: the last poll is not looked at
Polled(k) == IF GroupAlive THEN Unverified(k) ELSE Verified(k)
Poll(k) ==
  /\ ends[k] = "polling"
  /\ Polled(k)
  /\ UNCHANGED <<win, leader, kin, exitSeen, closeSeen, explicit>>

own == <<exitSeen, closeSeen, explicit, forced, cleared, failure, emitted, ends>>
Tree == TreeStep /\ UNCHANGED own
Kernel == Reaped /\ UNCHANGED own

Progress ==
  \/ ExitEvent \/ CloseEvent \/ ClosesByItself \/ GraceEnds \/ HelperStays
  \/ \E k \in Ends : Verify(k) \/ Poll(k)

Next == Start \/ Escalate \/ Close \/ Tree \/ Kernel \/ Progress

Spec == Init /\ [][Next]_transportVars

\* Node delivers events and fires timers, and the kernel ends what was killed.
FairSpec == Spec /\ WF_transportVars(Progress) /\ WF_transportVars(Kernel)

---------------------------------------------------------------------------
\* "Only a verified close signal permits the manager to recycle capacity": onclose comes once
\* nothing of the process group is left, and never after containment could not be established.
ClosedMeansGone == emitted => ~GroupAlive /\ (leader # "none" \/ explicit)

\* An end that was asked for, or that a crash brought about, is reported by onclose or by a
\* containment failure, unless a process that left the group keeps the stdio.
Ended == explicit \/ leader = "gone"
Reported == emitted \/ failure \/ "stray" \in kin
EndIsReported == Ended ~> Reported

\* close() does not resolve while its close signal is withheld.
ResolvesWhenClosed == ends["closer"] = "done" => emitted
=============================================================================
