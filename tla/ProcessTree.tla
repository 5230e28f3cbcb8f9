------------------------------ MODULE ProcessTree ------------------------------
(***************************************************************************)
(* A child process and its descendants, as the operating system keeps      *)
(* them.  POSIX: the child leads a process group of its own; descendants   *)
(* stay in the group, with or without the stdio they inherited, or leave   *)
(* it.  Windows: the child is a helper whose end closes a job object and   *)
(* ends them all.  Process ids are not reused.                             *)
(***************************************************************************)
VARIABLES
  win,     \* on Windows
  leader,  \* the child: "none", "up", "gone"
  kin,     \* which descendants live: "quiet", "loud" (holds stdio), "stray" (loud, and left the group)
  doomed   \* SIGKILL was sent to the group, or to the helper

treeVars == <<win, leader, kin, doomed>>

GroupAlive == leader = "up" \/ kin \cap {"quiet", "loud"} # {}
StdioHeld == leader = "up" \/ kin \cap {"loud", "stray"} # {}

TreeInit == win \in BOOLEAN /\ leader = "none" /\ kin = {} /\ doomed = FALSE

\* spawn: a child of which no process came of is gone at once.
Spawned(ok) == leader = "none" /\ leader' = (IF ok THEN "up" ELSE "gone") /\ UNCHANGED <<win, kin, doomed>>

Forks(k) ==
  /\ GroupAlive /\ ~doomed /\ (win => leader = "up" /\ k # "stray")
  /\ kin' = kin \cup {k}
  /\ UNCHANGED <<win, leader, doomed>>

LeaderEnds ==
  /\ leader = "up"
  /\ leader' = "gone" /\ kin' = (IF win THEN {} ELSE kin)
  /\ UNCHANGED <<win, doomed>>

KinEnds == \E k \in kin : kin' = kin \ {k} /\ UNCHANGED <<win, leader, doomed>>

TreeStep == LeaderEnds \/ KinEnds \/ \E k \in {"quiet", "loud", "stray"} \ kin : Forks(k)

\* What was killed ends: all of the group, or the helper with its job.
Reaped ==
  /\ doomed /\ GroupAlive
  /\ leader' = "gone" /\ kin' = (IF win THEN {} ELSE kin \cap {"stray"})
  /\ UNCHANGED <<win, doomed>>
=============================================================================
