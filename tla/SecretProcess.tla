----------------------------- MODULE SecretProcess -----------------------------
(***************************************************************************)
(* runSecretCommand: one run of an external secret provider.  The child    *)
(* ends by itself, or the run is terminated for the first of a timeout, an *)
(* abort, too much output and a broken stdin; it settles only once the     *)
(* child's `close' event and the termination are both there.               *)
(***************************************************************************)
EXTENDS ProcessTree

VARIABLES
  stage,      \* "asked", "resolving" (the Windows launcher), "running"
  exitSeen,   \* directChildExited
  closeSeen,  \* childClosed
  kind,       \* terminalKind
  termination,    \* terminationComplete: "none" (not begun), "grace", "done"
  settled     \* the promise

runVars == <<treeVars, stage, exitSeen, closeSeen, kind, termination, settled>>

Reasons == {"timeout", "cancelled", "output_limit", "unavailable"}

Init ==
  /\ TreeInit
  /\ stage = "asked" /\ exitSeen = FALSE /\ closeSeen = FALSE
  /\ kind = "none" /\ termination = "none" /\ settled = "pending"

\* The options are looked at: an aborted run ends here.  Windows looks for its launcher first.
Prepare ==
  /\ stage = "asked" /\ settled = "pending"
  /\ \/ settled' = "cancelled" /\ UNCHANGED stage
     \/ win /\ stage' = "resolving" /\ UNCHANGED settled
  /\ UNCHANGED <<treeVars, exitSeen, closeSeen, kind, termination>>
Unresolved ==
  /\ stage = "resolving" /\ settled = "pending"
  /\ settled' \in {"timeout", "cancelled", "unavailable"}
  /\ UNCHANGED <<treeVars, stage, exitSeen, closeSeen, kind, termination>>

\* spawn: without a process, the `error' event gives the reason and `close' follows.
Spawn ==
  /\ stage = (IF win THEN "resolving" ELSE "asked") /\ settled = "pending"
  /\ stage' = "running"
  /\ \E ok \in BOOLEAN :
       /\ Spawned(ok)
       /\ exitSeen' = ~ok
       /\ kind' = (IF ok THEN "none" ELSE "unavailable")
       /\ termination' = (IF ok THEN "none" ELSE "done")
  /\ UNCHANGED <<closeSeen, settled>>

\* terminate: the group of an exited child is killed at once, another one asked to end first.
SparesTheRest ==                                  \* mutant: an exited child needs no signal
  /\ doomed' = (doomed \/ win)
  /\ termination' = (IF win \/ exitSeen \/ ~GroupAlive THEN "done" ELSE "grace")
Signals ==
  /\ doomed' = (doomed \/ win \/ exitSeen)
  /\ termination' = (IF win \/ exitSeen \/ ~GroupAlive THEN "done" ELSE "grace")

Terminate(reason) ==
  /\ stage = "running" /\ settled = "pending" /\ kind = "none"
  /\ kind' = reason
  /\ Signals
  /\ UNCHANGED <<win, leader, kin, stage, exitSeen, closeSeen, settled>>

\* finishTerminalFailure, when one of its two conditions has come true.
OnlyOnClose(closed, done) ==                      \* mutant: the end of the termination is not looked at
  settled' = IF closed /\ termination = "done" THEN kind ELSE "pending"
Finishes(closed, done) == settled' = IF closed /\ done THEN kind ELSE "pending"

\* The poll finds nobody, or 250 ms are over and the group is killed.
GraceEnds ==
  /\ termination = "grace"
  /\ termination' = "done"
  /\ doomed' = (doomed \/ GroupAlive)
  /\ Finishes(closeSeen, TRUE)
  /\ UNCHANGED <<win, leader, kin, stage, exitSeen, closeSeen, kind>>

ExitEvent ==
  /\ stage = "running" /\ leader = "gone" /\ ~exitSeen
  /\ exitSeen' = TRUE
  /\ UNCHANGED <<treeVars, stage, closeSeen, kind, termination, settled>>

\* `close': stdio has ended with the last process that held it.
CloseEvent ==
  /\ stage = "running" /\ exitSeen /\ ~closeSeen /\ ~StdioHeld
  /\ closeSeen' = TRUE
  /\ IF kind = "none" THEN settled' \in {"ok", "exit"} ELSE Finishes(TRUE, termination = "done")
  /\ UNCHANGED <<treeVars, stage, exitSeen, kind, termination>>

own == <<stage, exitSeen, closeSeen, kind, termination, settled>>
Tree == TreeStep /\ UNCHANGED own
Kernel == Reaped /\ UNCHANGED own

Steps == Prepare \/ Unresolved \/ Spawn \/ GraceEnds \/ ExitEvent \/ CloseEvent

Next == Steps \/ (\E r \in Reasons : Terminate(r)) \/ Tree \/ Kernel

Spec == Init /\ [][Next]_runVars

\* The deadline comes, Node delivers events and fires timers, the kernel ends what was killed.
FairSpec ==
  /\ Spec
  /\ WF_runVars(Steps) /\ WF_runVars(Terminate("timeout")) /\ WF_runVars(Kernel)

---------------------------------------------------------------------------
\* A run that was terminated settles when nobody of the group is left, or has got SIGKILL.
NobodySurvives == termination = "done" /\ settled \in Reasons => ~GroupAlive \/ doomed

\* Every run settles, unless a process that left the group keeps its stdout.
Settled == settled # "pending"
RunSettles == ~Settled ~> (Settled \/ "stray" \in kin)

\* "The deadline includes provider launcher startup, lookup, and cleanup": past it, a run settles.
DeadlineHolds == (kind = "timeout") ~> Settled
=============================================================================
