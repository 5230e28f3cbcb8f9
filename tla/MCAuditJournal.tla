--------------------------- MODULE MCAuditJournal ---------------------------
(***************************************************************************)
(* The journal next to what it stands for.  "log" and "known" record, at   *)
(* every step, the log that recovery would have shown in the state before  *)
(* the step and the records acknowledged by then: they follow the journal  *)
(* one step behind.                                                        *)
(***************************************************************************)
EXTENDS AuditJournal

VARIABLES log, known

\* The directory as one undisturbed recovery would leave it.
Settled == IF integrity THEN After(files, OpenPlan(files).script) ELSE files

MCInit == Init /\ log = <<>> /\ known = {}
MCNext == Next /\ log' = LogOf(Settled) /\ known' = acked
MCSpec == MCInit /\ [][MCNext]_<<vars, log, known>>

\* Whatever a crash or a failed call leaves behind - inside a transaction, inside its own error
\* handling, or inside an earlier recovery - one undisturbed recovery (readIntegrityCheckpoint)
\* gives a journal whose checkpoint, ledger and segments agree.
Recoverable == integrity => OpenPlan(files).ok /\ Whole(Settled)

\* The journal as recovery would show it is the abstract log: records enter whole and in order,
\* only a record that is in it is acknowledged, and only retention removes any, the oldest first.
Log == INSTANCE AuditLog WITH Records <- 1..MaxRecords, acked <- known
ImplementsLog == Log!ASpec
=============================================================================
