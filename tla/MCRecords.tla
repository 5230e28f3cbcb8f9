------------------------------ MODULE MCRecords ------------------------------
(***************************************************************************)
(* What processes leave for one another, side by side: the audit journal   *)
(* and the keyring with the store of revoked profile contexts.  They share *)
(* no state, so a behaviour exercises one of them and the other rests.     *)
(***************************************************************************)
EXTENDS MCProfileContext

CONSTANTS Idle, BackupSticks, MaxRecords, MaxFailures, MaxBytes, Retains

VARIABLES part, integrity, files, op, written, acked, failures, outcome, log, known

contexts == <<vars, dead>>
journal == <<integrity, files, op, written, acked, failures, outcome, log, known>>

Journal == INSTANCE MCAuditJournal WITH faults <- failures, MaxFaults <- MaxFailures
MCRetains == {0, 2}

\* The journal rests in an initial state, so that it is a log in every behaviour.
RecordsInit ==
  /\ MCInit /\ Journal!MCInit
  /\ \/ part = "contexts" /\ integrity
     \/ part = "journal"
Keep == part = "contexts" /\ MCNext /\ UNCHANGED <<part, journal>>
Write == part = "journal" /\ Journal!MCNext /\ UNCHANGED <<part, contexts>>
RecordsNext == Keep \/ Write
RecordsSpec == RecordsInit /\ [][RecordsNext]_<<part, contexts, journal>>

---------------------------------------------------------------------------
\* Whatever a crash or a failed call leaves behind, one undisturbed recovery gives a journal that agrees
\* with itself, and no operation throws because of an earlier crash (AuditJournal).
JournalRecovers == part = "journal" => Journal!Recoverable /\ Journal!NeverStuck
\* The journal as recovery would show it is the abstract log (AuditLog).
ImplementsLog == Journal!ImplementsLog
\* A handover leaves a chat with one usable context, and a rotation of the keys takes none away
\* (ProfileContext).  That nothing rolls back is MCProfileContext's.
ContextsLast == part = "contexts" => HandoverComplete /\ RotationKeepsContexts
=============================================================================
