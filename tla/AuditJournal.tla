---------------------------- MODULE AuditJournal ----------------------------
(***************************************************************************)
(* The managed audit journal of audit/audit-journal.ts: the files of one   *)
(* directory, changed by one operation at a time (the holder of the        *)
(* journal lock), one file-system call per step.  Every call may fail and  *)
(* the process may die between any two of them, or in the middle of a      *)
(* write.                                                                  *)
(*                                                                         *)
(* Because only the holder of the lock writes, what an operation decides   *)
(* from the files it decides when a transaction, or a recovery, begins:    *)
(* its "script" is the sequence of calls it will make.  A call is a record *)
(*   call   which call it is, for what follows when it fails               *)
(*   sets   the fields of the directory it changes, with their new values  *)
(*   torn   the fields a write cut short leaves behind                     *)
(*   undo   the fields its own error handler puts back when it fails       *)
(*                                                                         *)
(* A record is [id, prev]: prev stands for the previousHash of its         *)
(* integrity envelope and id for its own hash, which no other record has.  *)
(* A size in bytes is a number of records, and a torn flag says that half  *)
(* a line follows.  A hash over a checkpoint or a ledger is the value      *)
(* hashed.                                                                 *)
(***************************************************************************)
EXTENDS Naturals, Sequences, FiniteSets, TLC

LOCAL INSTANCE SequencesExt
LOCAL INSTANCE FiniteSetsExt

CONSTANTS
  None,       \* no such file, no such value
  Idle,       \* no operation holds the lock
  BackupSticks, \* may the ledger backup fail to be removed after a compaction
  MaxRecords, \* bound: records handed to the journal
  MaxFaults,  \* bound: failed calls and deaths of the process
  MaxBytes,   \* rotation.maxBytes, in records
  Retains     \* the values of rotation.retainFiles the processes are configured with

VARIABLES
  integrity, \* is audit.integrity configured for this journal
  files,     \* the directory
  op,        \* the operation that holds the journal lock, or Idle
  written,   \* ids handed out
  acked,     \* records whose append returned
  faults,
  outcome    \* how the last operation ended

vars == <<integrity, files, op, written, acked, faults, outcome>>

NoHash == 0
NoFields == [x \in {} |-> {}]

Put(f, fields) == fields @@ f

---------------------------------------------------------------------------
(* Segments, checkpoints and the ledger.                                   *)

EmptySegment == [recs |-> <<>>, torn |-> FALSE]
Bytes(seg) == Len(seg.recs) + (IF seg.torn THEN 1 ELSE 0)

EmptyState(previous) == [count |-> 0, first |-> previous, tail |-> NoHash]

NewEntry(kind, active, checkpoint) == [kind |-> kind, active |-> active, checkpoint |-> checkpoint]

\* The scan of a segment whose chain continues from hash "previous".
ScanMatches(seg, previous, state) ==
  LET n == Len(seg.recs) IN
  /\ ~seg.torn
  /\ \A i \in 1..n : seg.recs[i].prev = IF i = 1 THEN previous ELSE seg.recs[i - 1].id
  /\ state = IF n = 0 THEN EmptyState(previous)
             ELSE [count |-> n, first |-> seg.recs[1].prev, tail |-> seg.recs[n].id]

\* The archives in the order of their sequence numbers.
Sealed(f) == SetToSortSeq(DOMAIN f.archives, <)

ContinuationHash(c) ==
  IF c.active.tail # NoHash THEN c.active.tail
  ELSE IF c.archives # <<>> THEN Last(c.archives).state.tail ELSE c.anchor

Validates(f, c) ==
  LET n == Len(c.archives)
      before(i) == IF i = 1 THEN c.anchor ELSE c.archives[i - 1].state.tail
  IN /\ Sealed(f) = [i \in 1..n |-> c.archives[i].name]
     /\ \A i \in 1..n :
          ScanMatches(f.archives[c.archives[i].name], before(i), c.archives[i].state)
     /\ f.active # None
     /\ ScanMatches(f.active, before(n + 1), c.active)

\* The ledger file holds the entries of checkpoint c, or nothing when there is none.
LedgerIs(ledger, c) ==
  IF c = None THEN ledger = None \/ ledger = [entries |-> <<>>, torn |-> FALSE]
  ELSE ledger = [entries |-> c.ledger, torn |-> FALSE]

\* What replaying the ledger gives; the kinds are the ones the code still writes.
ReplaysTo(entries, c) ==
  LET opening == entries[1] IN
  /\ entries # <<>>
  /\ \/ opening.kind = "initialize" /\ opening.active = EmptyState(NoHash)
        /\ c.anchor = NoHash /\ c.archives = <<>>
     \/ opening.kind = "checkpoint"
        /\ [anchor |-> c.anchor, archives |-> c.archives] = opening.checkpoint
  /\ \A i \in 2..Len(entries) :
       /\ entries[i].kind = "append"
       /\ entries[i].active.count > entries[i - 1].active.count
       /\ entries[i].active.first = entries[i - 1].active.first
  /\ c.active = Last(entries).active

EntriesOf(c) == IF c = None THEN <<>> ELSE c.ledger

\* prepareCheckpointTransition: one more line of the ledger.
Extended(c, active, kind) ==
  [anchor |-> IF c = None THEN NoHash ELSE c.anchor,
   archives |-> IF c = None THEN <<>> ELSE c.archives,
   active |-> active,
   ledger |-> Append(EntriesOf(c), NewEntry(kind, active, None))]

\* prepareCompactedIntegrityCheckpoint: a ledger of one line.
Compacted(anchor, archives, active) ==
  [anchor |-> anchor, archives |-> archives, active |-> active,
   ledger |-> <<NewEntry("checkpoint", active, [anchor |-> anchor, archives |-> archives])>>]

Transaction(kind, prior, next, names) ==
  [kind |-> kind, phase |-> "pending", prior |-> prior, next |-> next, names |-> names]

---------------------------------------------------------------------------
(* File-system calls.                                                      *)

Call(name, sets) == [call |-> name, sets |-> sets, torn |-> NoFields, undo |-> NoFields]
Repair(sets) == Call("recover", sets)
Undone(c, undo) == [c EXCEPT !.undo = undo]
Tearing(c, torn) == [c EXCEPT !.torn = torn]

MarkPending(tx) == Call("begin", [tx |-> tx])
LinkPrior(c) == Call("link", [prior |-> c, linked |-> TRUE])
Begin(tx) ==
  <<MarkPending(tx)>> \o (IF tx.prior = None THEN <<>> ELSE <<LinkPrior(tx.prior)>>)

MarkCommitted(tx) == Call("commit", [tx |-> [tx EXCEPT !.phase = "committed"]])

MarkerFirst ==  \* mutant: the marker goes before the checkpoint backup
  <<Call("complete", [tx |-> None]), Call("complete", [prior |-> None, linked |-> FALSE])>>

\* completeIntegrityTransaction: its failures are only reported.
Complete ==
  <<Call("complete", [prior |-> None, linked |-> FALSE]), Call("complete", [tx |-> None])>>

AppendActive(f, rec) ==
  LET seg == IF f.active = None THEN EmptySegment ELSE f.active
  IN Tearing(Call("append", [active |-> [seg EXCEPT !.recs = Append(@, rec)]]),
             [active |-> [seg EXCEPT !.torn = TRUE]])

\* commitPreparedCheckpoint: the ledger line, then the checkpoint.
CommitCheckpoint(f, prior, next) ==
  LET line == [entries |-> next.ledger, torn |-> FALSE]
      cut  == [entries |-> EntriesOf(prior), torn |-> FALSE]
  IN <<Tearing(Call("ledger", [ledger |-> line]), [ledger |-> [cut EXCEPT !.torn = TRUE]]),
       Undone(Call("checkpoint", [ckpt |-> next, linked |-> FALSE]), [ledger |-> cut])>>

\* compactIntegrityLedger: recoverIntegrityLedgerReplacement removes a backup that an earlier
\* compaction could not, the ledger being in step with its checkpoint here; back the ledger up,
\* replace it, then the checkpoint.
Compact(f, next) ==
  (IF f.bak = None THEN <<>> ELSE <<Repair([bak |-> None])>>) \o
  <<Call("backup", [bak |-> f.ledger]),
    Undone(Call("ledger", [ledger |-> [entries |-> next.ledger, torn |-> FALSE]]), [bak |-> None]),
    Undone(Call("checkpoint", [ckpt |-> next, linked |-> FALSE]),
           [ledger |-> f.ledger, bak |-> None]),
    Call("release", [bak |-> None])>>

Without(fn, S) == [n \in DOMAIN fn \ S |-> fn[n]]

SealActive(f, name) ==
  LET sealed == [archives |-> f.archives @@ (name :> f.active), active |-> None]
  IN <<Call("seal", sealed),
       Undone(Call("create", [active |-> EmptySegment]),
              [archives |-> f.archives, active |-> f.active])>>

\* stageRetiredArchives renames them one by one, the oldest first.
Stage(f, names) ==
  [i \in 1..Len(names) |->
     LET moved == {names[k] : k \in 1..i} IN
     Undone(Call("stage", [archives |-> Without(f.archives, moved),
                           staged |-> [n \in moved |-> f.archives[n]]]),
            [archives |-> f.archives, staged |-> f.staged])]

Erase(f, staged, names) ==
  [i \in 1..Len(names) |->
     Call("erase", [staged |-> Without(staged, {names[k] : k \in 1..i})])]

---------------------------------------------------------------------------
(* The transactions.                                                       *)

NextName(f, c) ==
  1 + Max({0} \cup DOMAIN f.archives \cup {c.archives[i].name : i \in 1..Len(c.archives)})

InitializeScript(f) ==
  LET next == Extended(None, EmptyState(NoHash), "initialize")
      tx == Transaction("initialize", None, next, <<>>)
  IN (IF f.active = None THEN <<Call("ensure", [active |-> EmptySegment])>> ELSE <<>>)
     \o Begin(tx) \o CommitCheckpoint(f, None, next) \o <<MarkCommitted(tx)>> \o Complete

AppendScript(f, c, id) ==
  LET rec == [id |-> id, prev |-> ContinuationHash(c)]
      active == [count |-> c.active.count + 1,
                 first |-> IF c.active.count = 0 THEN rec.prev ELSE c.active.first,
                 tail |-> id]
      next == Extended(c, active, "append")
      tx == Transaction("append", c, next, <<>>)
  IN Begin(tx) \o CommitCheckpoint(f, c, next) \o <<AppendActive(f, rec)>>
     \o <<MarkCommitted(tx)>> \o Complete

RotateScript(f, c) ==
  LET name == NextName(f, c)
      next == Compacted(c.anchor, Append(c.archives, [name |-> name, state |-> c.active]),
                        EmptyState(c.active.tail))
      tx == Transaction("rotate", c, next, <<name>>)
  IN Begin(tx) \o SealActive(f, name) \o Compact(f, next) \o <<MarkCommitted(tx)>> \o Complete

RetireScript(f, c, retain) ==
  LET excess == Max({0, Len(c.archives) - retain})
      removed == SubSeq(c.archives, 1, excess)
      names == [i \in 1..excess |-> removed[i].name]
      next == Compacted(Last(removed).state.tail, SubSeq(c.archives, excess + 1, Len(c.archives)),
                        c.active)
      tx == Transaction("retire", c, next, names)
      staged == [n \in {names[i] : i \in 1..excess} |-> f.archives[n]]
  IN IF excess = 0 THEN <<>>
     ELSE Begin(tx) \o Stage(f, names) \o Compact(f, next) \o <<MarkCommitted(tx)>>
          \o Erase(f, staged, names) \o Complete

\* appendWithoutIntegrity: the same files with no transaction around them.
PlainRotateScript(f) == SealActive(f, 1 + Max({0} \cup DOMAIN f.archives))
PlainRetainScript(f, retain) ==
  LET names == Sealed(f) IN
  [i \in 1..Max({0, Len(names) - retain}) |->
     Call("erase", [archives |-> Without(f.archives, {names[k] : k \in 1..i})])]

---------------------------------------------------------------------------
(* Recovery, decided from the files alone.  Stuck is an error it throws.   *)

Stuck == [ok |-> FALSE, script |-> <<>>]
Plan(script) == [ok |-> TRUE, script |-> script]
Then(plan, script) == [plan EXCEPT !.script = @ \o script]
After(f, script) ==
  LET upTo[i \in 0..Len(script)] == IF i = 0 THEN f ELSE Put(upTo[i - 1], script[i].sets)
  IN upTo[Len(script)]

OrphanPlan(f) ==
  IF f.tx # None \/ f.prior = None THEN Plan(<<>>)
  ELSE IF f.linked THEN Plan(<<Repair([prior |-> None, linked |-> FALSE])>>) ELSE Stuck

LedgerPlan(f) ==
  IF f.bak = None THEN Plan(<<>>)
  ELSE IF f.ckpt = None THEN Stuck
  ELSE IF LedgerIs(f.ledger, f.ckpt) THEN Plan(<<Repair([bak |-> None])>>)
  ELSE IF LedgerIs(f.bak, f.ckpt) THEN Plan(<<Repair([ledger |-> f.bak, bak |-> None])>>)
  ELSE Stuck

\* restoreIntegrityTransactionPhysical, by the kind of the transaction.
UndoInitialize(f) ==
  IF f.active = None THEN Plan(<<Repair([active |-> EmptySegment])>>)
  ELSE IF Bytes(f.active) = 0 THEN Plan(<<>>) ELSE Stuck

UndoAppend(f, p) ==
  IF f.active = None \/ Bytes(f.active) < p.active.count THEN Stuck
  ELSE IF Bytes(f.active) = p.active.count THEN Plan(<<>>)
  ELSE Plan(<<Repair([active |->
         [recs |-> SubSeq(f.active.recs, 1, p.active.count), torn |-> FALSE]])>>)

UndoRotate(f, p) ==
  LET name == f.tx.names[1] IN
  IF Validates(f, p) THEN Plan(<<>>)
  ELSE IF name \notin DOMAIN f.archives \/ (f.active # None /\ Bytes(f.active) # 0) THEN Stuck
  ELSE Plan(<<Repair([active |-> f.archives[name], archives |-> Without(f.archives, {name})])>>)

\* The staged archives are put back one by one, the oldest first.
UndoRetire(f) ==
  LET names == f.tx.names
      away == SelectSeq(names, LAMBDA n : n \in DOMAIN f.staged)
  IN IF \E i \in 1..Len(names) : (names[i] \in DOMAIN f.staged) = (names[i] \in DOMAIN f.archives)
     THEN Stuck
     ELSE Plan([i \in 1..Len(away) |->
            LET back == {away[k] : k \in 1..i} IN
            Repair([archives |-> f.archives @@ [n \in back |-> f.staged[n]],
                    staged |-> Without(f.staged, back)])])

UndoPhysical(f, p) ==
  LET plan == CASE f.tx.kind = "append" -> UndoAppend(f, p)
                [] f.tx.kind = "rotate" -> UndoRotate(f, p)
                [] f.tx.kind = "retire" -> UndoRetire(f)
  IN IF f.tx.kind = "initialize" THEN UndoInitialize(f)
     ELSE IF p = None THEN Stuck
     ELSE IF plan.ok /\ Validates(After(f, plan.script), p) THEN plan ELSE Stuck

\* restoreIntegrityTransactionMetadata: the checkpoint first, then the ledger.
UndoMetadata(f, p) ==
  LET keep == [entries |-> EntriesOf(p), torn |-> FALSE]
      ckpt == IF f.ckpt = p THEN <<>> ELSE <<Repair([ckpt |-> p, linked |-> FALSE])>>
      size == IF f.ledger = None THEN 0 ELSE Len(f.ledger.entries)
  IN IF p = None THEN Plan(ckpt \o <<Repair([ledger |-> None])>>)
     ELSE IF LedgerIs(f.ledger, p) THEN Plan(ckpt)
     ELSE IF f.ledger = None \/ size < Len(p.ledger)
             \/ SubSeq(f.ledger.entries, 1, Len(p.ledger)) # p.ledger THEN Stuck
     ELSE Plan(ckpt \o <<Repair([ledger |-> keep])>>)

RollBack(f, p) ==
  LET physical == UndoPhysical(f, p)
      metadata == UndoMetadata(f, p)
  IN IF physical.ok /\ metadata.ok
     THEN Plan(physical.script \o metadata.script \o Complete) ELSE Stuck

\* finalizeIntegrityTransactionPhysical and what follows it.
RollForward(f) ==
  IF ~Validates(f, f.tx.next) THEN Stuck
  ELSE Plan((IF f.tx.kind = "retire" THEN Erase(f, f.staged, f.tx.names) ELSE <<>>) \o Complete)

KnownLedgerOnly(f) ==  \* mutant: half a ledger line is never cut off
  IF f.ckpt = f.tx.prior /\ (LedgerIs(f.ledger, f.tx.next) \/ LedgerIs(f.ledger, f.tx.prior))
  THEN RollBack(f, f.ckpt)
  ELSE IF f.ckpt = f.tx.next /\ LedgerIs(f.ledger, f.ckpt) /\ Validates(f, f.ckpt)
  THEN RollForward(f)
  ELSE IF f.prior # None /\ f.prior = f.tx.prior THEN RollBack(f, f.prior) ELSE Stuck

TransactionPlan(f) ==
  LET tx == f.tx
      isNext == f.ckpt = tx.next
      isPrior == f.ckpt = tx.prior
      ledgerKnown == LedgerIs(f.ledger, tx.next) \/ LedgerIs(f.ledger, tx.prior)
      bothNext == isNext /\ LedgerIs(f.ledger, tx.next)
      simple == tx.kind \in {"initialize", "append"}
  IN IF ~isNext /\ ~isPrior THEN Stuck
     ELSE IF ~ledgerKnown
       THEN IF tx.phase = "pending" /\ isPrior /\ simple THEN RollBack(f, f.ckpt) ELSE Stuck
     ELSE IF tx.phase = "committed"
       THEN IF bothNext THEN RollForward(f) ELSE Stuck
     ELSE IF bothNext /\ Validates(f, f.ckpt)
       THEN Plan(<<Repair([tx |-> [tx EXCEPT !.phase = "committed"]])>> \o RollForward(f).script)
     ELSE IF bothNext /\ ~simple THEN Stuck
     ELSE IF isPrior THEN RollBack(f, f.ckpt)
     ELSE IF f.prior = tx.prior THEN RollBack(f, f.prior) ELSE Stuck

\* recoverIntegrityTransaction.
Recovery(f) ==
  LET ledger == LedgerPlan(f)
      g == After(f, ledger.script)
      rest == TransactionPlan(g)
  IN IF f.tx = None THEN Plan(<<>>)
     ELSE IF ledger.ok /\ rest.ok THEN Plan(ledger.script \o rest.script) ELSE Stuck

\* The part of readIntegrityCheckpoint that changes files.
OpenPlan(f) ==
  LET orphan == OrphanPlan(f)
      g == After(f, orphan.script)
      ledger == LedgerPlan(g)
      h == After(g, ledger.script)
      rest == Recovery(h)
  IN IF orphan.ok /\ ledger.ok /\ rest.ok
     THEN Plan(orphan.script \o ledger.script \o rest.script) ELSE Stuck

\* The rest of it: what the recovered files say.
Checkpoint(f) ==
  IF f.ledger = None /\ f.ckpt = None THEN [ok |-> TRUE, value |-> None]
  ELSE [ok |-> /\ f.ckpt # None
               /\ ~f.linked
               /\ LedgerIs(f.ledger, f.ckpt)
               /\ ReplaysTo(f.ckpt.ledger, f.ckpt),
        value |-> f.ckpt]

---------------------------------------------------------------------------
(* Operations.                                                             *)

Kinds == {"append", "prepare", "verify"}

NoFiles ==
  [active |-> None, archives |-> NoFields, staged |-> NoFields, ledger |-> None, bak |-> None,
   ckpt |-> None, prior |-> None, linked |-> FALSE, tx |-> None]

Init ==
  /\ integrity \in BOOLEAN
  /\ files = NoFiles
  /\ op = Idle
  /\ written = 0 /\ acked = {} /\ faults = 0
  /\ outcome = "ok"

\* The operation returns and the lock is released.
Finish == op' = Idle /\ outcome' = "ok"

\* The operation throws: "stuck" when no call of its own had failed.
Throw == op' = Idle /\ outcome' = IF op.clean THEN "stuck" ELSE "failed"

\* assertCompleteJsonlBoundary, which prepare calls before anything is recovered.
Unfinished == files.active # None /\ files.active.torn
Refused(kind) == Unfinished /\ (kind = "prepare" \/ (kind = "append" /\ ~integrity))

Continue(o, stage, script) ==
  op' = [o EXCEPT !.stage = stage, !.script = script] /\ UNCHANGED outcome

\* A caller takes the lock: appendAuditJournal, prepareAuditJournal, verifyAuditJournal.
Open(kind, retain) ==
  LET plan == IF integrity THEN OpenPlan(files) ELSE Plan(<<>>)
      o == [kind |-> kind, stage |-> "open", script |-> <<>>, ckpt |-> None,
            id |-> IF kind = "append" THEN written + 1 ELSE 0, retain |-> retain, clean |-> TRUE]
  IN /\ op = Idle
     /\ kind = "append" => written < MaxRecords
     /\ written' = IF kind = "append" THEN written + 1 ELSE written
     /\ IF Refused(kind) THEN op' = Idle /\ outcome' = "refused"
        ELSE IF ~plan.ok THEN op' = Idle /\ outcome' = "stuck"
        ELSE Continue(o, "open", plan.script)
     /\ UNCHANGED <<integrity, files, acked, faults>>

At(stage) == op # Idle /\ op.stage = stage /\ op.script = <<>>

\* beginIntegrityTransaction throws while the traces of an earlier transaction are still there.
MustNotBegin ==
  /\ op # Idle /\ op.script # <<>>
  /\ Head(op.script).call = "begin"
  /\ files.tx # None \/ files.prior # None

\* A call of the script returns.
Perform ==
  /\ op # Idle /\ op.script # <<>> /\ ~MustNotBegin
  /\ files' = Put(files, Head(op.script).sets)
  /\ op' = [op EXCEPT !.script = Tail(@)]
  /\ UNCHANGED <<integrity, written, acked, faults, outcome>>

\* The journal is read: append decides on a rotation, the others have their answer.
WantsRotation(aged) ==
  /\ files.active # None
  /\ Bytes(files.active) > 0
  /\ Bytes(files.active) + 1 > MaxBytes \/ aged

Proceed(c, aged) ==
  LET o == [op EXCEPT !.ckpt = c] IN
  IF c # None /\ ~Validates(files, c) THEN Throw
  ELSE IF op.kind # "append" THEN Finish
  ELSE IF ~WantsRotation(aged)
       THEN Continue(o, "append", IF integrity THEN AppendScript(files, c, op.id)
                     ELSE <<AppendActive(files, [id |-> op.id, prev |-> NoHash])>>)
  ELSE IF ~integrity THEN Continue(o, "rotate", PlainRotateScript(files))
  ELSE IF c.active.count = 0 THEN Throw
  ELSE Continue(o, "rotate", RotateScript(files, c))

ReadCheckpoint(aged) ==
  LET c == Checkpoint(files) IN
  /\ At("open")
  /\ IF ~integrity
     THEN IF op.kind = "prepare" /\ files.active = None
          THEN Continue(op, "ensure", <<Call("ensure", [active |-> EmptySegment])>>)
          ELSE Proceed(None, aged)
     ELSE IF ~c.ok THEN Throw
     ELSE IF c.value # None THEN Proceed(c.value, aged)
     ELSE IF op.kind = "verify" THEN Finish
     ELSE IF files.active # None /\ Bytes(files.active) # 0 THEN Throw
     ELSE Continue(op, "initialize", InitializeScript(files))
  /\ UNCHANGED <<integrity, files, written, acked, faults>>

Ensured ==
  /\ At("ensure")
  /\ Finish
  /\ UNCHANGED <<integrity, files, written, acked, faults>>

\* initializeIntegrityCheckpoint returns its checkpoint.
Initialized(aged) ==
  /\ At("initialize")
  /\ Proceed(files.ckpt, aged)
  /\ UNCHANGED <<integrity, files, written, acked, faults>>

Rotated ==
  /\ At("rotate")
  /\ Continue([op EXCEPT !.ckpt = files.ckpt], "append",
              IF integrity THEN AppendScript(files, files.ckpt, op.id)
              ELSE <<AppendActive(files, [id |-> op.id, prev |-> NoHash])>>)
  /\ UNCHANGED <<integrity, files, written, acked, faults>>

\* The record is in; what is left is retention, whose failures are only reported.
Appended ==
  /\ At("append")
  /\ acked' = acked \cup {op.id}
  /\ Continue(op, "retire", IF integrity THEN RetireScript(files, files.ckpt, op.retain)
                            ELSE PlainRetainScript(files, op.retain))
  /\ UNCHANGED <<integrity, files, written, faults>>

Retired ==
  /\ At("retire")
  /\ Finish
  /\ UNCHANGED <<integrity, files, written, acked, faults>>

RecoveredReturns ==  \* mutant: the catch block does not rethrow
  /\ \/ At("recover") /\ Finish /\ acked' = acked \cup {op.id}
     \/ At("recover_retire") /\ Finish /\ UNCHANGED acked
  /\ UNCHANGED <<integrity, files, written, faults>>

\* The catch block has recovered the journal and rethrows; retention's caller swallows it.
Recovered ==
  /\ \/ At("recover") /\ Throw
     \/ At("recover_retire") /\ Finish
  /\ UNCHANGED <<integrity, files, written, acked, faults>>

---------------------------------------------------------------------------
(* Faults.                                                                 *)

\* The catch block of a transaction that failed with the files as in f.
Catch(f) ==
  LET plan == Recovery(f)
      retiring == op.stage = "retire"
      o == [op EXCEPT !.clean = FALSE, !.stage = IF retiring THEN "recover_retire" ELSE "recover",
                      !.script = plan.script]
  IN IF integrity /\ op.stage \notin {"open", "recover", "recover_retire"} /\ plan.ok
     THEN op' = o /\ UNCHANGED outcome
     ELSE /\ op' = Idle
          /\ outcome' = IF retiring \/ op.stage = "recover_retire" THEN "ok" ELSE "failed"

Blocked ==
  /\ MustNotBegin
  /\ Catch(files)
  /\ UNCHANGED <<integrity, files, written, acked, faults>>

FailCall ==
  LET c == Head(op.script) IN
  /\ op # Idle /\ op.script # <<>>
  /\ faults < MaxFaults
  /\ faults' = faults + 1
  /\ \/ /\ c.call \in {"complete", "release"}
        /\ c.call = "release" => BackupSticks
        /\ files' = files
        /\ op' = [op EXCEPT !.clean = FALSE,
                  !.script = IF c.call = "complete" THEN <<>> ELSE Tail(@)]
        /\ UNCHANGED outcome
     \/ /\ c.call \notin {"complete", "release"}
        /\ \E after \in {NoFields, c.torn, c.undo} \cup (IF c.torn = NoFields THEN {} ELSE {c.sets}) :
             /\ files' = Put(files, after)
             /\ Catch(Put(files, after))
  /\ UNCHANGED <<integrity, written, acked>>

\* The process dies, its lock is released by the operating system.
Crash ==
  /\ op # Idle
  /\ faults < MaxFaults
  /\ faults' = faults + 1
  /\ files' \in {files} \cup (IF op.script = <<>> THEN {} ELSE {Put(files, Head(op.script).torn)})
  /\ op' = Idle
  /\ outcome' = "failed"
  /\ UNCHANGED <<integrity, written, acked>>

Next ==
  \/ \E kind \in Kinds, retain \in Retains : Open(kind, retain)
  \/ Perform
  \/ \E aged \in BOOLEAN : ReadCheckpoint(aged) \/ Initialized(aged)
  \/ Ensured
  \/ Rotated
  \/ Appended
  \/ Retired
  \/ Recovered
  \/ Blocked
  \/ FailCall
  \/ Crash

Spec == Init /\ [][Next]_vars

---------------------------------------------------------------------------
(* Properties.                                                             *)

RecordsOf(f) ==
  LET names == Sealed(f)
      upTo[i \in 0..Len(names)] ==
        IF i = 0 THEN <<>> ELSE upTo[i - 1] \o f.archives[names[i]].recs
  IN upTo[Len(names)] \o (IF f.active = None THEN <<>> ELSE f.active.recs)
LogOf(f) == LET recs == RecordsOf(f) IN [i \in 1..Len(recs) |-> recs[i].id]

TypeOK ==
  /\ integrity \in BOOLEAN
  /\ DOMAIN files = DOMAIN NoFiles
  /\ op # Idle => op.kind \in Kinds
  /\ written \in 0..MaxRecords /\ acked \subseteq 1..MaxRecords /\ faults \in 0..MaxFaults
  /\ outcome \in {"ok", "failed", "stuck", "refused"}

\* The files in f are whole: checkpoint, ledger and segments agree, nothing is staged and no
\* trace of a transaction is left.
Whole(f) ==
  LET c == Checkpoint(f) IN
  /\ c.ok
  /\ f.tx = None /\ f.prior = None /\ f.bak = None
  /\ DOMAIN f.staged = {}
  /\ c.value # None => Validates(f, c.value)

\* An operation none of whose own calls failed does not throw: no earlier crash wedges the journal.
NeverStuck == outcome # "stuck"

\* prepareAuditJournal, the check made before every guarded operation, accepts a journal that
\* recovery can put right.
PrepareAccepts == integrity => outcome # "refused"

\* What a reader copies while no writer holds the lock is one unbroken stretch of the chain.
SnapshotCoherent ==
  op = Idle =>
    LET seen == RecordsOf(files) IN
    integrity => \A i \in 2..Len(seen) : seen[i].prev = seen[i - 1].id
=============================================================================
