---------------------------- MODULE ProfileRename ----------------------------
(***************************************************************************)
(* The rename of a profile that owns OAuth connections                     *)
(* (oauth/profile-rename-transaction.ts): the credentials move between     *)
(* vault keys, the records of the connections between bindings, and the    *)
(* configuration file is replaced, under a journal that only says what     *)
(* there was before: after an interruption the bytes of the configuration  *)
(* decide whether the rename is finished or undone.                        *)
(*                                                                         *)
(* One process at a time holds the profile-rename lock and, with it, the   *)
(* locks of the bindings.  A job's script is the set of the calls it still *)
(* has to make, each once; Precedes is their order.  A call is what the    *)
(* code does up to its next write.                                         *)
(***************************************************************************)
EXTENDS ConfigReplacement, Functions

CONSTANTS
  Bindings,
  Torn,         \* a journal that was only partly written
  Credentials,
  Renamer,      \* the writer that works for a rename
  Target,       \* the renamed configuration
  TornJournals, \* whether a death can tear a journal that is being written
  StaleRuntimes \* whether a runtime that was started before a rename refreshes after its death

\* What a journal says there was: that each connection had a credential and a record, not what they were.
Journals ==
  [source : {Origin}, target : {Target}, audit : BOOLEAN,
   had : [Bindings -> BOOLEAN], bound : [Bindings -> {None, "from"}]]

ASSUME RenameAssumption ==
  /\ Renamer \in Writers /\ Target \in Texts \ {Origin}
  /\ IsFiniteSet(Bindings) /\ Bindings # {} /\ None \notin Bindings \cup Credentials /\ Credentials # {}
  /\ None \notin Journals /\ Torn \notin Journals \cup {None} /\ None \notin {"from", "to", "ok"}
  /\ TornJournals \in BOOLEAN /\ StaleRuntimes \in BOOLEAN

VARIABLES
  cred,    \* the vault: cred[b].from and cred[b].to
  record,  \* the side that the record of a connection is bound to
  journal,
  copy,    \* the text of the journal's source backup
  job,
  audited  \* "due" from the journal of a rename that must be audited, "yes" once it is

rename == <<cred, record, journal, copy, job, audited>>
vars == <<replacing, rename>>

NoJob == [kind |-> "none", script |-> {}, undoes |-> {}, journal |-> None, source |-> None]

Init ==
  /\ RInit
  /\ unused = Texts \ {Origin, Target}
  /\ \E had \in [Bindings -> BOOLEAN], bound \in [Bindings -> BOOLEAN] :
       /\ \A b \in Bindings : had[b] => bound[b]
       /\ cred = [b \in Bindings |->
            [from |-> IF had[b] THEN CHOOSE c \in Credentials : TRUE ELSE None, to |-> None]]
       /\ record = [b \in Bindings |-> IF bound[b] THEN "from" ELSE None]
  /\ journal = None /\ copy = None /\ job = NoJob /\ audited = "no"

---------------------------------------------------------------------------
(* Scripts.                                                                *)

\* The loops over the bindings, and the calls that are alone in their place.
Loop ==
  [create |-> 1, prepare |-> 2, replace |-> 3, replacing |-> 3, restore |-> 3, restoring |-> 3,
   carry |-> 4, rebind |-> 4, back |-> 4, discard |-> 4, unbind |-> 4, drop |-> 5, audit |-> 6,
   forget |-> 7, erase |-> 8, refuse |-> 9]
DiscardFirst == [carry |-> 1, rebind |-> 2, back |-> 2, discard |-> 1, unbind |-> 3]  \* mutant: the new credential goes first
\* What a loop does for one binding.
Place == [carry |-> 1, rebind |-> 2, back |-> 1, discard |-> 2, unbind |-> 3]
\* The order of the bindings, the same in every loop.
Turn == CHOOSE turn \in Injection(Bindings, 1..Cardinality(Bindings)) : TRUE

Precedes(c, d) ==
  \/ Loop[c[1]] < Loop[d[1]]
  \/ Loop[c[1]] = Loop[d[1]] /\ IF c[2] = d[2] THEN Place[c[1]] < Place[d[1]] ELSE Turn[c[2]] < Turn[d[2]]

Each(calls) == calls \X Bindings
Single(call) == {<<call, None>>}

Cleanup == Single("forget") \cup Single("erase")
AuditSkipped(required) == {}  \* mutant: recovery finishes a rename that nobody audits
Audit(required) == IF required THEN Single("audit") ELSE {}
CompleteForward == Each({"carry", "rebind", "drop"})
CompleteRollback == Each({"back", "discard", "unbind"})
Undo == Single("restore") \cup CompleteRollback \cup Cleanup

RenameScript(required) ==
  Single("create") \cup Each({"prepare"}) \cup Single("replace")
    \cup CompleteForward \cup Audit(required) \cup Cleanup
RenameUndoes == {"prepare", "replace", "carry", "rebind", "drop", "audit"}

Current == IF path = None THEN None ELSE text[path]

RecoverySourceFirst(j, finalizes) ==  \* mutant: an interrupted rename is always undone
  IF Current \in {j.source, j.target} THEN CompleteRollback \cup Cleanup ELSE Single("refuse")

\* currentDirection; a journal that needs an audit record is finished only where one can be made.
RecoveryScript(j, finalizes) ==
  IF Current = j.source THEN CompleteRollback \cup Cleanup
  ELSE IF Current = j.target /\ (j.audit => finalizes)
       THEN CompleteForward \cup Audit(j.audit) \cup Cleanup
  ELSE Single("refuse")

---------------------------------------------------------------------------
(* Starting and ending a job.                                              *)

Quiet == UNCHANGED files

\* runProfileRename reads the configuration before it takes the locks.
Read ==
  /\ job = NoJob /\ journal = None
  /\ Current = Origin
  /\ job' = [NoJob EXCEPT !.kind = "planned", !.source = Fingerprint(path)]
  /\ UNCHANGED <<replacing, cred, record, journal, copy, audited>>

\* captureJournal and createSourceBackup, unless a destination has a credential already.
Capture(required) ==
  /\ job.kind = "planned"
  /\ LET j == [source |-> job.source.text, target |-> Target, audit |-> required,
               had |-> [b \in Bindings |-> cred[b].from # None], bound |-> record] IN
     IF \E b \in Bindings : cred[b].to # None \/ record[b] = "to"
     THEN job' = NoJob /\ UNCHANGED copy
     ELSE /\ job' = [job EXCEPT !.kind = "rename", !.script = RenameScript(required),
                                !.undoes = RenameUndoes, !.journal = j]
          /\ copy' = job.source.text
  /\ UNCHANGED <<replacing, cred, record, journal, audited>>

\* recoverOAuthProfileRename, by the command that was retried or by a runtime that starts.
Recover(finalizes) ==
  /\ job = NoJob /\ journal # None
  /\ job' = IF journal = Torn \/ copy # journal.source THEN NoJob
            ELSE [NoJob EXCEPT !.kind = "recover", !.script = RecoveryScript(journal, finalizes),
                               !.undoes = {"audit"}, !.journal = journal]
  /\ UNCHANGED <<replacing, cred, record, journal, copy, audited>>

Runs == job.kind \in {"rename", "recover"}
IsNext(c) == c \in job.script /\ \A d \in job.script \ {c} : Precedes(c, d)
On(call, b) == Runs /\ IsNext(<<call, b>>)
Advance(call, b) == job' = [job EXCEPT !.script = @ \ {<<call, b>>}]
Goes(call, on) == job' = [job EXCEPT !.script = (@ \ Single(call)) \cup Single(on)]
\* What follows a failing call: the undoing of what was done, or the end of the job.
Fail(call) ==
  job' = IF call \in job.undoes
         THEN [job EXCEPT !.kind = "recover", !.script = Undo, !.undoes = {}]
         ELSE NoJob

Finish ==
  /\ Runs /\ job.script = {}
  /\ job' = NoJob
  /\ UNCHANGED <<replacing, cred, record, journal, copy, audited>>

\* A store call or a write of the job fails; the failure of a single binding stops the loop.
FailCall(c) ==
  /\ Runs /\ IsNext(c)
  /\ tx[Renamer].pc = "idle"
  /\ faults < MaxFaults /\ faults' = faults + 1
  /\ IF c[1] = "create" THEN job' = NoJob /\ copy' = None ELSE Fail(c[1]) /\ UNCHANGED copy
  /\ Quiet /\ UNCHANGED <<tx, cred, record, journal, audited>>

Refuse ==
  /\ On("refuse", None)
  /\ job' = NoJob
  /\ UNCHANGED <<replacing, cred, record, journal, copy, audited>>

---------------------------------------------------------------------------
(* The journal and the configuration.                                      *)

CreateJournal ==
  /\ On("create", None)
  /\ journal' = job.journal
  /\ audited' = IF job.journal.audit THEN "due" ELSE "no"
  /\ Advance("create", None)
  /\ UNCHANGED <<replacing, cred, record, copy>>

Replace ==
  /\ On("replace", None) /\ tx[Renamer].pc = "idle"
  /\ Begin(Renamer, job.source, Target, TRUE)
  /\ Goes("replace", "replacing")
  /\ UNCHANGED <<files, faults, cred, record, journal, copy, audited>>

\* restoreSourceConfig: the file is read again, and must be one of the two.
RestoreSource ==
  /\ On("restore", None) /\ tx[Renamer].pc = "idle"
  /\ \/ Current = job.journal.source /\ Advance("restore", None) /\ UNCHANGED tx
     \/ /\ Current = job.journal.target /\ copy = job.journal.source
        /\ Begin(Renamer, Fingerprint(path), copy, FALSE)
        /\ Goes("restore", "restoring")
     \/ Current \notin {job.journal.source, job.journal.target} /\ Fail("restore") /\ UNCHANGED tx
  /\ UNCHANGED <<files, faults, cred, record, journal, copy, audited>>

\* The replacement is over: its report decides; a restored file is read once more.
Replaced ==
  /\ \/ On("replacing", None) /\ tx[Renamer].out = "ok" /\ Advance("replacing", None)
     \/ On("restoring", None) /\ tx[Renamer].out = "ok" /\ Current = job.journal.source /\ Advance("restoring", None)
     \/ On("replacing", None) /\ tx[Renamer].out # "ok" /\ job' = [job EXCEPT !.script = Undo, !.undoes = {}]
     \/ On("restoring", None) /\ (tx[Renamer].out # "ok" \/ Current # job.journal.source) /\ job' = NoJob
  /\ tx[Renamer].pc = "idle"
  /\ UNCHANGED <<replacing, cred, record, journal, copy, audited>>

\* cleanupJournal: the journal goes before the copy that it needs.
Forget ==
  /\ On("forget", None)
  /\ IF copy = job.journal.source THEN journal' = None /\ Advance("forget", None) ELSE Fail("forget") /\ UNCHANGED journal
  /\ UNCHANGED <<replacing, cred, record, copy, audited>>

\* A copy that cannot be removed brings the journal back.
Erase ==
  /\ On("erase", None)
  /\ \/ copy' = None /\ Advance("erase", None) /\ UNCHANGED <<journal, faults>>
     \/ /\ faults < MaxFaults /\ faults' = faults + 1
        /\ journal' = job.journal
        /\ job' = NoJob
        /\ UNCHANGED copy
  /\ Quiet /\ UNCHANGED <<tx, cred, record, audited>>

RecordAudit ==
  /\ On("audit", None)
  /\ audited' = "yes"
  /\ Advance("audit", None)
  /\ UNCHANGED <<replacing, cred, record, journal, copy>>

---------------------------------------------------------------------------
(* The bindings.                                                           *)

Had(b) == job.journal.had[b]
Agree(b) == cred[b].from = None \/ cred[b].to = None \/ cred[b].from = cred[b].to
Empty(b) == cred[b].from = None /\ cred[b].to = None

\* A check and at most one write of the vault, for the binding at hand.
Vault(call, b, fine, entry) ==
  /\ On(call, b)
  /\ IF fine THEN cred' = [cred EXCEPT ![b] = entry] /\ Advance(call, b) ELSE Fail(call) /\ UNCHANGED cred
  /\ UNCHANGED <<replacing, record, journal, copy, audited>>
Saved(b, side, c) == [cred[b] EXCEPT ![side] = c]

Prepare(b) ==
  Vault("prepare", b, cred[b].to = None /\ (Had(b) <=> cred[b].from # None),
        IF Had(b) THEN Saved(b, "to", cred[b].from) ELSE cred[b])

\* Both directions ask the same of a binding before they begin with it.
Sound(b) == IF Had(b) THEN ~Empty(b) /\ Agree(b) ELSE Empty(b)

Carry(b) ==
  Vault("carry", b, Sound(b),
        IF Had(b) /\ cred[b].to = None THEN Saved(b, "to", cred[b].from) ELSE cred[b])
Drop(b) ==
  Vault("drop", b, Had(b) => cred[b].to # None /\ Agree(b),
        IF Had(b) THEN Saved(b, "from", None) ELSE cred[b])
GiveBack(b) ==
  Vault("back", b, Sound(b),
        IF Had(b) /\ cred[b].from = None THEN Saved(b, "from", cred[b].to) ELSE cred[b])
Discard(b) ==
  Vault("discard", b, TRUE, IF Had(b) THEN Saved(b, "to", None) ELSE cred[b])

RebindLeft(b) ==  \* mutant: the record stays with the old name
  On("rebind", b) /\ Advance("rebind", b) /\ UNCHANGED <<replacing, cred, record, journal, copy, audited>>

\* migrateProfileBinding: bound to the new side already, or moved there.
Rebind(b) ==
  /\ On("rebind", b)
  /\ IF record[b] = None /\ job.journal.bound[b] # None
     THEN Fail("rebind") /\ UNCHANGED record
     ELSE Advance("rebind", b) /\ record' = [record EXCEPT ![b] = IF @ = None THEN None ELSE "to"]
  /\ UNCHANGED <<replacing, cred, journal, copy, audited>>

\* restoreProfileBinding; a record of the old side that was not there before is not undone.
Unbind(b) ==
  /\ On("unbind", b)
  /\ IF job.journal.bound[b] = None /\ record[b] = "from"
     THEN Fail("unbind") /\ UNCHANGED record
     ELSE Advance("unbind", b) /\ record' = [record EXCEPT ![b] = job.journal.bound[b]]
  /\ UNCHANGED <<replacing, cred, journal, copy, audited>>

---------------------------------------------------------------------------
(* Everything else that happens.                                           *)

\* The process that renames or recovers dies, leaving what it was about to write half done.
Crash ==
  /\ job.kind # "none"
  /\ faults < MaxFaults /\ faults' = faults + 1
  /\ job' = NoJob
  /\ IF tx[Renamer].pc = "idle" THEN Quiet /\ UNCHANGED tx ELSE Die(Renamer)
  /\ \/ UNCHANGED journal
     \/ TornJournals /\ On("create", None) /\ journal' = Torn
  /\ UNCHANGED <<cred, record, copy, audited>>

\* A runtime refreshes the credential of the side that its configuration names.
Refresh(b, side) ==
  /\ ~Runs
  /\ journal = None \/ StaleRuntimes
  /\ cred[b][side] # None
  /\ \E c \in Credentials \ {cred[b][side]} : cred' = [cred EXCEPT ![b] = Saved(b, side, c)]
  /\ UNCHANGED <<replacing, record, journal, copy, job, audited>>

\* The steps of every replacement; other commands know no rename lock.
Replacement ==
  /\ \E w \in Writers : Step(w) \/ (w # Renamer /\ (Command(w) \/ Perish(w)))
  /\ UNCHANGED rename

RenameStep ==
  \/ CreateJournal \/ Replace \/ RestoreSource \/ Replaced \/ Forget \/ Erase \/ RecordAudit
  \/ \E b \in Bindings : Prepare(b) \/ Carry(b) \/ Drop(b) \/ GiveBack(b) \/ Discard(b) \/ Rebind(b) \/ Unbind(b)
  \/ Refuse \/ Finish \/ \E c \in job.script : FailCall(c)

Next ==
  \/ Read
  \/ \E answer \in BOOLEAN : Capture(answer) \/ Recover(answer)
  \/ RenameStep
  \/ Crash
  \/ Replacement
  \/ Editor /\ UNCHANGED rename
  \/ \E b \in Bindings, side \in {"from", "to"} : Refresh(b, side)

Spec == Init /\ [][Next]_vars

---------------------------------------------------------------------------
(* Properties.                                                             *)

Unfinished == journal # None \/ On("erase", None)
IsOld == \A b \in Bindings : cred[b].to = None /\ record[b] # "to"
IsNew == \A b \in Bindings : cred[b].from = None /\ record[b] # "from"

\* The renames of the connections are atomic: whatever fails, dies and is recovered, while no
\* rename is unfinished all credentials and records are on one side, and none was exchanged.
Connections == INSTANCE ConnectionMove WITH
  name <- IF Unfinished THEN "moving" ELSE IF IsOld THEN "old" ELSE IF IsNew THEN "new" ELSE "torn",
  held <- [b \in Bindings |-> IF cred[b].from # None THEN cred[b].from ELSE cred[b].to]
ImplementsMove == Connections!CSpec

\* A rename that is over agrees with the configuration: the connections bear the new name just
\* when the file does, unless somebody else wrote the file in the meantime.
SidesAgree ==
  ~Unfinished /\ unused = Texts \ {Origin, Target} /\ path # None =>
    IF Current = Target THEN IsNew ELSE IsOld

\* The next recovery can finish or undo what the journal tells of, whenever the file holds one
\* of the two configurations: the copy is there, and no check of either direction will refuse.
RecoveryWorks ==
  journal # None /\ job.kind = "none" =>
    /\ journal # Torn /\ copy = journal.source
    /\ \A b \in Bindings :
         /\ Agree(b)
         /\ journal.had[b] <=> ~Empty(b)
         /\ record[b] = None <=> journal.bound[b] = None

\* A rename that must be audited is not over, and the new name not in force, before it is.
NoUnauditedRename == ~Unfinished /\ ~IsOld => audited # "due"

\* So a rename that is over is whole: on the side of the configuration, and audited.
OutcomeAgrees == SidesAgree /\ NoUnauditedRename
=============================================================================
