-------------------------- MODULE ConfigReplacement --------------------------
(***************************************************************************)
(* The guarded replacement of the configuration file                       *)
(* (cli/migrate-config.ts), by which every command that changes the        *)
(* configuration writes it: the file is moved into a private directory,    *)
(* compared with what the change was planned from, backed up, and the new  *)
(* content linked to the path only while nothing stands there.  No lock    *)
(* keeps other writers, or a person's editor, away from the path.          *)
(*                                                                         *)
(* A file is an inode with a text; "path", a transaction's "hold" and      *)
(* "cand" are names of inodes.  A fingerprint is the inode and its text:   *)
(* no two texts that are ever written are the same, but for the original   *)
(* that a restoration writes again.                                        *)
(***************************************************************************)
EXTENDS Naturals, FiniteSets

CONSTANTS
  None,
  Writers,  \* processes that replace the file
  Inodes,   \* bound: files that exist at a time
  Texts,    \* contents of the file
  Origin,   \* the content at the start
  MaxFaults \* bound: failing calls and deaths

ASSUME OriginAssumption ==
  Origin \in Texts /\ None \notin Texts /\ None \notin Inodes /\ Inodes # {} /\ MaxFaults \in Nat

VARIABLES
  path,    \* the inode that the configuration's path names
  text,    \* the text of every inode
  tx,      \* the replacement of every writer
  kept,    \* inodes in transaction directories that were left behind
  backups, \* the texts of the backups published beside the file
  unused,  \* texts that nobody has written yet
  owed,    \* the texts once in force that nobody chose to throw away
  faults

files == <<path, text, kept, backups, unused, owed>>
replacing == <<path, text, tx, kept, backups, unused, owed, faults>>

Idle == [pc |-> "idle", source |-> None, goal |-> None, publish |-> FALSE,
         hold |-> None, cand |-> None, out |-> None]

RInit ==
  /\ path = CHOOSE i \in Inodes : TRUE
  /\ text = [i \in Inodes |-> Origin]
  /\ tx = [w \in Writers |-> Idle]
  /\ kept = {} /\ backups = {} /\ faults = 0
  /\ owed = {Origin}

Named ==
  ({path} \cup kept \cup {tx[w].hold : w \in Writers} \cup {tx[w].cand : w \in Writers}) \ {None}
Unnamed == Inodes \ Named
NewInode == CHOOSE i \in Unnamed : TRUE
Create(t) == Unnamed # {} /\ text' = [text EXCEPT ![NewInode] = t]

Fingerprint(i) == [ino |-> i, text |-> text[i]]

To(w, pc) == tx' = [tx EXCEPT ![w].pc = pc]
\* Back to where the file was, to report "unchanged" then: as it is now, or as it was found after the move.
RestoreCurrent(w) == tx' = [tx EXCEPT ![w].pc = "relook", ![w].out = "unchanged"]
RestoreFound(w) == tx' = [tx EXCEPT ![w].pc = "relink", ![w].out = "unchanged"]
End(w, out) == tx' = [tx EXCEPT ![w] = [Idle EXCEPT !.out = out]]
\* The transaction directory is left for a person to look at: with all that is in it, with what was
\* moved away, or with what a clean-up did not get to.
LeaveWith(w, left, out) == End(w, out) /\ kept' = kept \cup (left \ {None})
Leave(w, out) == LeaveWith(w, {tx[w].hold, tx[w].cand}, out)
LeaveHold(w, out) == LeaveWith(w, {tx[w].hold}, out)
LeaveSome(w, out) == \E left \in SUBSET {tx[w].hold, tx[w].cand} : LeaveWith(w, left, out)
At(w, pc) == tx[w].pc = pc

\* A system call of w at pc fails.
Fault(w, pc) == At(w, pc) /\ faults < MaxFaults /\ faults' = faults + 1

---------------------------------------------------------------------------
(* The steps of a replacement.                                             *)

\* A writer has read the file, its plan rests on what it read.
Begin(w, source, goal, publish) ==
  tx' = [tx EXCEPT ![w] = [Idle EXCEPT !.pc = "check", !.source = source, !.goal = goal,
                                       !.publish = publish]]

\* assertMigrationSourceUnchanged, createMigrationTransaction.
Check(w) ==
  /\ \/ /\ At(w, "check")
        /\ IF path # None /\ Fingerprint(path) = tx[w].source
           THEN To(w, "move") ELSE End(w, "unchanged")
        /\ UNCHANGED faults
     \/ Fault(w, "check") /\ End(w, "unchanged")
  /\ UNCHANGED files

\* rename(path, holdingPath); without a file there is nothing to hold.
Move(w) ==
  /\ \/ /\ At(w, "move") /\ path # None
        /\ path' = None
        /\ tx' = [tx EXCEPT ![w].hold = path, ![w].pc = "inspect"]
        /\ UNCHANGED faults
     \/ At(w, "move") /\ path = None /\ End(w, "unchanged") /\ UNCHANGED <<path, faults>>
     \/ Fault(w, "move") /\ End(w, "unchanged") /\ UNCHANGED path
  /\ UNCHANGED <<text, kept, backups, unused, owed>>

Holds(w) == Fingerprint(tx[w].hold) = tx[w].source

\* A failing lstat tells nothing of what was moved; a failing readFile is a mismatch.
Inspect(w) ==
  /\ \/ /\ At(w, "inspect")
        /\ IF Holds(w) THEN To(w, "backup") ELSE RestoreCurrent(w)
        /\ UNCHANGED <<kept, faults>>
     \/ Fault(w, "inspect") /\ (LeaveHold(w, "uncertain") \/ (RestoreCurrent(w) /\ UNCHANGED kept))
  /\ UNCHANGED <<path, text, backups, unused, owed>>

\* prepareMigrationFiles and writeSyncedExclusive: both private files, then the published link.
Backup(w) ==
  /\ \/ /\ At(w, "backup")
        /\ backups' = IF tx[w].publish THEN backups \cup {tx[w].source.text} ELSE backups
        /\ To(w, "candidate")
        /\ UNCHANGED faults
     \/ Fault(w, "backup") /\ RestoreFound(w) /\ UNCHANGED backups
  /\ UNCHANGED <<path, text, kept, unused, owed>>

Candidate(w) ==
  /\ \/ /\ At(w, "candidate")
        /\ Create(tx[w].goal)
        /\ tx' = [tx EXCEPT ![w].cand = NewInode, ![w].pc = "verify"]
        /\ UNCHANGED faults
     \/ Fault(w, "candidate") /\ RestoreFound(w) /\ UNCHANGED text
  /\ UNCHANGED <<path, kept, backups, unused, owed>>

Verify(w) ==
  /\ \/ At(w, "verify") /\ (IF Holds(w) THEN To(w, "install") ELSE RestoreCurrent(w)) /\ UNCHANGED faults
     \/ Fault(w, "verify") /\ RestoreCurrent(w)
  /\ UNCHANGED files

\* What is in force now; a source that no backup was published of is meant to go.
InForce(w) == (IF tx[w].publish THEN owed ELSE owed \ {tx[w].source.text}) \cup {tx[w].goal}

InstallOver(w) ==  \* mutant: the candidate is renamed over whatever stands at the path
  /\ At(w, "install")
  /\ path' = tx[w].cand /\ owed' = InForce(w)
  /\ To(w, "confirm")
  /\ UNCHANGED <<text, kept, backups, unused, faults>>

\* link(candidatePath, path) replaces nothing.
Install(w) ==
  /\ \/ /\ At(w, "install") /\ path = None
        /\ path' = tx[w].cand
        /\ owed' = InForce(w)
        /\ To(w, "confirm")
        /\ UNCHANGED faults
     \/ At(w, "install") /\ path # None /\ RestoreFound(w) /\ UNCHANGED <<path, owed, faults>>
     \/ Fault(w, "install") /\ RestoreFound(w) /\ UNCHANGED <<path, owed>>
  /\ UNCHANGED <<text, kept, backups, unused>>

\* The path still names the candidate, and the source that is held was not written to.
Confirm(w) ==
  /\ \/ /\ At(w, "confirm")
        /\ IF path = tx[w].cand THEN To(w, "settle") /\ UNCHANGED kept ELSE Leave(w, "uncertain")
        /\ UNCHANGED faults
     \/ Fault(w, "confirm") /\ Leave(w, "uncertain")
     \/ /\ At(w, "settle")
        /\ IF Holds(w) THEN To(w, "unhold") /\ UNCHANGED kept ELSE LeaveHold(w, "applied")
        /\ UNCHANGED faults
     \/ Fault(w, "settle") /\ LeaveHold(w, "applied")
  /\ UNCHANGED <<path, text, backups, unused, owed>>

\* Removing the held source, the private files and the directory.
Unhold(w) ==
  /\ At(w, "unhold")
  /\ \/ End(w, "ok") /\ UNCHANGED <<kept, faults>>
     \/ Fault(w, "unhold") /\ LeaveSome(w, "applied")
  /\ UNCHANGED <<path, text, backups, unused, owed>>

\* restoreCurrentHeldSource: what is held now is what shall be restored.
Relook(w) ==
  /\ \/ /\ At(w, "relook")
        /\ tx' = [tx EXCEPT ![w].source = Fingerprint(tx[w].hold), ![w].pc = "relink"]
        /\ UNCHANGED <<kept, faults>>
     \/ Fault(w, "relook") /\ LeaveHold(w, "uncertain")
  /\ UNCHANGED <<path, text, backups, unused, owed>>

\* restoreHeldSource: only what has the fingerprint, only to a free path; otherwise the path stays empty
\* and the file in the directory.
Relink(w) ==
  /\ \/ /\ At(w, "relink") /\ Holds(w) /\ path = None
        /\ path' = tx[w].hold
        /\ To(w, "unlink")
        /\ UNCHANGED <<kept, faults>>
     \/ At(w, "relink") /\ ~(Holds(w) /\ path = None) /\ LeaveHold(w, "uncertain") /\ UNCHANGED <<path, faults>>
     \/ Fault(w, "relink") /\ LeaveHold(w, "uncertain") /\ UNCHANGED path
  /\ UNCHANGED <<text, backups, unused, owed>>

Unlink(w) ==
  /\ At(w, "unlink")
  /\ \/ End(w, tx[w].out) /\ UNCHANGED <<kept, faults>>
     \/ Fault(w, "unlink") /\ LeaveSome(w, "uncertain")
  /\ UNCHANGED <<path, text, backups, unused, owed>>

\* The writer dies: its transaction directory stays.
Die(w) == Leave(w, "died") /\ UNCHANGED <<path, text, backups, unused, owed>>

Step(w) ==
  \/ Check(w) \/ Move(w) \/ Inspect(w) \/ Backup(w) \/ Candidate(w) \/ Verify(w)
  \/ Install(w) \/ Confirm(w) \/ Unhold(w) \/ Relook(w) \/ Relink(w) \/ Unlink(w)

NewText == CHOOSE t \in unused : TRUE

\* A command replaces the configuration from what it read of it.
Command(w) ==
  /\ tx[w].pc = "idle" /\ path # None
  /\ unused # {}
  /\ Begin(w, Fingerprint(path), NewText, TRUE)
  /\ unused' = unused \ {NewText}
  /\ UNCHANGED <<path, text, kept, backups, owed, faults>>

Perish(w) ==
  /\ tx[w].pc # "idle"
  /\ faults < MaxFaults /\ faults' = faults + 1
  /\ Die(w)

---------------------------------------------------------------------------
(* A person's editor: it saves by a rename, or writes in place, to the     *)
(* path or to the file that it opened before a writer moved it away.  What *)
(* is written to a file after the writer's last look at it was never in    *)
(* force, and goes with the file.                                          *)

\* The files at which somebody will look again.
Watched == {path} \cup {tx[w].hold : w \in {v \in Writers : ~At(v, "unhold") /\ ~At(v, "unlink")}}

Edited(i) ==
  /\ unused # {}
  /\ unused' = unused \ {NewText}
  /\ owed' = (IF i = None THEN owed ELSE owed \ {text[i]}) \cup (IF i \in Watched THEN {NewText} ELSE {})

Save ==
  /\ Edited(path)
  /\ Create(NewText)
  /\ path' = NewInode
  /\ UNCHANGED <<tx, kept, backups, faults>>

WriteInPlace(i) ==
  /\ i \in ({path} \cup {tx[w].hold : w \in Writers}) \ {None}
  /\ Edited(i)
  /\ text' = [text EXCEPT ![i] = NewText]
  /\ UNCHANGED <<path, tx, kept, backups, faults>>

Editor == Save \/ \E i \in Inodes : WriteInPlace(i)

RNext == Editor \/ \E w \in Writers : Command(w) \/ Step(w) \/ Perish(w)

\* The file among commands and an editor that know nothing of each other.
RSpec == RInit /\ unused = Texts \ {Origin} /\ [][RNext]_replacing

---------------------------------------------------------------------------
(* Properties.                                                             *)

ReplacementTypeOK ==
  /\ path \in Inodes \cup {None} /\ kept \subseteq Inodes
  /\ text \in [Inodes -> Texts] /\ backups \subseteq Texts /\ owed \subseteq Texts
  /\ \A w \in Writers : tx[w].hold \in Inodes \cup {None} /\ tx[w].cand \in Inodes \cup {None}

\* No configuration that was in force, and that its author did not overwrite, is lost: it is
\* at the path, held or left in a transaction directory, or in a published backup, whatever
\* two writers and an editor do to the path and wherever a writer dies.
NoTextLost ==
  owed \subseteq
    backups \cup {text[i] : i \in ({path} \cup kept \cup {tx[w].hold : w \in Writers}) \ {None}}
=============================================================================
