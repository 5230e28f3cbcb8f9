------------------------------ MODULE RenameProofs ------------------------------
(***************************************************************************)
(* The safety properties of a profile rename beside other writers of the   *)
(* configuration, for every number of connections, writers, files and      *)
(* faults.  First the file: no text is lost.  Then the connections, whose  *)
(* invariant says how far a script has come: what it no longer holds has   *)
(* had its effect.                                                         *)
(***************************************************************************)
EXTENDS ProfileRename, FiniteSetTheorems, TLAPS

-----------------------------------------------------------------------------
(* The file.                                                               *)

Fingerprints == [ino : Inodes, text : Texts]
Early == {"idle", "check", "move"}
Ready == {"verify", "install"}
Installed == {"confirm", "settle", "unhold"}
Late == {"inspect", "backup", "candidate", "relook", "relink", "unlink"}
Replacements ==
  [pc : Early \cup Ready \cup Installed \cup Late, source : Fingerprints \cup {None}, goal : Texts \cup {None},
   publish : BOOLEAN, hold : Inodes \cup {None}, cand : Inodes \cup {None},
   out : {None, "unchanged", "uncertain", "applied", "ok", "died"}]

FileTypes ==
  /\ path \in Inodes \cup {None} /\ text \in [Inodes -> Texts] /\ kept \subseteq Inodes
  /\ unused \subseteq Texts \ {Origin, Target}
  /\ tx \in [Writers -> Replacements]

\* A rename reads, journals and copies the original only.
CallNames == DOMAIN Loop
Steps == CallNames \X (Bindings \cup {None})
Creds == [from : Credentials \cup {None}, to : Credentials \cup {None}]
JobTypes ==
  /\ job \in [kind : {"none", "planned", "rename", "recover"}, script : SUBSET Steps, undoes : SUBSET RenameUndoes,
              journal : Journals \cup {None}, source : Fingerprints \cup {None}]
  /\ job.kind = "planned" => job.source.text = Origin
  /\ Runs => job.journal \in Journals
  /\ journal \in Journals \cup {None, Torn} /\ copy \in {None, Origin}
  /\ cred \in [Bindings -> Creds] /\ record \in [Bindings -> {None, "from", "to"}]
  /\ audited \in {"no", "due", "yes"}

\* What a writer holds from the move on, its candidate until it is linked, and the backup and the
\* texts that its end rests on.
HoldsFile(w) ==
  IF At(w, "idle") \/ At(w, "check") \/ At(w, "move") THEN tx[w].hold = None /\ tx[w].cand = None
  ELSE tx[w].hold \in Inodes /\ tx[w].goal \in Texts
HasCandidate(w) ==
  tx[w].pc \in Ready =>
    /\ tx[w].cand \in Inodes /\ tx[w].cand # path /\ text[tx[w].cand] = tx[w].goal
    /\ \A v \in Writers : tx[v].hold # tx[w].cand /\ (v # w => tx[v].cand # tx[w].cand)
HasBackup(w) ==
  tx[w].publish /\ tx[w].pc \in {"candidate"} \cup Ready \cup Installed => tx[w].source.text \in backups
\* Only a restoration publishes no backup: it takes the renamed configuration back.
TakesBack(w) ==
  ~At(w, "idle") =>
    /\ tx[w].goal \in Texts
    /\ w # Renamer => tx[w].publish /\ tx[w].goal # Target
    /\ ~tx[w].publish => tx[w].goal # Target /\ (tx[w].pc \notin {"relink", "unlink"} => tx[w].source.text = Target)
    /\ ~tx[w].publish /\ tx[w].pc \in Installed => Target \notin owed
\* A file is held once, and not while it is at the path, but by writers that have linked it back.
HeldOnce ==
  \A w \in Writers : tx[w].hold # None /\ ~At(w, "unlink") =>
    /\ tx[w].hold # path
    /\ \A v \in Writers : v # w /\ ~At(v, "unlink") => tx[v].hold # tx[w].hold
\* NoTextLost without what writers are about to remove.
Removing(w) == At(w, "unhold") \/ At(w, "unlink")
Safe == ({path} \cup kept \cup {tx[w].hold : w \in {v \in Writers : ~Removing(v)}}) \ {None}
Kept == \A t \in owed : t \in backups \/ \E i \in Safe : text[i] = t

FileInv ==
  /\ FileTypes /\ JobTypes
  /\ \A w \in Writers : HoldsFile(w) /\ HasCandidate(w) /\ HasBackup(w) /\ TakesBack(w)
  /\ HeldOnce /\ Kept

\* The special values are no files, texts or steps.
LEMMA Distinct ==
  /\ None \notin Inodes /\ None \notin Texts /\ Origin \in Texts /\ Target \in Texts /\ Origin # Target
  /\ Inodes # {} /\ Renamer \in Writers
BY OriginAssumption, RenameAssumption

\* A writer goes on, ends or leaves: it holds what it held, or nothing that is still needed.
LEMMA OnlyTx ==
  ASSUME FileInv, JobTypes', NEW w \in Writers, NEW r \in Replacements, tx' = [tx EXCEPT ![w] = r],
         UNCHANGED <<path, text, owed>>, unused' \subseteq unused,
         kept \subseteq kept', kept' \subseteq Inodes, backups \subseteq backups',
         IF r.pc \in Early THEN r.hold = None /\ r.cand = None
         ELSE tx[w].pc \notin Early /\ r.hold = tx[w].hold /\ r.goal = tx[w].goal,
         r.cand \in {None, tx[w].cand}, r.pc \in Ready => tx[w].pc \in Ready /\ r.cand = tx[w].cand,
         r.publish /\ r.pc \in {"candidate"} \cup Ready \cup Installed => r.source.text \in backups',
         r.pc # "idle" =>
           /\ r.goal \in Texts
           /\ w # Renamer => r.publish /\ r.goal # Target
           /\ ~r.publish => r.goal # Target /\ (r.pc \notin {"relink", "unlink"} => r.source.text = Target)
           /\ ~r.publish /\ r.pc \in Installed => Target \notin owed,
         tx[w].pc = "unlink" /\ r.pc # "unlink" => r.hold = None,
         r.pc = "unlink" => tx[w].pc = "unlink",
         tx[w].pc = "unhold" /\ r.pc # "unhold" => r.hold = None,
         (r.hold = None \/ r.pc = "unhold") /\ tx[w].hold # None /\ ~Removing(w) /\ text[tx[w].hold] \in owed
           => tx[w].hold \in kept' \/ text[tx[w].hold] \in backups'
  PROVE  FileInv'
<1>1. /\ tx \in [Writers -> Replacements] /\ tx' \in [Writers -> Replacements] /\ tx'[w] = r
      /\ \A v \in Writers : v # w => tx'[v] = tx[v]
  BY DEF FileInv, FileTypes
<1>2. FileTypes'
  BY <1>1 DEF FileInv, FileTypes
<1>3. ASSUME NEW v \in Writers PROVE HoldsFile(v)'
  <2>1. HoldsFile(w)'
    BY <1>1 DEF FileInv, HoldsFile, At, Early
  <2>. QED  BY <1>1, <2>1 DEF FileInv, HoldsFile, At
<1>4. ASSUME NEW v \in Writers PROVE HasCandidate(v)'
  <2>1. \A u \in Writers : tx'[u].hold \in {None, tx[u].hold} /\ tx'[u].cand \in {None, tx[u].cand}
    BY <1>1
  <2>2. tx'[v].pc \in Ready => tx[v].pc \in Ready /\ tx'[v].cand = tx[v].cand /\ tx'[v].goal = tx[v].goal
    BY <1>1 DEF Ready, Early
  <2>3. HasCandidate(v)
    BY DEF FileInv
  <2>. QED  BY <2>1, <2>2, <2>3, Distinct DEF HasCandidate
<1>5. ASSUME NEW v \in Writers PROVE HasBackup(v)'
  <2>1. CASE v = w
    BY <1>1, <2>1 DEF HasBackup, At
  <2>2. CASE v # w
    BY <1>1, <2>2 DEF HasBackup, At, FileInv
  <2>. QED  BY <2>1, <2>2
<1>6. ASSUME NEW v \in Writers PROVE TakesBack(v)'
  <2>1. CASE v = w
    BY <1>1, <2>1 DEF TakesBack, At
  <2>2. CASE v # w
    BY <1>1, <2>2 DEF TakesBack, At, FileInv
  <2>. QED  BY <2>1, <2>2
<1>7. HeldOnce'
  <2>1. \A u \in Writers : tx'[u].hold # None => tx'[u].hold = tx[u].hold /\ (tx'[u].pc # "unlink" => tx[u].pc # "unlink")
    BY <1>1
  <2>2. HeldOnce
    BY DEF FileInv
  <2>. QED  BY <2>1, <2>2 DEF HeldOnce, At
<1>8. Kept'
  <2>1. SUFFICES ASSUME NEW t \in owed, t \notin backups' PROVE \E i \in Safe' : text[i] = t
    BY DEF Kept
  <2>2. PICK i \in Safe : text[i] = t
    BY <2>1 DEF FileInv, Kept
  <2>3. i \in Safe'
    <3>1. CASE i \in {path} \cup kept
      BY <2>2, <3>1 DEF Safe
    <3>2. CASE \E v \in Writers : ~Removing(v) /\ i = tx[v].hold
      <4>1. PICK v \in Writers : ~Removing(v) /\ i = tx[v].hold
        BY <3>2
      <4>2. i # None
        BY <2>2 DEF Safe
      <4>3. CASE v # w \/ ~(r.hold = None \/ r.pc = "unhold")
        <5>1. tx'[v].hold = i /\ tx'[v].pc \notin {"unhold", "unlink"}
          BY <1>1, <4>1, <4>3 DEF At, Removing
        <5>. QED  BY <4>2, <5>1 DEF Safe, At, Removing
      <4>4. CASE v = w /\ (r.hold = None \/ r.pc = "unhold")
        BY <1>1, <2>1, <2>2, <4>1, <4>2, <4>4 DEF Safe, At
      <4>. QED  BY <4>3, <4>4
    <3>. QED  BY <2>2, <3>1, <3>2 DEF Safe
  <2>. QED  BY <2>2, <2>3
<1>. QED  BY <1>2, <1>3, <1>4, <1>5, <1>6, <1>7, <1>8 DEF FileInv

Pcs == Early \cup Ready \cup Installed \cup Late
Outs == {None, "unchanged", "uncertain", "applied", "ok", "died"}

\* What a step leaves of the record of a replacement when it changes its phase.
LEMMA PhaseFields ==
  ASSUME NEW r \in Replacements, NEW p \in Pcs
  PROVE  /\ [r EXCEPT !.pc = p] \in Replacements /\ [r EXCEPT !.pc = p].pc = p
         /\ [r EXCEPT !.pc = p].source = r.source /\ [r EXCEPT !.pc = p].goal = r.goal
         /\ [r EXCEPT !.pc = p].publish = r.publish /\ [r EXCEPT !.pc = p].out = r.out
         /\ [r EXCEPT !.pc = p].hold = r.hold /\ [r EXCEPT !.pc = p].cand = r.cand
BY DEF Replacements, Pcs

\* What a step writes into the record of a replacement.
LEMMA ReplacementFields ==
  ASSUME NEW r \in Replacements, NEW p \in Pcs, NEW o \in Outs
  PROVE  /\ [r EXCEPT !.pc = p] \in Replacements /\ [r EXCEPT !.pc = p].pc = p
         /\ [r EXCEPT !.pc = p].source = r.source /\ [r EXCEPT !.pc = p].goal = r.goal
         /\ [r EXCEPT !.pc = p].publish = r.publish /\ [r EXCEPT !.pc = p].out = r.out
         /\ [r EXCEPT !.pc = p].hold = r.hold /\ [r EXCEPT !.pc = p].cand = r.cand
         /\ [[r EXCEPT !.pc = p] EXCEPT !.out = o] \in Replacements
         /\ [[r EXCEPT !.pc = p] EXCEPT !.out = o].pc = p
         /\ [[r EXCEPT !.pc = p] EXCEPT !.out = o].source = r.source
         /\ [[r EXCEPT !.pc = p] EXCEPT !.out = o].goal = r.goal
         /\ [[r EXCEPT !.pc = p] EXCEPT !.out = o].publish = r.publish
         /\ [[r EXCEPT !.pc = p] EXCEPT !.out = o].hold = r.hold
         /\ [[r EXCEPT !.pc = p] EXCEPT !.out = o].cand = r.cand
<1>1. [r EXCEPT !.pc = p] \in Replacements
  BY DEF Replacements, Pcs
<1>2. \A q \in Replacements : [q EXCEPT !.out = o] \in Replacements
  BY DEF Replacements, Outs
<1>. QED  BY <1>1, <1>2 DEF Replacements

\* A replacement that ended.
LEMMA EndedFields ==
  ASSUME NEW o \in Outs
  PROVE  /\ [Idle EXCEPT !.out = o] \in Replacements /\ [Idle EXCEPT !.out = o].pc = "idle"
         /\ [Idle EXCEPT !.out = o].hold = None /\ [Idle EXCEPT !.out = o].cand = None
         /\ [Idle EXCEPT !.out = o].publish = FALSE /\ [Idle EXCEPT !.out = o].out = o
BY DEF Idle, Replacements, Early, Outs

\* The steps of a replacement are no steps of a job.
LEMMA JobKept ==
  ASSUME JobTypes, UNCHANGED rename
  PROVE  JobTypes'
BY DEF JobTypes, Runs, rename

\* A writer ends that holds nothing, or leaves its directory, or is done with what it holds.
LEMMA EndInv ==
  ASSUME FileInv, JobTypes', NEW w \in Writers, NEW o \in Outs, End(w, o),
         UNCHANGED <<path, text, owed, backups>>, unused' \subseteq unused,
         kept \subseteq kept', kept' \subseteq Inodes,
         tx[w].hold # None /\ ~Removing(w) /\ text[tx[w].hold] \in owed
           => tx[w].hold \in kept' \/ text[tx[w].hold] \in backups
  PROVE  FileInv'
<1>. DEFINE r == [Idle EXCEPT !.out = o]
<1>1. /\ r \in Replacements /\ r.pc = "idle" /\ r.hold = None /\ r.cand = None /\ r.publish = FALSE
      /\ tx' = [tx EXCEPT ![w] = r]
  BY EndedFields DEF End
<1>. HIDE DEF r
<1>. QED  BY <1>1, OnlyTx DEF Early, Ready, Installed

\* The transaction directory stays: what was moved away is in it, or was about to go.
LEMMA LeaveWithInv ==
  ASSUME FileInv, JobTypes', NEW w \in Writers, NEW o \in Outs,
         NEW left \in SUBSET {tx[w].hold, tx[w].cand}, LeaveWith(w, left, o),
         tx[w].hold \in left \/ Removing(w),
         UNCHANGED <<path, text, owed, backups>>, unused' \subseteq unused
  PROVE  FileInv'
<1>1. kept' = kept \cup (left \ {None}) /\ End(w, o)
  BY DEF LeaveWith
<1>2. kept \subseteq Inodes /\ tx[w].hold \in Inodes \cup {None} /\ tx[w].cand \in Inodes \cup {None}
  BY DEF FileInv, FileTypes, Replacements
<1>. QED  BY <1>1, <1>2, EndInv

LEMMA LeaveInv ==
  ASSUME FileInv, JobTypes', NEW w \in Writers, NEW o \in Outs,
         Leave(w, o) \/ LeaveHold(w, o) \/ (Removing(w) /\ LeaveSome(w, o)),
         UNCHANGED <<path, text, owed, backups>>, unused' \subseteq unused
  PROVE  FileInv'
<1>1. PICK left \in SUBSET {tx[w].hold, tx[w].cand} :
        LeaveWith(w, left, o) /\ (tx[w].hold \in left \/ Removing(w))
  BY DEF Leave, LeaveHold, LeaveSome
<1>. QED  BY <1>1, LeaveWithInv

\* A writer goes back: what it moved away is still in its hands.
LEMMA RestoreInv ==
  ASSUME FileInv, JobTypes', NEW w \in Writers, tx[w].pc \in {"inspect", "backup", "candidate"} \cup Ready,
         RestoreCurrent(w) \/ RestoreFound(w), UNCHANGED files
  PROVE  FileInv'
<1>0. PICK p \in {"relook", "relink"} : tx' = [tx EXCEPT ![w].pc = p, ![w].out = "unchanged"]
  BY DEF RestoreCurrent, RestoreFound
<1>. DEFINE r == [[tx[w] EXCEPT !.pc = p] EXCEPT !.out = "unchanged"]
<1>1. tx[w] \in Replacements /\ tx \in [Writers -> Replacements]
  BY DEF FileInv, FileTypes
<1>2. /\ r \in Replacements /\ r.pc = p /\ r.hold = tx[w].hold /\ r.cand = tx[w].cand
      /\ r.publish = tx[w].publish /\ r.source = tx[w].source /\ r.goal = tx[w].goal
  <2>1. p \in Pcs /\ "unchanged" \in Outs
    BY DEF Pcs, Outs, Late
  <2>2. /\ r.pc = p /\ r.hold = tx[w].hold /\ r.cand = tx[w].cand
        /\ r.publish = tx[w].publish /\ r.source = tx[w].source /\ r.goal = tx[w].goal
    BY <1>1 DEF Replacements
  <2>3. r \in Replacements
    BY <1>1, <2>1, ReplacementFields
  <2>. QED  BY <2>2, <2>3
<1>3. tx' = [tx EXCEPT ![w] = r]
  BY <1>0, <1>1
<1>4. HoldsFile(w) /\ TakesBack(w) /\ kept \subseteq Inodes
  BY DEF FileInv, FileTypes
<1>5. tx[w].pc \notin Early /\ tx[w].pc \notin {"idle", "relink", "unlink", "unhold"}
  BY DEF Early, Ready
<1>6. /\ r.goal \in Texts /\ (w # Renamer => r.publish /\ r.goal # Target)
      /\ (~r.publish => r.source.text = Target /\ r.goal # Target)
  BY <1>2, <1>4, <1>5 DEF TakesBack, At
<1>7. tx[w].hold \in Inodes
  BY <1>4, <1>5 DEF HoldsFile, At, Early
<1>. HIDE DEF r
<1>. QED  BY <1>2, <1>3, <1>4, <1>5, <1>6, <1>7, OnlyTx, Distinct DEF Early, Ready, Installed, files

\* A writer goes on to where it may be.
LEMMA ToInv ==
  ASSUME FileInv, JobTypes', NEW w \in Writers, NEW p \in Pcs, To(w, p), UNCHANGED <<path, text, kept, unused, owed>>,
         backups \subseteq backups', tx[w].pc \notin {"idle", "relink", "unlink", "unhold"}, p \notin {"idle", "relink", "unlink"},
         p \in Early => tx[w].pc \in Early, p \notin Early => tx[w].pc \notin Early,
         p \in Ready => tx[w].pc \in Ready, p \in Installed => tx[w].pc \in Installed,
         p = "unhold" => text[tx[w].hold] \in backups \/ text[tx[w].hold] \notin owed,
         tx[w].publish /\ p \in {"candidate"} \cup Ready \cup Installed => tx[w].source.text \in backups'
  PROVE  FileInv'
<1>. DEFINE r == [tx[w] EXCEPT !.pc = p]
<1>1. tx[w] \in Replacements /\ tx \in [Writers -> Replacements] /\ kept \subseteq Inodes
  BY DEF FileInv, FileTypes
<1>2. /\ r \in Replacements /\ r.pc = p /\ r.hold = tx[w].hold /\ r.cand = tx[w].cand
      /\ r.publish = tx[w].publish /\ r.source = tx[w].source /\ r.goal = tx[w].goal
  BY <1>1, PhaseFields
<1>3. tx' = [tx EXCEPT ![w] = r]
  BY <1>1 DEF To
<1>4. HoldsFile(w) /\ TakesBack(w)
  BY DEF FileInv
<1>5. /\ r.goal \in Texts /\ (w # Renamer => r.publish /\ r.goal # Target)
      /\ (~r.publish => r.source.text = Target /\ r.goal # Target)
      /\ (~r.publish /\ r.pc \in Installed => Target \notin owed)
  BY <1>2, <1>4 DEF TakesBack, At
<1>6. tx[w].pc \notin Early => tx[w].hold \in Inodes
  BY <1>4 DEF HoldsFile, At, Early
<1>7. tx[w].pc \in Early => tx[w].hold = None /\ tx[w].cand = None
  BY <1>4 DEF HoldsFile, At, Early
<1>. HIDE DEF r
<1>. QED  BY <1>1, <1>2, <1>3, <1>5, <1>6, <1>7, OnlyTx, Distinct

\* The steps of a replacement that move no file.
LEMMA PlainSteps ==
  ASSUME FileInv, UNCHANGED rename, NEW w \in Writers,
         \/ Check(w) \/ Inspect(w) \/ Backup(w) \/ Verify(w) \/ Confirm(w) \/ Unhold(w) \/ Relook(w) \/ Unlink(w)
  PROVE  FileInv'
<1>1. JobTypes'
  BY JobKept DEF FileInv, rename
<1>2. HoldsFile(w) /\ HasBackup(w) /\ TakesBack(w) /\ tx[w] \in Replacements /\ kept \subseteq Inodes
  BY DEF FileInv, FileTypes
<1>3. \A o \in {"unchanged", "uncertain", "applied", "ok", "died"} : o \in Outs
  BY DEF Outs
<1>4. \A p \in {"check", "move", "inspect", "backup", "candidate", "verify", "install", "confirm", "settle", "unhold"} : p \in Pcs
  BY DEF Pcs, Early, Ready, Installed, Late
<1>5. CASE Check(w)
  <2>1. tx[w].pc = "check" /\ tx[w].hold = None /\ UNCHANGED files
    BY <1>2, <1>5 DEF Check, At, Fault, HoldsFile
  <2>2. CASE To(w, "move")
    BY <1>1, <1>4, <2>1, <2>2, ToInv DEF files, Early, Ready, Installed
  <2>3. CASE End(w, "unchanged")
    BY <1>1, <1>2, <1>3, <2>1, <2>3, EndInv DEF files
  <2>. QED  BY <1>5, <2>2, <2>3 DEF Check
<1>6. CASE Inspect(w)
  <2>1. tx[w].pc = "inspect" /\ UNCHANGED <<path, text, backups, unused, owed>>
    BY <1>6 DEF Inspect, At, Fault
  <2>2. CASE To(w, "backup") /\ UNCHANGED kept
    BY <1>1, <1>4, <2>1, <2>2, ToInv DEF files, Early, Ready, Installed
  <2>3. CASE RestoreCurrent(w) /\ UNCHANGED kept
    BY <1>1, <2>1, <2>3, RestoreInv DEF files
  <2>4. CASE LeaveHold(w, "uncertain")
    BY <1>1, <1>3, <2>1, <2>4, LeaveInv
  <2>. QED  BY <1>6, <2>2, <2>3, <2>4 DEF Inspect
<1>7. CASE Backup(w)
  <2>1. tx[w].pc = "backup" /\ UNCHANGED <<path, text, kept, unused, owed>>
    BY <1>7 DEF Backup, At, Fault
  <2>2. CASE To(w, "candidate") /\ backups' = IF tx[w].publish THEN backups \cup {tx[w].source.text} ELSE backups
    BY <1>1, <1>4, <2>1, <2>2, ToInv DEF Early, Ready, Installed
  <2>3. CASE RestoreFound(w) /\ UNCHANGED backups
    BY <1>1, <2>1, <2>3, RestoreInv DEF files
  <2>. QED  BY <1>7, <2>2, <2>3 DEF Backup
<1>8. CASE Verify(w)
  <2>1. tx[w].pc = "verify" /\ UNCHANGED files
    BY <1>8 DEF Verify, At, Fault
  <2>2. CASE To(w, "install")
    BY <1>1, <1>2, <1>4, <2>1, <2>2, ToInv DEF files, Early, Ready, Installed, HasBackup
  <2>3. CASE RestoreCurrent(w)
    BY <1>1, <2>1, <2>3, RestoreInv DEF Ready
  <2>. QED  BY <1>8, <2>2, <2>3 DEF Verify
<1>9. CASE Confirm(w)
  <2>1. tx[w].pc \in {"confirm", "settle"} /\ UNCHANGED <<path, text, backups, unused, owed>>
    BY <1>9 DEF Confirm, At, Fault
  <2>2. CASE To(w, "settle") /\ UNCHANGED kept
    BY <1>1, <1>2, <1>4, <2>1, <2>2, ToInv DEF Early, Ready, Installed, HasBackup
  <2>3. CASE To(w, "unhold") /\ Holds(w) /\ UNCHANGED kept
    <3>1. text[tx[w].hold] \in backups \/ text[tx[w].hold] \notin owed
      BY <1>2, <2>1, <2>3 DEF Holds, Fingerprint, HasBackup, TakesBack, At, Installed
    <3>. QED  BY <1>1, <1>2, <1>4, <2>1, <2>3, <3>1, ToInv DEF Early, Ready, Installed, HasBackup
  <2>4. CASE Leave(w, "uncertain") \/ LeaveHold(w, "applied")
    BY <1>1, <1>3, <2>1, <2>4, LeaveInv
  <2>. QED  BY <1>9, <2>2, <2>3, <2>4 DEF Confirm
<1>10. CASE Unhold(w)
  <2>1. tx[w].pc = "unhold" /\ UNCHANGED <<path, text, backups, unused, owed>>
    BY <1>10 DEF Unhold, At
  <2>2. CASE End(w, "ok") /\ UNCHANGED kept
    BY <1>1, <1>2, <1>3, <2>1, <2>2, EndInv DEF Removing, At
  <2>3. CASE LeaveSome(w, "applied")
    BY <1>1, <1>3, <2>1, <2>3, LeaveInv DEF Removing, At
  <2>. QED  BY <1>10, <2>2, <2>3 DEF Unhold
<1>11. CASE Unlink(w)
  <2>1. tx[w].pc = "unlink" /\ UNCHANGED <<path, text, backups, unused, owed>>
    BY <1>11 DEF Unlink, At
  <2>2. CASE End(w, tx[w].out) /\ UNCHANGED kept
    <3>1. Removing(w) /\ tx[w].out \in Outs
      BY <1>2, <2>1 DEF Replacements, Outs, Removing, At
    <3>. QED  BY <1>1, <1>2, <2>1, <2>2, <3>1, EndInv
  <2>3. CASE LeaveSome(w, "uncertain")
    BY <1>1, <1>3, <2>1, <2>3, LeaveInv DEF Removing, At
  <2>. QED  BY <1>11, <2>2, <2>3 DEF Unlink
<1>12. CASE Relook(w)
  <2>1. tx[w].pc = "relook" /\ UNCHANGED <<path, text, backups, unused, owed>>
    BY <1>12 DEF Relook, At, Fault
  <2>2. CASE tx' = [tx EXCEPT ![w].source = Fingerprint(tx[w].hold), ![w].pc = "relink"] /\ UNCHANGED kept
    <3>. DEFINE r == [[tx[w] EXCEPT !.source = Fingerprint(tx[w].hold)] EXCEPT !.pc = "relink"]
    <3>1. tx' = [tx EXCEPT ![w] = r]
      BY <2>2
    <3>2. tx[w].hold \in Inodes /\ Fingerprint(tx[w].hold) \in Fingerprints
      BY <1>2, <2>1 DEF HoldsFile, At, Fingerprint, Fingerprints, FileInv, FileTypes
    <3>3. /\ r \in Replacements /\ r.pc = "relink" /\ r.hold = tx[w].hold /\ r.cand = tx[w].cand
          /\ r.publish = tx[w].publish /\ r.goal = tx[w].goal
      BY <1>2, <3>2 DEF Replacements, Late
    <3>4. r.goal \in Texts /\ (w # Renamer => r.publish /\ r.goal # Target) /\ (~r.publish => r.goal # Target)
      BY <1>2, <2>1, <3>3 DEF TakesBack, At
    <3>. HIDE DEF r
    <3>. QED  BY <1>1, <1>2, <2>1, <2>2, <3>1, <3>2, <3>3, <3>4, OnlyTx, Distinct DEF Early, Ready, Installed
  <2>3. CASE LeaveHold(w, "uncertain")
    BY <1>1, <1>3, <2>1, <2>3, LeaveInv
  <2>. QED  BY <1>12, <2>2, <2>3 DEF Relook
<1>. QED  BY <1>5, <1>6, <1>7, <1>8, <1>9, <1>10, <1>11, <1>12

\* A new file has no name yet.
LEMMA NewFile ==
  ASSUME Unnamed # {}
  PROVE  /\ NewInode \in Inodes /\ NewInode # path /\ NewInode \notin kept
         /\ \A v \in Writers : NewInode # tx[v].hold /\ NewInode # tx[v].cand
<1>1. NewInode \in Unnamed
  BY DEF NewInode
<1>. QED  BY <1>1, Distinct DEF Unnamed, Named

\* The file is moved away: it has the same names, but for the path.
LEMMA MoveInv ==
  ASSUME FileInv, UNCHANGED rename, NEW w \in Writers, Move(w)
  PROVE  FileInv'
<1>1. JobTypes'
  BY JobKept DEF FileInv, rename
<1>2. /\ tx[w].pc = "move" /\ tx[w].hold = None /\ tx[w].cand = None /\ tx \in [Writers -> Replacements]
      /\ path \in Inodes \cup {None} /\ kept \subseteq Inodes /\ UNCHANGED <<text, kept, backups, unused, owed>>
  BY DEF Move, At, Fault, FileInv, FileTypes, HoldsFile
<1>3. CASE End(w, "unchanged") /\ UNCHANGED path
  BY <1>1, <1>2, <1>3, EndInv DEF Outs
<1>4. CASE path # None /\ path' = None /\ tx' = [tx EXCEPT ![w].hold = path, ![w].pc = "inspect"]
  <2>1. /\ tx' \in [Writers -> Replacements] /\ tx'[w].pc = "inspect" /\ tx'[w].hold = path
        /\ tx'[w].goal = tx[w].goal /\ tx'[w].publish = tx[w].publish /\ tx'[w].source = tx[w].source
        /\ tx'[w].cand = None /\ \A v \in Writers : v # w => tx'[v] = tx[v]
    BY <1>2, <1>4 DEF Replacements, Late
  <2>2. FileTypes'
    BY <1>2, <1>4, <2>1 DEF FileInv, FileTypes
  <2>3. ASSUME NEW v \in Writers PROVE HoldsFile(v)' /\ HasBackup(v)' /\ TakesBack(v)'
    <3>1. CASE v = w
      BY <1>2, <1>4, <2>1, <3>1 DEF FileInv, HoldsFile, HasBackup, TakesBack, At, Early, Ready, Installed
    <3>2. CASE v # w
      BY <1>2, <2>1, <3>2 DEF FileInv, HoldsFile, HasBackup, TakesBack, At
    <3>. QED  BY <3>1, <3>2
  <2>4. ASSUME NEW v \in Writers PROVE HasCandidate(v)'
    <3>1. \A u \in Writers : tx'[u].hold \in {path, tx[u].hold} /\ tx'[u].cand = tx[u].cand
      BY <1>2, <2>1
    <3>2. tx'[v].pc \in Ready => tx'[v] = tx[v]
      BY <2>1 DEF Ready
    <3>3. HasCandidate(v)
      BY DEF FileInv
    <3>. QED  BY <1>2, <1>4, <3>1, <3>2, <3>3, Distinct DEF HasCandidate
  <2>5. HeldOnce'
    BY <1>2, <1>4, <2>1 DEF FileInv, HeldOnce, At
  <2>6. Safe \subseteq Safe'
    <3>1. \A v \in Writers : ~Removing(v) /\ tx[v].hold # None => ~Removing(v)' /\ tx'[v].hold = tx[v].hold
      BY <1>2, <2>1 DEF At, Removing
    <3>2. ~Removing(w)'
      BY <2>1 DEF At, Removing
    <3>. QED  BY <1>2, <1>4, <2>1, <3>1, <3>2 DEF Safe
  <2>7. Kept'
    BY <1>2, <2>6 DEF FileInv, Kept
  <2>. QED  BY <1>1, <2>2, <2>3, <2>4, <2>5, <2>7 DEF FileInv
<1>. QED  BY <1>3, <1>4 DEF Move

\* A candidate is a file of its own, with the new text.
LEMMA CandidateInv ==
  ASSUME FileInv, UNCHANGED rename, NEW w \in Writers, Candidate(w)
  PROVE  FileInv'
<1>1. JobTypes'
  BY JobKept DEF FileInv, rename
<1>2. /\ tx[w].pc = "candidate" /\ tx \in [Writers -> Replacements] /\ UNCHANGED <<path, kept, backups, unused, owed>>
      /\ tx[w].goal \in Texts /\ tx[w].hold \in Inodes
  BY DEF Candidate, At, Fault, FileInv, FileTypes, HoldsFile
<1>3. CASE RestoreFound(w) /\ UNCHANGED text
  BY <1>1, <1>2, <1>3, RestoreInv DEF files
<1>4. CASE Create(tx[w].goal) /\ tx' = [tx EXCEPT ![w].cand = NewInode, ![w].pc = "verify"]
  <2>1. /\ NewInode \in Inodes /\ NewInode # path /\ NewInode \notin kept
        /\ \A v \in Writers : NewInode # tx[v].hold /\ NewInode # tx[v].cand
    BY <1>4, NewFile DEF Create
  <2>2. /\ tx' \in [Writers -> Replacements] /\ tx'[w].pc = "verify" /\ tx'[w].hold = tx[w].hold
        /\ tx'[w].goal = tx[w].goal /\ tx'[w].publish = tx[w].publish /\ tx'[w].source = tx[w].source
        /\ tx'[w].cand = NewInode /\ \A v \in Writers : v # w => tx'[v] = tx[v]
    BY <1>2, <1>4, <2>1 DEF Replacements, Ready
  <2>3. /\ text' \in [Inodes -> Texts] /\ text'[NewInode] = tx[w].goal
        /\ \A i \in Inodes : i # NewInode => text'[i] = text[i]
    BY <1>2, <1>4, <2>1 DEF FileInv, FileTypes, Create
  <2>4. FileTypes'
    BY <1>2, <2>2, <2>3 DEF FileInv, FileTypes
  <2>5. ASSUME NEW v \in Writers PROVE HoldsFile(v)' /\ TakesBack(v)'
    <3>1. CASE v = w
      BY <1>2, <2>2, <3>1 DEF FileInv, HoldsFile, TakesBack, At, Ready, Installed
    <3>2. CASE v # w
      BY <1>2, <2>2, <3>2 DEF FileInv, HoldsFile, TakesBack, At
    <3>. QED  BY <3>1, <3>2
  <2>6. ASSUME NEW v \in Writers PROVE HasBackup(v)'
    <3>1. CASE v = w
      BY <1>2, <2>2, <3>1 DEF FileInv, HasBackup, At
    <3>2. CASE v # w
      BY <1>2, <2>2, <3>2 DEF FileInv, HasBackup, At
    <3>. QED  BY <3>1, <3>2
  <2>7. ASSUME NEW v \in Writers PROVE HasCandidate(v)'
    <3>1. HasCandidate(v)
      BY DEF FileInv
    <3>2. CASE v = w
      BY <1>2, <2>1, <2>2, <2>3, <3>2 DEF HasCandidate
    <3>3. CASE v # w
      BY <1>2, <2>1, <2>2, <2>3, <3>1, <3>3 DEF HasCandidate
    <3>. QED  BY <3>2, <3>3
  <2>8. HeldOnce'
    BY <1>2, <2>2 DEF FileInv, HeldOnce, At
  <2>9. Safe' = Safe /\ NewInode \notin Safe /\ Safe \subseteq Inodes
    <3>1. \A v \in Writers : tx'[v].hold = tx[v].hold /\ (Removing(v)' <=> Removing(v))
      BY <1>2, <2>2 DEF At, Removing
    <3>2. \A v \in Writers : tx[v].hold \in Inodes \cup {None}
      BY <1>2 DEF Replacements
    <3>. QED  BY <1>2, <2>1, <3>1, <3>2 DEF Safe, FileInv, FileTypes
  <2>10. Kept'
    BY <1>2, <2>3, <2>9 DEF FileInv, Kept
  <2>. QED  BY <1>1, <2>4, <2>5, <2>6, <2>7, <2>8, <2>10 DEF FileInv
<1>. QED  BY <1>3, <1>4 DEF Candidate

\* The candidate is linked to a free path; what is in force changes with it.
LEMMA InstallInv ==
  ASSUME FileInv, UNCHANGED rename, NEW w \in Writers, Install(w)
  PROVE  FileInv'
<1>1. JobTypes'
  BY JobKept DEF FileInv, rename
<1>2. /\ tx[w].pc = "install" /\ tx \in [Writers -> Replacements] /\ UNCHANGED <<text, kept, backups, unused>>
      /\ tx[w].goal \in Texts /\ tx[w].hold \in Inodes /\ HasCandidate(w) /\ HasBackup(w) /\ TakesBack(w)
  BY DEF Install, At, Fault, FileInv, FileTypes, HoldsFile
<1>3. CASE RestoreFound(w) /\ UNCHANGED <<path, owed>>
  BY <1>1, <1>2, <1>3, RestoreInv DEF files, Ready
<1>4. CASE path = None /\ path' = tx[w].cand /\ owed' = InForce(w) /\ To(w, "confirm")
  <2>1. /\ tx[w].cand \in Inodes /\ text[tx[w].cand] = tx[w].goal
        /\ \A v \in Writers : tx[v].hold # tx[w].cand /\ (v # w => tx[v].cand # tx[w].cand)
    BY <1>2 DEF HasCandidate, Ready
  <2>2. /\ tx' \in [Writers -> Replacements] /\ tx'[w].pc = "confirm" /\ tx'[w].hold = tx[w].hold
        /\ tx'[w].goal = tx[w].goal /\ tx'[w].publish = tx[w].publish /\ tx'[w].source = tx[w].source
        /\ tx'[w].cand = tx[w].cand /\ \A v \in Writers : v # w => tx'[v] = tx[v]
    BY <1>2, <1>4 DEF Replacements, Installed, To
  <2>3. FileTypes'
    BY <1>2, <1>4, <2>1, <2>2 DEF FileInv, FileTypes
  <2>4. ASSUME NEW v \in Writers PROVE HoldsFile(v)' /\ HasBackup(v)'
    <3>1. CASE v = w
      BY <1>2, <2>2, <3>1 DEF HoldsFile, HasBackup, At, Ready, Installed
    <3>2. CASE v # w
      BY <1>2, <2>2, <3>2 DEF FileInv, HoldsFile, HasBackup, At
    <3>. QED  BY <3>1, <3>2
  <2>5. ASSUME NEW v \in Writers PROVE TakesBack(v)'
    <3>1. CASE v = w
      <4>1. ~tx[w].publish => Target \notin owed'
        BY <1>2, <1>4 DEF TakesBack, At, InForce
      <4>. QED  BY <1>2, <2>2, <3>1, <4>1 DEF TakesBack, At
    <3>2. CASE v # w
      <4>1. TakesBack(v)
        BY DEF FileInv
      <4>2. ASSUME ~At(v, "idle"), ~tx[v].publish, tx[v].pc \in Installed PROVE Target \notin owed'
        <5>1. Target \notin owed /\ v = Renamer
          BY <4>1, <4>2 DEF TakesBack
        <5>2. tx[w].goal # Target
          BY <1>2, <3>2, <5>1 DEF TakesBack, At
        <5>. QED  BY <1>4, <5>1, <5>2 DEF InForce
      <4>. QED  BY <2>2, <3>2, <4>1, <4>2 DEF TakesBack, At
    <3>. QED  BY <3>1, <3>2
  <2>6. ASSUME NEW v \in Writers PROVE HasCandidate(v)'
    <3>1. CASE v = w
      BY <2>2, <3>1 DEF HasCandidate, Ready
    <3>2. CASE v # w
      <4>1. HasCandidate(v)
        BY DEF FileInv
      <4>2. \A u \in Writers : tx'[u].hold = tx[u].hold /\ tx'[u].cand = tx[u].cand
        BY <2>2
      <4>. QED  BY <1>2, <1>4, <2>1, <2>2, <3>2, <4>1, <4>2 DEF HasCandidate
    <3>. QED  BY <3>1, <3>2
  <2>7. HeldOnce'
    <3>1. \A v \in Writers : tx'[v].hold = tx[v].hold /\ (At(v, "unlink")' <=> At(v, "unlink"))
      BY <1>2, <2>2 DEF At
    <3>. QED  BY <1>2, <1>4, <2>1, <3>1 DEF FileInv, HeldOnce
  <2>8. Safe \cup {tx[w].cand} \subseteq Safe'
    <3>1. \A v \in Writers : tx'[v].hold = tx[v].hold /\ (Removing(v)' <=> Removing(v))
      BY <1>2, <2>2 DEF At, Removing
    <3>. QED  BY <1>2, <1>4, <2>1, <3>1, Distinct DEF Safe
  <2>9. Kept'
    <3>1. SUFFICES ASSUME NEW t \in owed' PROVE t \in backups' \/ \E i \in Safe' : text'[i] = t
      BY DEF Kept
    <3>2. t \in owed \/ t = tx[w].goal
      BY <1>4 DEF InForce
    <3>. QED  BY <1>2, <2>1, <2>8, <3>2 DEF FileInv, Kept
  <2>. QED  BY <1>1, <2>3, <2>4, <2>5, <2>6, <2>7, <2>9 DEF FileInv
<1>. QED  BY <1>3, <1>4 DEF Install

\* What was moved away is linked back to a free path.
LEMMA RelinkInv ==
  ASSUME FileInv, UNCHANGED rename, NEW w \in Writers, Relink(w)
  PROVE  FileInv'
<1>1. JobTypes'
  BY JobKept DEF FileInv, rename
<1>2. /\ tx[w].pc = "relink" /\ tx \in [Writers -> Replacements] /\ UNCHANGED <<text, backups, unused, owed>>
      /\ tx[w].goal \in Texts /\ tx[w].hold \in Inodes /\ TakesBack(w)
  BY DEF Relink, At, Fault, FileInv, FileTypes, HoldsFile
<1>3. CASE LeaveHold(w, "uncertain") /\ UNCHANGED path
  BY <1>1, <1>2, <1>3, LeaveInv DEF Outs
<1>4. CASE path = None /\ path' = tx[w].hold /\ To(w, "unlink") /\ UNCHANGED kept
  <2>1. /\ tx' \in [Writers -> Replacements] /\ tx'[w].pc = "unlink" /\ tx'[w].hold = tx[w].hold
        /\ tx'[w].goal = tx[w].goal /\ tx'[w].publish = tx[w].publish /\ tx'[w].source = tx[w].source
        /\ tx'[w].cand = tx[w].cand /\ \A v \in Writers : v # w => tx'[v] = tx[v]
    BY <1>2, <1>4 DEF Replacements, Late, To
  <2>2. FileTypes'
    BY <1>2, <1>4, <2>1 DEF FileInv, FileTypes
  <2>3. ASSUME NEW v \in Writers PROVE HoldsFile(v)' /\ HasBackup(v)' /\ TakesBack(v)'
    <3>1. CASE v = w
      BY <1>2, <2>1, <3>1 DEF HoldsFile, HasBackup, TakesBack, At, Ready, Installed
    <3>2. CASE v # w
      BY <1>2, <2>1, <3>2 DEF FileInv, HoldsFile, HasBackup, TakesBack, At
    <3>. QED  BY <3>1, <3>2
  <2>4. ASSUME NEW v \in Writers PROVE HasCandidate(v)'
    <3>1. \A u \in Writers : tx'[u].hold = tx[u].hold /\ tx'[u].cand = tx[u].cand
      BY <2>1
    <3>2. tx'[v].pc \in Ready => tx'[v] = tx[v]
      BY <2>1 DEF Ready
    <3>3. HasCandidate(v)
      BY DEF FileInv
    <3>. QED  BY <1>2, <1>4, <3>1, <3>2, <3>3 DEF HasCandidate
  <2>5. HeldOnce'
    <3>1. \A v \in Writers : tx'[v].hold = tx[v].hold /\ (At(v, "unlink")' <=> At(v, "unlink") \/ v = w)
      BY <1>2, <2>1 DEF At
    <3>2. \A v \in Writers : tx[v].hold = tx[w].hold => v = w \/ At(v, "unlink")
      BY <1>2, Distinct DEF FileInv, HeldOnce, At
    <3>. QED  BY <1>2, <1>4, <3>1, <3>2 DEF FileInv, HeldOnce
  <2>6. Safe \subseteq Safe'
    <3>1. \A v \in Writers : tx'[v].hold = tx[v].hold /\ (Removing(v)' <=> Removing(v) \/ v = w)
      BY <1>2, <2>1 DEF At, Removing
    <3>. QED  BY <1>2, <1>4, <3>1, Distinct DEF Safe
  <2>7. Kept'
    BY <1>2, <2>6 DEF FileInv, Kept
  <2>. QED  BY <1>1, <2>2, <2>3, <2>4, <2>5, <2>7 DEF FileInv
<1>. QED  BY <1>3, <1>4 DEF Relink

\* A writer begins with what it read.
LEMMA BeginInv ==
  ASSUME FileInv, JobTypes', NEW w \in Writers, tx[w].pc = "idle",
         NEW source \in Fingerprints \cup {None}, NEW goal \in Texts, NEW publish \in BOOLEAN,
         Begin(w, source, goal, publish),
         w # Renamer => publish /\ goal # Target, ~publish => source.text = Target /\ goal # Target,
         UNCHANGED <<path, text, kept, backups, owed>>, unused' \subseteq unused
  PROVE  FileInv'
<1>. DEFINE r == [Idle EXCEPT !.pc = "check", !.source = source, !.goal = goal, !.publish = publish]
<1>1. tx' = [tx EXCEPT ![w] = r]
  BY DEF Begin
<1>2. /\ r.pc = "check" /\ r.hold = None /\ r.cand = None /\ r.goal = goal /\ r.publish = publish
      /\ r.source = source /\ r \in Replacements
  BY DEF Idle, Replacements, Early
<1>3. tx[w].hold = None /\ kept \subseteq Inodes
  BY DEF FileInv, HoldsFile, At, FileTypes
<1>. HIDE DEF r
<1>. QED  BY <1>1, <1>2, <1>3, OnlyTx DEF Early, Ready, Installed

\* A person saves a new file over the path, or writes in the file that is there or held.
LEMMA EditorInv ==
  ASSUME FileInv, UNCHANGED rename, Editor
  PROVE  FileInv'
<1>1. JobTypes'
  BY JobKept DEF FileInv, rename
<1>2. /\ UNCHANGED <<tx, kept, backups>> /\ unused # {} /\ unused' = unused \ {NewText}
      /\ NewText \in Texts \ {Origin, Target}
  BY DEF Editor, Save, WriteInPlace, Edited, NewText, FileInv, FileTypes
<1>3. /\ tx \in [Writers -> Replacements] /\ path \in Inodes \cup {None} /\ text \in [Inodes -> Texts]
      /\ kept \subseteq Inodes
  BY DEF FileInv, FileTypes
<1>4. \A v \in Writers : HoldsFile(v) /\ HasCandidate(v) /\ HasBackup(v) /\ TakesBack(v)
  BY DEF FileInv
<1>5. ASSUME NEW v \in Writers PROVE HoldsFile(v)'
  BY <1>2, <1>4 DEF HoldsFile, At
<1>6. ASSUME owed' \subseteq owed \cup {NewText}, NEW v \in Writers PROVE TakesBack(v)'
  BY <1>2, <1>4, <1>6 DEF TakesBack, At
<1>7. Safe \subseteq Inodes /\ Watched \cap Inodes \subseteq Safe
  BY <1>3, Distinct DEF Safe, Replacements, Watched, Removing
<1>8. CASE Save
  <2>1. /\ NewInode \in Inodes /\ NewInode # path /\ NewInode \notin kept
        /\ \A v \in Writers : NewInode # tx[v].hold /\ NewInode # tx[v].cand
    BY <1>8, NewFile DEF Save, Create
  <2>2. /\ path' = NewInode /\ text' \in [Inodes -> Texts] /\ text'[NewInode] = NewText
        /\ \A i \in Inodes : i # NewInode => text'[i] = text[i]
    BY <1>2, <1>3, <1>8, <2>1 DEF Save, Create
  <2>3. owed' = (IF path = None THEN owed ELSE owed \ {text[path]}) \cup {NewText}
    BY <1>8 DEF Save, Edited, Watched
  <2>4. FileTypes'
    BY <1>2, <1>3, <2>1, <2>2 DEF FileInv, FileTypes
  <2>5. ASSUME NEW v \in Writers PROVE HasCandidate(v)' /\ HasBackup(v)'
    BY <1>2, <1>4, <2>1, <2>2 DEF HasCandidate, HasBackup, At
  <2>6. HeldOnce'
    BY <1>2, <2>1, <2>2 DEF FileInv, HeldOnce, At
  <2>7. (Safe \ {path}) \cup {NewInode} \subseteq Safe' /\ NewInode \notin Safe
    BY <1>2, <2>1, <2>2, Distinct DEF Safe, At, Removing
  <2>8. Kept'
    <3>1. SUFFICES ASSUME NEW t \in owed', t \notin backups, t # NewText PROVE \E i \in Safe' : text'[i] = t
      BY <1>2, <2>2, <2>7 DEF Kept
    <3>2. PICK i \in Safe : text[i] = t
      BY <2>3, <3>1 DEF FileInv, Kept
    <3>3. i # path
      BY <1>7, <2>3, <3>1, <3>2, Distinct
    <3>. QED  BY <1>7, <2>2, <2>7, <3>2, <3>3
  <2>. QED  BY <1>1, <1>5, <1>6, <2>3, <2>4, <2>5, <2>6, <2>8 DEF FileInv
<1>9. CASE \E i \in Inodes : WriteInPlace(i)
  <2>1. PICK i \in Inodes : WriteInPlace(i)
    BY <1>9
  <2>2. /\ path' = path /\ text' \in [Inodes -> Texts] /\ text'[i] = NewText
        /\ \A j \in Inodes : j # i => text'[j] = text[j]
        /\ owed' = (owed \ {text[i]}) \cup (IF i \in Watched THEN {NewText} ELSE {})
    BY <1>2, <1>3, <2>1, Distinct DEF WriteInPlace, Edited
  <2>3. i = path \/ \E u \in Writers : tx[u].hold = i
    BY <2>1 DEF WriteInPlace
  <2>5. FileTypes'
    BY <1>2, <1>3, <2>2 DEF FileInv, FileTypes
  <2>6. ASSUME NEW v \in Writers PROVE HasCandidate(v)'
    <3>1. tx[v].pc \in Ready => tx[v].cand # i
      BY <1>4, <2>3 DEF HasCandidate
    <3>. QED  BY <1>2, <1>4, <2>2, <3>1 DEF HasCandidate
  <2>7. ASSUME NEW v \in Writers PROVE HasBackup(v)'
    BY <1>2, <1>4 DEF HasBackup, At
  <2>8. HeldOnce'
    BY <1>2, <2>2 DEF FileInv, HeldOnce, At
  <2>9. Safe' = Safe
    BY <1>2, <2>2 DEF Safe, At, Removing
  <2>10. Kept'
    <3>1. SUFFICES ASSUME NEW t \in owed', t \notin backups PROVE \E j \in Safe : text'[j] = t
      BY <1>2, <2>9 DEF Kept
    <3>2. CASE t \in owed /\ t # text[i]
      <4>1. PICK j \in Safe : text[j] = t
        BY <3>1, <3>2 DEF FileInv, Kept
      <4>. QED  BY <1>7, <2>2, <3>2, <4>1
    <3>3. CASE t = NewText /\ i \in Watched
      BY <1>7, <2>1, <2>2, <3>3
    <3>. QED  BY <2>2, <3>1, <3>2, <3>3
  <2>. QED  BY <1>1, <1>5, <1>6, <2>2, <2>5, <2>6, <2>7, <2>8, <2>10 DEF FileInv
<1>. QED  BY <1>8, <1>9 DEF Editor

\* The file as a person or setup left it.
LEMMA FileInit ==
  ASSUME Init
  PROVE  FileInv
<1>1. path \in Inodes
  BY Distinct DEF Init, RInit
<1>2. Idle \in Replacements /\ Idle.pc = "idle" /\ Idle.hold = None /\ Idle.cand = None /\ Idle.publish = FALSE
  BY DEF Idle, Replacements, Early
<1>3. /\ tx = [w \in Writers |-> Idle] /\ text = [i \in Inodes |-> Origin] /\ kept = {} /\ backups = {}
      /\ owed = {Origin} /\ unused = Texts \ {Origin, Target} /\ journal = None /\ job = NoJob
  BY DEF Init, RInit
<1>. HIDE DEF Idle
<1>4. \A w \in Writers : tx[w] = Idle
  BY <1>3
<1>5. FileTypes
  BY <1>1, <1>2, <1>3, Distinct DEF FileTypes
<1>6. JobTypes
  <2>1. cred \in [Bindings -> Creds] /\ record \in [Bindings -> {None, "from", "to"}]
    BY RenameAssumption DEF Init, Creds
  <2>. QED  BY <1>3, <2>1 DEF JobTypes, NoJob, Runs, Init
<1>7. ASSUME NEW w \in Writers PROVE HoldsFile(w) /\ HasCandidate(w) /\ HasBackup(w) /\ TakesBack(w)
  BY <1>2, <1>4 DEF HoldsFile, HasCandidate, HasBackup, TakesBack, At, Ready, Installed
<1>8. HeldOnce
  BY <1>2, <1>4 DEF HeldOnce
<1>9. Kept
  BY <1>1, <1>3, Distinct DEF Kept, Safe
<1>. QED  BY <1>5, <1>6, <1>7, <1>8, <1>9 DEF FileInv

\* The scripts consist of steps.
LEMMA ScriptsTyped ==
  /\ Undo \in SUBSET Steps /\ \A a \in BOOLEAN : RenameScript(a) \in SUBSET Steps
  /\ \A j, f : RecoveryScript(j, f) \in SUBSET Steps
  /\ \A call \in CallNames : Single(call) \in SUBSET Steps
  /\ RenameUndoes \in SUBSET RenameUndoes /\ {"audit"} \in SUBSET RenameUndoes
<1>1. {"create", "prepare", "replace", "replacing", "restore", "restoring", "carry", "rebind", "back", "discard",
       "unbind", "drop", "audit", "forget", "erase", "refuse"} \subseteq CallNames
  BY DEF CallNames, Loop
<1>2. ASSUME NEW call \in CallNames PROVE Single(call) \in SUBSET Steps
  <2>1. <<call, None>> \in Steps
    BY DEF Steps
  <2>. QED  BY <2>1 DEF Single
<1>3. ASSUME NEW calls \in SUBSET CallNames PROVE Each(calls) \in SUBSET Steps
  <2>1. calls \subseteq CallNames
    OBVIOUS
  <2>2. ASSUME NEW x \in calls, NEW b \in Bindings PROVE <<x, b>> \in Steps
    BY <2>1 DEF Steps
  <2>. HIDE DEF Steps
  <2>3. ASSUME NEW c \in Each(calls) PROVE c \in Steps
    <3>1. PICK x \in calls, b \in Bindings : c = <<x, b>>
      BY DEF Each
    <3>. QED  BY <2>2, <3>1
  <2>. QED  BY <2>3
<1>4. Cleanup \in SUBSET Steps /\ \A a \in BOOLEAN : Audit(a) \in SUBSET Steps
  BY <1>1, <1>2 DEF Cleanup, Audit
<1>5. CompleteForward \in SUBSET Steps /\ CompleteRollback \in SUBSET Steps /\ Each({"prepare"}) \in SUBSET Steps
  BY <1>1, <1>3 DEF CompleteForward, CompleteRollback
<1>6. Undo \in SUBSET Steps
  BY <1>1, <1>2, <1>4, <1>5 DEF Undo
<1>7. ASSUME NEW a \in BOOLEAN PROVE RenameScript(a) \in SUBSET Steps
  BY <1>1, <1>2, <1>4, <1>5 DEF RenameScript
<1>8. ASSUME NEW j, NEW f PROVE RecoveryScript(j, f) \in SUBSET Steps
  <2>1. Audit(j.audit) \in SUBSET Steps
    BY <1>1, <1>2 DEF Audit
  <2>. QED  BY <1>1, <1>2, <1>4, <1>5, <2>1 DEF RecoveryScript
<1>. QED  BY <1>2, <1>6, <1>7, <1>8 DEF RenameUndoes

\* What a call leaves of its job: the same job with another script, or none.
LEMMA JobGoesOn ==
  ASSUME JobTypes, Runs,
         \/ \E call, b : Advance(call, b)
         \/ \E call, on \in CallNames : Goes(call, on)
         \/ \E call : Fail(call)
         \/ job' = NoJob
         \/ job' = [job EXCEPT !.script = Undo, !.undoes = {}]
  PROVE  /\ job' \in [kind : {"none", "planned", "rename", "recover"}, script : SUBSET Steps,
                      undoes : SUBSET RenameUndoes, journal : Journals \cup {None}, source : Fingerprints \cup {None}]
         /\ job' = NoJob \/ (job'.kind \in {"rename", "recover"} /\ job'.journal = job.journal /\ job'.source = job.source)
<1>1. /\ job \in [kind : {"none", "planned", "rename", "recover"}, script : SUBSET Steps, undoes : SUBSET RenameUndoes,
                  journal : Journals \cup {None}, source : Fingerprints \cup {None}]
      /\ job.kind \in {"rename", "recover"}
  BY DEF JobTypes, Runs
<1>2. NoJob \in [kind : {"none", "planned", "rename", "recover"}, script : SUBSET Steps, undoes : SUBSET RenameUndoes,
                 journal : Journals \cup {None}, source : Fingerprints \cup {None}]
  BY DEF NoJob
<1>. HIDE DEF NoJob, Undo
<1>3. CASE \E call, b : Advance(call, b)
  BY <1>1, <1>3 DEF Advance
<1>4. CASE \E call, on \in CallNames : Goes(call, on)
  BY <1>1, <1>4, ScriptsTyped DEF Goes
<1>5. CASE \E call : Fail(call)
  BY <1>1, <1>2, <1>5, ScriptsTyped DEF Fail
<1>6. CASE job' = NoJob
  BY <1>2, <1>6
<1>7. CASE job' = [job EXCEPT !.script = Undo, !.undoes = {}]
  BY <1>1, <1>7, ScriptsTyped
<1>. QED  BY <1>3, <1>4, <1>5, <1>6, <1>7

\* A step of a job: the calls of a script, its end and its failures.
LEMMA RunningTypes ==
  ASSUME JobTypes, Runs,
         \/ \E call, b : Advance(call, b)
         \/ \E call, on \in CallNames : Goes(call, on)
         \/ \E call : Fail(call)
         \/ job' = NoJob
         \/ job' = [job EXCEPT !.script = Undo, !.undoes = {}],
         journal' \in {journal, job.journal, None, Torn}, copy' \in {copy, None},
         cred' \in [Bindings -> Creds], record' \in [Bindings -> {None, "from", "to"}],
         audited' \in {"no", "due", "yes"}
  PROVE  JobTypes'
<1>1. /\ job' \in [kind : {"none", "planned", "rename", "recover"}, script : SUBSET Steps,
                   undoes : SUBSET RenameUndoes, journal : Journals \cup {None}, source : Fingerprints \cup {None}]
      /\ job' = NoJob \/ (job'.kind \in {"rename", "recover"} /\ job'.journal = job.journal /\ job'.source = job.source)
  BY JobGoesOn
<1>2. job.journal \in Journals /\ journal \in Journals \cup {None, Torn} /\ copy \in {None, Origin}
  BY DEF JobTypes
<1>3. NoJob.kind = "none"
  BY DEF NoJob
<1>. HIDE DEF NoJob
<1>4. job'.kind # "planned"
  BY <1>1, <1>3
<1>5. Runs' => job'.journal \in Journals
  BY <1>1, <1>2, <1>3 DEF Runs
<1>. QED  BY <1>1, <1>2, <1>4, <1>5 DEF JobTypes

\* What the calls for a binding write into the vault and the registry.
LEMMA BindingTypes ==
  ASSUME JobTypes, NEW b \in Bindings,
         Prepare(b) \/ Carry(b) \/ Drop(b) \/ GiveBack(b) \/ Discard(b) \/ Rebind(b) \/ Unbind(b)
  PROVE  JobTypes' /\ UNCHANGED <<replacing, journal, copy, audited>> /\ Runs
<1>1. /\ cred[b] \in Creds /\ cred \in [Bindings -> Creds] /\ record \in [Bindings -> {None, "from", "to"}]
      /\ audited \in {"no", "due", "yes"}
  BY DEF JobTypes
<1>2. \A side \in {"from", "to"}, c \in Credentials \cup {None} : Saved(b, side, c) \in Creds
  BY <1>1 DEF Saved, Creds
<1>3. cred[b].from \in Credentials \cup {None} /\ cred[b].to \in Credentials \cup {None}
  BY <1>1 DEF Creds
<1>4. ASSUME NEW call, NEW fine, NEW entry \in Creds, Vault(call, b, fine, entry)
      PROVE  JobTypes' /\ UNCHANGED <<replacing, journal, copy, audited>> /\ Runs
  <2>1. /\ Runs /\ UNCHANGED <<replacing, record, journal, copy, audited>>
        /\ Advance(call, b) \/ Fail(call)
        /\ cred' = cred \/ cred' = [cred EXCEPT ![b] = entry]
    BY <1>4, Zenon DEF Vault, On
  <2>2. cred' \in [Bindings -> Creds]
    BY <1>1, <2>1
  <2>. QED  BY <1>1, <2>1, <2>2, RunningTypes
<1>5. CASE Prepare(b)
  BY <1>1, <1>2, <1>3, <1>4, <1>5 DEF Prepare
<1>6. CASE Carry(b)
  BY <1>1, <1>2, <1>3, <1>4, <1>6 DEF Carry
<1>7. CASE Drop(b)
  BY <1>1, <1>2, <1>3, <1>4, <1>7 DEF Drop
<1>8. CASE GiveBack(b)
  BY <1>1, <1>2, <1>3, <1>4, <1>8 DEF GiveBack
<1>9. CASE Discard(b)
  BY <1>1, <1>2, <1>3, <1>4, <1>9 DEF Discard
<1>10. CASE Rebind(b)
  <2>1. /\ Runs /\ UNCHANGED <<replacing, cred, journal, copy, audited>>
        /\ Advance("rebind", b) \/ Fail("rebind")
        /\ record' = record \/ \E side \in {None, "to"} : record' = [record EXCEPT ![b] = side]
    BY <1>10 DEF Rebind, On
  <2>2. record' \in [Bindings -> {None, "from", "to"}]
    BY <1>1, <2>1
  <2>. QED  BY <1>1, <2>1, <2>2, RunningTypes
<1>11. CASE Unbind(b)
  <2>1. /\ Runs /\ UNCHANGED <<replacing, cred, journal, copy, audited>>
        /\ Advance("unbind", b) \/ Fail("unbind")
        /\ record' = record \/ record' = [record EXCEPT ![b] = job.journal.bound[b]]
    BY <1>11 DEF Unbind, On
  <2>2. job.journal.bound[b] \in {None, "from"}
    BY <2>1 DEF JobTypes, Journals
  <2>3. record' \in [Bindings -> {None, "from", "to"}]
    BY <1>1, <2>1, <2>2
  <2>. QED  BY <1>1, <2>1, <2>3, RunningTypes
<1>. QED  BY <1>5, <1>6, <1>7, <1>8, <1>9, <1>10, <1>11

\* A job begins with what was read, captured or found in the journal.
LEMMA BeginsTyped ==
  ASSUME FileTypes, JobTypes, Read \/ \E answer \in BOOLEAN : Capture(answer) \/ Recover(answer)
  PROVE  JobTypes' /\ UNCHANGED replacing
<1>1. /\ NoJob.kind = "none" /\ UNCHANGED <<replacing, cred, record, journal, audited>>
      /\ NoJob \in [kind : {"none", "planned", "rename", "recover"}, script : SUBSET Steps,
                    undoes : SUBSET RenameUndoes, journal : Journals \cup {None}, source : Fingerprints \cup {None}]
  BY DEF NoJob, Read, Capture, Recover
<1>2. CASE Read
  <2>1. path \in Inodes /\ text[path] = Origin
    BY <1>2, Distinct DEF Read, Current, FileTypes
  <2>2. Fingerprint(path) \in Fingerprints /\ Fingerprint(path).text = Origin
    BY <2>1, Distinct DEF Fingerprint, Fingerprints
  <2>3. /\ job' \in [kind : {"none", "planned", "rename", "recover"}, script : SUBSET Steps,
                     undoes : SUBSET RenameUndoes, journal : Journals \cup {None}, source : Fingerprints \cup {None}]
        /\ job'.kind = "planned" /\ job'.source = Fingerprint(path)
    BY <1>2, <2>2 DEF Read, NoJob
  <2>. QED  BY <1>1, <1>2, <2>2, <2>3 DEF Read, JobTypes, Runs
<1>3. ASSUME NEW answer \in BOOLEAN, Capture(answer) PROVE JobTypes'
  <2>1. job.kind = "planned" /\ job.source.text = Origin
    BY <1>3 DEF Capture, JobTypes
  <2>2. CASE job' = NoJob /\ UNCHANGED copy
    BY <1>1, <2>2 DEF JobTypes, Runs
  <2>3. CASE ~(job' = NoJob /\ UNCHANGED copy)
    <3>. DEFINE j == [source |-> job.source.text, target |-> Target, audit |-> answer,
                      had |-> [b \in Bindings |-> cred[b].from # None], bound |-> record]
    <3>1. /\ \A b \in Bindings : record[b] # "to" /\ copy' = job.source.text
          /\ job' = [job EXCEPT !.kind = "rename", !.script = RenameScript(answer), !.undoes = RenameUndoes, !.journal = j]
      BY <1>3, <2>3, Zenon, RenameAssumption DEF Capture
    <3>2. record \in [Bindings -> {None, "from"}]
      BY <3>1 DEF JobTypes
    <3>3. j \in Journals
      BY <2>1, <3>2 DEF Journals
    <3>. HIDE DEF j
    <3>4. /\ job' \in [kind : {"none", "planned", "rename", "recover"}, script : SUBSET Steps,
                       undoes : SUBSET RenameUndoes, journal : Journals \cup {None}, source : Fingerprints \cup {None}]
          /\ job'.kind = "rename" /\ job'.journal = j
      BY <3>1, <3>3, ScriptsTyped DEF JobTypes
    <3>. QED  BY <1>1, <2>1, <3>1, <3>3, <3>4, RenameAssumption DEF JobTypes, Runs
  <2>. QED  BY <2>2, <2>3
<1>4. ASSUME NEW answer \in BOOLEAN, Recover(answer) PROVE JobTypes'
  <2>1. UNCHANGED copy
    BY <1>4 DEF Recover
  <2>2. CASE job' = NoJob
    BY <1>1, <2>1, <2>2 DEF JobTypes, Runs
  <2>3. CASE job' # NoJob
    <3>1. journal \in Journals
      BY <1>4, <2>3 DEF Recover, JobTypes
    <3>2. job' = [NoJob EXCEPT !.kind = "recover", !.script = RecoveryScript(journal, answer),
                               !.undoes = {"audit"}, !.journal = journal]
      BY <1>4, <2>3 DEF Recover
    <3>3. /\ job' \in [kind : {"none", "planned", "rename", "recover"}, script : SUBSET Steps,
                       undoes : SUBSET RenameUndoes, journal : Journals \cup {None}, source : Fingerprints \cup {None}]
          /\ job'.kind = "recover" /\ job'.journal = journal
      BY <3>1, <3>2, ScriptsTyped DEF NoJob
    <3>. QED  BY <1>1, <2>1, <3>1, <3>3 DEF JobTypes, Runs
  <2>. QED  BY <2>2, <2>3
<1>. QED  BY <1>1, <1>2, <1>3, <1>4

\* The other calls of a job.
LEMMA CallsTyped ==
  ASSUME JobTypes,
         \/ CreateJournal \/ Replace \/ RestoreSource \/ Replaced \/ Forget \/ Erase \/ RecordAudit
         \/ Refuse \/ Finish \/ \E c \in job.script : FailCall(c)
  PROVE  JobTypes' /\ Runs
<1>1. /\ cred \in [Bindings -> Creds] /\ record \in [Bindings -> {None, "from", "to"}]
      /\ audited \in {"no", "due", "yes"}
  BY DEF JobTypes
<1>2. {"replace", "replacing", "restore", "restoring"} \subseteq CallNames
  BY DEF CallNames, Loop
<1>3. Runs /\ UNCHANGED <<cred, record>>
  BY DEF CreateJournal, Replace, RestoreSource, Replaced, Forget, Erase, RecordAudit, Refuse, Finish, FailCall, On
<1>4. \/ \E call, b : Advance(call, b)
      \/ \E call, on \in CallNames : Goes(call, on)
      \/ \E call : Fail(call)
      \/ job' = NoJob
      \/ job' = [job EXCEPT !.script = Undo, !.undoes = {}]
  <2>1. CASE CreateJournal \/ Forget \/ Erase \/ RecordAudit \/ Refuse \/ Finish
    BY <2>1, Zenon DEF CreateJournal, Forget, Erase, RecordAudit, Refuse, Finish
  <2>2. CASE Replace
    BY <1>2, <2>2 DEF Replace
  <2>3. CASE RestoreSource
    <3>1. Advance("restore", None) \/ Fail("restore") \/ Goes("restore", "restoring")
      BY <2>3, Zenon DEF RestoreSource
    <3>. QED  BY <1>2, <3>1
  <2>4. CASE Replaced
    <3>1. \/ Advance("replacing", None) \/ Advance("restoring", None) \/ job' = NoJob
          \/ job' = [job EXCEPT !.script = Undo, !.undoes = {}]
      BY <2>4, Zenon DEF Replaced
    <3>. QED  BY <3>1
  <2>5. CASE \E c \in job.script : FailCall(c)
    BY <2>5, Zenon DEF FailCall
  <2>. QED  BY <2>1, <2>2, <2>3, <2>4, <2>5
<1>5. /\ journal' \in {journal, job.journal, None} /\ copy' \in {copy, None} /\ audited' \in {audited, "due", "no", "yes"}
  BY DEF CreateJournal, Replace, RestoreSource, Replaced, Forget, Erase, RecordAudit, Refuse, Finish, FailCall
<1>. QED  BY <1>1, <1>3, <1>4, <1>5, RunningTypes

\* The death of the process, and what a runtime refreshes.
LEMMA OthersTyped ==
  ASSUME JobTypes, Crash \/ \E b \in Bindings, side \in {"from", "to"} : Refresh(b, side)
  PROVE  JobTypes'
<1>1. CASE Crash
  <2>1. /\ job' = NoJob /\ journal' \in {journal, Torn} /\ UNCHANGED <<cred, record, copy, audited>>
    BY <1>1 DEF Crash
  <2>. QED  BY <2>1 DEF JobTypes, NoJob, Runs
<1>2. ASSUME NEW b \in Bindings, NEW side \in {"from", "to"}, Refresh(b, side) PROVE JobTypes'
  <2>1. cred[b] \in Creds /\ cred \in [Bindings -> Creds]
    BY DEF JobTypes
  <2>2. PICK c \in Credentials : cred' = [cred EXCEPT ![b] = Saved(b, side, c)]
    BY <1>2 DEF Refresh
  <2>3. Saved(b, side, c) \in Creds
    BY <2>1 DEF Saved, Creds
  <2>4. UNCHANGED <<record, journal, copy, job, audited>> /\ cred' \in [Bindings -> Creds]
    BY <1>2, <2>1, <2>2, <2>3 DEF Refresh
  <2>. QED  BY <2>4 DEF JobTypes, Runs
<1>. QED  BY <1>1, <1>2

\* What touches neither the file nor a replacement.
LEMMA FileUntouched ==
  ASSUME FileInv, JobTypes', UNCHANGED <<path, text, tx, kept, backups, unused, owed>>
  PROVE  FileInv'
BY DEF FileInv, FileTypes, HoldsFile, HasCandidate, HasBackup, TakesBack, HeldOnce, Safe, Removing, Kept, At

\* A step of a replacement keeps the file's invariant.
LEMMA StepInv ==
  ASSUME FileInv, UNCHANGED rename, NEW w \in Writers, Step(w)
  PROVE  FileInv'
BY PlainSteps, MoveInv, CandidateInv, InstallInv, RelinkInv DEF Step

\* So does a command that starts to replace the file by a text of its own,
LEMMA CommandInv ==
  ASSUME FileInv, UNCHANGED rename, NEW w \in Writers \ {Renamer}, Command(w)
  PROVE  FileInv'
<1>1. JobTypes'
  BY JobKept DEF FileInv, rename
<1>2. path \in Inodes /\ text[path] \in Texts /\ unused \subseteq Texts \ {Origin, Target} /\ NewText \in unused
  BY DEF Command, NewText, FileInv, FileTypes
<1>3. Fingerprint(path) \in Fingerprints /\ NewText \in Texts /\ NewText # Target
  BY <1>2 DEF Fingerprint, Fingerprints
<1>4. /\ Begin(w, Fingerprint(path), NewText, TRUE) /\ tx[w].pc = "idle" /\ unused' \subseteq unused
      /\ UNCHANGED <<path, text, kept, backups, owed>>
  BY DEF Command
<1>5. Fingerprint(path) \in Fingerprints \cup {None} /\ w \in Writers /\ w # Renamer /\ TRUE \in BOOLEAN
  BY <1>3
<1>. QED  BY <1>1, <1>3, <1>4, <1>5, BeginInv

\* and the death of a process in the middle of one.
LEMMA PerishInv ==
  ASSUME FileInv, JobTypes', NEW w \in Writers, Die(w)
  PROVE  FileInv'
<1>1. "died" \in Outs
  BY DEF Outs
<1>. QED  BY <1>1, LeaveInv DEF Die

\* A rename and its restoration begin a replacement of their own.
LEMMA RenamerBegins ==
  ASSUME FileInv, Replace \/ RestoreSource
  PROVE  FileInv'
<1>1. JobTypes' /\ Runs /\ JobTypes /\ FileTypes
  BY CallsTyped DEF FileInv
<1>2. job.journal \in Journals /\ job.source \in Fingerprints \cup {None}
  BY <1>1 DEF JobTypes
<1>3. Renamer \in Writers /\ UNCHANGED <<path, text, kept, backups, owed, unused>> /\ tx[Renamer].pc = "idle"
  BY Distinct DEF Replace, RestoreSource, files
<1>4. CASE UNCHANGED tx
  BY <1>1, <1>3, <1>4, FileUntouched
<1>5. CASE Begin(Renamer, job.source, Target, TRUE)
  <2>1. Target \in Texts /\ TRUE \in BOOLEAN
    BY Distinct
  <2>. QED  BY <1>1, <1>2, <1>3, <1>5, <2>1, BeginInv
<1>6. CASE Begin(Renamer, Fingerprint(path), copy, FALSE) /\ Current = job.journal.target /\ copy = job.journal.source
  <2>1. copy = Origin /\ Current = Target
    BY <1>2, <1>6 DEF Journals
  <2>2. path \in Inodes /\ text[path] = Target
    BY <1>1, <2>1, Distinct DEF Current, FileTypes
  <2>3. Fingerprint(path) \in Fingerprints /\ Fingerprint(path).text = Target
    BY <2>2, Distinct DEF Fingerprint, Fingerprints
  <2>4. copy \in Texts /\ copy # Target /\ FALSE \in BOOLEAN
    BY <2>1, Distinct
  <2>. QED  BY <1>1, <1>3, <1>6, <2>3, <2>4, BeginInv
<1>. QED  BY <1>4, <1>5, <1>6, Zenon DEF Replace, RestoreSource

\* Every step keeps the file's invariant: the rename's own calls, other writers, editors, deaths.
LEMMA FileNext ==
  ASSUME FileInv, [Next]_vars
  PROVE  FileInv'
<1>. JobTypes /\ FileTypes
  BY DEF FileInv
<1>1. CASE UNCHANGED vars
  BY <1>1, JobKept, FileUntouched DEF vars, replacing, rename, files
<1>2. CASE Read \/ \E answer \in BOOLEAN : Capture(answer) \/ Recover(answer)
  BY <1>2, BeginsTyped, FileUntouched DEF replacing
<1>3. CASE RenameStep
  <2>1. CASE Replace \/ RestoreSource
    BY <2>1, RenamerBegins
  <2>2. CASE \/ CreateJournal \/ Replaced \/ Forget \/ Erase \/ RecordAudit
             \/ Refuse \/ Finish \/ \E c \in job.script : FailCall(c)
    <3>1. JobTypes'
      BY <2>2, CallsTyped
    <3>2. UNCHANGED <<path, text, tx, kept, backups, unused, owed>>
      BY <2>2 DEF CreateJournal, Replaced, Forget, Erase, RecordAudit, Refuse, Finish, FailCall, Quiet, files, replacing
    <3>. QED  BY <3>1, <3>2, FileUntouched
  <2>3. CASE \E b \in Bindings : Prepare(b) \/ Carry(b) \/ Drop(b) \/ GiveBack(b) \/ Discard(b) \/ Rebind(b) \/ Unbind(b)
    BY <2>3, BindingTypes, FileUntouched DEF replacing
  <2>. QED  BY <1>3, <2>1, <2>2, <2>3, Zenon DEF RenameStep
<1>4. CASE Crash
  <2>1. JobTypes'
    BY <1>4, OthersTyped
  <2>2. CASE Die(Renamer)
    BY <2>1, <2>2, PerishInv, Distinct
  <2>3. CASE Quiet /\ UNCHANGED tx
    BY <2>1, <2>3, FileUntouched DEF Quiet, files
  <2>. QED  BY <1>4, <2>2, <2>3 DEF Crash
<1>5. CASE Replacement
  <2>1. UNCHANGED rename
    BY <1>5 DEF Replacement
  <2>2. JobTypes'
    BY <2>1, JobKept
  <2>3. PICK w \in Writers : Step(w) \/ (w # Renamer /\ (Command(w) \/ Perish(w)))
    BY <1>5 DEF Replacement
  <2>. QED  BY <2>1, <2>2, <2>3, StepInv, CommandInv, PerishInv DEF Perish
<1>6. CASE Editor /\ UNCHANGED rename
  BY <1>6, EditorInv
<1>7. CASE \E b \in Bindings, side \in {"from", "to"} : Refresh(b, side)
  <2>1. JobTypes'
    BY <1>7, OthersTyped
  <2>2. UNCHANGED replacing
    BY <1>7 DEF Refresh
  <2>. QED  BY <2>1, <2>2, FileUntouched DEF replacing
<1>. QED  BY <1>1, <1>2, <1>3, <1>4, <1>5, <1>6, <1>7 DEF Next

LEMMA FileInvariant == Spec => []FileInv
BY FileInit, FileNext, PTL DEF Spec

\* What the invariant is for: a text in force is in a backup, at the path, held or left behind.
LEMMA KeptIsSafe ==
  ASSUME FileInv
  PROVE  NoTextLost
<1>. DEFINE Names == ({path} \cup kept \cup {tx[w].hold : w \in Writers}) \ {None}
<1>1. Safe \subseteq Names
  BY DEF Safe
<1>2. ASSUME NEW t \in owed PROVE t \in backups \cup {text[i] : i \in Names}
  BY <1>1 DEF FileInv, Kept
<1>. QED  BY <1>2 DEF NoTextLost

\* No configuration that was in force, and that its author did not overwrite, is ever lost,
\* whatever the writers and an editor do to the path and wherever one of them dies
\* (migrate-config.ts).
THEOREM TextsKept == Spec => []NoTextLost
BY FileInvariant, KeptIsSafe, PTL

-----------------------------------------------------------------------------
(* The connections.  A journal that is not torn, and no runtime that       *)
(* refreshes what is being moved: the two things the model can switch on.  *)

Left(call, b) == <<call, b>> \in job.script
\* What the checks of both directions ask, and the journal that was written.
Matches(j) ==
  \A b \in Bindings :
    Agree(b) /\ (j.had[b] <=> ~Empty(b)) /\ (record[b] = None <=> j.bound[b] = None)
Whole == IsOld \/ (IsNew /\ audited # "due")

\* What a script no longer holds has had its effect.
Forward ==
  /\ job.script \subseteq RenameScript(TRUE) \cup Single("replacing")
  /\ IF Left("create", None)
     THEN IsOld /\ journal = None /\ Left("forget", None) /\ (job.journal.audit => Left("audit", None))
     ELSE audited = "due" => Left("audit", None)
  /\ \A b \in Bindings :
       /\ Left("rebind", b) \/ record[b] # "from"
       /\ Left("drop", b) \/ cred[b].from = None
Backward ==
  /\ job.script \subseteq Undo \cup Single("restoring")
  /\ \A b \in Bindings :
       /\ Left("back", b) \/ (Had(b) => cred[b].from # None)
       /\ Left("discard", b) \/ cred[b].to = None
       /\ Left("unbind", b) \/ record[b] # "to"
Refusing == job.script = Single("refuse")

\* The journal stays until it is forgotten, and its copy until the end.
Journaled ==
  /\ job.script # {} => copy = Origin
  /\ ~Left("create", None) =>
       /\ audited = "due" => job.journal.audit
       /\ IF Left("forget", None) \/ Left("refuse", None)
          THEN journal = job.journal ELSE journal = None /\ job.script \subseteq Single("erase")

Running == Matches(job.journal) /\ Journaled /\ (Forward \/ Backward \/ Refusing)
Resting ==
  IF journal = None THEN Whole
  ELSE /\ job.kind = "none" /\ journal # Torn
       /\ copy = Origin /\ Matches(journal) /\ (audited = "due" => journal.audit)
MoveState == IF Runs THEN Running ELSE Resting

\* What the order of the calls says of the one that is next.
LEMMA NextIsNotCreate ==
  ASSUME NEW call \in CallNames \ {"create"}, NEW b, On(call, b)
  PROVE  ~Left("create", None) /\ Left(call, b)
<1>1. Loop["create"] = 1 /\ Loop[call] \in Nat /\ Loop[call] > 1
  BY DEF Loop, CallNames
<1>2. <<"create", None>> # <<call, b>>
  OBVIOUS
<1>3. ~Precedes(<<call, b>>, <<"create", None>>)
  BY <1>1 DEF Precedes
<1>. QED  BY <1>2, <1>3 DEF On, IsNext, Left

\* An undo gives a credential back before it discards what was saved for the new name.
LEMMA NextDiscard ==
  ASSUME NEW b, On("discard", b)
  PROVE  ~Left("back", b)
<1>1. Loop["discard"] = 4 /\ Loop["back"] = 4 /\ Place["discard"] = 2 /\ Place["back"] = 1
  BY DEF Loop, Place
<1>2. ~Precedes(<<"discard", b>>, <<"back", b>>)
  BY <1>1 DEF Precedes
<1>. QED  BY <1>2 DEF On, IsNext, Left

\* The journal is forgotten when everything before it in the script is done.
LEMMA NextForget ==
  ASSUME NEW c \in Steps, On("forget", None), c \in job.script
  PROVE  c[1] \in {"forget", "erase", "refuse"}
<1>1. Loop["forget"] = 7 /\ \A call \in CallNames \ {"forget", "erase", "refuse"} : Loop[call] \in Nat /\ Loop[call] < 7
  BY DEF Loop, CallNames
<1>2. c[1] \in CallNames
  BY DEF Steps
<1>3. CASE c[1] \notin {"forget", "erase", "refuse"}
  <2>1. ~Precedes(<<"forget", None>>, c)
    BY <1>1, <1>2, <1>3 DEF Precedes
  <2>. QED  BY <1>3, <2>1 DEF On, IsNext
<1>. QED  BY <1>3

\* The calls of the two directions.
LEMMA Directions ==
  /\ \A c \in RenameScript(TRUE) \cup Single("replacing") :
       /\ c[1] \in {"create", "prepare", "replace", "replacing", "carry", "rebind", "drop", "audit", "forget", "erase"}
       /\ c[1] \in {"forget", "erase"} => c \in Cleanup
  /\ \A c \in Undo \cup Single("restoring") :
       /\ c[1] \in {"restore", "restoring", "back", "discard", "unbind", "forget", "erase"}
       /\ c[1] \in {"forget", "erase"} => c \in Cleanup
  /\ \A c \in Cleanup : c = <<c[1], None>>
BY DEF RenameScript, Undo, CompleteForward, CompleteRollback, Audit, Cleanup, Each, Single

\* Only a rename that has not begun has its journal still to create.
LEMMA CreateIsForward ==
  ASSUME Runs, Running, Left("create", None)
  PROVE  Forward /\ IsOld /\ journal = None
<1>1. ~Backward
  BY Directions DEF Backward, Left
<1>2. ~Refusing
  BY DEF Refusing, Left, Single
<1>. QED  BY <1>1, <1>2 DEF Running, Forward

\* A job that ends without a journal has done all it had to do, or nothing.
LEMMA EndsWhole ==
  ASSUME JobTypes, Runs, Running, journal = None
  PROVE  Whole
<1>1. CASE Left("create", None)
  BY <1>1, CreateIsForward DEF Whole
<1>2. CASE ~Left("create", None)
  <2>1. job.journal # None
    BY RenameAssumption DEF JobTypes
  <2>2. job.script \subseteq Single("erase")
    BY <1>2, <2>1 DEF Running, Journaled
  <2>3. \A call, b : Left(call, b) => call = "erase"
    BY <2>2 DEF Left, Single
  <2>4. CASE Forward
    BY <1>2, <2>3, <2>4, Zenon DEF Forward, Whole, IsNew
  <2>5. CASE Backward
    BY <2>3, <2>5, Zenon DEF Backward, Whole, IsOld
  <2>6. ~Refusing
    BY <2>3 DEF Refusing, Left, Single
  <2>. QED  BY <2>4, <2>5, <2>6 DEF Running
<1>. QED  BY <1>1, <1>2

\* While a script runs after that, the journal on disk is the one it works from.
LEMMA JournalOf ==
  ASSUME JobTypes, Runs, Running, journal # None
  PROVE  /\ ~Left("create", None) /\ journal = job.journal /\ journal \in Journals /\ copy = Origin
         /\ audited = "due" => job.journal.audit
<1>1. ~Left("create", None)
  BY CreateIsForward
<1>2. journal = job.journal /\ (Left("forget", None) \/ Left("refuse", None)) /\ (audited = "due" => job.journal.audit)
  BY <1>1 DEF Running, Journaled
<1>3. job.script # {}
  BY <1>2 DEF Left
<1>. QED  BY <1>1, <1>2, <1>3 DEF Running, Journaled, JobTypes

\* A job ends, or its process dies.
LEMMA JobEnds ==
  ASSUME JobTypes, Runs, Running, job' = NoJob, UNCHANGED <<cred, record, journal, audited>>,
         journal # None => UNCHANGED copy
  PROVE  MoveState'
<1>1. ~Runs' /\ job'.kind = "none"
  BY DEF NoJob, Runs
<1>2. CASE journal = None
  BY <1>1, <1>2, EndsWhole DEF MoveState, Resting, Whole, IsOld, IsNew
<1>3. CASE journal # None
  <2>1. /\ journal = job.journal /\ journal \in Journals /\ copy = Origin /\ (audited = "due" => journal.audit)
        /\ Matches(journal)
    BY <1>3, JournalOf DEF Running
  <2>2. Matches(journal)'
    BY <2>1 DEF Matches, Agree, Empty
  <2>. QED  BY <1>1, <1>3, <2>1, <2>2, RenameAssumption DEF MoveState, Resting
<1>. QED  BY <1>2, <1>3

\* What was done is undone from the start.
LEMMA Undoes ==
  ASSUME JobTypes, Runs, Running, journal # None, UNCHANGED <<cred, record, journal, copy, audited>>,
         \/ job' = [job EXCEPT !.kind = "recover", !.script = Undo, !.undoes = {}]
         \/ job' = [job EXCEPT !.script = Undo, !.undoes = {}]
  PROVE  MoveState'
<1>1. /\ ~Left("create", None) /\ journal = job.journal /\ copy = Origin /\ (audited = "due" => job.journal.audit)
  BY JournalOf
<1>2. job'.script = Undo /\ job'.journal = job.journal /\ Runs'
  BY DEF JobTypes, Runs
<1>3. /\ ~Left("create", None)' /\ Left("forget", None)'
      /\ \A b \in Bindings : Left("back", b)' /\ Left("discard", b)' /\ Left("unbind", b)'
  BY <1>2 DEF Left, Undo, CompleteRollback, Cleanup, Each, Single
<1>4. Matches(job.journal)'
  BY <1>2 DEF Running, Matches, Agree, Empty
<1>5. Journaled'
  BY <1>1, <1>2, <1>3 DEF Journaled
<1>6. Backward'
  BY <1>2, <1>3 DEF Backward
<1>. QED  BY <1>2, <1>4, <1>5, <1>6 DEF MoveState, Running

\* A job keeps its direction, turns round, or ends.
Keeps == job' = NoJob \/ job'.script = Undo \/ ((Forward => Forward') /\ (Backward => Backward'))

\* A call is made, whose effect is what the script says once it no longer holds it.
LEMMA CallMade ==
  ASSUME JobTypes, Runs, Running, NEW call \in CallNames \ {"create", "forget", "erase", "refuse"},
         NEW b \in Bindings \cup {None}, On(call, b),
         \/ Advance(call, b)
         \/ b = None /\ call = "replace" /\ Goes("replace", "replacing")
         \/ b = None /\ call = "restore" /\ Goes("restore", "restoring"),
         UNCHANGED <<journal, copy>>, audited' \in {audited, "yes"}, call = "audit" => audited' = "yes",
         \A a \in Bindings : Agree(a)' /\ (Empty(a)' <=> Empty(a)) /\ (record'[a] = None <=> record[a] = None),
         Forward =>
           /\ \A a \in Bindings :
                /\ record[a] # "from" => record'[a] # "from"
                /\ cred[a].from = None => cred'[a].from = None
           /\ call = "rebind" => record'[b] # "from"
           /\ call = "drop" => cred'[b].from = None,
         Backward =>
           /\ \A a \in Bindings :
                /\ record[a] # "to" => record'[a] # "to"
                /\ cred[a].to = None => cred'[a].to = None
                /\ (Left("back", a) => call = "back" /\ a = b) => (Had(a) /\ cred[a].from # None => cred'[a].from # None)
           /\ call = "back" => (Had(b) => cred'[b].from # None)
           /\ call = "discard" => cred'[b].to = None
           /\ call = "unbind" => record'[b] # "to"
  PROVE  MoveState' /\ Runs' /\ (Forward => Forward') /\ (Backward => Backward')
<1>. DEFINE c == <<call, b>>
<1>1. /\ ~Left("create", None) /\ c \in job.script /\ c # <<"forget", None>> /\ c # <<"erase", None>>
      /\ c # <<"refuse", None>>
  BY NextIsNotCreate DEF Left
<1>2. job'.journal = job.journal /\ job'.kind = job.kind /\ Runs'
  BY DEF Advance, Goes, JobTypes, Runs
<1>3. /\ job'.script \subseteq job.script \cup Single("replacing") \cup Single("restoring")
      /\ job.script \ {c} \subseteq job'.script
      /\ call # "replace" /\ call # "restore" => job'.script = job.script \ {c}
      /\ call # "replace" => job'.script \subseteq job.script \cup Single("restoring")
      /\ call # "restore" => job'.script \subseteq job.script \cup Single("replacing")
  BY DEF Advance, Goes, JobTypes, Single
<1>4. \A a : \A k \in CallNames : k # "replacing" /\ k # "restoring" => (Left(k, a)' => Left(k, a))
  BY <1>3 DEF Left, Single
<1>5. \A k, a : Left(k, a) /\ <<k, a>> # c => Left(k, a)'
  BY <1>3 DEF Left
<1>6. ~Left("create", None)'
  BY <1>1, <1>4 DEF CallNames, Loop
<1>7. Matches(job.journal)'
  BY <1>2 DEF Running, Matches
<1>8. job.script # {} /\ copy = Origin /\ (audited = "due" => job.journal.audit)
  BY <1>1 DEF Running, Journaled
<1>9. (Left("forget", None) \/ Left("refuse", None)) /\ journal = job.journal
  <2>1. ~(job.script \subseteq Single("erase"))
    BY <1>1 DEF Single
  <2>. QED  BY <1>1, <2>1 DEF Running, Journaled
<1>10. Left("forget", None)' \/ Left("refuse", None)'
  BY <1>1, <1>5, <1>9
<1>11. Journaled'
  BY <1>2, <1>6, <1>8, <1>9, <1>10 DEF Journaled
<1>12. ASSUME Forward PROVE Forward'
  <2>1. call # "restore"
    BY <1>1, <1>12, Directions DEF Forward
  <2>2. job'.script \subseteq RenameScript(TRUE) \cup Single("replacing")
    BY <1>3, <1>12, <2>1 DEF Forward
  <2>3. audited' = "due" => Left("audit", None)'
    <3>1. CASE call = "audit"
      BY <3>1
    <3>2. CASE call # "audit"
      BY <1>1, <1>5, <1>12, <3>2 DEF Forward
    <3>. QED  BY <3>1, <3>2
  <2>4. ASSUME NEW a \in Bindings PROVE (Left("rebind", a)' \/ record'[a] # "from") /\ (Left("drop", a)' \/ cred'[a].from = None)
    <3>1. Left("rebind", a)' \/ record'[a] # "from"
      BY <1>5, <1>12 DEF Forward
    <3>2. Left("drop", a)' \/ cred'[a].from = None
      BY <1>5, <1>12 DEF Forward
    <3>. QED  BY <3>1, <3>2
  <2>. QED  BY <1>6, <2>2, <2>3, <2>4 DEF Forward
<1>13. ASSUME Backward PROVE Backward'
  <2>1. call # "replace"
    BY <1>1, <1>13, Directions DEF Backward
  <2>2. job'.script \subseteq Undo \cup Single("restoring")
    BY <1>3, <1>13, <2>1 DEF Backward
  <2>3. ASSUME NEW a \in Bindings
        PROVE  /\ Left("back", a)' \/ (Had(a) => cred'[a].from # None)
               /\ Left("discard", a)' \/ cred'[a].to = None
               /\ Left("unbind", a)' \/ record'[a] # "to"
    <3>1. Left("back", a)' \/ (Had(a) => cred'[a].from # None)
      <4>1. CASE <<"back", a>> = c
        BY <1>13, <4>1
      <4>2. CASE <<"back", a>> # c /\ Left("back", a)
        BY <1>5, <4>2
      <4>3. CASE ~Left("back", a)
        BY <1>13, <4>3 DEF Backward
      <4>. QED  BY <4>1, <4>2, <4>3
    <3>2. Left("discard", a)' \/ cred'[a].to = None
      BY <1>5, <1>13 DEF Backward
    <3>3. Left("unbind", a)' \/ record'[a] # "to"
      BY <1>5, <1>13 DEF Backward
    <3>. QED  BY <3>1, <3>2, <3>3
  <2>. QED  BY <1>2, <2>2, <2>3 DEF Backward, Had
<1>14. ~Refusing
  BY <1>1 DEF Refusing, Single
<1>15. MoveState'
  BY <1>2, <1>7, <1>11, <1>12, <1>13, <1>14 DEF MoveState, Running
<1>. QED  BY <1>2, <1>12, <1>13, <1>15

-----------------------------------------------------------------------------
(* The actions that move the connections.                                  *)

\* The credential that a connection has.
Held(b) == IF cred[b].from # None THEN cred[b].from ELSE cred[b].to

\* A call fails: what was done is undone, or the job ends.
LEMMA CallFails ==
  ASSUME JobTypes, Runs, Running, NEW call \in CallNames \ {"create"}, NEW b, On(call, b), Fail(call),
         UNCHANGED <<cred, record, journal, copy, audited>>
  PROVE  MoveState' /\ Keeps
<1>1. CASE call \notin job.undoes
  BY <1>1, JobEnds DEF Fail, Keeps
<1>2. CASE call \in job.undoes
  <2>1. call # "erase"
    BY <1>2 DEF JobTypes, RenameUndoes
  <2>2. ~Left("create", None) /\ Left(call, b)
    BY NextIsNotCreate
  <2>3. ~(job.script \subseteq Single("erase"))
    BY <2>1, <2>2 DEF Left, Single
  <2>4. journal = job.journal /\ journal # None
    BY <2>2, <2>3, RenameAssumption DEF Running, Journaled, JobTypes
  <2>5. job' = [job EXCEPT !.kind = "recover", !.script = Undo, !.undoes = {}]
    BY <1>2 DEF Fail
  <2>6. job'.script = Undo
    BY <2>5 DEF JobTypes
  <2>. QED  BY <2>4, <2>5, <2>6, Undoes DEF Keeps
<1>. QED  BY <1>1, <1>2

\* While a call other than the first and the last is made there is a journal.
LEMMA CallJournal ==
  ASSUME JobTypes, Runs, Running, NEW call \in CallNames \ {"create", "erase"}, NEW b, On(call, b)
  PROVE  journal = job.journal /\ journal # None
<1>1. ~Left("create", None) /\ Left(call, b)
  BY NextIsNotCreate
<1>2. ~(job.script \subseteq Single("erase"))
  BY <1>1 DEF Left, Single
<1>. QED  BY <1>1, <1>2, RenameAssumption DEF Running, Journaled, JobTypes

\* A call on the vault keeps what the connection has.
LEMMA VaultMoves ==
  ASSUME JobTypes, MoveState, NEW b \in Bindings,
         NEW call \in {"prepare", "carry", "drop", "back", "discard"}, NEW fine \in BOOLEAN, NEW entry,
         Vault(call, b, fine, entry),
         fine =>
           /\ entry.from = None \/ entry.to = None \/ entry.from = entry.to
           /\ entry.from = None /\ entry.to = None <=> Empty(b)
           /\ Held(b) = (IF entry.from # None THEN entry.from ELSE entry.to)
           /\ Forward => (cred[b].from = None \/ call = "drop" => entry.from = None)
           /\ Backward =>
                /\ cred[b].to = None \/ call = "discard" => entry.to = None
                /\ Had(b) /\ (cred[b].from # None \/ call = "back") => entry.from # None
  PROVE  MoveState' /\ Keeps /\ journal # None /\ UNCHANGED <<record, journal>> /\ \A a \in Bindings : Held(a)' = Held(a)
<1>1. Runs /\ UNCHANGED <<record, journal, copy, audited>> /\ On(call, b)
  BY DEF Vault, On, replacing
<1>2. Running
  BY <1>1 DEF MoveState
<1>3. call \in CallNames \ {"create", "forget", "erase", "refuse"} /\ call \notin {"audit", "rebind", "unbind"}
  BY DEF CallNames, Loop
<1>4. journal # None
  BY <1>1, <1>2, <1>3, CallJournal
<1>5. CASE ~fine
  <2>1. UNCHANGED cred /\ Fail(call)
    BY <1>5 DEF Vault
  <2>2. MoveState' /\ Keeps
    BY <1>1, <1>2, <1>3, <2>1, CallFails
  <2>. QED  BY <1>1, <1>4, <2>1, <2>2 DEF Held
<1>6. CASE fine
  <2>1. cred \in [Bindings -> Creds] /\ cred' = [cred EXCEPT ![b] = entry] /\ Advance(call, b)
    BY <1>6 DEF Vault, JobTypes
  <2>2. cred'[b] = entry /\ \A a \in Bindings : a # b => cred'[a] = cred[a]
    BY <2>1
  <2>3. \A a \in Bindings : Agree(a)' /\ (Empty(a)' <=> Empty(a)) /\ record'[a] = record[a]
    BY <1>1, <1>2, <1>6, <2>2 DEF Agree, Empty, Running, Matches
  <2>4. Forward =>
           /\ \A a \in Bindings :
                /\ record[a] # "from" => record'[a] # "from"
                /\ cred[a].from = None => cred'[a].from = None
           /\ call = "rebind" => record'[b] # "from"
           /\ call = "drop" => cred'[b].from = None
    BY <1>1, <1>3, <1>6, <2>2
  <2>5. Backward =>
           /\ \A a \in Bindings :
                /\ record[a] # "to" => record'[a] # "to"
                /\ cred[a].to = None => cred'[a].to = None
                /\ (Left("back", a) => call = "back" /\ a = b) => (Had(a) /\ cred[a].from # None => cred'[a].from # None)
           /\ call = "back" => (Had(b) => cred'[b].from # None)
           /\ call = "discard" => cred'[b].to = None
           /\ call = "unbind" => record'[b] # "to"
    <3>1. Backward => /\ cred[b].to = None \/ call = "discard" => entry.to = None
                      /\ Had(b) /\ (cred[b].from # None \/ call = "back") => entry.from # None
      BY <1>6
    <3>2. record' = record /\ call # "unbind"
      BY <1>1, <1>3
    <3>. QED  BY ONLY <2>2, <3>1, <3>2
  <2>6. \A a \in Bindings : Held(a)' = Held(a)
    BY <1>6, <2>2 DEF Held
  <2>7. \A a \in Bindings : Agree(a)' /\ (Empty(a)' <=> Empty(a)) /\ (record'[a] = None <=> record[a] = None)
    BY <2>3
  <2>8. call \in CallNames \ {"create", "forget", "erase", "refuse"} /\ b \in Bindings \cup {None}
        /\ audited' \in {audited, "yes"} /\ (call = "audit" => audited' = "yes") /\ UNCHANGED <<journal, copy>>
    BY <1>1, <1>3
  <2>9. MoveState' /\ Keeps
    BY <1>1, <1>2, <2>1, <2>4, <2>5, <2>7, <2>8, CallMade DEF Keeps
  <2>. QED  BY <1>1, <1>4, <2>6, <2>9
<1>. QED  BY <1>5, <1>6

\* What is known of a binding when a job gets to it.
LEMMA AtBinding ==
  ASSUME JobTypes, Runs, Running, NEW b \in Bindings
  PROVE  /\ Agree(b) /\ (Had(b) <=> ~Empty(b)) /\ Had(b) \in BOOLEAN
         /\ \A c : /\ Saved(b, "to", c).from = cred[b].from /\ Saved(b, "to", c).to = c
                   /\ Saved(b, "from", c).to = cred[b].to /\ Saved(b, "from", c).from = c
<1>1. Agree(b) /\ (Had(b) <=> ~Empty(b))
  BY DEF Running, Matches, Had
<1>2. cred[b] \in Creds /\ job.journal.had[b] \in BOOLEAN
  BY DEF JobTypes, Journals
<1>3. \A c : /\ [cred[b] EXCEPT !["to"] = c].from = cred[b].from /\ [cred[b] EXCEPT !["to"] = c].to = c
             /\ [cred[b] EXCEPT !["from"] = c].to = cred[b].to /\ [cred[b] EXCEPT !["from"] = c].from = c
  BY <1>2 DEF Creds
<1>. QED  BY <1>1, <1>2, <1>3 DEF Saved, Had

\* A call tells which way its script goes.
LEMMA DirectionOf ==
  ASSUME Runs, NEW call, NEW b, On(call, b)
  PROVE  /\ call \in {"prepare", "carry", "rebind", "drop", "audit", "replace", "replacing"} => ~Backward
         /\ call \in {"back", "discard", "unbind", "restore", "restoring"} => ~Forward
BY Directions DEF On, IsNext, Forward, Backward

\* Saving under the new name, and dropping the old one, keep the state of the move.
LEMMA ForwardMoves ==
  ASSUME JobTypes, MoveState, NEW b \in Bindings, Prepare(b) \/ Carry(b) \/ Drop(b)
  PROVE  MoveState' /\ Keeps /\ journal # None /\ UNCHANGED <<record, journal>> /\ \A a \in Bindings : Held(a)' = Held(a)
<1>1. Runs /\ Running
  BY DEF Prepare, Carry, Drop, Vault, On, MoveState
<1>2. /\ Agree(b) /\ (Had(b) <=> ~Empty(b)) /\ Had(b) \in BOOLEAN
      /\ \A c : /\ Saved(b, "to", c).from = cred[b].from /\ Saved(b, "to", c).to = c
                /\ Saved(b, "from", c).to = cred[b].to /\ Saved(b, "from", c).from = c
  BY <1>1, AtBinding
<1>3. CASE Prepare(b)
  <2>. DEFINE fine == cred[b].to = None /\ (Had(b) <=> cred[b].from # None)
              entry == IF Had(b) THEN Saved(b, "to", cred[b].from) ELSE cred[b]
  <2>1. Vault("prepare", b, fine, entry) /\ fine \in BOOLEAN
    BY <1>3 DEF Prepare
  <2>2. ~Backward
    BY <1>1, <2>1, DirectionOf DEF Vault
  <2>3. fine =>
           /\ entry.from = None \/ entry.to = None \/ entry.from = entry.to
           /\ entry.from = None /\ entry.to = None <=> Empty(b)
           /\ Held(b) = (IF entry.from # None THEN entry.from ELSE entry.to)
           /\ entry.from = cred[b].from
    BY <1>2 DEF Empty, Agree, Held
  <2>. HIDE DEF fine, entry
  <2>. QED  BY <2>1, <2>2, <2>3, VaultMoves
<1>4. CASE Carry(b)
  <2>. DEFINE fine == Sound(b)
              entry == IF Had(b) /\ cred[b].to = None THEN Saved(b, "to", cred[b].from) ELSE cred[b]
  <2>1. Vault("carry", b, fine, entry) /\ fine \in BOOLEAN
    BY <1>4 DEF Carry, Sound, Empty, Agree
  <2>2. ~Backward
    BY <1>1, <2>1, DirectionOf DEF Vault
  <2>3. fine =>
           /\ entry.from = None \/ entry.to = None \/ entry.from = entry.to
           /\ entry.from = None /\ entry.to = None <=> Empty(b)
           /\ Held(b) = (IF entry.from # None THEN entry.from ELSE entry.to)
           /\ entry.from = cred[b].from
    BY <1>2 DEF Empty, Agree, Held
  <2>. HIDE DEF fine, entry
  <2>. QED  BY <2>1, <2>2, <2>3, VaultMoves
<1>5. CASE Drop(b)
  <2>. DEFINE fine == Had(b) => cred[b].to # None /\ Agree(b)
              entry == IF Had(b) THEN Saved(b, "from", None) ELSE cred[b]
  <2>1. Vault("drop", b, fine, entry) /\ fine \in BOOLEAN
    BY <1>5 DEF Drop, Agree
  <2>2. ~Backward
    BY <1>1, <2>1, DirectionOf DEF Vault
  <2>3. fine =>
           /\ entry.from = None \/ entry.to = None \/ entry.from = entry.to
           /\ entry.from = None /\ entry.to = None <=> Empty(b)
           /\ Held(b) = (IF entry.from # None THEN entry.from ELSE entry.to)
           /\ entry.from = None
    BY <1>2 DEF Empty, Agree, Held
  <2>. HIDE DEF fine, entry
  <2>. QED  BY <2>1, <2>2, <2>3, VaultMoves
<1>. QED  BY <1>3, <1>4, <1>5

\* So does giving a credential back, or discarding what was saved.
LEMMA BackwardMoves ==
  ASSUME JobTypes, MoveState, NEW b \in Bindings, GiveBack(b) \/ Discard(b)
  PROVE  MoveState' /\ Keeps /\ journal # None /\ UNCHANGED <<record, journal>> /\ \A a \in Bindings : Held(a)' = Held(a)
<1>1. Runs /\ Running
  BY DEF GiveBack, Discard, Vault, On, MoveState
<1>2. /\ Agree(b) /\ (Had(b) <=> ~Empty(b)) /\ Had(b) \in BOOLEAN
      /\ \A c : /\ Saved(b, "to", c).from = cred[b].from /\ Saved(b, "to", c).to = c
                /\ Saved(b, "from", c).to = cred[b].to /\ Saved(b, "from", c).from = c
  BY <1>1, AtBinding
<1>3. CASE GiveBack(b)
  <2>. DEFINE fine == Sound(b)
              entry == IF Had(b) /\ cred[b].from = None THEN Saved(b, "from", cred[b].to) ELSE cred[b]
  <2>1. Vault("back", b, fine, entry) /\ fine \in BOOLEAN
    BY <1>3 DEF GiveBack, Sound, Empty, Agree
  <2>2. ~Forward
    BY <1>1, <2>1, DirectionOf DEF Vault
  <2>3. fine =>
           /\ entry.from = None \/ entry.to = None \/ entry.from = entry.to
           /\ entry.from = None /\ entry.to = None <=> Empty(b)
           /\ Held(b) = (IF entry.from # None THEN entry.from ELSE entry.to)
           /\ entry.to = cred[b].to /\ (Had(b) => entry.from # None)
    BY <1>2 DEF Empty, Agree, Held
  <2>. HIDE DEF fine, entry
  <2>. QED  BY <2>1, <2>2, <2>3, VaultMoves
<1>4. CASE Discard(b)
  <2>. DEFINE fine == TRUE
              entry == IF Had(b) THEN Saved(b, "to", None) ELSE cred[b]
  <2>1. Vault("discard", b, fine, entry) /\ fine \in BOOLEAN
    BY <1>4 DEF Discard
  <2>2. ~Forward /\ ~Refusing
    BY <1>1, <2>1, DirectionOf DEF Vault, On, IsNext, Refusing, Single
  <2>3. Had(b) => cred[b].from # None
    BY <1>1, <2>1, <2>2, NextDiscard DEF Vault, Running, Backward
  <2>4. /\ entry.from = None \/ entry.to = None \/ entry.from = entry.to
        /\ entry.from = None /\ entry.to = None <=> Empty(b)
        /\ Held(b) = (IF entry.from # None THEN entry.from ELSE entry.to)
        /\ entry.from = cred[b].from /\ entry.to = None
    BY <1>2, <2>3 DEF Empty, Agree, Held
  <2>. HIDE DEF fine, entry
  <2>. QED  BY <2>1, <2>2, <2>3, <2>4, VaultMoves
<1>. QED  BY <1>3, <1>4

\* A record goes to the new name or back, and none comes or goes.
LEMMA RecordMoves ==
  ASSUME JobTypes, MoveState, NEW b \in Bindings, Rebind(b) \/ Unbind(b)
  PROVE  MoveState' /\ Keeps /\ journal # None /\ UNCHANGED <<cred, journal>>
<1>. DEFINE call == IF Rebind(b) THEN "rebind" ELSE "unbind"
<1>1. Runs /\ UNCHANGED <<cred, journal, copy, audited>>
  BY DEF Rebind, Unbind, On, replacing
<1>2. Running /\ record \in [Bindings -> {None, "from", "to"}] /\ job.journal.bound[b] \in {None, "from"}
  BY <1>1 DEF MoveState, JobTypes, Journals
<1>3. record[b] = None <=> job.journal.bound[b] = None
  BY <1>2 DEF Running, Matches
<1>4. None \notin {"from", "to"}
  BY RenameAssumption
<1>5. call \in CallNames \ {"create", "forget", "erase", "refuse"} /\ On(call, b) /\ call # "audit"
      /\ b \in Bindings \cup {None}
  <2>1. On(call, b)
    BY DEF Rebind, Unbind
  <2>. QED  BY <2>1 DEF CallNames, Loop
<1>6. \A a \in Bindings : Agree(a)' /\ (Empty(a)' <=> Empty(a))
  BY <1>1, <1>2 DEF Agree, Empty, Running, Matches
<1>7. journal # None
  BY <1>1, <1>2, <1>5, CallJournal
<1>8. CASE Rebind(b)
  <2>1. Advance("rebind", b) /\ record' = [record EXCEPT ![b] = IF record[b] = None THEN None ELSE "to"]
    BY <1>3, <1>8, Zenon DEF Rebind
  <2>2. \A a \in Bindings : (record'[a] = None <=> record[a] = None) /\ (record[a] # "from" => record'[a] # "from")
    BY <1>2, <1>4, <2>1
  <2>3. record'[b] # "from" /\ call = "rebind"
    BY <1>2, <1>4, <1>8, <2>1
  <2>4. ~Backward
    BY <1>1, <1>8, DirectionOf DEF Rebind
  <2>5. \A a \in Bindings : Agree(a)' /\ (Empty(a)' <=> Empty(a)) /\ (record'[a] = None <=> record[a] = None)
    BY <1>6, <2>2
  <2>6. Advance(call, b) /\ UNCHANGED <<journal, copy>> /\ audited' \in {audited, "yes"} /\ (call = "audit" => audited' = "yes")
    BY <1>1, <1>5, <2>1, <2>3
  <2>7. Forward =>
           /\ \A a \in Bindings :
                /\ record[a] # "from" => record'[a] # "from"
                /\ cred[a].from = None => cred'[a].from = None
           /\ call = "rebind" => record'[b] # "from"
           /\ call = "drop" => cred'[b].from = None
    BY <1>1, <2>2, <2>3
  <2>. HIDE DEF call
  <2>. QED  BY <1>1, <1>2, <1>5, <1>7, <2>4, <2>5, <2>6, <2>7, CallMade DEF Keeps
<1>9. CASE ~Rebind(b)
  <2>1. Unbind(b) /\ call = "unbind"
    BY <1>9
  <2>2. Advance("unbind", b) /\ record' = [record EXCEPT ![b] = job.journal.bound[b]]
    BY <1>3, <1>4, <2>1, Zenon DEF Unbind
  <2>3. \A a \in Bindings : (record'[a] = None <=> record[a] = None) /\ (record[a] # "to" => record'[a] # "to")
    BY <1>2, <1>3, <1>4, <2>2
  <2>4. record'[b] # "to"
    BY <1>2, <1>4, <2>2
  <2>5. ~Forward
    BY <1>1, <2>1, DirectionOf DEF Unbind
  <2>6. \A a \in Bindings : Agree(a)' /\ (Empty(a)' <=> Empty(a)) /\ (record'[a] = None <=> record[a] = None)
    BY <1>6, <2>3
  <2>7. Advance(call, b) /\ UNCHANGED <<journal, copy>> /\ audited' \in {audited, "yes"} /\ (call = "audit" => audited' = "yes")
    BY <1>1, <1>5, <2>1, <2>2
  <2>8. Backward =>
           /\ \A a \in Bindings :
                /\ record[a] # "to" => record'[a] # "to"
                /\ cred[a].to = None => cred'[a].to = None
                /\ (Left("back", a) => call = "back" /\ a = b) => (Had(a) /\ cred[a].from # None => cred'[a].from # None)
           /\ call = "back" => (Had(b) => cred'[b].from # None)
           /\ call = "discard" => cred'[b].to = None
           /\ call = "unbind" => record'[b] # "to"
    BY <1>1, <2>1, <2>3, <2>4
  <2>. HIDE DEF call
  <2>. QED  BY <1>1, <1>2, <1>5, <1>7, <2>5, <2>6, <2>7, <2>8, CallMade DEF Keeps
<1>. QED  BY <1>8, <1>9

-----------------------------------------------------------------------------
(* The actions of the job.                                                 *)

\* What the move of the connections is, seen from outside: a rename is being worked on, it begins
\* with the connections under the old name, or nothing is touched.
Moved ==
  /\ \A b \in Bindings : Held(b)' = Held(b)
  /\ Unfinished \/ (IsOld /\ Unfinished') \/ (~Unfinished' /\ UNCHANGED <<cred, record>>)

\* A step that leaves the credentials is a move when the journal stays, or nothing else moves.
LEMMA MovedOn ==
  ASSUME UNCHANGED cred, Unfinished \/ (UNCHANGED record /\ ~Unfinished')
  PROVE  Moved
BY DEF Moved, Held

\* The copies are erased after the journal is forgotten.
LEMMA NextErase ==
  ASSUME On("erase", None)
  PROVE  ~Left("forget", None)
<1>1. Loop["erase"] = 8 /\ Loop["forget"] = 7
  BY DEF Loop
<1>2. ~Precedes(<<"erase", None>>, <<"forget", None>>)
  BY <1>1 DEF Precedes
<1>. QED  BY <1>2 DEF On, IsNext, Left

\* Reading the source begins nothing.
LEMMA ReadMoves ==
  ASSUME JobTypes, MoveState, Read
  PROVE  MoveState' /\ Moved
<1>1. /\ ~Runs /\ ~Runs' /\ journal = None /\ UNCHANGED <<cred, record, journal, copy, audited>>
  BY DEF Read, Runs, NoJob
<1>2. MoveState'
  BY <1>1 DEF MoveState, Resting, Whole, IsOld, IsNew
<1>3. ~Unfinished'
  BY <1>1 DEF Unfinished, On
<1>. QED  BY <1>1, <1>2, <1>3, MovedOn

\* What is captured when a rename begins is what the connections hold then.
LEMMA CaptureMoves ==
  ASSUME JobTypes, MoveState, NEW required \in BOOLEAN, Capture(required)
  PROVE  MoveState' /\ Moved
<1>. DEFINE j == [source |-> job.source.text, target |-> Target, audit |-> required,
                  had |-> [b \in Bindings |-> cred[b].from # None], bound |-> record]
            taken == \E b \in Bindings : cred[b].to # None \/ record[b] = "to"
<1>1. /\ ~Runs /\ job.kind = "planned" /\ job.source.text = Origin
      /\ UNCHANGED <<cred, record, journal, audited>>
  BY DEF Capture, Runs, JobTypes
<1>2. Resting /\ journal = None /\ Whole
  BY <1>1 DEF MoveState, Resting
<1>3. CASE taken
  <2>1. job' = NoJob
    BY <1>3 DEF Capture
  <2>2. ~Runs'
    BY <2>1 DEF NoJob, Runs
  <2>3. MoveState' /\ ~Unfinished'
    BY <1>1, <1>2, <2>2 DEF MoveState, Resting, Whole, IsOld, IsNew, Unfinished, On
  <2>. QED  BY <1>1, <2>3, MovedOn
<1>4. CASE ~taken
  <2>1. /\ job' = [job EXCEPT !.kind = "rename", !.script = RenameScript(required),
                              !.undoes = RenameUndoes, !.journal = j]
        /\ copy' = Origin
    BY <1>1, <1>4 DEF Capture
  <2>2. Runs' /\ job'.script = RenameScript(required) /\ job'.journal = j
    BY <2>1 DEF JobTypes, Runs
  <2>3. IsOld' /\ \A b \in Bindings : cred[b].to = None
    BY <1>1, <1>4 DEF IsOld
  <2>4. \A b \in Bindings : Agree(b)' /\ (j.had[b] <=> ~Empty(b)') /\ (record'[b] = None <=> j.bound[b] = None)
    <3>1. \A b \in Bindings : /\ Agree(b)' /\ (cred[b].from # None <=> ~Empty(b)')
      BY <1>1, <2>3 DEF Agree, Empty
    <3>2. (\A b \in Bindings : j.had[b] <=> cred[b].from # None) /\ j.bound = record
      OBVIOUS
    <3>. HIDE DEF j
    <3>. QED  BY <1>1, <3>1, <3>2
  <2>5. j.audit = required
    OBVIOUS
  <2>. HIDE DEF j, taken
  <2>6. Matches(job.journal)'
    BY <2>2, <2>4 DEF Matches
  <2>7. /\ Left("create", None)' /\ Left("forget", None)' /\ (required => Left("audit", None)')
        /\ \A b \in Bindings : Left("rebind", b)' /\ Left("drop", b)'
        /\ job'.script \subseteq RenameScript(TRUE)
    BY <2>2 DEF Left, RenameScript, CompleteForward, Cleanup, Audit, Each, Single
  <2>8. Journaled'
    BY <2>1, <2>7 DEF Journaled
  <2>9. Forward'
    BY <1>1, <1>2, <2>2, <2>3, <2>5, <2>7 DEF Forward
  <2>10. MoveState'
    BY <2>2, <2>6, <2>8, <2>9 DEF MoveState, Running
  <2>11. ~On("erase", None)'
    <3>1. Loop["erase"] = 8 /\ Loop["create"] = 1
      BY DEF Loop
    <3>2. ~Precedes(<<"erase", None>>, <<"create", None>>)
      BY <3>1 DEF Precedes
    <3>. QED  BY <2>7, <3>2 DEF On, IsNext, Left
  <2>12. ~Unfinished'
    BY <1>1, <1>2, <2>11 DEF Unfinished
  <2>. QED  BY <1>1, <2>10, <2>12, MovedOn
<1>. QED  BY <1>3, <1>4

\* A recovery begins with the calls that the journal and the file ask for.
LEMMA RecoverMoves ==
  ASSUME JobTypes, MoveState, NEW finalizes \in BOOLEAN, Recover(finalizes)
  PROVE  MoveState' /\ Moved
<1>1. ~Runs /\ journal # None /\ job = NoJob /\ UNCHANGED <<cred, record, journal, copy, audited>>
  BY DEF Recover, Runs, NoJob
<1>2. Moved
  BY <1>1, MovedOn DEF Unfinished
<1>3. /\ Resting /\ journal # Torn /\ copy = Origin /\ Matches(journal) /\ (audited = "due" => journal.audit)
      /\ journal \in Journals
  BY <1>1 DEF MoveState, Resting, JobTypes
<1>4. CASE job' = NoJob
  <2>1. ~Runs' /\ job'.kind = "none" /\ Matches(journal)'
    BY <1>1, <1>3, <1>4 DEF NoJob, Runs, Matches, Agree, Empty
  <2>. QED  BY <1>1, <1>2, <1>3, <2>1 DEF MoveState, Resting
<1>5. CASE job' # NoJob
  <2>1. job' = [NoJob EXCEPT !.kind = "recover", !.script = RecoveryScript(journal, finalizes),
                             !.undoes = {"audit"}, !.journal = journal]
    BY <1>5 DEF Recover
  <2>2. Runs' /\ job'.journal = journal /\ job'.script = RecoveryScript(journal, finalizes)
    BY <2>1 DEF NoJob, Runs
  <2>3. Matches(job.journal)'
    BY <1>1, <1>3, <2>2 DEF Matches, Agree, Empty
  <2>4. CASE job'.script = CompleteRollback \cup Cleanup
    <3>1. /\ ~Left("create", None)' /\ Left("forget", None)' /\ job'.script \subseteq Undo
          /\ \A b \in Bindings : Left("back", b)' /\ Left("discard", b)' /\ Left("unbind", b)'
      BY <2>4 DEF Left, Undo, CompleteRollback, Cleanup, Each, Single
    <3>2. Backward' /\ Journaled'
      BY <1>1, <1>3, <2>2, <3>1 DEF Backward, Journaled
    <3>. QED  BY <1>2, <2>2, <2>3, <3>2 DEF MoveState, Running
  <2>5. CASE job'.script = CompleteForward \cup Audit(journal.audit) \cup Cleanup
    <3>1. /\ ~Left("create", None)' /\ Left("forget", None)' /\ job'.script \subseteq RenameScript(TRUE)
          /\ journal.audit => Left("audit", None)'
          /\ \A b \in Bindings : Left("rebind", b)' /\ Left("drop", b)'
      BY <2>5 DEF Left, RenameScript, CompleteForward, Cleanup, Audit, Each, Single
    <3>2. Forward' /\ Journaled'
      BY <1>1, <1>3, <2>2, <3>1 DEF Forward, Journaled
    <3>. QED  BY <1>2, <2>2, <2>3, <3>2 DEF MoveState, Running
  <2>6. CASE job'.script = Single("refuse")
    <3>1. ~Left("create", None)' /\ Left("refuse", None)'
      BY <2>6 DEF Left, Single
    <3>2. Refusing' /\ Journaled'
      BY <1>1, <1>3, <2>2, <2>6, <3>1 DEF Refusing, Journaled
    <3>. QED  BY <1>2, <2>2, <2>3, <3>2 DEF MoveState, Running
  <2>7. \/ RecoveryScript(journal, finalizes) = CompleteRollback \cup Cleanup
        \/ RecoveryScript(journal, finalizes) = CompleteForward \cup Audit(journal.audit) \cup Cleanup
        \/ RecoveryScript(journal, finalizes) = Single("refuse")
    BY Zenon DEF RecoveryScript
  <2>. QED  BY <2>2, <2>4, <2>5, <2>6, <2>7
<1>. QED  BY <1>4, <1>5

\* The journal is created while everything has the old name.
LEMMA CreateJournalMoves ==
  ASSUME JobTypes, MoveState, CreateJournal
  PROVE  MoveState' /\ Moved /\ Forward /\ Forward'
<1>1. /\ Runs /\ Running /\ On("create", None) /\ Left("create", None) /\ UNCHANGED <<cred, record, copy>>
      /\ job' = [job EXCEPT !.script = job.script \ {<<"create", None>>}] /\ journal' = job.journal
      /\ audited' = IF job.journal.audit THEN "due" ELSE "no"
  BY DEF CreateJournal, Advance, On, IsNext, Left, MoveState
<1>2. Forward /\ IsOld /\ Left("forget", None) /\ (job.journal.audit => Left("audit", None)) /\ copy = Origin
  BY <1>1, CreateIsForward DEF Forward, Running, Journaled, Left
<1>3. Runs' /\ job'.script = job.script \ {<<"create", None>>} /\ job'.journal = job.journal
  BY <1>1 DEF JobTypes, Runs
<1>4. /\ ~Left("create", None)'
      /\ \A call, b : call # "create" => (Left(call, b)' <=> Left(call, b))
  BY <1>3 DEF Left
<1>5. Matches(job.journal)'
  BY <1>1, <1>3 DEF Running, Matches, Agree, Empty
<1>6. Journaled'
  BY <1>1, <1>2, <1>3, <1>4 DEF Journaled
<1>7. Forward'
  BY <1>1, <1>2, <1>3, <1>4 DEF Forward
<1>8. Unfinished'
  <2>1. job.journal # None
    BY <1>1, RenameAssumption DEF JobTypes
  <2>. QED  BY <1>1, <2>1 DEF Unfinished
<1>. QED  BY <1>1, <1>2, <1>3, <1>5, <1>6, <1>7, <1>8 DEF MoveState, Running, Moved, Held

\* The calls on the file, and the audit's, move no connection.
LEMMA FileCallsMove ==
  ASSUME JobTypes, MoveState, Replace \/ RestoreSource \/ Replaced \/ RecordAudit
  PROVE  MoveState' /\ Moved /\ Keeps
<1>. DEFINE Calls == {"replace", "restore", "replacing", "restoring", "audit"}
            Making(call) ==
              \/ Advance(call, None)
              \/ call = "replace" /\ Goes("replace", "replacing")
              \/ call = "restore" /\ Goes("restore", "restoring")
<1>1. Runs /\ Running /\ UNCHANGED <<cred, record, journal, copy>>
  BY DEF Replace, RestoreSource, Replaced, RecordAudit, On, MoveState, replacing
<1>2. PICK call \in Calls : On(call, None)
  BY Zenon DEF Replace, RestoreSource, Replaced, RecordAudit
<1>3. Calls \subseteq CallNames \ {"create", "forget", "erase", "refuse"}
  BY DEF CallNames, Loop
<1>4. journal # None
  BY <1>1, <1>2, <1>3, CallJournal
<1>5. Moved
  BY <1>1, <1>4, MovedOn DEF Unfinished
<1>6. \/ \E c \in Calls : On(c, None) /\ Making(c) /\ audited' \in {audited, "yes"} /\ (c = "audit" => audited' = "yes")
      \/ UNCHANGED audited /\ Fail("restore") /\ On("restore", None)
      \/ UNCHANGED audited /\ job' = NoJob
      \/ UNCHANGED audited /\ job' = [job EXCEPT !.script = Undo, !.undoes = {}]
  <2>1. CASE Replace
    BY <2>1 DEF Replace
  <2>2. CASE RestoreSource
    <3>1. /\ Advance("restore", None) \/ Fail("restore") \/ Goes("restore", "restoring")
          /\ On("restore", None) /\ UNCHANGED audited
      BY <2>2, Zenon DEF RestoreSource
    <3>. QED  BY <3>1
  <2>3. CASE Replaced
    <3>1. /\ \/ On("replacing", None) /\ Advance("replacing", None)
             \/ On("restoring", None) /\ Advance("restoring", None)
             \/ job' = NoJob
             \/ job' = [job EXCEPT !.script = Undo, !.undoes = {}]
          /\ UNCHANGED audited
      BY <2>3, Zenon DEF Replaced
    <3>. QED  BY <3>1
  <2>4. CASE RecordAudit
    BY <2>4 DEF RecordAudit
  <2>. QED  BY <2>1, <2>2, <2>3, <2>4
<1>7. ASSUME NEW c \in Calls, On(c, None), Making(c), audited' \in {audited, "yes"}, c = "audit" => audited' = "yes"
      PROVE  MoveState' /\ Keeps
  <2>1. c \in CallNames \ {"create", "forget", "erase", "refuse"} /\ None \in Bindings \cup {None}
    BY <1>3
  <2>2. \/ Advance(c, None)
        \/ None = None /\ c = "replace" /\ Goes("replace", "replacing")
        \/ None = None /\ c = "restore" /\ Goes("restore", "restoring")
    BY <1>7
  <2>3. UNCHANGED <<journal, copy>> /\ audited' \in {audited, "yes"} /\ (c = "audit" => audited' = "yes")
    BY <1>1, <1>7
  <2>4. \A a \in Bindings : Agree(a)' /\ (Empty(a)' <=> Empty(a)) /\ (record'[a] = None <=> record[a] = None)
    BY <1>1 DEF Running, Matches, Agree, Empty
  <2>5. Forward =>
           /\ \A a \in Bindings :
                /\ record[a] # "from" => record'[a] # "from"
                /\ cred[a].from = None => cred'[a].from = None
           /\ c = "rebind" => record'[None] # "from"
           /\ c = "drop" => cred'[None].from = None
    BY <1>1
  <2>6. Backward =>
           /\ \A a \in Bindings :
                /\ record[a] # "to" => record'[a] # "to"
                /\ cred[a].to = None => cred'[a].to = None
                /\ (Left("back", a) => c = "back" /\ a = None) => (Had(a) /\ cred[a].from # None => cred'[a].from # None)
           /\ c = "back" => (Had(None) => cred'[None].from # None)
           /\ c = "discard" => cred'[None].to = None
           /\ c = "unbind" => record'[None] # "to"
    BY <1>1
  <2>. QED  BY <1>1, <1>7, <2>1, <2>2, <2>3, <2>4, <2>5, <2>6, CallMade DEF Keeps
<1>8. CASE UNCHANGED audited /\ Fail("restore") /\ On("restore", None)
  BY <1>1, <1>3, <1>5, <1>8, CallFails
<1>9. CASE UNCHANGED audited /\ job' = NoJob
  BY <1>1, <1>5, <1>9, JobEnds DEF Keeps
<1>10. CASE UNCHANGED audited /\ job' = [job EXCEPT !.script = Undo, !.undoes = {}]
  <2>1. job'.script = Undo
    BY <1>10 DEF JobTypes
  <2>. QED  BY <1>1, <1>4, <1>5, <1>10, <2>1, Undoes DEF Keeps
<1>. QED  BY <1>5, <1>6, <1>7, <1>8, <1>9, <1>10

\* The journal goes, then its copy: what is left then, if anything, is the copy.
LEMMA ForgetMoves ==
  ASSUME JobTypes, MoveState, Forget
  PROVE  MoveState' /\ Moved /\ Keeps
<1>1. Runs /\ Running /\ On("forget", None) /\ UNCHANGED <<cred, record, copy, audited>>
  BY DEF Forget, On, MoveState, replacing
<1>2. ~Left("create", None) /\ Left("forget", None) /\ journal # None
  BY <1>1, NextIsNotCreate, CallJournal DEF CallNames, Loop
<1>3. Moved
  BY <1>1, <1>2, MovedOn DEF Unfinished
<1>4. /\ journal = job.journal /\ copy = Origin /\ (audited = "due" => job.journal.audit) /\ job.journal.source = Origin
  BY <1>1, <1>2, JournalOf DEF Journals
<1>5. journal' = None /\ Advance("forget", None)
  BY <1>4 DEF Forget
<1>6. Runs' /\ job'.script = job.script \ {<<"forget", None>>} /\ job'.journal = job.journal
  BY <1>1, <1>5 DEF Advance, JobTypes, Runs
<1>7. \A c \in job.script : c[1] \in {"forget", "erase", "refuse"}
  BY <1>1, NextForget DEF JobTypes
<1>8. ~Refusing
  BY <1>2 DEF Refusing, Left, Single
<1>9. \A c \in job.script : c \in Cleanup
  BY <1>1, <1>7, <1>8, Directions DEF Running, Forward, Backward
<1>10. job'.script \subseteq Single("erase") /\ \A call, b : Left(call, b)' => call = "erase"
  BY <1>6, <1>9 DEF Cleanup, Single, Left
<1>11. \A call, b : call # "forget" => (Left(call, b)' <=> Left(call, b))
  BY <1>6 DEF Left
<1>12. Matches(job.journal)'
  BY <1>1, <1>6 DEF Running, Matches, Agree, Empty
<1>13. Journaled'
  BY <1>1, <1>4, <1>5, <1>6, <1>10 DEF Journaled
<1>14. ASSUME Forward PROVE Forward'
  BY <1>1, <1>2, <1>6, <1>11, <1>14 DEF Forward
<1>15. ASSUME Backward PROVE Backward'
  BY <1>1, <1>6, <1>11, <1>15 DEF Backward, Had
<1>16. MoveState'
  BY <1>1, <1>6, <1>8, <1>12, <1>13, <1>14, <1>15 DEF MoveState, Running
<1>. QED  BY <1>3, <1>14, <1>15, <1>16 DEF Keeps

\* Erasing the copies ends what the journal ended before.
LEMMA EraseMoves ==
  ASSUME JobTypes, MoveState, Erase
  PROVE  MoveState' /\ Moved /\ Keeps
<1>1. Runs /\ Running /\ On("erase", None) /\ UNCHANGED <<cred, record, audited>>
  BY DEF Erase, On, MoveState
<1>2. ~Left("create", None) /\ Left("erase", None) /\ ~Left("forget", None)
  BY <1>1, NextIsNotCreate, NextErase DEF CallNames, Loop
<1>3. Moved
  BY <1>1, MovedOn DEF Unfinished
<1>4. ~Refusing
  BY <1>2 DEF Refusing, Left, Single
<1>5. ~Left("refuse", None)
  BY <1>1, <1>4, Directions DEF Running, Forward, Backward, Left
<1>6. /\ journal = None /\ job.script \subseteq Single("erase") /\ copy = Origin /\ (audited = "due" => job.journal.audit)
  BY <1>1, <1>2, <1>5 DEF Running, Journaled, Left
<1>7. CASE copy' = None /\ Advance("erase", None) /\ UNCHANGED journal
  <2>1. Runs' /\ job'.script = {} /\ job'.journal = job.journal
    BY <1>1, <1>6, <1>7 DEF Advance, JobTypes, Runs, Single
  <2>2. \A call, b : ~Left(call, b)' /\ (call # "erase" => ~Left(call, b))
    BY <1>6, <2>1 DEF Left, Single
  <2>3. Matches(job.journal)'
    BY <1>1, <2>1 DEF Running, Matches, Agree, Empty
  <2>4. Journaled'
    BY <1>1, <1>6, <1>7, <2>1, <2>2 DEF Journaled
  <2>5. ASSUME Forward PROVE Forward'
    BY <1>1, <2>1, <2>2, <2>5 DEF Forward
  <2>6. ASSUME Backward PROVE Backward'
    BY <1>1, <2>1, <2>2, <2>6 DEF Backward, Had
  <2>7. MoveState'
    BY <1>1, <1>4, <2>1, <2>3, <2>4, <2>5, <2>6 DEF MoveState, Running
  <2>. QED  BY <1>3, <2>5, <2>6, <2>7 DEF Keeps
<1>8. CASE journal' = job.journal /\ job' = NoJob /\ UNCHANGED copy
  <2>1. ~Runs' /\ job'.kind = "none"
    BY <1>8 DEF Runs, NoJob
  <2>2. job.journal \in Journals /\ job.journal # None /\ job.journal # Torn
    BY <1>1, RenameAssumption DEF JobTypes
  <2>3. Matches(journal)'
    BY <1>1, <1>8 DEF Running, Matches, Agree, Empty
  <2>. QED  BY <1>1, <1>3, <1>6, <1>8, <2>1, <2>2, <2>3 DEF MoveState, Resting, Keeps
<1>. QED  BY <1>7, <1>8 DEF Erase

\* A script that finishes, refuses or dies leaves what the journal can resume.
LEMMA EndsMove ==
  ASSUME JobTypes, MoveState, ~TornJournals, Finish \/ Refuse \/ Crash
  PROVE  MoveState' /\ Moved /\ job' = NoJob
<1>1. job' = NoJob /\ UNCHANGED <<cred, record, journal, copy, audited>>
  BY DEF Finish, Refuse, Crash
<1>2. ~Runs'
  BY <1>1 DEF NoJob, Runs
<1>3. Moved
  BY <1>1, <1>2, MovedOn DEF Unfinished, On
<1>4. CASE Runs
  BY <1>1, <1>3, <1>4, JobEnds DEF MoveState
<1>5. CASE ~Runs
  <2>1. job'.kind = "none" /\ (journal # None => Matches(journal)')
    BY <1>1, <1>5 DEF NoJob, MoveState, Resting, Matches, Agree, Empty
  <2>. QED  BY <1>1, <1>2, <1>3, <1>5, <2>1 DEF MoveState, Resting, Whole, IsOld, IsNew
<1>. QED  BY <1>1, <1>4, <1>5

\* A call that fails turns the script round; what it undoes is what was done.
LEMMA FailingCallsMove ==
  ASSUME JobTypes, MoveState, NEW c \in job.script, FailCall(c)
  PROVE  MoveState' /\ Moved /\ Keeps
<1>1. Runs /\ Running /\ UNCHANGED <<cred, record, journal, audited>> /\ c \in Steps
  BY DEF FailCall, MoveState, JobTypes
<1>2. PICK call \in CallNames, b \in Bindings \cup {None} : c = <<call, b>>
  BY <1>1 DEF Steps
<1>3. On(call, b) /\ c[1] = call
  BY <1>2 DEF FailCall, On
<1>4. CASE call = "create"
  <2>1. job' = NoJob
    BY <1>3, <1>4 DEF FailCall
  <2>2. b = None /\ Left("create", None)
    <3>1. ~Backward /\ ~Refusing
      BY <1>2, <1>4, Directions DEF Backward, Refusing, Single
    <3>2. c \in RenameScript(TRUE) \cup Single("replacing")
      BY <1>1, <3>1 DEF Running, Forward
    <3>3. c = <<"create", None>>
      BY <1>2, <1>4, <3>2 DEF RenameScript, CompleteForward, Audit, Cleanup, Each, Single
    <3>. QED  BY <1>2, <3>3 DEF Left
  <2>3. journal = None /\ ~Runs'
    BY <1>1, <2>1, <2>2, CreateIsForward DEF NoJob, Runs
  <2>4. ~Unfinished'
    BY <1>1, <2>3 DEF Unfinished, On
  <2>. QED  BY <1>1, <2>1, <2>3, <2>4, JobEnds, MovedOn DEF Keeps
<1>5. CASE call # "create"
  <2>1. Fail(call) /\ UNCHANGED copy
    BY <1>3, <1>5 DEF FailCall
  <2>2. Unfinished
    <3>1. CASE call = "erase"
      <4>1. ~Refusing
        BY <1>2, <3>1 DEF Refusing, Single
      <4>2. b = None
        BY <1>1, <1>2, <3>1, <4>1, Directions DEF Running, Forward, Backward
      <4>. QED  BY <1>3, <3>1, <4>2 DEF Unfinished
    <3>2. CASE call # "erase"
      BY <1>1, <1>3, <1>5, <3>2, CallJournal DEF Unfinished
    <3>. QED  BY <3>1, <3>2
  <2>3. MoveState' /\ Keeps
    BY <1>1, <1>3, <1>5, <2>1, CallFails
  <2>. QED  BY <1>1, <2>2, <2>3, MovedOn
<1>. QED  BY <1>4, <1>5

\* Other writers move no connection.
LEMMA OthersMove ==
  ASSUME JobTypes, MoveState, UNCHANGED rename
  PROVE  MoveState' /\ Moved
<1>1. UNCHANGED <<cred, record, journal, copy, job, audited>>
  BY DEF rename
<1>2. MoveState'
  BY <1>1 DEF MoveState, Running, Resting, Runs, Matches, Agree, Empty, Journaled, Forward, Backward, Refusing,
              Left, Whole, IsOld, IsNew, Had
<1>3. Unfinished' = Unfinished
  BY <1>1 DEF Unfinished, On, Runs, IsNext
<1>. QED  BY <1>1, <1>2, <1>3, MovedOn

\* While no rename is unfinished, all is under one name, and audited if that is the new one.
LEMMA FinishedIsWhole == JobTypes /\ MoveState /\ ~Unfinished => Whole
<1>. SUFFICES ASSUME JobTypes, MoveState, ~Unfinished
              PROVE  Whole
  OBVIOUS
<1>1. journal = None
  BY DEF Unfinished
<1>. QED  BY <1>1, EndsWhole DEF MoveState, Resting

\* Without a journal, all connections have one name, after the step as well.
LEMMA FinishedIsWholeNext == JobTypes' /\ MoveState' /\ ~Unfinished' => Whole'
BY FinishedIsWhole, PTL

\* What the connections are to whoever asks for them.
Name == IF Unfinished THEN "moving" ELSE IF IsOld THEN "old" ELSE IF IsNew THEN "new" ELSE "torn"
HeldBy == [b \in Bindings |-> Held(b)]

\* A step that moves connections as one is a step of the abstract move.
LEMMA MovedIsMove ==
  ASSUME JobTypes, MoveState, JobTypes', MoveState', Moved
  PROVE  [Connections!CNext]_<<Name, HeldBy>>
<1>1. HeldBy' = HeldBy
  BY DEF Moved, HeldBy
<1>2. ~Unfinished' => Name' \in {"old", "new"}
  <2>1. ~Unfinished' => Whole'
    BY FinishedIsWholeNext
  <2>. QED  BY <2>1 DEF Name, Whole
<1>3. CASE Unfinished
  <2>1. Name = "moving" /\ (Unfinished' => Name' = "moving")
    BY <1>3 DEF Name
  <2>. QED  BY <1>1, <1>2, <2>1 DEF Connections!CNext, Connections!Arrive, Connections!Return, Name, HeldBy, Held
<1>4. CASE ~Unfinished /\ IsOld /\ Unfinished'
  <2>1. Name = "old" /\ Name' = "moving"
    BY <1>4 DEF Name
  <2>. QED  BY <1>1, <2>1 DEF Connections!CNext, Connections!Start, Name, HeldBy, Held
<1>5. CASE ~Unfinished /\ ~Unfinished' /\ UNCHANGED <<cred, record>>
  <2>1. Name' = Name
    BY <1>5 DEF Name, IsOld, IsNew
  <2>. QED  BY <1>1, <2>1
<1>. QED  BY <1>3, <1>4, <1>5 DEF Moved

\* A runtime refreshes the credential of the name in force.
LEMMA RefreshMoves ==
  ASSUME JobTypes, MoveState, ~StaleRuntimes, NEW b \in Bindings, NEW side \in {"from", "to"}, Refresh(b, side)
  PROVE  /\ MoveState' /\ [Connections!CNext]_<<Name, HeldBy>>
         /\ (IsOld' <=> IsOld) /\ (IsNew' <=> IsNew)
<1>1. /\ ~Runs /\ ~Runs' /\ journal = None /\ cred[b][side] # None
      /\ UNCHANGED <<record, journal, copy, job, audited>>
  BY DEF Refresh, Runs
<1>2. ~Unfinished /\ ~Unfinished' /\ Whole
  BY <1>1 DEF Unfinished, On, MoveState, Resting
<1>3. PICK c \in Credentials : cred' = [cred EXCEPT ![b] = Saved(b, side, c)]
  BY DEF Refresh
<1>4. cred \in [Bindings -> Creds] /\ cred[b] \in Creds /\ c # None /\ None \notin Credentials
  BY RenameAssumption DEF JobTypes
<1>5. /\ Saved(b, side, c)[side] = c
      /\ side = "from" => Saved(b, side, c).to = cred[b].to
      /\ side = "to" => Saved(b, side, c).from = cred[b].from
  BY <1>4 DEF Saved, Creds
<1>6. cred'[b] = Saved(b, side, c) /\ \A a \in Bindings : a # b => cred'[a] = cred[a]
  BY <1>3, <1>4
<1>7. side = "from" \/ side = "to"
  OBVIOUS
<1>8. (IsOld' <=> IsOld) /\ (IsNew' <=> IsNew)
  <2>1. CASE side = "from"
    <3>1. cred'[b].from # None /\ cred[b].from # None /\ cred'[b].to = cred[b].to
      BY <1>1, <1>4, <1>5, <1>6, <2>1
    <3>. QED  BY <1>1, <1>6, <3>1 DEF IsOld, IsNew
  <2>2. CASE side = "to"
    <3>1. cred'[b].to # None /\ cred[b].to # None /\ cred'[b].from = cred[b].from
      BY <1>1, <1>4, <1>5, <1>6, <2>2
    <3>. QED  BY <1>1, <1>6, <3>1 DEF IsOld, IsNew
  <2>. QED  BY <1>7, <2>1, <2>2
<1>9. MoveState'
  BY <1>1, <1>2, <1>8 DEF MoveState, Resting, Whole
<1>10. Name' = Name /\ Name # "moving"
  BY <1>2, <1>8 DEF Name
<1>11. Held(b) # None /\ Held(b)' = c
  <2>1. CASE side = "from"
    <3>1. cred'[b].from = c /\ cred[b].from # None
      BY <1>1, <1>5, <1>6, <2>1
    <3>. QED  BY <1>4, <3>1 DEF Held
  <2>2. CASE side = "to"
    <3>1. cred'[b].to = c /\ cred[b].to # None /\ cred'[b].from = cred[b].from
      BY <1>1, <1>5, <1>6, <2>2
    <3>2. cred[b].from = None
      BY <1>2, <3>1 DEF Whole, IsOld, IsNew
    <3>. QED  BY <3>1, <3>2 DEF Held
  <2>. QED  BY <1>7, <2>1, <2>2
<1>12. \A a \in Bindings : a # b => Held(a)' = Held(a)
  BY <1>6 DEF Held
<1>13. HeldBy[b] # None /\ HeldBy' = [HeldBy EXCEPT ![b] = c]
  BY <1>11, <1>12 DEF HeldBy
<1>14. Connections!CNext
  BY <1>10, <1>13 DEF Connections!CNext, Connections!Renew, Name, HeldBy, Held
<1>. QED  BY <1>8, <1>9, <1>14

\* Every step of the rename keeps the state of the move and is a step of the abstract one.
LEMMA MoveNext ==
  ASSUME JobTypes, JobTypes', MoveState, ~TornJournals, ~StaleRuntimes, [Next]_vars
  PROVE  MoveState' /\ [Connections!CNext]_<<Name, HeldBy>>
<1>1. CASE UNCHANGED vars
  <2>1. UNCHANGED rename
    BY <1>1 DEF vars
  <2>. QED  BY <2>1, OthersMove, MovedIsMove
<1>2. CASE Read
  BY <1>2, ReadMoves, MovedIsMove
<1>3. CASE \E answer \in BOOLEAN : Capture(answer) \/ Recover(answer)
  BY <1>3, CaptureMoves, RecoverMoves, MovedIsMove
<1>4. CASE RenameStep
  <2>1. CASE CreateJournal \/ Forget \/ Erase
    BY <2>1, CreateJournalMoves, ForgetMoves, EraseMoves, MovedIsMove
  <2>2. CASE Replace \/ RestoreSource \/ Replaced \/ RecordAudit
    BY <2>2, FileCallsMove, MovedIsMove
  <2>3. CASE \E b \in Bindings : Prepare(b) \/ Carry(b) \/ Drop(b) \/ GiveBack(b) \/ Discard(b) \/ Rebind(b) \/ Unbind(b)
    <3>1. PICK b \in Bindings : Prepare(b) \/ Carry(b) \/ Drop(b) \/ GiveBack(b) \/ Discard(b) \/ Rebind(b) \/ Unbind(b)
      BY <2>3
    <3>2. MoveState' /\ journal # None /\ \A a \in Bindings : Held(a)' = Held(a)
      <4>1. CASE Prepare(b) \/ Carry(b) \/ Drop(b)
        BY <4>1, ForwardMoves
      <4>2. CASE GiveBack(b) \/ Discard(b)
        BY <4>2, BackwardMoves
      <4>3. CASE Rebind(b) \/ Unbind(b)
        BY <4>3, RecordMoves DEF Held
      <4>. QED  BY <3>1, <4>1, <4>2, <4>3
    <3>3. Moved
      BY <3>2 DEF Moved, Unfinished
    <3>. QED  BY <3>2, <3>3, MovedIsMove
  <2>4. CASE Refuse \/ Finish
    BY <2>4, EndsMove, MovedIsMove
  <2>5. CASE \E c \in job.script : FailCall(c)
    BY <2>5, FailingCallsMove, MovedIsMove
  <2>. QED  BY <1>4, <2>1, <2>2, <2>3, <2>4, <2>5, Zenon DEF RenameStep
<1>5. CASE Crash
  BY <1>5, EndsMove, MovedIsMove
<1>6. CASE Replacement \/ (Editor /\ UNCHANGED rename)
  <2>1. UNCHANGED rename
    BY <1>6 DEF Replacement
  <2>. QED  BY <2>1, OthersMove, MovedIsMove
<1>7. CASE \E b \in Bindings, side \in {"from", "to"} : Refresh(b, side)
  BY <1>7, RefreshMoves
<1>. QED  BY <1>1, <1>2, <1>3, <1>4, <1>5, <1>6, <1>7 DEF Next

\* At first everything has the old name.
LEMMA MoveInit ==
  ASSUME Init
  PROVE  MoveState /\ Connections!CInit
<1>1. PICK had \in [Bindings -> BOOLEAN], bound \in [Bindings -> BOOLEAN] :
        /\ \A b \in Bindings : had[b] => bound[b]
        /\ cred = [b \in Bindings |->
             [from |-> IF had[b] THEN CHOOSE c \in Credentials : TRUE ELSE None, to |-> None]]
        /\ record = [b \in Bindings |-> IF bound[b] THEN "from" ELSE None]
  BY DEF Init
<1>2. /\ (CHOOSE c \in Credentials : TRUE) \in Credentials /\ None \notin {"from", "to"}
  BY RenameAssumption
<1>3. \A b \in Bindings : /\ cred[b].to = None /\ cred[b].from \in Credentials \cup {None}
                          /\ record[b] # "to"
  BY <1>1, <1>2
<1>4. ~Runs /\ journal = None
  BY DEF Init, NoJob, Runs
<1>5. IsOld /\ ~Unfinished
  BY <1>3, <1>4 DEF IsOld, Unfinished, On
<1>6. MoveState
  BY <1>4, <1>5 DEF MoveState, Resting, Whole
<1>7. Name = "old" /\ HeldBy \in [Bindings -> Credentials \cup {None}]
  BY <1>3, <1>5 DEF Name, HeldBy, Held
<1>. QED  BY <1>6, <1>7 DEF Connections!CInit, Name, HeldBy, Held

-----------------------------------------------------------------------------
(* What holds of the connections.                                          *)

RenameInv == FileInv /\ MoveState

\* The three facts of an inductive invariant and a refinement, for the two theorems.
LEMMA RenameKept ==
  ASSUME ~TornJournals, ~StaleRuntimes
  PROVE  /\ Init => RenameInv /\ Connections!CInit
         /\ RenameInv /\ [Next]_vars => RenameInv'
         /\ RenameInv /\ [Next]_vars => [Connections!CNext]_<<Name, HeldBy>>
<1>1. Init => RenameInv /\ Connections!CInit
  BY FileInit, MoveInit DEF RenameInv
<1>2. ASSUME RenameInv, [Next]_vars PROVE RenameInv' /\ [Connections!CNext]_<<Name, HeldBy>>
  <2>1. FileInv' /\ JobTypes /\ JobTypes'
    BY <1>2, FileNext DEF RenameInv, FileInv
  <2>. QED  BY <1>2, <2>1, MoveNext DEF RenameInv
<1>. QED  BY <1>1, <1>2

\* Whatever fails, dies and is recovered, while no rename is unfinished all the credentials and
\* records are on one side, none was exchanged, and only a refresh changed one
\* (profile-rename-transaction.ts).
THEOREM MovesAreAtomic ==
  ASSUME ~TornJournals, ~StaleRuntimes
  PROVE  Spec => ImplementsMove
<1>1. Init => RenameInv /\ Connections!CInit
  BY RenameKept
<1>2. RenameInv /\ [Next]_vars => RenameInv' /\ [Connections!CNext]_<<Name, HeldBy>>
  BY RenameKept
<1>. QED  BY <1>1, <1>2, PTL DEF Spec, ImplementsMove, Connections!CSpec, Name, HeldBy, Held

\* The next recovery can finish or undo what a journal tells of: its copy is there, and no
\* check of either direction will refuse (completeBindings, rollbackBindings).
THEOREM RecoveryCanWork ==
  ASSUME ~TornJournals, ~StaleRuntimes
  PROVE  Spec => []RecoveryWorks
<1>1. Init => RenameInv
  BY RenameKept
<1>2. RenameInv /\ [Next]_vars => RenameInv'
  BY RenameKept
<1>3. RenameInv => RecoveryWorks
  <2>. SUFFICES ASSUME RenameInv, journal # None, job.kind = "none"
                PROVE  /\ journal # Torn /\ copy = journal.source
                       /\ \A b \in Bindings :
                            /\ Agree(b)
                            /\ journal.had[b] <=> ~Empty(b)
                            /\ record[b] = None <=> journal.bound[b] = None
    BY DEF RecoveryWorks
  <2>1. journal # Torn /\ copy = Origin /\ Matches(journal)
    BY DEF RenameInv, MoveState, Resting, Runs
  <2>2. journal.source = Origin
    BY <2>1 DEF RenameInv, FileInv, JobTypes, Journals
  <2>. QED  BY <2>1, <2>2 DEF Matches
<1>. QED  BY <1>1, <1>2, <1>3, PTL DEF Spec

-----------------------------------------------------------------------------
(* The configuration and the connections, while nobody else has written    *)
(* the file.                                                               *)

Undisturbed == unused = Texts \ {Origin, Target}
Renaming == ~At(Renamer, "idle")

\* Where a script stands with the file: before its replacement, at it, or after it.
Ahead ==
  /\ Forward
  /\ Left("create", None) => Left("replace", None)
  /\ IF Left("replacing", None)
     THEN /\ ~Left("replace", None)
          /\ IF Renaming THEN tx[Renamer].goal = Target ELSE tx[Renamer].out = "ok" => Current = Target
     ELSE Current = IF Left("replace", None) THEN Origin ELSE Target
Behind ==
  Backward /\ (Left("restore", None) \/ Left("restoring", None) \/ Current = Origin)

FileAgrees ==
  /\ \A w \in Writers \ {Renamer} : At(w, "idle")
  /\ Renaming => /\ On("replacing", None) \/ On("restoring", None)
                 /\ tx[Renamer].out # "ok"
                 /\ tx[Renamer].pc \in Installed => Current = tx[Renamer].goal
  /\ IF Runs THEN Ahead \/ Behind \/ Refusing
     ELSE /\ job.kind = "planned" => Current = Origin
          /\ journal = None /\ path # None => IF Current = Target THEN IsNew ELSE IsOld
SideInv == Undisturbed => FileAgrees

\* Nobody else is in a replacement; the renamer's own is what the script waits for.
LEMMA NextIsReplaced ==
  ASSUME JobTypes, Runs, FileAgrees, NEW call \in CallNames \ {"replace", "replacing", "restore", "restoring"}, NEW b, On(call, b)
  PROVE  ~Renaming
<1>1. /\ Loop["replacing"] = 3 /\ Loop["restoring"] = 3 /\ Loop[call] \in Nat /\ Loop[call] # 3
  BY DEF Loop, CallNames
<1>2. ASSUME NEW other \in {"replacing", "restoring"}, On(other, None) PROVE FALSE
  <2>1. <<call, b>> # <<other, None>>
    BY <1>1
  <2>2. Precedes(<<call, b>>, <<other, None>>) /\ Precedes(<<other, None>>, <<call, b>>)
    BY <1>2, <2>1 DEF On, IsNext
  <2>3. Loop[other] = 3
    BY <1>1
  <2>. QED  BY <1>1, <2>2, <2>3 DEF Precedes
<1>. QED  BY <1>2 DEF FileAgrees

\* Without a journal the file names what the connections are named.
LEMMA EndsAgree ==
  ASSUME JobTypes, Runs, Running, FileAgrees, journal = None, path # None
  PROVE  IF Current = Target THEN IsNew ELSE IsOld
<1>1. CASE Left("create", None)
  <2>1. Forward /\ IsOld
    BY <1>1, CreateIsForward
  <2>2. ~Backward /\ ~Refusing
    BY <1>1, Directions DEF Backward, Refusing, Left, Single
  <2>3. Left("replace", None) /\ Current = Origin
    BY <1>1, <2>2 DEF FileAgrees, Ahead, Behind
  <2>. QED  BY <2>1, <2>3, Distinct
<1>2. CASE ~Left("create", None)
  <2>1. job.journal # None
    BY RenameAssumption DEF JobTypes
  <2>2. job.script \subseteq Single("erase")
    BY <1>2, <2>1 DEF Running, Journaled
  <2>3. \A call, b : Left(call, b) => call = "erase"
    BY <2>2 DEF Left, Single
  <2>4. CASE Ahead
    <3>1. Current = Target
      BY <2>3, <2>4 DEF Ahead
    <3>2. IsNew
      BY <2>3, <2>4, Zenon DEF Ahead, Forward, IsNew
    <3>. QED  BY <3>1, <3>2
  <2>5. CASE Behind
    <3>1. Current = Origin
      BY <2>3, <2>5 DEF Behind
    <3>2. IsOld
      BY <2>3, <2>5, Zenon DEF Behind, Backward, IsOld
    <3>. QED  BY <3>1, <3>2, Distinct
  <2>6. ~Refusing
    BY <2>3 DEF Refusing, Left, Single
  <2>. QED  BY <2>4, <2>5, <2>6 DEF FileAgrees
<1>. QED  BY <1>1, <1>2

\* A call of the job that has nothing to do with the file.
LEMMA JobAgrees ==
  ASSUME JobTypes, Runs, MoveState, MoveState', FileAgrees, UNCHANGED <<path, text, tx>>, ~Renaming,
         \/ job' = NoJob /\ (journal' # None \/ UNCHANGED <<cred, record, journal>>)
         \/ job'.script = Undo /\ Runs'
         \/ /\ Runs' /\ (Forward => Forward') /\ (Backward => Backward') /\ (Refusing => Refusing')
            /\ \A call \in {"replace", "replacing", "restore", "restoring"} : Left(call, None)' = Left(call, None)
            /\ Left("create", None)' => Left("create", None)
  PROVE  FileAgrees'
<1>1. /\ Running /\ ~Renaming' /\ Current' = Current /\ tx' = tx /\ path' = path
      /\ \A w \in Writers \ {Renamer} : At(w, "idle")'
  BY DEF MoveState, Renaming, Current, FileAgrees, At
<1>2. CASE job' = NoJob /\ (journal' # None \/ UNCHANGED <<cred, record, journal>>)
  <2>1. ~Runs' /\ job'.kind = "none"
    BY <1>2 DEF NoJob, Runs
  <2>2. journal' = None /\ path' # None => IF Current' = Target THEN IsNew' ELSE IsOld'
    <3>1. CASE journal' # None
      BY <3>1
    <3>2. CASE journal' = None /\ path' # None
      <4>1. IF Current = Target THEN IsNew ELSE IsOld
        BY <1>1, <1>2, <3>2, EndsAgree
      <4>. QED  BY <1>1, <1>2, <3>2, <4>1 DEF IsNew, IsOld
    <3>. QED  BY <3>1, <3>2
  <2>. QED  BY <1>1, <2>1, <2>2 DEF FileAgrees
<1>3. CASE job'.script = Undo /\ Runs'
  <2>1. Left("restore", None)' /\ ~Forward' /\ ~Refusing'
    BY <1>3, Directions DEF Left, Undo, Single, Forward, Refusing
  <2>2. Backward'
    BY <1>3, <2>1 DEF MoveState, Running
  <2>. QED  BY <1>1, <1>3, <2>1, <2>2 DEF FileAgrees, Behind
<1>4. CASE /\ Runs' /\ (Forward => Forward') /\ (Backward => Backward') /\ (Refusing => Refusing')
           /\ \A call \in {"replace", "replacing", "restore", "restoring"} : Left(call, None)' = Left(call, None)
           /\ Left("create", None)' => Left("create", None)
  <2>1. Ahead => Ahead'
    BY <1>1, <1>4 DEF Ahead
  <2>2. Behind => Behind'
    BY <1>1, <1>4 DEF Behind
  <2>. QED  BY <1>1, <1>4, <2>1, <2>2 DEF FileAgrees
<1>. QED  BY <1>2, <1>3, <1>4

\* The calls that replace or restore the file.
FileCalls == {"replace", "replacing", "restore", "restoring"}

\* A call that touches no file goes on as the file says,
LEMMA AdvanceAgrees ==
  ASSUME JobTypes, Runs, MoveState, MoveState', FileAgrees, UNCHANGED <<path, text, tx>>,
         NEW call \in CallNames \ (FileCalls \cup {"refuse"}), NEW b, On(call, b), Advance(call, b), Keeps
  PROVE  FileAgrees'
<1>1. ~Renaming
  BY NextIsReplaced DEF FileCalls
<1>2. job' = [job EXCEPT !.script = job.script \ {<<call, b>>}]
  BY DEF Advance
<1>3. Runs' /\ job'.script = job.script \ {<<call, b>>} /\ job'.kind # "none"
  BY <1>2 DEF JobTypes, Runs
<1>4. /\ \A other \in FileCalls : Left(other, None)' = Left(other, None)
      /\ Left("create", None)' => Left("create", None)
  BY <1>3 DEF Left, FileCalls
<1>5. ~Refusing
  BY DEF Refusing, On, IsNext, Single
<1>6. job' # NoJob
  BY <1>3 DEF NoJob
<1>. QED  BY <1>1, <1>3, <1>4, <1>5, <1>6, JobAgrees DEF Keeps, FileCalls

\* and a script that fails or ends there does too.
LEMMA FailAgrees ==
  ASSUME JobTypes, Runs, MoveState, MoveState', FileAgrees, UNCHANGED <<path, text, tx>>, ~Renaming,
         job' = NoJob \/ (\E call : Fail(call)), journal' # None \/ UNCHANGED <<cred, record, journal>>
  PROVE  FileAgrees'
<1>1. CASE job' = NoJob
  BY <1>1, JobAgrees
<1>2. CASE job' = [job EXCEPT !.kind = "recover", !.script = Undo, !.undoes = {}]
  <2>1. job'.script = Undo /\ Runs'
    BY <1>2 DEF JobTypes, Runs
  <2>. QED  BY <2>1, JobAgrees
<1>. QED  BY <1>1, <1>2 DEF Fail

\* Calls on a binding agree with the file,
LEMMA BindingAgrees ==
  ASSUME JobTypes, MoveState, FileAgrees, NEW b \in Bindings,
         Prepare(b) \/ Carry(b) \/ Drop(b) \/ GiveBack(b) \/ Discard(b) \/ Rebind(b) \/ Unbind(b)
  PROVE  FileAgrees'
<1>. DEFINE Calls == {"prepare", "carry", "drop", "back", "discard", "rebind", "unbind"}
<1>1. MoveState' /\ Keeps /\ journal # None /\ UNCHANGED <<path, text, tx, journal>>
  <2>1. MoveState' /\ Keeps /\ journal # None
    BY ForwardMoves, BackwardMoves, RecordMoves
  <2>. QED  BY <2>1, BindingTypes DEF replacing
<1>2. PICK call \in Calls : On(call, b) /\ (Advance(call, b) \/ Fail(call))
  BY Zenon DEF Prepare, Carry, Drop, GiveBack, Discard, Rebind, Unbind, Vault
<1>3. Calls \subseteq CallNames \ (FileCalls \cup {"refuse"})
  BY DEF CallNames, Loop, FileCalls
<1>4. Runs
  BY <1>2 DEF On
<1>5. CASE Advance(call, b)
  BY <1>1, <1>2, <1>3, <1>4, <1>5, AdvanceAgrees
<1>6. CASE Fail(call)
  <2>1. ~Renaming
    BY <1>2, <1>3, <1>4, NextIsReplaced DEF FileCalls
  <2>. QED  BY <1>1, <1>4, <1>6, <2>1, FailAgrees
<1>. QED  BY <1>2, <1>5, <1>6

\* and so do the calls on the journal, whether they succeed or fail.
LEMMA JournalAgrees ==
  ASSUME JobTypes, MoveState, FileAgrees, ~TornJournals,
         \/ CreateJournal \/ RecordAudit \/ Forget \/ Erase \/ Refuse \/ Finish
         \/ \E c \in job.script : FailCall(c)
  PROVE  FileAgrees'
<1>1. Runs /\ UNCHANGED <<path, text, tx>>
  BY DEF CreateJournal, RecordAudit, Forget, Erase, Refuse, Finish, FailCall, On, Quiet, files, replacing
<1>2. {"create", "audit", "forget", "erase"} \subseteq CallNames \ (FileCalls \cup {"refuse"})
  BY DEF CallNames, Loop, FileCalls
<1>3. CASE CreateJournal
  <2>1. MoveState' /\ Forward /\ Forward' /\ On("create", None) /\ Advance("create", None)
    BY <1>3, CreateJournalMoves DEF CreateJournal
  <2>2. ~Backward
    BY <2>1, Directions DEF Backward, On, IsNext
  <2>3. Keeps
    BY <2>1, <2>2 DEF Keeps
  <2>. QED  BY <1>1, <1>2, <2>1, <2>3, AdvanceAgrees
<1>4. CASE RecordAudit
  <2>1. MoveState' /\ Keeps /\ On("audit", None) /\ Advance("audit", None)
    BY <1>4, FileCallsMove DEF RecordAudit
  <2>. QED  BY <1>1, <1>2, <2>1, AdvanceAgrees
<1>5. CASE Forget
  <2>1. MoveState' /\ Keeps /\ On("forget", None)
    BY <1>5, ForgetMoves DEF Forget
  <2>2. CASE Advance("forget", None)
    BY <1>1, <1>2, <2>1, <2>2, AdvanceAgrees
  <2>3. CASE Fail("forget") /\ UNCHANGED journal
    <3>1. ~Renaming /\ UNCHANGED <<cred, record, journal>>
      BY <1>1, <1>2, <1>5, <2>1, <2>3, NextIsReplaced DEF FileCalls, Forget
    <3>. QED  BY <1>1, <2>1, <2>3, <3>1, FailAgrees
  <2>. QED  BY <1>5, <2>2, <2>3 DEF Forget
<1>6. CASE Erase
  <2>1. MoveState' /\ Keeps /\ On("erase", None)
    BY <1>6, EraseMoves DEF Erase
  <2>2. CASE Advance("erase", None)
    BY <1>1, <1>2, <2>1, <2>2, AdvanceAgrees
  <2>3. CASE job' = NoJob /\ journal' = job.journal
    <3>1. ~Renaming /\ journal' # None
      BY <1>1, <1>2, <2>1, <2>3, NextIsReplaced, RenameAssumption DEF FileCalls, JobTypes
    <3>. QED  BY <1>1, <2>1, <2>3, <3>1, FailAgrees
  <2>. QED  BY <1>6, <2>2, <2>3 DEF Erase
<1>7. CASE Refuse
  <2>1. MoveState' /\ job' = NoJob /\ On("refuse", None) /\ UNCHANGED <<cred, record, journal>>
    BY <1>7, EndsMove DEF Refuse
  <2>2. "refuse" \in CallNames \ FileCalls
    BY DEF CallNames, Loop, FileCalls
  <2>3. ~Renaming
    BY <1>1, <2>1, <2>2, NextIsReplaced DEF FileCalls
  <2>. QED  BY <1>1, <2>1, <2>3, FailAgrees
<1>8. CASE Finish
  <2>1. MoveState' /\ job' = NoJob /\ job.script = {} /\ UNCHANGED <<cred, record, journal>>
    BY <1>8, EndsMove DEF Finish
  <2>2. ~Renaming
    BY <2>1 DEF FileAgrees, On, IsNext
  <2>. QED  BY <1>1, <2>1, <2>2, FailAgrees
<1>9. ASSUME NEW c \in job.script, FailCall(c) PROVE FileAgrees'
  <2>1. MoveState' /\ ~Renaming /\ (job' = NoJob \/ Fail(c[1])) /\ UNCHANGED <<cred, record, journal>>
    BY <1>9, FailingCallsMove DEF FailCall, Renaming, At
  <2>. QED  BY <1>1, <2>1, FailAgrees
<1>. QED  BY <1>3, <1>4, <1>5, <1>6, <1>7, <1>8, <1>9

\* The calls on the file.
LEMMA ReplaceAgrees ==
  ASSUME FileInv, MoveState, FileAgrees, Replace
  PROVE  FileAgrees'
<1>1. /\ Runs /\ On("replace", None) /\ At(Renamer, "idle") /\ UNCHANGED <<path, text>>
      /\ Begin(Renamer, job.source, Target, TRUE) /\ Goes("replace", "replacing")
  BY DEF Replace, On, At, files
<1>2. JobTypes /\ MoveState' /\ Keeps /\ tx \in [Writers -> Replacements] /\ Renamer \in Writers
  BY FileCallsMove, Distinct DEF FileInv, FileTypes
<1>3. ~Backward
  BY <1>1, DirectionOf
<1>4. Forward /\ ~Left("create", None)
  <2>1. ~Refusing
    BY <1>1 DEF Refusing, On, IsNext, Single
  <2>2. "replace" \in CallNames \ {"create"}
    BY DEF CallNames, Loop
  <2>. QED  BY <1>1, <1>3, <2>1, <2>2, NextIsNotCreate DEF MoveState, Running
<1>5. /\ job' = [job EXCEPT !.script = (job.script \ Single("replace")) \cup Single("replacing")]
      /\ job'.script = (job.script \ Single("replace")) \cup Single("replacing") /\ Runs' /\ job'.kind # "none"
  BY <1>1, <1>2 DEF Goes, JobTypes, Runs
<1>6. /\ Left("replacing", None)' /\ ~Left("replace", None)' /\ ~Left("create", None)'
  BY <1>4, <1>5 DEF Left, Single
<1>7. Forward'
  <2>1. job' # NoJob /\ job'.script # Undo
    <3>1. <<"replacing", None>> \notin Undo
      BY Directions
    <3>. QED  BY <1>5, <1>6, <3>1 DEF NoJob, Left
  <2>. QED  BY <1>2, <1>4, <2>1 DEF Keeps
<1>8. /\ tx'[Renamer].pc = "check" /\ tx'[Renamer].goal = Target /\ tx'[Renamer].out = None
      /\ \A w \in Writers \ {Renamer} : tx'[w] = tx[w]
  BY <1>1, <1>2 DEF Begin, Idle
<1>9. On("replacing", None)'
  <2>1. ASSUME NEW d \in job'.script \ {<<"replacing", None>>} PROVE Precedes(<<"replacing", None>>, d)
    <3>1. d \in job.script /\ d # <<"replace", None>>
      BY <1>5, <2>1 DEF Single
    <3>2. Precedes(<<"replace", None>>, d)
      BY <1>1, <3>1 DEF On, IsNext
    <3>3. d \in RenameScript(TRUE) /\ d[1] \in CallNames
      BY <1>4, <2>1, <3>1, <1>2 DEF Forward, Single, JobTypes, Steps
    <3>4. Loop["replace"] = 3 /\ Loop["replacing"] = 3
      BY DEF Loop
    <3>5. Loop[d[1]] # 3
      <4>1. d[1] \in {"create", "prepare", "replace", "carry", "rebind", "drop", "audit", "forget", "erase"}
        BY <3>3 DEF RenameScript, CompleteForward, Audit, Cleanup, Each, Single
      <4>2. d[1] = "replace" => d = <<"replace", None>>
        BY <3>3 DEF RenameScript, CompleteForward, Audit, Cleanup, Each, Single
      <4>. QED  BY <3>1, <4>1, <4>2 DEF Loop
    <3>. QED  BY <3>2, <3>4, <3>5 DEF Precedes
  <2>. QED  BY <1>5, <1>6, <2>1 DEF On, IsNext, Left
<1>10. Ahead'
  BY <1>6, <1>7, <1>8 DEF Ahead, Renaming, At
<1>11. tx'[Renamer].out # "ok" /\ tx'[Renamer].pc \notin Installed
  BY <1>8, RenameAssumption DEF Installed
<1>12. \A w \in Writers \ {Renamer} : At(w, "idle")'
  BY <1>8 DEF FileAgrees, At
<1>. QED  BY <1>5, <1>9, <1>10, <1>11, <1>12 DEF FileAgrees

\* A restoration begins only when the file has the new text, and has the old one as its goal.
LEMMA RestoreAgrees ==
  ASSUME FileInv, MoveState, FileAgrees, RestoreSource
  PROVE  FileAgrees'
<1>1. /\ Runs /\ On("restore", None) /\ ~Renaming /\ UNCHANGED <<path, text, cred, record, journal>>
  BY DEF RestoreSource, On, At, files, Renaming
<1>2. JobTypes /\ MoveState' /\ Keeps /\ tx \in [Writers -> Replacements] /\ Renamer \in Writers
  BY FileCallsMove, Distinct DEF FileInv, FileTypes
<1>3. ~Forward
  BY <1>1, DirectionOf
<1>4. Backward /\ ~Left("create", None) /\ journal = job.journal /\ job.journal.source = Origin
  <2>1. ~Refusing
    BY <1>1 DEF Refusing, On, IsNext, Single
  <2>2. "restore" \in CallNames \ {"create", "erase"}
    BY DEF CallNames, Loop
  <2>3. job.journal.source = Origin
    BY <1>1, <1>2 DEF JobTypes, Journals
  <2>. QED  BY <1>1, <1>2, <1>3, <2>1, <2>2, <2>3, NextIsNotCreate, CallJournal DEF MoveState, Running
<1>5. CASE Current = job.journal.source /\ Advance("restore", None) /\ UNCHANGED tx
  <2>1. job' = [job EXCEPT !.script = job.script \ {<<"restore", None>>}]
    BY <1>5 DEF Advance
  <2>2. Runs' /\ job'.script = job.script \ {<<"restore", None>>} /\ job'.kind # "none"
    BY <1>1, <1>2, <2>1 DEF JobTypes, Runs
  <2>3. job' # NoJob /\ (job'.script = Undo => FALSE)
    <3>1. <<"restore", None>> \in Undo
      BY DEF Undo, Single
    <3>. QED  BY <2>2, <3>1 DEF NoJob
  <2>4. Backward' /\ Current' = Origin
    BY <1>1, <1>2, <1>4, <1>5, <2>3 DEF Keeps, Current
  <2>5. ~Renaming' /\ \A w \in Writers \ {Renamer} : At(w, "idle")'
    BY <1>1, <1>5 DEF Renaming, At, FileAgrees
  <2>. QED  BY <2>2, <2>4, <2>5 DEF FileAgrees, Behind
<1>6. CASE Begin(Renamer, Fingerprint(path), copy, FALSE) /\ Goes("restore", "restoring")
  <2>1. job' = [job EXCEPT !.script = (job.script \ Single("restore")) \cup Single("restoring")]
    BY <1>6 DEF Goes
  <2>2. Runs' /\ job'.script = (job.script \ Single("restore")) \cup Single("restoring") /\ job'.kind # "none"
    BY <1>1, <1>2, <2>1 DEF JobTypes, Runs
  <2>3. Left("restoring", None)' /\ ~Left("restore", None)' /\ <<"restore", None>> \in Undo
    BY <2>2 DEF Left, Single, Undo
  <2>4. Backward'
    BY <1>2, <1>4, <2>2, <2>3 DEF Keeps, NoJob, Left
  <2>5. /\ tx'[Renamer].pc = "check" /\ tx'[Renamer].out = None
        /\ \A w \in Writers \ {Renamer} : tx'[w] = tx[w]
    BY <1>2, <1>6 DEF Begin, Idle
  <2>6. On("restoring", None)'
    <3>1. ASSUME NEW d \in job'.script \ {<<"restoring", None>>} PROVE Precedes(<<"restoring", None>>, d)
      <4>1. d \in job.script /\ d # <<"restore", None>>
        BY <2>2, <3>1 DEF Single
      <4>2. Precedes(<<"restore", None>>, d)
        BY <1>1, <4>1 DEF On, IsNext
      <4>3. d \in Undo
        BY <1>4, <3>1, <4>1 DEF Backward, Single
      <4>4. Loop["restore"] = 3 /\ Loop["restoring"] = 3
        BY DEF Loop
      <4>5. d[1] \in {"back", "discard", "unbind", "forget", "erase"}
        BY <4>1, <4>3 DEF Undo, CompleteRollback, Cleanup, Each, Single
      <4>6. Loop[d[1]] # 3
        BY <4>5 DEF Loop
      <4>. QED  BY <4>2, <4>4, <4>6 DEF Precedes
    <3>. QED  BY <2>2, <2>3, <3>1 DEF On, IsNext, Left
  <2>7. tx'[Renamer].out # "ok" /\ tx'[Renamer].pc \notin Installed
    BY <2>5, RenameAssumption DEF Installed
  <2>8. \A w \in Writers \ {Renamer} : At(w, "idle")'
    BY <2>5 DEF FileAgrees, At
  <2>. QED  BY <2>2, <2>3, <2>4, <2>6, <2>7, <2>8 DEF FileAgrees, Behind
<1>7. CASE Fail("restore") /\ UNCHANGED tx
  BY <1>1, <1>2, <1>7, FailAgrees
<1>. QED  BY <1>5, <1>6, <1>7, Zenon DEF RestoreSource

\* What the replacement answered is what has become of the file.
LEMMA ReplacedAgrees ==
  ASSUME FileInv, MoveState, FileAgrees, Replaced
  PROVE  FileAgrees'
<1>1. /\ Runs /\ ~Renaming /\ UNCHANGED <<path, text, tx, cred, record, journal>>
  BY DEF Replaced, On, At, replacing, Renaming
<1>2. JobTypes /\ MoveState' /\ Keeps
  BY FileCallsMove DEF FileInv, FileTypes
<1>3. \A call, b : Advance(call, b) => Runs' /\ job'.script = job.script \ {<<call, b>>} /\ job'.kind # "none"
  <2>. SUFFICES ASSUME NEW call, NEW b, Advance(call, b)
                PROVE  Runs' /\ job'.script = job.script \ {<<call, b>>} /\ job'.kind # "none"
    OBVIOUS
  <2>1. job' = [job EXCEPT !.script = job.script \ {<<call, b>>}]
    BY DEF Advance
  <2>. QED  BY <1>1, <1>2, <2>1 DEF JobTypes, Runs
<1>4. ~Renaming' /\ Current' = Current /\ \A w \in Writers \ {Renamer} : At(w, "idle")'
  BY <1>1 DEF Renaming, At, FileAgrees, Current
<1>5. CASE On("replacing", None) /\ tx[Renamer].out = "ok" /\ Advance("replacing", None)
  <2>1. ~Backward /\ ~Refusing /\ Left("replacing", None)
    BY <1>1, <1>5, DirectionOf DEF Refusing, On, IsNext, Single, Left
  <2>2. Ahead
    BY <1>1, <2>1 DEF FileAgrees, Behind
  <2>3. Current = Target /\ ~Left("replace", None) /\ Forward
    BY <1>1, <1>5, <2>1, <2>2 DEF Ahead
  <2>4. /\ Runs' /\ job' # NoJob /\ job'.script # Undo
        /\ ~Left("replacing", None)' /\ ~Left("replace", None)' /\ ~Left("create", None)'
    <3>1. Runs' /\ job'.script = job.script \ {<<"replacing", None>>} /\ job'.kind # "none"
      BY <1>3, <1>5
    <3>2. <<"restore", None>> \in Undo /\ <<"restore", None>> \notin job.script
      <4>1. <<"restore", None>> \in Undo
        BY DEF Undo, Single
      <4>. QED  BY <2>3, <4>1, Directions DEF Forward
    <3>3. ~Left("create", None)
      <4>1. "replacing" \in CallNames \ {"create"}
        BY DEF CallNames, Loop
      <4>. QED  BY <1>5, <4>1, NextIsNotCreate
    <3>. QED  BY <2>3, <3>1, <3>2, <3>3 DEF NoJob, Left
  <2>5. Forward'
    BY <1>2, <2>3, <2>4 DEF Keeps
  <2>6. Ahead'
    BY <1>4, <2>3, <2>4, <2>5 DEF Ahead
  <2>. QED  BY <1>4, <2>4, <2>6 DEF FileAgrees
<1>6. CASE On("restoring", None) /\ Current = job.journal.source /\ Advance("restoring", None)
  <2>1. ~Forward /\ ~Refusing
    BY <1>1, <1>6, DirectionOf DEF Refusing, On, IsNext, Single
  <2>2. Backward /\ Current = Origin
    BY <1>1, <1>2, <1>6, <2>1 DEF MoveState, Running, JobTypes, Journals
  <2>3. Runs' /\ job'.script = job.script \ {<<"restoring", None>>} /\ job'.kind # "none"
    BY <1>3, <1>6
  <2>4. CASE job'.script = Undo
    <3>1. ~Forward' /\ ~Refusing'
      <4>1. <<"restore", None>> \in Undo
        BY DEF Undo, Single
      <4>. QED  BY <2>4, <4>1, Directions DEF Forward, Refusing, Single
    <3>2. Backward'
      BY <1>2, <2>3, <3>1 DEF MoveState, Running
    <3>. QED  BY <1>4, <2>2, <2>3, <3>2 DEF FileAgrees, Behind
  <2>5. CASE job'.script # Undo
    <3>1. Backward'
      BY <1>2, <2>2, <2>3, <2>5 DEF Keeps, NoJob
    <3>. QED  BY <1>4, <2>2, <2>3, <3>1 DEF FileAgrees, Behind
  <2>. QED  BY <2>4, <2>5
<1>7. CASE job' = [job EXCEPT !.script = Undo, !.undoes = {}]
  <2>1. job'.script = Undo /\ Runs'
    BY <1>1, <1>2, <1>7 DEF JobTypes, Runs
  <2>. QED  BY <1>1, <1>2, <2>1, JobAgrees
<1>8. CASE job' = NoJob
  BY <1>1, <1>2, <1>8, FailAgrees
<1>. QED  BY <1>5, <1>6, <1>7, <1>8, Zenon DEF Replaced

\* The replacement that a rename waits for: it reports "ok" only when the file holds its goal.
LEMMA StepAgrees ==
  ASSUME FileInv, MoveState, FileAgrees, UNCHANGED rename, NEW w \in Writers, Step(w)
  PROVE  FileAgrees'
<1>1. w = Renamer /\ Renaming
  <2>1. ~At(w, "idle")
    BY DEF Step, Check, Move, Inspect, Backup, Candidate, Verify, Install, Confirm, Unhold, Relook, Relink, Unlink, Fault, At
  <2>. QED  BY <2>1 DEF FileAgrees, Renaming
<1>2. /\ tx \in [Writers -> Replacements] /\ tx[w] \in Replacements /\ HasCandidate(w)
      /\ UNCHANGED <<cred, record, journal, copy, job, audited>>
  BY DEF FileInv, FileTypes, rename
<1>. DEFINE r == tx[w]
            same == UNCHANGED path /\ (path # None => text'[path] = text[path])
<1>. DEFINE linked == path' = r.cand /\ text' = text /\ r.pc = "install"
<1>3. \/ \E p \in Pcs \ {"idle"} : To(w, p) /\ (p \in Installed => (r.pc \in Installed /\ same) \/ linked)
      \/ RestoreCurrent(w) \/ RestoreFound(w)
      \/ tx' = [tx EXCEPT ![w].source = Fingerprint(r.hold), ![w].pc = "relink"]
      \/ tx' = [tx EXCEPT ![w].hold = path, ![w].pc = "inspect"]
      \/ tx' = [tx EXCEPT ![w].cand = NewInode, ![w].pc = "verify"]
      \/ \E o \in {"unchanged", "uncertain", "applied", r.out} : End(w, o)
      \/ r.pc = "unhold" /\ same /\ End(w, "ok")
  <2>1. Pcs = {"idle", "check", "move", "inspect", "backup", "candidate", "verify", "install", "confirm", "settle",
               "unhold", "relook", "relink", "unlink"} /\ Installed = {"confirm", "settle", "unhold"}
    BY DEF Pcs, Early, Ready, Installed, Late
  <2>2. CASE Check(w) \/ Inspect(w) \/ Backup(w) \/ Verify(w)
    <3>1. \/ \E p \in {"move", "backup", "candidate", "install"} : To(w, p)
          \/ RestoreCurrent(w) \/ RestoreFound(w) \/ End(w, "unchanged") \/ End(w, "uncertain")
      BY <2>2 DEF Check, Inspect, Backup, Verify, LeaveHold, LeaveWith
    <3>. HIDE DEF r, same, linked
    <3>. QED  BY <2>1, <3>1
  <2>3. CASE Move(w)
    <3>1. tx' = [tx EXCEPT ![w].hold = path, ![w].pc = "inspect"] \/ End(w, "unchanged")
      BY <2>3 DEF Move
    <3>. QED  BY <3>1
  <2>4. CASE Candidate(w)
    <3>1. tx' = [tx EXCEPT ![w].cand = NewInode, ![w].pc = "verify"] \/ RestoreFound(w)
      BY <2>4 DEF Candidate
    <3>. QED  BY <3>1
  <2>5. CASE Install(w)
    <3>1. (To(w, "confirm") /\ linked) \/ RestoreFound(w)
      BY <2>5 DEF Install, At, Fault
    <3>. HIDE DEF r, same, linked
    <3>. QED  BY <2>1, <3>1
  <2>6. CASE Confirm(w)
    <3>1. \/ \E p \in {"settle", "unhold"} : To(w, p) /\ r.pc \in Installed /\ same
          \/ End(w, "uncertain") \/ End(w, "applied")
      BY <2>1, <2>6 DEF Confirm, At, Leave, LeaveHold, LeaveWith
    <3>. HIDE DEF r, same, linked
    <3>. QED  BY <2>1, <3>1
  <2>7. CASE Unhold(w)
    <3>1. (r.pc = "unhold" /\ same /\ End(w, "ok")) \/ End(w, "applied")
      BY <2>7 DEF Unhold, At, LeaveSome, LeaveWith
    <3>. HIDE DEF r, same, linked
    <3>. QED  BY <3>1
  <2>8. CASE Relook(w) \/ Relink(w) \/ Unlink(w)
    <3>1. \/ tx' = [tx EXCEPT ![w].source = Fingerprint(r.hold), ![w].pc = "relink"]
          \/ To(w, "unlink") \/ End(w, "uncertain") \/ End(w, r.out)
      BY <2>8 DEF Relook, Relink, Unlink, LeaveHold, LeaveSome, LeaveWith
    <3>. HIDE DEF r, same, linked
    <3>. QED  BY <2>1, <3>1
  <2>. HIDE DEF r, same, linked
  <2>. QED  BY <2>2, <2>3, <2>4, <2>5, <2>6, <2>7, <2>8, Zenon DEF Step
<1>4. r.out # "ok" /\ (r.pc \in Installed => Current = r.goal) /\ (On("replacing", None) \/ On("restoring", None))
  BY <1>1 DEF FileAgrees
<1>5. \A v \in Writers \ {w} : tx'[v] = tx[v]
  <2>. HIDE DEF r, same, linked
  <2>. QED  BY <1>2, <1>3 DEF To, RestoreCurrent, RestoreFound, End
<1>6. \/ /\ tx'[w].pc # "idle" /\ tx'[w].goal = r.goal /\ tx'[w].out # "ok"
         /\ tx'[w].pc \in Installed => (r.pc \in Installed /\ same) \/ linked
      \/ tx'[w].pc = "idle" /\ (tx'[w].out # "ok" \/ (r.pc = "unhold" /\ same))
  <2>1. CASE \E p \in Pcs \ {"idle"} : To(w, p) /\ (p \in Installed => (r.pc \in Installed /\ same) \/ linked)
    <3>1. PICK p \in Pcs \ {"idle"} : To(w, p) /\ (p \in Installed => (r.pc \in Installed /\ same) \/ linked)
      BY <2>1
    <3>2. tx'[w] = [tx[w] EXCEPT !.pc = p]
      BY <1>2, <3>1 DEF To
    <3>3. tx'[w].pc = p /\ tx'[w].goal = r.goal /\ tx'[w].out = r.out
      BY <1>2, <3>2 DEF Replacements
    <3>. HIDE DEF r, same, linked
    <3>. QED  BY <1>4, <3>1, <3>3
  <2>2. CASE RestoreCurrent(w) \/ RestoreFound(w)
    <3>1. tx'[w].pc \in {"relook", "relink"} /\ tx'[w].goal = r.goal /\ tx'[w].out = "unchanged"
      BY <1>2, <2>2 DEF RestoreCurrent, RestoreFound, Replacements
    <3>. QED  BY <3>1 DEF Installed
  <2>6. CASE tx' = [tx EXCEPT ![w].source = Fingerprint(r.hold), ![w].pc = "relink"]
    <3>1. tx'[w].pc = "relink" /\ tx'[w].goal = r.goal /\ tx'[w].out = r.out
      BY <1>2, <2>6 DEF Replacements
    <3>. QED  BY <1>4, <3>1 DEF Installed
  <2>3. CASE tx' = [tx EXCEPT ![w].hold = path, ![w].pc = "inspect"] \/ tx' = [tx EXCEPT ![w].cand = NewInode, ![w].pc = "verify"]
    <3>1. tx'[w].pc \in {"inspect", "verify"} /\ tx'[w].goal = r.goal /\ tx'[w].out = r.out
      BY <1>2, <2>3 DEF Replacements
    <3>. QED  BY <1>4, <3>1 DEF Installed
  <2>4. CASE \E o \in {"unchanged", "uncertain", "applied", r.out} : End(w, o)
    <3>1. tx'[w].pc = "idle" /\ tx'[w].out \in {"unchanged", "uncertain", "applied", r.out}
      BY <1>2, <2>4 DEF End, Idle
    <3>. QED  BY <1>4, <3>1
  <2>5. CASE r.pc = "unhold" /\ same /\ End(w, "ok")
    <3>1. tx'[w].pc = "idle"
      BY <1>2, <2>5 DEF End, Idle
    <3>. QED  BY <2>5, <3>1
  <2>. HIDE DEF r, same, linked
  <2>. QED  BY <1>3, <2>1, <2>2, <2>3, <2>4, <2>5, <2>6
<1>7. tx'[w].pc \in Installed => Current' = tx'[w].goal
  <2>1. ASSUME tx'[w].pc \in Installed PROVE Current' = tx'[w].goal
    <3>1. tx'[w].goal = r.goal /\ ((r.pc \in Installed /\ same) \/ linked)
      BY <1>6, <2>1 DEF Installed
    <3>2. CASE r.pc \in Installed /\ same
      BY <1>4, <3>1, <3>2 DEF Current
    <3>3. CASE linked
      BY <1>2, <3>1, <3>3, Distinct DEF HasCandidate, Ready, Current
    <3>. QED  BY <3>1, <3>2, <3>3
  <2>. QED  BY <2>1
<1>8. tx'[w].pc = "idle" /\ tx'[w].out = "ok" => Current' = r.goal
  BY <1>4, <1>6 DEF Installed, Current
<1>9. Runs /\ Runs' /\ (Forward' <=> Forward) /\ (Backward' <=> Backward) /\ (Refusing' <=> Refusing)
      /\ \A call, b : Left(call, b)' = Left(call, b) /\ On(call, b)' = On(call, b)
  BY <1>2, <1>4 DEF Runs, On, IsNext, Left, Forward, Backward, Refusing, IsOld, Had
<1>10. Left("replacing", None) \/ Left("restoring", None)
  BY <1>4 DEF On, IsNext, Left
<1>11. Ahead => Ahead'
  <2>1. Left("restoring", None) => ~Ahead
    BY Directions DEF Ahead, Forward, Left
  <2>2. ASSUME Ahead PROVE Ahead'
    <3>1. Left("replacing", None) /\ r.goal = Target /\ ~Left("replace", None)
      BY <1>1, <1>10, <2>1, <2>2 DEF Ahead
    <3>2. IF Renaming' THEN tx'[Renamer].goal = Target ELSE tx'[Renamer].out = "ok" => Current' = Target
      BY <1>1, <1>6, <1>8, <3>1 DEF Renaming, At
    <3>. QED  BY <1>9, <2>2, <3>1, <3>2 DEF Ahead
  <2>. QED  BY <2>2
<1>12. Behind => Behind'
  <2>1. Left("replacing", None) => ~Backward
    BY Directions DEF Backward, Left
  <2>. QED  BY <1>9, <1>10, <2>1 DEF Behind
<1>13. \A v \in Writers \ {Renamer} : At(v, "idle")'
  BY <1>1, <1>5 DEF FileAgrees, At
<1>14. Renaming' => /\ On("replacing", None)' \/ On("restoring", None)'
                    /\ tx'[Renamer].out # "ok"
                    /\ tx'[Renamer].pc \in Installed => Current' = tx'[Renamer].goal
  BY <1>1, <1>4, <1>6, <1>7, <1>9 DEF Renaming, At
<1>. QED  BY <1>9, <1>11, <1>12, <1>13, <1>14 DEF FileAgrees

\* A rename or recovery begins with what the file says.
LEMMA BeginsAgree ==
  ASSUME JobTypes, MoveState, FileAgrees, Read \/ \E answer \in BOOLEAN : Capture(answer) \/ Recover(answer)
  PROVE  FileAgrees'
<1>1. ~Runs /\ UNCHANGED <<path, text, tx, cred, record, journal>>
  <2>1. job = NoJob \/ job.kind = "planned"
    BY Zenon DEF Read, Capture, Recover
  <2>2. UNCHANGED <<path, text, tx, cred, record, journal>>
    BY DEF Read, Capture, Recover, replacing
  <2>. QED  BY <2>1, <2>2 DEF Runs, NoJob
<1>2. ~Renaming
  BY <1>1 DEF FileAgrees, On
<1>3. /\ ~Renaming' /\ Current' = Current /\ \A w \in Writers \ {Renamer} : At(w, "idle")'
      /\ (IsNew' <=> IsNew) /\ (IsOld' <=> IsOld)
  BY <1>1, <1>2 DEF Renaming, At, FileAgrees, Current, IsNew, IsOld
<1>4. PICK b \in Bindings : TRUE
  BY RenameAssumption
<1>5. CASE Read
  <2>1. ~Runs' /\ Current = Origin
    BY <1>5 DEF Read, NoJob, Runs
  <2>. QED  BY <1>1, <1>3, <2>1 DEF FileAgrees
<1>6. CASE job' = NoJob
  <2>1. ~Runs' /\ job'.kind = "none"
    BY <1>6 DEF NoJob, Runs
  <2>. QED  BY <1>1, <1>3, <2>1 DEF FileAgrees
<1>7. ASSUME NEW answer \in BOOLEAN, Capture(answer), job' # NoJob PROVE FileAgrees'
  <2>1. MoveState' /\ job.kind = "planned"
    BY <1>7, CaptureMoves DEF Capture
  <2>2. \E j : job' = [job EXCEPT !.kind = "rename", !.script = RenameScript(answer), !.undoes = RenameUndoes, !.journal = j]
    BY <1>7 DEF Capture
  <2>3. Runs' /\ job'.script = RenameScript(answer)
    BY <2>2 DEF JobTypes, Runs
  <2>4. /\ Left("create", None)' /\ Left("replace", None)' /\ ~Left("replacing", None)'
    BY <2>3 DEF Left, RenameScript, CompleteForward, Cleanup, Audit, Each, Single
  <2>5. Forward'
    <3>1. ~Backward' /\ ~Refusing'
      BY <2>4, Directions DEF Left, Backward, Refusing, Single
    <3>. QED  BY <2>1, <2>3, <3>1 DEF MoveState, Running
  <2>6. Current' = Origin
    BY <1>1, <1>3, <2>1 DEF FileAgrees
  <2>7. Ahead'
    BY <2>4, <2>5, <2>6 DEF Ahead
  <2>. QED  BY <1>3, <2>3, <2>7 DEF FileAgrees
<1>8. ASSUME NEW answer \in BOOLEAN, Recover(answer), job' # NoJob PROVE FileAgrees'
  <2>1. MoveState' /\ journal \in Journals
    BY <1>8, RecoverMoves DEF Recover, JobTypes
  <2>2. job' = [NoJob EXCEPT !.kind = "recover", !.script = RecoveryScript(journal, answer),
                             !.undoes = {"audit"}, !.journal = journal]
    BY <1>8 DEF Recover
  <2>3. Runs' /\ job'.script = RecoveryScript(journal, answer)
    BY <2>2 DEF NoJob, Runs
  <2>4. \/ RecoveryScript(journal, answer) = CompleteRollback \cup Cleanup /\ Current = journal.source
        \/ RecoveryScript(journal, answer) = CompleteForward \cup Audit(journal.audit) \cup Cleanup /\ Current = journal.target
        \/ RecoveryScript(journal, answer) = Single("refuse")
    BY Zenon DEF RecoveryScript
  <2>5. CASE RecoveryScript(journal, answer) = CompleteRollback \cup Cleanup /\ Current = journal.source
    <3>1. <<"back", b>> \in job'.script
      BY <1>4, <2>3, <2>5 DEF CompleteRollback, Each
    <3>2. ~Forward' /\ ~Refusing'
      <4>1. <<"back", b>> \notin RenameScript(TRUE) \cup Single("replacing") /\ <<"back", b>> \notin Single("refuse")
        BY Directions DEF Single
      <4>. QED  BY <3>1, <4>1 DEF Forward, Refusing
    <3>3. Backward' /\ Current' = Origin
      BY <1>3, <2>1, <2>3, <2>5, <3>2 DEF MoveState, Running, Journals
    <3>. QED  BY <1>3, <2>3, <3>3 DEF FileAgrees, Behind
  <2>6. CASE RecoveryScript(journal, answer) = CompleteForward \cup Audit(journal.audit) \cup Cleanup /\ Current = journal.target
    <3>1. <<"carry", b>> \in job'.script
      BY <1>4, <2>3, <2>6 DEF CompleteForward, Each
    <3>2. ~Backward' /\ ~Refusing'
      BY <3>1, Directions DEF Backward, Refusing, Single
    <3>3. Forward' /\ Current' = Target
      BY <1>3, <2>1, <2>3, <2>6, <3>2 DEF MoveState, Running, Journals
    <3>4. ~Left("create", None)' /\ ~Left("replace", None)' /\ ~Left("replacing", None)'
      BY <2>3, <2>6 DEF Left, CompleteForward, Cleanup, Audit, Each, Single
    <3>. QED  BY <1>3, <2>3, <3>3, <3>4 DEF FileAgrees, Ahead
  <2>7. CASE RecoveryScript(journal, answer) = Single("refuse")
    BY <1>3, <2>3, <2>7 DEF FileAgrees, Refusing
  <2>. QED  BY <2>4, <2>5, <2>6, <2>7
<1>. QED  BY <1>5, <1>6, <1>7, <1>8

\* What a crash leaves is for the next recovery to read from the file.
LEMMA CrashAgrees ==
  ASSUME FileInv, MoveState, ~TornJournals, FileAgrees, Crash
  PROVE  FileAgrees'
<1>1. JobTypes /\ job' = NoJob /\ UNCHANGED <<path, text, cred, record, journal>> /\ tx \in [Writers -> Replacements]
  BY DEF Crash, Quiet, files, Die, FileInv, FileTypes
<1>2. ~Runs' /\ job'.kind = "none" /\ Current' = Current
  BY <1>1 DEF NoJob, Runs, Current
<1>3. ~Renaming' /\ \A w \in Writers \ {Renamer} : At(w, "idle")'
  <2>1. CASE UNCHANGED tx /\ At(Renamer, "idle")
    BY <2>1 DEF Renaming, At, FileAgrees
  <2>2. CASE Die(Renamer)
    BY <1>1, <2>2, Distinct DEF Die, Leave, LeaveWith, End, Idle, Renaming, At, FileAgrees
  <2>. QED  BY <2>1, <2>2 DEF Crash, At
<1>4. ASSUME journal = None, path # None PROVE IF Current = Target THEN IsNew ELSE IsOld
  <2>1. CASE Runs
    BY <1>1, <1>4, <2>1, EndsAgree DEF MoveState
  <2>2. CASE ~Runs
    BY <1>4, <2>2 DEF FileAgrees
  <2>. QED  BY <2>1, <2>2
<1>5. (IsNew' <=> IsNew) /\ (IsOld' <=> IsOld)
  BY <1>1 DEF IsNew, IsOld
<1>. QED  BY <1>1, <1>2, <1>3, <1>4, <1>5 DEF FileAgrees

\* Another writer that takes part uses a text up, and the rename is no longer undisturbed.
LEMMA NobodyElse ==
  ASSUME FileInv, FileInv', NEW w \in Writers, Command(w) \/ Editor
  PROVE  ~Undisturbed'
<1>1. unused # {} /\ unused' = unused \ {NewText} /\ unused \subseteq Texts \ {Origin, Target}
  BY DEF Command, Editor, Save, WriteInPlace, Edited, FileInv, FileTypes
<1>2. NewText \in unused
  BY <1>1 DEF NewText
<1>. QED  BY <1>1, <1>2 DEF Undisturbed

\* Every step keeps connections and file agreed as long as nobody else writes.
LEMMA SideNext ==
  ASSUME FileInv, FileInv', MoveState, MoveState', SideInv, ~TornJournals, ~StaleRuntimes, [Next]_vars
  PROVE  SideInv'
<1>. JobTypes /\ JobTypes'
  BY DEF FileInv
<1>. SUFFICES ASSUME Undisturbed' PROVE FileAgrees'
  BY DEF SideInv
<1>1. CASE Editor \/ \E w \in Writers : Command(w)
  BY <1>1, NobodyElse, Distinct
<1>2. CASE ~(Editor \/ \E w \in Writers : Command(w))
  <2>1. UNCHANGED unused
    <3>1. CASE UNCHANGED vars
      BY <3>1 DEF vars, replacing
    <3>2. CASE Read \/ \E answer \in BOOLEAN : Capture(answer) \/ Recover(answer)
      BY <3>2 DEF Read, Capture, Recover, replacing
    <3>3. CASE RenameStep
      <4>1. CASE \E b \in Bindings : Prepare(b) \/ Carry(b) \/ Drop(b) \/ GiveBack(b) \/ Discard(b) \/ Rebind(b) \/ Unbind(b)
        BY <4>1, BindingTypes DEF replacing
      <4>2. CASE ~\E b \in Bindings : Prepare(b) \/ Carry(b) \/ Drop(b) \/ GiveBack(b) \/ Discard(b) \/ Rebind(b) \/ Unbind(b)
        <5>1. \/ CreateJournal \/ Replace \/ RestoreSource \/ Replaced \/ Forget \/ Erase \/ RecordAudit
              \/ Refuse \/ Finish \/ \E c \in job.script : FailCall(c)
          BY <3>3, <4>2, Zenon DEF RenameStep
        <5>. QED  BY <5>1 DEF CreateJournal, Replace, RestoreSource, Replaced, Forget, Erase, RecordAudit, Refuse, Finish, FailCall, Quiet, files, replacing
      <4>. QED  BY <4>1, <4>2
    <3>4. CASE Crash \/ \E b \in Bindings, side \in {"from", "to"} : Refresh(b, side)
      BY <3>4 DEF Crash, Refresh, Quiet, Die, files, replacing
    <3>5. CASE Replacement
      <4>1. PICK w \in Writers : Step(w) \/ Perish(w)
        BY <1>2, <3>5 DEF Replacement
      <4>. QED  BY <4>1 DEF Perish, Die, Step, Check, Move, Inspect, Backup, Candidate, Verify, Install, Confirm,
                           Unhold, Relook, Relink, Unlink, files
    <3>. QED  BY <1>2, <3>1, <3>2, <3>3, <3>4, <3>5 DEF Next
  <2>2. FileAgrees
    BY <2>1 DEF Undisturbed, SideInv
  <2>3. CASE UNCHANGED vars
    BY <2>2, <2>3 DEF vars, replacing, rename, FileAgrees, Renaming, At, On, Runs, IsNext, Left, Current, Ahead, Behind,
                       Refusing, Forward, Backward, IsNew, IsOld, Had
  <2>4. CASE Read \/ \E answer \in BOOLEAN : Capture(answer) \/ Recover(answer)
    BY <2>2, <2>4, BeginsAgree
  <2>5. CASE RenameStep
    <3>1. CASE \E b \in Bindings : Prepare(b) \/ Carry(b) \/ Drop(b) \/ GiveBack(b) \/ Discard(b) \/ Rebind(b) \/ Unbind(b)
      BY <2>2, <3>1, BindingAgrees
    <3>2. CASE Replace \/ RestoreSource \/ Replaced
      BY <2>2, <3>2, ReplaceAgrees, RestoreAgrees, ReplacedAgrees
    <3>3. CASE \/ CreateJournal \/ RecordAudit \/ Forget \/ Erase \/ Refuse \/ Finish
               \/ \E c \in job.script : FailCall(c)
      BY <2>2, <3>3, JournalAgrees
    <3>. QED  BY <2>5, <3>1, <3>2, <3>3, Zenon DEF RenameStep
  <2>6. CASE Crash
    BY <2>2, <2>6, CrashAgrees
  <2>7. CASE Replacement
    <3>1. PICK w \in Writers : Step(w) \/ (w # Renamer /\ Perish(w))
      BY <1>2, <2>7 DEF Replacement
    <3>2. UNCHANGED rename
      BY <2>7 DEF Replacement
    <3>3. CASE Step(w)
      BY <2>2, <3>2, <3>3, StepAgrees
    <3>4. ~(w # Renamer /\ Perish(w))
      BY <2>2 DEF FileAgrees, Perish, At
    <3>. QED  BY <3>1, <3>3, <3>4
  <2>8. ASSUME NEW b \in Bindings, NEW side \in {"from", "to"}, Refresh(b, side) PROVE FileAgrees'
    <3>1. (IsOld' <=> IsOld) /\ (IsNew' <=> IsNew)
      BY <2>8, RefreshMoves
    <3>2. /\ ~Runs /\ ~Runs' /\ UNCHANGED <<path, text, tx, journal, job>>
      BY <2>8 DEF Refresh, Runs, replacing
    <3>3. ~Renaming /\ ~Renaming' /\ Current' = Current /\ \A w \in Writers \ {Renamer} : At(w, "idle")'
      BY <2>2, <3>2 DEF FileAgrees, Renaming, At, On, Current
    <3>. QED  BY <2>2, <3>1, <3>2, <3>3 DEF FileAgrees
  <2>. QED  BY <1>2, <2>3, <2>4, <2>5, <2>6, <2>7, <2>8 DEF Next
<1>. QED  BY <1>1, <1>2

\* At first file and connections have the old name.
LEMMA SideInit ==
  ASSUME Init
  PROVE  SideInv
<1>1. \A w \in Writers : At(w, "idle")
  BY DEF Init, RInit, Idle, At
<1>2. ~Runs /\ job.kind = "none" /\ journal = None /\ IsOld
  <2>1. ~Runs /\ job.kind = "none" /\ journal = None
    BY DEF Init, NoJob, Runs
  <2>2. ~Unfinished /\ IsOld
    BY <2>1, MoveInit DEF Unfinished, On, Connections!CInit
  <2>. QED  BY <2>1, <2>2
<1>3. Current # Target
  BY Distinct DEF Init, RInit, Current
<1>. QED  BY <1>1, <1>2, <1>3, Distinct DEF SideInv, FileAgrees, Renaming

\* A rename that is over agrees with the configuration, and was audited: the connections bear the
\* new name just when the file does, unless somebody else wrote the file in the meantime, whatever
\* fails, dies and is recovered on the way (profile-rename-transaction.ts).
THEOREM OutcomesAgree ==
  ASSUME ~TornJournals, ~StaleRuntimes
  PROVE  Spec => []OutcomeAgrees
<1>. DEFINE Inv == RenameInv /\ SideInv
<1>1. Init => Inv
  BY RenameKept, SideInit
<1>2. Inv /\ [Next]_vars => Inv'
  <2>. SUFFICES ASSUME Inv, [Next]_vars PROVE Inv'
    OBVIOUS
  <2>1. RenameInv'
    BY RenameKept
  <2>. QED  BY <2>1, SideNext DEF RenameInv
<1>3. Inv => OutcomeAgrees
  <2>. SUFFICES ASSUME Inv PROVE OutcomeAgrees
    OBVIOUS
  <2>1. ASSUME ~Unfinished, Undisturbed, path # None PROVE IF Current = Target THEN IsNew ELSE IsOld
    <3>1. FileAgrees /\ journal = None /\ JobTypes /\ MoveState
      BY <2>1 DEF SideInv, RenameInv, FileInv, Unfinished
    <3>2. CASE Runs
      BY <2>1, <3>1, <3>2, EndsAgree DEF MoveState
    <3>3. CASE ~Runs
      BY <2>1, <3>1, <3>3 DEF FileAgrees
    <3>. QED  BY <3>2, <3>3
  <2>2. SidesAgree
    BY <2>1 DEF SidesAgree, Undisturbed
  <2>3. NoUnauditedRename
    BY FinishedIsWhole DEF RenameInv, FileInv, NoUnauditedRename, Whole
  <2>. QED  BY <2>2, <2>3 DEF OutcomeAgrees
<1>. QED  BY <1>1, <1>2, <1>3, PTL DEF Spec
=============================================================================
