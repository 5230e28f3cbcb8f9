------------------------ MODULE OAuthLifecycleProofs ------------------------
(***************************************************************************)
(* Proofs about OAuthLifecycle: the lock has one holder, a credential that *)
(* has been issued and not stored yet is unlike every one that was ever    *)
(* used, and what the holder of the lock leaves half done it or a later    *)
(* call of its process repairs.                                            *)
(***************************************************************************)
EXTENDS MCOAuthLifecycle, TLAPS

-----------------------------------------------------------------------------
(* Tasks and the lock.                                                     *)

LockedPcs == {"locked", "delete", "save", "record", "mark", "ready", "due",
              "asking", "persist", "fail"}
Pcs == LockedPcs \cup {"none", "done", "waiting", "join", "joined"}
Kinds == CallKinds \cup {"none", "refresh"}
Outs == {None} \cup Results
Owners == Procs \cup {None}
Creds == {None} \cup 1..MaxCreds
TaskType == [kind : Kinds, proc : Owners, gen : Nat, pc : Pcs, cred : Creds, old : Creds,
             aborted : BOOLEAN, out : Outs]

\* What t may be as the state of task x.
Fine(x, t) ==
  /\ t \in TaskType
  /\ x \in Flights <=> t.kind = "refresh"
  /\ x \in Flights => t.proc = x[1]
  /\ t.pc \notin {"none", "done"} => t.proc \in Procs
  /\ t.pc \in {"join", "joined", "ready", "due"} => t.kind = "credential"
  /\ t.pc \in {"asking", "persist", "fail"} => t.kind = "refresh"
  /\ t.pc \in {"save", "record"} => t.kind \in {"connect", "refresh"}

\* A task is at work under the lock just when it holds it.
LockInv ==
  /\ task \in [Tasks -> TaskType] /\ gen \in [Procs -> Nat]
  /\ holder \in {None} \cup Tasks
  /\ \A x \in Tasks : Fine(x, task[x]) /\ (holder = x <=> task[x].pc \in LockedPcs)

\* A call is not a flight, and neither is None.
LEMMA TaskNames ==
  /\ None \notin Tasks /\ None \notin Procs /\ None \notin Nat /\ None \notin Results
  /\ \A x \in Tasks : x \in Calls <=> x \notin Flights
  /\ \A f \in Flights : f[1] \in Procs /\ f[2] \in Nat
BY ConstantsAssumption DEF Tasks, Calls, Flights

\* A task that has not begun.
LEMMA AbsentFine ==
  ASSUME NEW x \in Tasks
  PROVE  /\ Fine(x, Absent(x)) /\ Absent(x).pc = "none"
         /\ Absent(x).cred = None /\ Absent(x).old = None
<1>1. /\ Absent(x).kind \in {"none", "refresh"} /\ (x \in Flights <=> Absent(x).kind = "refresh")
      /\ Absent(x).proc \in Owners /\ (x \in Flights => Absent(x).proc = x[1])
      /\ Absent(x).gen \in Nat
  BY TaskNames DEF Absent, Owners
<1>2. /\ Absent(x).pc = "none" /\ Absent(x).cred = None /\ Absent(x).old = None
      /\ Absent(x).aborted = FALSE /\ Absent(x).out = None
      /\ None \in Creds /\ None \in Outs /\ "none" \in Pcs /\ {"none", "refresh"} \subseteq Kinds
  BY DEF Absent, Creds, Outs, Results, Pcs, Kinds
<1>3. Absent(x) = [kind |-> Absent(x).kind, proc |-> Absent(x).proc, gen |-> Absent(x).gen,
                   pc |-> Absent(x).pc, cred |-> Absent(x).cred, old |-> Absent(x).old,
                   aborted |-> Absent(x).aborted, out |-> Absent(x).out]
  BY DEF Absent
<1>. HIDE DEF Absent
<1>4. Absent(x) \in TaskType
  BY <1>1, <1>2, <1>3 DEF TaskType
<1>. QED  BY <1>1, <1>2, <1>4 DEF Fine

\* A field of a task that changes leaves the others.
LEMMA SetPc ==
  ASSUME NEW t \in TaskType, NEW pc \in Pcs
  PROVE  /\ [t EXCEPT !.pc = pc] \in TaskType
         /\ [t EXCEPT !.pc = pc].pc = pc
         /\ [t EXCEPT !.pc = pc].kind = t.kind /\ [t EXCEPT !.pc = pc].proc = t.proc
         /\ [t EXCEPT !.pc = pc].gen = t.gen /\ [t EXCEPT !.pc = pc].cred = t.cred
         /\ [t EXCEPT !.pc = pc].old = t.old /\ [t EXCEPT !.pc = pc].aborted = t.aborted
         /\ [t EXCEPT !.pc = pc].out = t.out
BY DEF TaskType

LEMMA SetOut ==
  ASSUME NEW t \in TaskType, NEW out \in Outs
  PROVE  /\ [t EXCEPT !.out = out] \in TaskType
         /\ [t EXCEPT !.out = out].out = out
         /\ [t EXCEPT !.out = out].kind = t.kind /\ [t EXCEPT !.out = out].proc = t.proc
         /\ [t EXCEPT !.out = out].gen = t.gen /\ [t EXCEPT !.out = out].cred = t.cred
         /\ [t EXCEPT !.out = out].old = t.old /\ [t EXCEPT !.out = out].aborted = t.aborted
         /\ [t EXCEPT !.out = out].pc = t.pc
BY DEF TaskType

LEMMA SetCred ==
  ASSUME NEW t \in TaskType, NEW cred \in Creds
  PROVE  /\ [t EXCEPT !.cred = cred] \in TaskType
         /\ [t EXCEPT !.cred = cred].cred = cred
         /\ [t EXCEPT !.cred = cred].kind = t.kind /\ [t EXCEPT !.cred = cred].proc = t.proc
         /\ [t EXCEPT !.cred = cred].gen = t.gen /\ [t EXCEPT !.cred = cred].out = t.out
         /\ [t EXCEPT !.cred = cred].old = t.old /\ [t EXCEPT !.cred = cred].aborted = t.aborted
         /\ [t EXCEPT !.cred = cred].pc = t.pc
BY DEF TaskType

LEMMA SetOld ==
  ASSUME NEW t \in TaskType, NEW old \in Creds
  PROVE  /\ [t EXCEPT !.old = old] \in TaskType
         /\ [t EXCEPT !.old = old].old = old
         /\ [t EXCEPT !.old = old].kind = t.kind /\ [t EXCEPT !.old = old].proc = t.proc
         /\ [t EXCEPT !.old = old].gen = t.gen /\ [t EXCEPT !.old = old].out = t.out
         /\ [t EXCEPT !.old = old].cred = t.cred /\ [t EXCEPT !.old = old].aborted = t.aborted
         /\ [t EXCEPT !.old = old].pc = t.pc
BY DEF TaskType

LEMMA SetAborted ==
  ASSUME NEW t \in TaskType, NEW aborted \in BOOLEAN
  PROVE  /\ [t EXCEPT !.aborted = aborted] \in TaskType
         /\ [t EXCEPT !.aborted = aborted].aborted = aborted
         /\ [t EXCEPT !.aborted = aborted].kind = t.kind
         /\ [t EXCEPT !.aborted = aborted].proc = t.proc
         /\ [t EXCEPT !.aborted = aborted].gen = t.gen /\ [t EXCEPT !.aborted = aborted].out = t.out
         /\ [t EXCEPT !.aborted = aborted].cred = t.cred
         /\ [t EXCEPT !.aborted = aborted].old = t.old /\ [t EXCEPT !.aborted = aborted].pc = t.pc
BY DEF TaskType

\* A task that is over: a flight keeps its credential, a call what it returns.
LEMMA OverFine ==
  ASSUME NEW x \in Tasks, Fine(x, task[x]), NEW out \in Outs
  PROVE  /\ Fine(x, Over(x, out)) /\ Over(x, out).pc = "done"
         /\ Over(x, out).cred \in {None, task[x].cred}
         /\ Over(x, out).old \in {None, task[x].old}
<1>. DEFINE over == [task[x] EXCEPT !.pc = "done", !.out = out]
            gone == [Absent(x) EXCEPT !.pc = "done"]
            kept == IF out = "ok" THEN task[x].cred ELSE None
            told == [Absent(x) EXCEPT !.pc = "done", !.out = out, !.cred = kept]
<1>0. "done" \in Pcs /\ kept \in Creds
  BY DEF Pcs, Creds, Fine, TaskType
<1>1. Over(x, out) = IF x \in Flights THEN over
                     ELSE IF task[x].kind # "credential" THEN gone ELSE told
  BY DEF Over
<1>2. /\ Absent(x) \in TaskType /\ task[x] \in TaskType
      /\ Absent(x).cred = None /\ Absent(x).old = None
      /\ x \in Flights <=> Absent(x).kind = "refresh"
      /\ x \in Flights => Absent(x).proc = x[1]
      /\ x \in Flights <=> task[x].kind = "refresh"
      /\ x \in Flights => task[x].proc = x[1]
  BY AbsentFine DEF Fine
<1>3. /\ over \in TaskType /\ over.pc = "done" /\ over.kind = task[x].kind
      /\ over.proc = task[x].proc /\ over.cred = task[x].cred /\ over.old = task[x].old
  <2>. DEFINE t == [task[x] EXCEPT !.pc = "done"]
  <2>1. over = [t EXCEPT !.out = out]
    OBVIOUS
  <2>2. /\ t \in TaskType /\ t.pc = "done" /\ t.kind = task[x].kind
        /\ t.proc = task[x].proc /\ t.cred = task[x].cred /\ t.old = task[x].old
    BY <1>0, <1>2, SetPc
  <2>. HIDE DEF t, over
  <2>. QED  BY <2>1, <2>2, SetOut
<1>4. /\ gone \in TaskType /\ gone.pc = "done" /\ gone.kind = Absent(x).kind
      /\ gone.proc = Absent(x).proc /\ gone.cred = None /\ gone.old = None
  BY <1>0, <1>2, SetPc
<1>5. /\ told \in TaskType /\ told.pc = "done" /\ told.kind = Absent(x).kind
      /\ told.proc = Absent(x).proc /\ told.cred = kept /\ told.old = None
  <2>. DEFINE u == [gone EXCEPT !.out = out]
  <2>1. told = [u EXCEPT !.cred = kept]
    OBVIOUS
  <2>. HIDE DEF gone
  <2>2. /\ u \in TaskType /\ u.pc = "done" /\ u.kind = Absent(x).kind
        /\ u.proc = Absent(x).proc /\ u.cred = None /\ u.old = None
    BY <1>4, SetOut
  <2>. HIDE DEF u, told, kept
  <2>. QED  BY <1>0, <2>1, <2>2, SetCred
<1>6. kept \in {None, task[x].cred}
  OBVIOUS
<1>. HIDE DEF over, gone, told, kept
<1>7. CASE x \in Flights
  BY <1>1, <1>2, <1>3, <1>7 DEF Fine
<1>8. CASE x \notin Flights /\ task[x].kind # "credential"
  BY <1>1, <1>2, <1>4, <1>8 DEF Fine
<1>9. CASE x \notin Flights /\ task[x].kind = "credential"
  BY <1>1, <1>2, <1>5, <1>6, <1>9 DEF Fine
<1>. QED  BY <1>7, <1>8, <1>9

\* A step that concerns one task and leaves the lock to it or to the others.
LEMMA LockFrame ==
  ASSUME LockInv, NEW x \in Tasks, NEW t, Fine(x, t),
         task' = [task EXCEPT ![x] = t], gen' = gen,
         \/ holder' = holder /\ (t.pc \in LockedPcs <=> task[x].pc \in LockedPcs)
         \/ /\ holder \in {None, x} /\ holder' \in {None, x}
            /\ holder' = x <=> t.pc \in LockedPcs
  PROVE  LockInv'
<1>1. task' \in [Tasks -> TaskType] /\ task'[x] = t /\ \A y \in Tasks \ {x} : task'[y] = task[y]
  BY DEF LockInv, Fine
<1>2. \A y \in Tasks : Fine(y, task'[y])
  BY <1>1 DEF LockInv
<1>3. \A y \in Tasks : holder' = y <=> task'[y].pc \in LockedPcs
  BY <1>1, TaskNames DEF LockInv
<1>4. holder' \in {None} \cup Tasks
  BY DEF LockInv
<1>. QED  BY <1>1, <1>2, <1>3, <1>4 DEF LockInv, Fine

\* The holder of the lock, or a task that has just been given it, is over.
LEMMA EndLock ==
  ASSUME LockInv, NEW x \in Tasks, NEW out \in Outs, End(x, out), holder \in {None, x}, gen' = gen
  PROVE  /\ LockInv' /\ holder' = None /\ task' = [task EXCEPT ![x] = Over(x, out)]
         /\ task'[x].pc = "done" /\ task'[x].old \in {None, task[x].old}
         /\ task'[x].cred \in {None, task[x].cred}
         /\ \A y \in Tasks \ {x} : task'[y] = task[y]
<1>. DEFINE t == Over(x, out)
<1>1. /\ Fine(x, t) /\ t.pc = "done" /\ t.cred \in {None, task[x].cred}
      /\ t.old \in {None, task[x].old}
  BY OverFine DEF LockInv
<1>2. task' = [task EXCEPT ![x] = t] /\ holder' = None
  BY DEF End
<1>. HIDE DEF t
<1>3. t.pc \notin LockedPcs /\ x # None
  BY <1>1, TaskNames DEF LockedPcs
<1>4. LockInv'
  BY <1>1, <1>2, <1>3, LockFrame
<1>5. task'[x] = t /\ \A y \in Tasks \ {x} : task'[y] = task[y]
  BY <1>2 DEF LockInv
<1>. QED  BY <1>1, <1>2, <1>4, <1>5 DEF t

\* The holder of the lock goes on, or a task takes the lock.
LEMMA MoveLock ==
  ASSUME LockInv, NEW x \in Tasks, NEW t, Fine(x, t), t.pc \in LockedPcs,
         task' = [task EXCEPT ![x] = t], holder \in {None, x}, holder' = x, gen' = gen
  PROVE  /\ LockInv' /\ task'[x] = t
         /\ \A y \in Tasks \ {x} : task'[y] = task[y]
<1>1. LockInv'
  BY TaskNames, LockFrame
<1>. QED  BY <1>1 DEF LockInv

-----------------------------------------------------------------------------
(* Credentials.                                                            *)

\* A credential that has been issued and is not stored yet.
Fresh(x) ==
  /\ task[x].kind \in {"connect", "refresh"} /\ task[x].cred # None
  /\ task[x].pc \in {"waiting", "locked", "persist", "save"}
Unused(n) == n \notin asked \cup {vault} /\ \A x \in Tasks : task[x].old # n
Issued == {None} \cup 1..issued
Usable == record # None /\ record.state \notin Terminal

Stored ==
  /\ issued \in 0..MaxCreds /\ vault \in Issued
  /\ asked \subseteq 1..issued
  /\ record = None \/ \E state \in States, cred \in Issued : record = Entry(state, cred)
  /\ vault # None => record # None
\* Nobody has used a fresh credential, and no two tasks have the same.
FreshInv(x) ==
  /\ task[x].cred \in Issued /\ task[x].old \in Issued
  /\ Fresh(x) => /\ Unused(task[x].cred)
                 /\ \A y \in Tasks \ {x} : Fresh(y) => task[y].cred # task[x].cred
\* The record and the vault as the holder of the lock has found or left them.
Work(x) ==
  /\ task[x].kind = "refresh" =>
       /\ task[x].pc \in {"asking", "persist", "save"} => task[x].old = vault /\ vault # None
       /\ task[x].pc \in {"asking", "persist"} => Usable
       /\ task[x].pc \in {"persist", "save", "record"} =>
            task[x].cred # None /\ task[x].old # task[x].cred /\ task[x].old # None
       /\ task[x].pc \in {"save", "record"} => ~Usable
  /\ task[x].pc \in {"save", "record"} => record # None /\ task[x].cred # None
  /\ task[x].pc = "record" => vault = task[x].cred /\ vault \notin asked
  /\ task[x].pc \in {"ready", "due"} => Usable /\ task[x].cred = vault /\ vault # None
  /\ task[x].pc = "mark" => vault = None
  /\ task[x].kind = "connect" /\ task[x].pc \in {"waiting", "locked"} => task[x].cred # None

CredInv == Stored /\ \A x \in Tasks : FreshInv(x) /\ Work(x)

\* A task that gets no credential and no work.
Quieter(x) ==
  /\ task'[x].cred \in Issued /\ task'[x].old \in {None, task[x].old}
  /\ Fresh(x)' => Fresh(x) /\ task'[x].cred = task[x].cred
  /\ task'[x].pc \in {"asking", "persist", "save", "record", "ready", "due", "mark"} =>
       /\ task'[x].pc = task[x].pc /\ task'[x].kind = task[x].kind
       /\ task'[x].cred = task[x].cred /\ task'[x].old = task[x].old
  /\ task'[x].kind = "connect" /\ task'[x].pc \in {"waiting", "locked"} =>
       /\ task[x].kind = "connect" /\ task[x].pc \in {"waiting", "locked"}
       /\ task'[x].cred = task[x].cred

\* A step that leaves the stores alone and gives nobody a credential.
LEMMA CredFrame ==
  ASSUME CredInv, \A x \in Tasks : Quieter(x), UNCHANGED <<record, vault, issued>>,
         asked' \subseteq asked
  PROVE  CredInv'
<1>1. Stored' /\ Usable' = Usable
  BY DEF CredInv, Stored, Usable, Issued
<1>2. \A n : Unused(n) /\ n # None => Unused(n)'
  BY DEF Unused, Quieter
<1>3. ASSUME NEW x \in Tasks PROVE FreshInv(x)'
  <2>1. task'[x].cred \in Issued' /\ task'[x].old \in Issued'
    BY <1>3 DEF CredInv, FreshInv, Quieter, Issued
  <2>2. ASSUME Fresh(x)' PROVE Unused(task[x].cred)' /\ task'[x].cred = task[x].cred
    BY <1>2, <1>3, <2>2 DEF CredInv, FreshInv, Quieter, Fresh
  <2>3. ASSUME Fresh(x)', NEW y \in Tasks \ {x}, Fresh(y)' PROVE task'[y].cred # task'[x].cred
    BY <1>3, <2>3 DEF CredInv, FreshInv, Quieter
  <2>. QED  BY <2>1, <2>2, <2>3 DEF FreshInv
<1>4. ASSUME NEW x \in Tasks PROVE Work(x)'
  BY <1>1, <1>4 DEF CredInv, Work, Quieter
<1>. QED  BY <1>1, <1>3, <1>4 DEF CredInv

\* A step of the one task that may be at work.
LEMMA CredWork ==
  ASSUME LockInv', CredInv, NEW x \in Tasks, holder' \in {None, x},
         \A y \in Tasks \ {x} : task'[y] = task[y], issued' = issued, Stored',
         task'[x].cred \in Issued, task'[x].old \in {None, task[x].old, vault},
         Fresh(x)' => /\ Fresh(x) /\ task'[x].cred = task[x].cred
                      /\ task'[x].cred # vault' /\ task'[x].old # task'[x].cred,
         vault' \in {None, vault} \/ (Fresh(x) /\ vault' = task[x].cred /\ ~Fresh(x)'),
         asked' \subseteq asked \cup {task[x].old},
         Work(x)'
  PROVE  CredInv'
<1>1. \A y \in Tasks : task'[y].cred \in Issued' /\ task'[y].old \in Issued'
  BY DEF CredInv, FreshInv, Stored, Issued
<1>2. ASSUME NEW y \in Tasks, Fresh(y)' PROVE Fresh(y) /\ task'[y].cred = task[y].cred
  BY <1>2 DEF Fresh
<1>3. ASSUME NEW y \in Tasks, Fresh(y)' PROVE task'[y].cred \notin asked' \cup {vault'}
  <2>1. task[y].cred \notin asked \cup {vault} /\ task[y].cred # task[x].old /\ task[y].cred # None
    BY <1>2, <1>3 DEF CredInv, FreshInv, Unused, Fresh
  <2>2. y # x /\ Fresh(x) => task[y].cred # task[x].cred
    BY <1>2, <1>3 DEF CredInv, FreshInv
  <2>. QED  BY <1>2, <1>3, <2>1, <2>2
<1>4. ASSUME NEW y \in Tasks, Fresh(y)', NEW z \in Tasks PROVE task'[z].old # task'[y].cred
  <2>1. task[z].old # task[y].cred /\ task[x].old # task[y].cred /\ vault # task[y].cred
        /\ task[y].cred # None
    BY <1>2, <1>4 DEF CredInv, FreshInv, Unused, Fresh
  <2>. QED  BY <1>2, <1>4, <2>1
<1>5. ASSUME NEW y \in Tasks, Fresh(y)', NEW z \in Tasks \ {y}, Fresh(z)'
      PROVE  task'[z].cred # task'[y].cred
  BY <1>2, <1>5 DEF CredInv, FreshInv
<1>6. ASSUME NEW y \in Tasks \ {x} PROVE Work(y)'
  <2>1. task'[y].pc \notin LockedPcs
    BY <1>6, TaskNames DEF LockInv
  <2>. QED  BY <1>6, <2>1 DEF Work, LockedPcs, CredInv
<1>7. \A y \in Tasks : Work(y)'
  BY <1>6
<1>8. \A y \in Tasks : FreshInv(y)'
  BY <1>1, <1>3, <1>4, <1>5 DEF FreshInv, Unused
<1>. QED  BY <1>7, <1>8 DEF CredInv

Core == LockInv /\ CredInv

\* The end of the task under the lock, whatever it has written last.
LEMMA EndCore ==
  ASSUME Core, NEW x \in Tasks, NEW out \in Outs, End(x, out), holder \in {None, x},
         Stored', UNCHANGED <<gen, issued>>,
         vault' \in {None, vault} \/ (Fresh(x) /\ vault' = task[x].cred),
         asked' \subseteq asked \cup {task[x].old}
  PROVE  Core'
<1>1. /\ LockInv' /\ holder' = None
      /\ task'[x].pc = "done" /\ task'[x].old \in {None, task[x].old}
      /\ task'[x].cred \in {None, task[x].cred}
      /\ \A y \in Tasks \ {x} : task'[y] = task[y]
  BY EndLock DEF Core
<1>2. task'[x].cred \in Issued
  BY <1>1 DEF Core, CredInv, FreshInv, Issued
<1>3. ~Fresh(x)' /\ Work(x)'
  BY <1>1 DEF Fresh, Work
<1>. QED  BY <1>1, <1>2, <1>3, CredWork DEF Core

\* A step that leaves record and vault alone keeps them typed.
LEMMA StoredFrame ==
  ASSUME CredInv, UNCHANGED <<record, vault, issued>>,
         asked' \subseteq asked \cup (1..issued)
  PROVE  Stored'
BY DEF CredInv, Stored, Issued

\* So does one that writes the record or empties the vault.
LEMMA StoredWrites ==
  ASSUME CredInv, issued' = issued, asked' \subseteq asked \cup (1..issued), vault' \in {None, vault},
         \/ record' = record
         \/ \E state \in States, cred \in Issued : record' = Entry(state, cred)
  PROVE  Stored'
<1>1. \A state \in States, cred \in Issued : Entry(state, cred) # None
  BY ConstantsAssumption DEF CredInv, Stored, Issued
<1>2. CASE record' = record
  BY <1>2 DEF CredInv, Stored, Issued
<1>3. CASE \E state \in States, cred \in Issued : record' = Entry(state, cred)
  BY <1>1, <1>3 DEF CredInv, Stored, Issued
<1>. QED  BY <1>2, <1>3

-----------------------------------------------------------------------------
(* The steps.                                                              *)

\* A record is not None, and says what was written.
LEMMA EntryIs ==
  ASSUME CredInv, NEW state \in States, NEW cred \in Issued
  PROVE  /\ Entry(state, cred) # None
         /\ Entry(state, cred).state = state /\ Entry(state, cred).exp = cred
BY ConstantsAssumption DEF CredInv, Stored, Issued, Entry

\* What some task may be at work on, seen from the task that has the lock.
LEMMA Typed ==
  ASSUME Core, NEW x \in Tasks
  PROVE  /\ task[x] \in TaskType /\ Fine(x, task[x]) /\ x # None
         /\ holder = x <=> task[x].pc \in LockedPcs
         /\ task[x].cred \in Issued /\ task[x].old \in Issued
         /\ Issued \subseteq Creds /\ vault \in Issued /\ None \in Issued
         /\ {"connected", "expiring", "disconnected", "reauth-required"} = States
<1>1. issued \in 0..MaxCreds /\ MaxCreds \in Nat
  BY ConstantsAssumption DEF Core, CredInv, Stored
<1>2. Issued \subseteq Creds
  BY <1>1 DEF Issued, Creds
<1>3. {"connected", "expiring", "disconnected", "reauth-required"} = States
  BY DEF States, Terminal
<1>4. task[x].cred \in Issued /\ task[x].old \in Issued /\ vault \in Issued /\ None \in Issued
  BY DEF Core, CredInv, FreshInv, Stored, Issued
<1>. QED  BY <1>2, <1>3, <1>4, TaskNames DEF Core, LockInv, Fine

\* The task under the lock goes on to its next step.
LEMMA MoveCore ==
  ASSUME Core, NEW x \in Tasks, NEW t, Fine(x, t), t.pc \in LockedPcs,
         task' = [task EXCEPT ![x] = t], holder \in {None, x}, holder' = x,
         UNCHANGED <<gen, issued>>, Stored',
         t.cred \in Issued, t.old \in {None, task[x].old, vault},
         Fresh(x)' => /\ Fresh(x) /\ t.cred = task[x].cred /\ t.cred # vault' /\ t.old # t.cred,
         vault' \in {None, vault} \/ (Fresh(x) /\ vault' = task[x].cred /\ ~Fresh(x)'),
         asked' \subseteq asked \cup {task[x].old},
         Work(x)'
  PROVE  Core'
<1>1. LockInv' /\ task'[x] = t /\ \A y \in Tasks \ {x} : task'[y] = task[y]
  BY MoveLock DEF Core
<1>. QED  BY <1>1, CredWork DEF Core

\* A task that waits takes the lock, or finds that its caller gave up.
LEMMA AcquireCore ==
  ASSUME Core, NEW x \in Tasks, Acquire(x)
  PROVE  Core'
<1>1. /\ task[x].pc = "waiting" /\ holder = None
      /\ UNCHANGED <<record, vault, gen, stale, issued, asked, faults>>
  BY DEF Acquire, stores
<1>2. Stored'
  BY <1>1, StoredFrame DEF Core
<1>3. CASE End(x, "cancelled")
  BY <1>1, <1>2, <1>3, EndCore DEF Outs, Results
<1>4. CASE task' = [task EXCEPT ![x].pc = "locked"] /\ holder' = x
  <2>. DEFINE t == [task[x] EXCEPT !.pc = "locked"]
  <2>1. task' = [task EXCEPT ![x] = t]
    BY <1>4, Typed DEF Core, LockInv
  <2>2. /\ t \in TaskType /\ t.pc = "locked" /\ t.kind = task[x].kind /\ t.proc = task[x].proc
        /\ t.cred = task[x].cred /\ t.old = task[x].old
    <3>1. "locked" \in Pcs /\ task[x] \in TaskType
      BY Typed DEF Pcs, LockedPcs
    <3>. QED  BY <3>1, SetPc
  <2>. HIDE DEF t
  <2>3. Fine(x, t) /\ t.pc \in LockedPcs
    BY <1>1, <2>2, Typed DEF Fine, LockedPcs
  <2>4. task'[x] = t
    BY <2>1 DEF Core, LockInv
  <2>5. Work(x)'
    BY <1>1, <2>2, <2>4 DEF Core, CredInv, Work
  <2>6. Fresh(x)' => Fresh(x) /\ t.cred # vault' /\ t.old # t.cred
    BY <1>1, <2>2, <2>4 DEF Fresh, Core, CredInv, FreshInv, Unused
  <2>7. t.cred \in Issued
    BY <2>2, Typed
  <2>. QED  BY <1>1, <1>2, <1>4, <2>1, <2>2, <2>3, <2>5, <2>6, <2>7, MoveCore
<1>. QED  BY <1>3, <1>4 DEF Acquire

\* What the task under the lock is when it goes on to pc.
LEMMA GotoIs ==
  ASSUME Core, NEW x \in Tasks, NEW pc \in LockedPcs, holder = x,
         task' = [task EXCEPT ![x].pc = pc],
         pc \in {"ready", "due"} => task[x].kind = "credential",
         pc \in {"asking", "persist", "fail"} => task[x].kind = "refresh",
         pc \in {"save", "record"} => task[x].kind \in {"connect", "refresh"}
  PROVE  /\ Fine(x, task'[x]) /\ task' = [task EXCEPT ![x] = task'[x]]
         /\ task'[x].pc = pc /\ task'[x].kind = task[x].kind /\ task'[x].proc = task[x].proc
         /\ task'[x].gen = task[x].gen /\ task'[x].cred = task[x].cred
         /\ task'[x].old = task[x].old /\ task'[x].out = task[x].out
<1>. DEFINE t == [task[x] EXCEPT !.pc = pc]
<1>1. task' = [task EXCEPT ![x] = t] /\ task'[x] = t
  BY DEF Core, LockInv
<1>2. pc \in Pcs /\ task[x] \in TaskType
  BY Typed DEF Pcs
<1>3. /\ t \in TaskType /\ t.pc = pc /\ t.kind = task[x].kind /\ t.proc = task[x].proc
      /\ t.gen = task[x].gen /\ t.cred = task[x].cred /\ t.old = task[x].old /\ t.out = task[x].out
  BY <1>2, SetPc
<1>. HIDE DEF t
<1>4. Fine(x, t)
  <2>1. task[x].pc \in LockedPcs /\ Fine(x, task[x])
    BY Typed
  <2>2. task[x].pc \notin {"none", "done"} /\ pc \notin {"join", "joined", "none", "done"}
    BY <2>1 DEF LockedPcs
  <2>. QED  BY <1>3, <2>1, <2>2 DEF Fine
<1>. QED  BY <1>1, <1>3, <1>4

\* An operation goes on to empty the vault, whatever it will end with.
LEMMA DeleteCore ==
  ASSUME Core, NEW x \in Tasks, holder = x, holder' = holder,
         \/ task' = [task EXCEPT ![x].pc = "delete"]
         \/ \E out \in Outs : task' = [task EXCEPT ![x].pc = "delete", ![x].out = out],
         Stored', vault' \in {None, vault} \/ (Fresh(x) /\ vault' = task[x].cred),
         UNCHANGED <<gen, issued>>, asked' \subseteq asked
  PROVE  Core' /\ task'[x].pc = "delete"
<1>0. /\ "delete" \in Pcs /\ "delete" \in LockedPcs /\ task[x] \in TaskType /\ Fine(x, task[x])
      /\ task[x].pc \in LockedPcs
  BY Typed DEF Pcs, LockedPcs
<1>. DEFINE u == [task[x] EXCEPT !.pc = "delete"]
<1>1. /\ u \in TaskType /\ u.pc = "delete" /\ u.kind = task[x].kind /\ u.proc = task[x].proc
      /\ u.cred = task[x].cred /\ u.old = task[x].old
  BY <1>0, SetPc
<1>2. PICK t : /\ task' = [task EXCEPT ![x] = t] /\ t \in TaskType /\ t.pc = "delete"
               /\ t.kind = task[x].kind /\ t.proc = task[x].proc
               /\ t.cred = task[x].cred /\ t.old = task[x].old
  <2>1. CASE task' = [task EXCEPT ![x].pc = "delete"]
    <3>1. task' = [task EXCEPT ![x] = u]
      BY <2>1 DEF Core, LockInv
    <3>. HIDE DEF u
    <3>. QED  BY <1>1, <3>1
  <2>2. ASSUME NEW out \in Outs, task' = [task EXCEPT ![x].pc = "delete", ![x].out = out]
        PROVE  \E t : /\ task' = [task EXCEPT ![x] = t] /\ t \in TaskType /\ t.pc = "delete"
                      /\ t.kind = task[x].kind /\ t.proc = task[x].proc
                      /\ t.cred = task[x].cred /\ t.old = task[x].old
    <3>. DEFINE v == [u EXCEPT !.out = out]
    <3>1. task' = [task EXCEPT ![x] = v]
      BY <2>2 DEF Core, LockInv
    <3>. HIDE DEF u
    <3>2. /\ v \in TaskType /\ v.pc = "delete" /\ v.kind = task[x].kind /\ v.proc = task[x].proc
          /\ v.cred = task[x].cred /\ v.old = task[x].old
      BY <1>1, SetOut
    <3>. HIDE DEF v
    <3>. QED  BY <3>1, <3>2
  <2>. QED  BY <2>1, <2>2
<1>3. task'[x] = t
  BY <1>2 DEF Core, LockInv
<1>4. Fine(x, t)
  <2>1. task[x].proc \in Procs
    BY <1>0 DEF Fine, LockedPcs
  <2>. QED  BY <1>0, <1>2, <2>1 DEF Fine
<1>5. ~Fresh(x)' /\ Work(x)'
  BY <1>2, <1>3 DEF Fresh, Work
<1>6. t.cred \in Issued
  BY <1>2, Typed
<1>7. Core'
  BY <1>0, <1>2, <1>4, <1>5, <1>6, MoveCore
<1>. QED  BY <1>2, <1>3, <1>7

\* disconnect and connect up to the vault.
LEMMA DisconnectCore ==
  ASSUME Core, NEW c \in Calls, Disconnect(c)
  PROVE  Core'
<1>1. /\ c \in Tasks /\ holder = c /\ UNCHANGED <<vault, gen, stale, issued, asked, faults>>
      /\ None \in Issued /\ "disconnected" \in States
  BY Typed DEF Disconnect, At, Tasks, States, Terminal
<1>2. CASE End(c, "failed") /\ UNCHANGED record
  <2>1. Stored'
    BY <1>1, <1>2, StoredFrame DEF Core
  <2>. QED  BY <1>1, <1>2, <2>1, EndCore DEF Outs, Results
<1>3. CASE record' = Entry("disconnected", None) /\ Goto(c, "delete")
  <2>1. Stored'
    BY <1>1, <1>3, StoredWrites DEF Core
  <2>. QED  BY <1>1, <1>3, <2>1, DeleteCore DEF Goto
<1>. QED  BY <1>2, <1>3 DEF Disconnect

LEMMA EmptyCore ==
  ASSUME Core, NEW x \in Tasks, Delete(x)
  PROVE  Core'
<1>1. /\ holder = x /\ UNCHANGED <<record, gen, stale, issued, asked, faults>> /\ vault' = None
      /\ End(x, IF task[x].out = None THEN "ok" ELSE task[x].out)
  BY DEF Delete
<1>2. (IF task[x].out = None THEN "ok" ELSE task[x].out) \in Outs
  BY Typed DEF TaskType, Outs, Results
<1>3. Stored'
  BY <1>1, StoredWrites DEF Core
<1>. QED  BY <1>1, <1>2, <1>3, EndCore

LEMMA CreateCore ==
  ASSUME Core, NEW c \in Calls, Create(c)
  PROVE  Core'
<1>1. /\ c \in Tasks /\ holder = c /\ UNCHANGED <<vault, gen, stale, issued, asked, faults>>
      /\ None \in Issued /\ "disconnected" \in States
      /\ task[c].kind = "connect" /\ task[c].pc = "locked"
  BY Typed DEF Create, At, Tasks, States, Terminal
<1>2. CASE End(c, "cancelled") /\ UNCHANGED record
  <2>1. Stored'
    BY <1>1, <1>2, StoredFrame DEF Core
  <2>. QED  BY <1>1, <1>2, <2>1, EndCore DEF Outs, Results
<1>3. CASE record' = Created /\ Goto(c, "save")
  <2>1. Stored' /\ record' # None
    <3>1. record' = Entry("disconnected", None) \/ (record' = record /\ record # None)
      BY <1>3 DEF Created
    <3>2. Entry("disconnected", None) # None
      BY <1>1, EntryIs DEF Core
    <3>. QED  BY <1>1, <3>1, <3>2, StoredWrites DEF Core
  <2>2. /\ Fine(c, task'[c]) /\ task' = [task EXCEPT ![c] = task'[c]]
        /\ task'[c].pc = "save" /\ task'[c].kind = "connect"
        /\ task'[c].cred = task[c].cred /\ task'[c].old = task[c].old
    BY <1>1, <1>3, GotoIs DEF Goto, LockedPcs
  <2>3. Fresh(c) /\ task[c].cred # vault /\ task[c].old # task[c].cred /\ task[c].cred # None
    BY <1>1 DEF Core, CredInv, Work, FreshInv, Unused, Fresh
  <2>4. Work(c)'
    BY <2>1, <2>2, <2>3 DEF Work
  <2>5. task'[c].cred \in Issued
    BY <1>1, <2>2, Typed
  <2>6. "save" \in LockedPcs /\ holder' = c
    BY <1>1, <1>3 DEF LockedPcs, Goto
  <2>. QED  BY <1>1, <2>1, <2>2, <2>3, <2>4, <2>5, <2>6, MoveCore
<1>. QED  BY <1>2, <1>3 DEF Create

\* The vault takes the new credential, which is unlike every earlier one.
LEMMA SaveCore ==
  ASSUME Core, NEW x \in Tasks, Save(x)
  PROVE  Core'
<1>1. /\ holder = x /\ task[x].pc = "save" /\ vault' = task[x].cred
      /\ UNCHANGED <<record, gen, stale, issued, asked, faults>>
      /\ task[x].kind \in {"connect", "refresh"}
  BY Typed DEF Save, Fine
<1>2. /\ record # None /\ task[x].cred # None /\ Fresh(x)
      /\ task[x].kind = "refresh" =>
           ~Usable /\ task[x].old # task[x].cred /\ task[x].old # None
  BY <1>1 DEF Core, CredInv, Work, Fresh
<1>3. Stored' /\ vault' \notin asked'
  BY <1>1, <1>2 DEF Core, CredInv, Stored, FreshInv, Unused, Issued
<1>4. CASE Goto(x, "record")
  <2>1. /\ Fine(x, task'[x]) /\ task' = [task EXCEPT ![x] = task'[x]]
        /\ task'[x].pc = "record" /\ task'[x].kind = task[x].kind
        /\ task'[x].cred = task[x].cred /\ task'[x].old = task[x].old
    BY <1>1, <1>4, GotoIs DEF Goto, LockedPcs
  <2>2. Work(x)' /\ ~Fresh(x)'
    BY <1>1, <1>2, <1>3, <2>1 DEF Work, Usable, Fresh
  <2>3. task'[x].cred \in Issued
    BY <2>1, Typed
  <2>4. "record" \in LockedPcs /\ holder' = x
    BY <1>1, <1>4 DEF LockedPcs, Goto
  <2>. QED  BY <1>1, <1>2, <1>3, <2>1, <2>2, <2>3, <2>4, MoveCore
<1>5. CASE DeleteAndThrow(x, "cancelled")
  BY <1>1, <1>2, <1>3, <1>5, DeleteCore DEF DeleteAndThrow, Outs, Results
<1>. QED  BY <1>4, <1>5 DEF Save

\* The record says what the vault has.
LEMMA RecordCore ==
  ASSUME Core, NEW x \in Tasks, Record(x)
  PROVE  Core'
<1>1. /\ holder = x /\ UNCHANGED <<vault, gen, stale, issued, asked, faults>>
      /\ \E state \in States, cred \in Issued : record' = Entry(state, cred)
      /\ End(x, "ok") \/ DeleteAndThrow(x, "cancelled")
  <2>1. (IF task[x].kind = "connect" THEN StateOf(task[x].cred) ELSE "connected") \in States
    BY DEF StateOf, States
  <2>. QED  BY <2>1, Typed DEF Record
<1>2. Stored'
  BY <1>1, StoredWrites DEF Core
<1>3. CASE End(x, "ok")
  BY <1>1, <1>2, <1>3, EndCore DEF Outs, Results
<1>4. CASE DeleteAndThrow(x, "cancelled")
  BY <1>1, <1>2, <1>4, DeleteCore DEF DeleteAndThrow, Outs, Results
<1>. QED  BY <1>1, <1>3, <1>4

\* A credential call finds the vault empty, or reads it.
LEMMA LoadCore ==
  ASSUME Core, NEW c \in Calls, Load(c)
  PROVE  Core'
<1>1. /\ c \in Tasks /\ holder = c /\ task[c].kind = "credential" /\ task[c].pc = "locked"
      /\ UNCHANGED <<record, vault, gen, stale, issued, asked, faults>>
  BY DEF Load, At, stores, Tasks
<1>2. Stored'
  BY <1>1, StoredFrame DEF Core
<1>3. CASE End(c, "cancelled") \/ End(c, "failed") \/ End(c, "reauth")
  BY <1>1, <1>2, <1>3, EndCore DEF Outs, Results
<1>4. CASE Goto(c, "mark") /\ vault = None
  <2>1. /\ Fine(c, task'[c]) /\ task' = [task EXCEPT ![c] = task'[c]]
        /\ task'[c].pc = "mark" /\ task'[c].kind = "credential"
        /\ task'[c].cred = task[c].cred /\ task'[c].old = task[c].old
    BY <1>1, <1>4, GotoIs DEF Goto, LockedPcs
  <2>2. Work(c)' /\ ~Fresh(c)' /\ task'[c].cred \in Issued
    BY <1>1, <1>4, <2>1, Typed DEF Work, Fresh
  <2>3. "mark" \in LockedPcs /\ holder' = c
    BY <1>1, <1>4 DEF LockedPcs, Goto
  <2>. QED  BY <1>1, <1>2, <2>1, <2>2, <2>3, MoveCore
<1>5. ASSUME NEW pc \in {"due", "ready"}, Usable, vault # None,
             task' = [task EXCEPT ![c].pc = pc, ![c].cred = vault], holder' = holder
      PROVE  Core'
  <2>. DEFINE u == [task[c] EXCEPT !.pc = pc]
              t == [u EXCEPT !.cred = vault]
  <2>0. pc \in LockedPcs /\ pc \in Pcs
    BY DEF LockedPcs, Pcs
  <2>1. task' = [task EXCEPT ![c] = t]
    BY <1>1, <1>5 DEF Core, LockInv
  <2>2. u \in TaskType /\ u.pc = pc /\ u.kind = "credential" /\ u.proc = task[c].proc
        /\ u.old = task[c].old
    BY <1>1, <2>0, SetPc, Typed
  <2>. HIDE DEF u
  <2>3. /\ t \in TaskType /\ t.pc = pc /\ t.kind = "credential" /\ t.proc = task[c].proc
        /\ t.old = task[c].old /\ t.cred = vault
    <3>1. vault \in Creds
      BY <1>1, Typed
    <3>. QED  BY <2>2, <3>1, SetCred
  <2>. HIDE DEF t
  <2>4. Fine(c, t)
    <3>1. Fine(c, task[c])
      BY <1>1, Typed
    <3>. QED  BY <1>1, <2>3, <3>1 DEF Fine
  <2>5. task'[c] = t
    BY <1>1, <2>1 DEF Core, LockInv
  <2>6. Work(c)' /\ ~Fresh(c)' /\ t.cred \in Issued
    BY <1>1, <1>5, <2>3, <2>5, Typed DEF Work, Fresh, Usable
  <2>. QED  BY <1>1, <1>2, <1>5, <2>0, <2>1, <2>3, <2>4, <2>5, <2>6, MoveCore
<1>6. CASE /\ record # None /\ vault # None /\ record.state \notin Terminal /\ holder' = holder
           /\ task' = [task EXCEPT ![c].pc = IF vault \in stale THEN "due" ELSE "ready",
                                   ![c].cred = vault]
  BY <1>5, <1>6 DEF Usable
<1>. QED  BY <1>3, <1>4, <1>6 DEF Load

\* The record is marked, confirmed or found to be expiring.
LEMMA MarkCore ==
  ASSUME Core, NEW x \in Tasks, Mark(x)
  PROVE  Core'
<1>1. /\ holder = x /\ UNCHANGED <<vault, gen, stale, issued, asked, faults>>
      /\ record' = Entry("reauth-required", None) /\ "reauth-required" \in States /\ None \in Issued
  BY Typed DEF Mark
<1>2. End(x, "cancelled") \/ End(x, "reauth")
  BY DEF Mark
<1>3. Stored'
  BY <1>1, StoredWrites DEF Core
<1>. QED  BY <1>1, <1>2, <1>3, EndCore DEF Outs, Results

LEMMA ReadyCore ==
  ASSUME Core, NEW c \in Calls, Ready(c)
  PROVE  Core'
<1>1. /\ c \in Tasks /\ holder = c /\ UNCHANGED <<vault, gen, stale, issued, asked, faults>>
      /\ record' = Entry("connected", task[c].cred)
      /\ "connected" \in States /\ task[c].cred \in Issued
  BY Typed DEF Ready, Tasks
<1>2. End(c, "ok") \/ End(c, "cancelled")
  BY DEF Ready
<1>3. Stored'
  BY <1>1, StoredWrites DEF Core
<1>. QED  BY <1>1, <1>2, <1>3, EndCore DEF Outs, Results

LEMMA DueCore ==
  ASSUME Core, NEW c \in Calls, Due(c)
  PROVE  Core'
<1>1. /\ c \in Tasks /\ holder = c /\ task[c].pc = "due"
      /\ UNCHANGED <<vault, gen, stale, issued, asked, faults>>
      /\ record' = Entry("expiring", task[c].cred)
      /\ "expiring" \in States /\ task[c].cred \in Issued /\ None \in Issued
  BY Typed DEF Due, Tasks
<1>2. Stored'
  BY <1>1, StoredWrites DEF Core
<1>3. CASE End(c, "cancelled")
  BY <1>1, <1>2, <1>3, EndCore DEF Outs, Results
<1>4. CASE task' = [task EXCEPT ![c].pc = "join", ![c].cred = None] /\ holder' = None
  <2>. DEFINE u == [task[c] EXCEPT !.pc = "join"]
              t == [u EXCEPT !.cred = None]
  <2>0. "join" \notin LockedPcs /\ "join" \in Pcs /\ None \in Creds
    BY DEF LockedPcs, Pcs, Creds
  <2>1. task' = [task EXCEPT ![c] = t]
    BY <1>1, <1>4 DEF Core, LockInv
  <2>2. /\ u \in TaskType /\ u.pc = "join" /\ u.kind = task[c].kind /\ u.proc = task[c].proc
        /\ u.old = task[c].old
    BY <1>1, <2>0, SetPc, Typed
  <2>. HIDE DEF u
  <2>3. /\ t \in TaskType /\ t.pc = "join" /\ t.kind = task[c].kind /\ t.proc = task[c].proc
        /\ t.old = task[c].old /\ t.cred = None
    BY <2>0, <2>2, SetCred
  <2>. HIDE DEF t
  <2>4. Fine(c, t)
    <3>1. Fine(c, task[c])
      BY <1>1, Typed
    <3>. QED  BY <1>1, <2>3, <3>1 DEF Fine
  <2>5. task'[c] = t /\ \A y \in Tasks \ {c} : task'[y] = task[y]
    BY <1>1, <2>1 DEF Core, LockInv
  <2>6. LockInv'
    BY <1>1, <1>4, <2>0, <2>1, <2>3, <2>4, TaskNames, LockFrame DEF Core
  <2>7. Work(c)' /\ ~Fresh(c)'
    BY <2>3, <2>5 DEF Work, Fresh
  <2>. QED  BY <1>1, <1>2, <1>4, <2>3, <2>5, <2>6, <2>7, CredWork DEF Core
<1>. QED  BY <1>3, <1>4 DEF Due

\* A flight is a task of the refresh kind.
LEMMA FlightIs ==
  ASSUME Core, NEW x \in Tasks, task[x].kind = "refresh"
  PROVE  x \in Flights /\ x \notin Calls
BY Typed, TaskNames DEF Fine

\* The flight finds that it has nothing to do, or asks with what it read.
LEMMA FlightLoadCore ==
  ASSUME Core, NEW f \in Flights, FlightLoad(f)
  PROVE  Core'
<1>1. /\ f \in Tasks /\ holder = f /\ task[f].kind = "refresh" /\ task[f].pc = "locked"
      /\ UNCHANGED <<record, vault, gen, stale, issued, asked, faults>>
  BY DEF FlightLoad, At, stores, Tasks
<1>2. Stored'
  BY <1>1, StoredFrame DEF Core
<1>3. CASE End(f, "cancelled") \/ End(f, "reauth")
  BY <1>1, <1>2, <1>3, EndCore DEF Outs, Results
<1>4. CASE Goto(f, "mark") /\ vault = None
  <2>1. /\ Fine(f, task'[f]) /\ task' = [task EXCEPT ![f] = task'[f]]
        /\ task'[f].pc = "mark" /\ task'[f].kind = "refresh"
        /\ task'[f].cred = task[f].cred /\ task'[f].old = task[f].old
    BY <1>1, <1>4, GotoIs DEF Goto, LockedPcs
  <2>2. Work(f)' /\ ~Fresh(f)' /\ task'[f].cred \in Issued
    BY <1>1, <1>4, <2>1, Typed DEF Work, Fresh
  <2>3. "mark" \in LockedPcs /\ holder' = f
    BY <1>1, <1>4 DEF LockedPcs, Goto
  <2>. QED  BY <1>1, <1>2, <2>1, <2>2, <2>3, MoveCore
<1>5. CASE /\ task' = [task EXCEPT ![f].pc = "done", ![f].out = "ok", ![f].cred = vault]
           /\ holder' = None
  <2>. DEFINE u == [task[f] EXCEPT !.pc = "done"]
              v == [u EXCEPT !.out = "ok"]
              t == [v EXCEPT !.cred = vault]
  <2>0. "done" \notin LockedPcs /\ "done" \in Pcs /\ "ok" \in Outs /\ vault \in Creds
    BY <1>1, Typed DEF LockedPcs, Pcs, Outs, Results
  <2>1. task' = [task EXCEPT ![f] = t]
    BY <1>1, <1>5 DEF Core, LockInv
  <2>2. /\ u \in TaskType /\ u.pc = "done" /\ u.kind = task[f].kind /\ u.proc = task[f].proc
        /\ u.old = task[f].old
    BY <1>1, <2>0, SetPc, Typed
  <2>. HIDE DEF u
  <2>3. /\ v \in TaskType /\ v.pc = "done" /\ v.kind = task[f].kind /\ v.proc = task[f].proc
        /\ v.old = task[f].old
    BY <2>0, <2>2, SetOut
  <2>. HIDE DEF v
  <2>4. /\ t \in TaskType /\ t.pc = "done" /\ t.kind = task[f].kind /\ t.proc = task[f].proc
        /\ t.old = task[f].old /\ t.cred = vault
    BY <2>0, <2>3, SetCred
  <2>. HIDE DEF t
  <2>5. Fine(f, t)
    <3>1. Fine(f, task[f])
      BY <1>1, Typed
    <3>. QED  BY <1>1, <2>4, <3>1 DEF Fine
  <2>6. task'[f] = t /\ \A y \in Tasks \ {f} : task'[y] = task[y]
    BY <1>1, <2>1 DEF Core, LockInv
  <2>7. LockInv'
    BY <1>1, <1>5, <2>0, <2>1, <2>4, <2>5, TaskNames, LockFrame DEF Core
  <2>8. Work(f)' /\ ~Fresh(f)' /\ vault \in Issued
    BY <1>1, <2>4, <2>6, Typed DEF Work, Fresh
  <2>. QED  BY <1>1, <1>2, <1>5, <2>4, <2>6, <2>7, <2>8, CredWork DEF Core
<1>6. CASE /\ record.state \notin Terminal /\ vault # None /\ UNCHANGED holder
           /\ task' = [task EXCEPT ![f].pc = "asking", ![f].old = vault]
  <2>. DEFINE u == [task[f] EXCEPT !.pc = "asking"]
              t == [u EXCEPT !.old = vault]
  <2>0. "asking" \in LockedPcs /\ "asking" \in Pcs /\ vault \in Creds
    BY <1>1, Typed DEF LockedPcs, Pcs
  <2>1. task' = [task EXCEPT ![f] = t]
    BY <1>1, <1>6 DEF Core, LockInv
  <2>2. /\ u \in TaskType /\ u.pc = "asking" /\ u.kind = task[f].kind /\ u.proc = task[f].proc
        /\ u.cred = task[f].cred
    BY <1>1, <2>0, SetPc, Typed
  <2>. HIDE DEF u
  <2>3. /\ t \in TaskType /\ t.pc = "asking" /\ t.kind = task[f].kind /\ t.proc = task[f].proc
        /\ t.cred = task[f].cred /\ t.old = vault
    BY <2>0, <2>2, SetOld
  <2>. HIDE DEF t
  <2>4. Fine(f, t)
    <3>1. Fine(f, task[f])
      BY <1>1, Typed
    <3>. QED  BY <1>1, <2>3, <3>1 DEF Fine
  <2>5. task'[f] = t
    BY <1>1, <2>1 DEF Core, LockInv
  <2>6. Usable
    BY <1>6 DEF Core, CredInv, Stored, Usable
  <2>7. Work(f)' /\ ~Fresh(f)' /\ t.cred \in Issued
    BY <1>1, <1>6, <2>3, <2>5, <2>6, Typed DEF Work, Fresh, Usable
  <2>. QED  BY <1>1, <1>2, <1>6, <2>0, <2>1, <2>3, <2>4, <2>7, MoveCore
<1>. QED  BY <1>3, <1>4, <1>5, <1>6 DEF FlightLoad

\* A credential that is issued is unlike every earlier one.
LEMMA IssueKeeps ==
  ASSUME Core, NEW x \in Tasks, issued < MaxCreds, issued' = issued + 1,
         UNCHANGED <<record, vault>>,
         asked' = asked \/ (task[x].old # None /\ asked' = asked \cup {task[x].old}),
         task'[x].cred = issued + 1, task'[x].old \in {None, task[x].old},
         \A y \in Tasks \ {x} : /\ task'[y].cred = task[y].cred /\ task'[y].old = task[y].old
                                /\ Fresh(y)' => Fresh(y)
  PROVE  Stored' /\ \A y \in Tasks : FreshInv(y)'
<1>. DEFINE n == issued + 1
<1>1. issued \in Nat /\ MaxCreds \in Nat
  BY ConstantsAssumption DEF Core, CredInv, Stored
<1>2. n \notin Issued /\ n # None /\ Issued' = Issued \cup {n}
  BY <1>1, TaskNames DEF Issued
<1>3. Stored'
  <2>1. issued' \in 0..MaxCreds /\ 1..issued \subseteq 1..issued'
    BY <1>1
  <2>2. asked' \subseteq 1..issued
    BY Typed DEF Core, CredInv, Stored, Issued
  <2>. QED  BY <1>2, <2>1, <2>2 DEF Core, CredInv, Stored
<1>4. task'[x].cred = n
  OBVIOUS
<1>. HIDE DEF n
<1>5. /\ \A y \in Tasks : task[y].old \in Issued /\ task[y].cred \in Issued
      /\ vault \in Issued /\ asked' \subseteq Issued /\ None \in Issued
  BY Typed DEF Core, CredInv, Stored, Issued
<1>6. \A y \in Tasks : /\ task'[y].cred \in Issued' /\ task'[y].old \in Issued
                       /\ y # x => task'[y].cred \in Issued
  BY <1>2, <1>4, <1>5
<1>7. ASSUME NEW y \in Tasks \ {x}, Fresh(y)' PROVE FreshInv(y)'
  <2>1. Unused(task[y].cred) /\ task[y].cred # None
    BY <1>7 DEF Core, CredInv, FreshInv, Fresh
  <2>2. Unused(task[y].cred)'
    <3>1. \A z \in Tasks : task'[z].old # task'[y].cred
      BY <1>7, <2>1 DEF Unused
    <3>. QED  BY <1>7, <2>1, <3>1 DEF Unused
  <2>3. \A z \in Tasks \ {y} : Fresh(z)' => task'[z].cred # task'[y].cred
    BY <1>2, <1>4, <1>6, <1>7 DEF Core, CredInv, FreshInv
  <2>. QED  BY <1>2, <1>6, <1>7, <2>2, <2>3 DEF FreshInv
<1>8. FreshInv(x)'
  <2>1. Unused(task[x].cred)'
    BY <1>2, <1>4, <1>5, <1>6 DEF Unused
  <2>2. \A z \in Tasks \ {x} : task'[z].cred # task'[x].cred
    BY <1>2, <1>4, <1>6
  <2>. QED  BY <1>2, <1>6, <2>1, <2>2 DEF FreshInv
<1>9. \A y \in Tasks : FreshInv(y)'
  BY <1>2, <1>6, <1>7, <1>8 DEF FreshInv
<1>. QED  BY <1>3, <1>9

\* The provider answers: the flight has a fresh credential.
LEMMA AnswerCore ==
  ASSUME Core, NEW f \in Flights, Answer(f)
  PROVE  Core'
<1>1. /\ f \in Tasks /\ holder = f /\ task[f].kind = "refresh" /\ task[f].pc = "asking"
      /\ issued < MaxCreds /\ issued' = issued + 1
      /\ task' = [task EXCEPT ![f].pc = "persist", ![f].cred = issued + 1]
      /\ UNCHANGED <<record, vault, holder, gen, stale, faults>>
      /\ asked' = asked \cup {task[f].old}
  BY DEF Answer, Asking, At, stores, Tasks
<1>2. issued + 1 \in Creds /\ issued + 1 # None /\ issued + 1 \notin Issued
  <2>1. issued \in Nat /\ MaxCreds \in Nat
    BY ConstantsAssumption DEF Core, CredInv, Stored
  <2>. QED  BY <1>1, <2>1, TaskNames DEF Creds, Issued
<1>. DEFINE n == issued + 1
            u == [task[f] EXCEPT !.pc = "persist"]
            t == [u EXCEPT !.cred = n]
<1>3. "persist" \in LockedPcs /\ "persist" \in Pcs
  BY DEF LockedPcs, Pcs
<1>4. task' = [task EXCEPT ![f] = t]
  BY <1>1 DEF Core, LockInv
<1>5. /\ u \in TaskType /\ u.pc = "persist" /\ u.kind = task[f].kind /\ u.proc = task[f].proc
      /\ u.old = task[f].old
  BY <1>1, <1>3, SetPc, Typed
<1>. HIDE DEF u
<1>6. /\ t \in TaskType /\ t.pc = "persist" /\ t.kind = task[f].kind /\ t.proc = task[f].proc
      /\ t.old = task[f].old /\ t.cred = n
  BY <1>2, <1>5, SetCred
<1>. HIDE DEF t
<1>7. Fine(f, t)
  <2>1. Fine(f, task[f])
    BY <1>1, Typed
  <2>. QED  BY <1>1, <1>6, <2>1 DEF Fine
<1>8. task'[f] = t /\ \A y \in Tasks \ {f} : task'[y] = task[y]
  BY <1>1, <1>4 DEF Core, LockInv
<1>9. LockInv'
  BY <1>1, <1>3, <1>4, <1>6, <1>7, MoveLock DEF Core
<1>10. Stored' /\ \A y \in Tasks : FreshInv(y)'
  <2>1. \A y \in Tasks \ {f} : /\ task'[y].cred = task[y].cred /\ task'[y].old = task[y].old
                               /\ Fresh(y)' => Fresh(y)
    BY <1>8 DEF Fresh
  <2>2. task[f].old # None
    BY <1>1 DEF Core, CredInv, Work
  <2>. QED  BY <1>1, <1>6, <1>8, <2>1, <2>2, IssueKeeps
<1>11. Usable' = Usable
  BY <1>1 DEF Usable
<1>12. Work(f)'
  <2>1. task[f].old = vault /\ vault # None /\ Usable /\ vault \in Issued
    BY <1>1, Typed DEF Core, CredInv, Work
  <2>. QED  BY <1>1, <1>2, <1>6, <1>8, <1>11, <2>1 DEF Work
<1>13. ASSUME NEW y \in Tasks \ {f} PROVE Work(y)'
  <2>1. task[y].pc # "record"
    BY <1>1, <1>13, Typed DEF LockedPcs
  <2>. QED  BY <1>1, <1>8, <1>11, <1>13, <2>1 DEF Core, CredInv, Work
<1>. QED  BY <1>9, <1>10, <1>12, <1>13 DEF Core, CredInv

\* The flight gives up what it asked for.
LEMMA RefuseCore ==
  ASSUME Core, NEW f \in Flights, NEW out \in {"reauth", "timeout"}, Refuse(f, out)
  PROVE  Core'
<1>. DEFINE late == out = "timeout"
<1>1. /\ f \in Tasks /\ holder = f /\ task[f].kind = "refresh" /\ task[f].pc = "asking"
      /\ task' = [task EXCEPT ![f].pc = "fail", ![f].out = out, ![f].aborted = late]
      /\ UNCHANGED <<record, vault, holder, gen, stale, issued, faults>>
      /\ asked' = asked \cup {task[f].old} /\ task[f].old \in 1..issued
  <2>1. /\ f \in Tasks /\ holder = f /\ Refuse(f, out)
        /\ task[f].kind = "refresh" /\ task[f].pc = "asking"
    BY DEF Refuse, Asking, At, Tasks
  <2>2. task[f].old \in 1..issued
    BY <2>1, Typed DEF Core, CredInv, Work, Issued
  <2>. QED  BY <2>1, <2>2 DEF Refuse, stores
<1>. DEFINE u == [task[f] EXCEPT !.pc = "fail"]
            v == [u EXCEPT !.out = out]
            t == [v EXCEPT !.aborted = late]
<1>2. "fail" \in LockedPcs /\ "fail" \in Pcs /\ out \in Outs /\ late \in BOOLEAN
  BY DEF LockedPcs, Pcs, Outs, Results
<1>. HIDE DEF late
<1>3. task' = [task EXCEPT ![f] = t]
  BY <1>1 DEF Core, LockInv
<1>4. /\ u \in TaskType /\ u.pc = "fail" /\ u.kind = task[f].kind /\ u.proc = task[f].proc
      /\ u.old = task[f].old /\ u.cred = task[f].cred
  BY <1>1, <1>2, SetPc, Typed
<1>. HIDE DEF u
<1>5. /\ v \in TaskType /\ v.pc = "fail" /\ v.kind = task[f].kind /\ v.proc = task[f].proc
      /\ v.old = task[f].old /\ v.cred = task[f].cred
  BY <1>2, <1>4, SetOut
<1>. HIDE DEF v
<1>6. /\ t \in TaskType /\ t.pc = "fail" /\ t.kind = task[f].kind /\ t.proc = task[f].proc
      /\ t.old = task[f].old /\ t.cred = task[f].cred
  BY <1>2, <1>5, SetAborted
<1>. HIDE DEF t
<1>7. Fine(f, t)
  <2>1. Fine(f, task[f])
    BY <1>1, Typed
  <2>. QED  BY <1>1, <1>6, <2>1 DEF Fine
<1>8. task'[f] = t
  BY <1>1, <1>3 DEF Core, LockInv
<1>9. Work(f)' /\ ~Fresh(f)' /\ t.cred \in Issued
  BY <1>1, <1>6, <1>8, Typed DEF Work, Fresh
<1>10. Stored'
  BY <1>1, StoredFrame DEF Core
<1>. QED  BY <1>1, <1>2, <1>3, <1>6, <1>7, <1>9, <1>10, MoveCore

\* A refused credential is given up, in the record and then in the vault.
LEMMA GiveUpCore ==
  ASSUME Core, NEW f \in Flights, Persist(f) \/ TerminalFailure(f) \/ Cancel(f)
  PROVE  Core'
<1>1. /\ f \in Tasks /\ holder = f /\ task[f].kind = "refresh"
      /\ UNCHANGED <<vault, gen, stale, issued, faults>> /\ asked' \subseteq asked
      /\ record' = Entry("reauth-required", None) \/ record' = record
      /\ "reauth-required" \in States /\ None \in Issued /\ task[f].out \in Outs
  <2>1. f \in Tasks
    BY DEF Tasks
  <2>2. task[f].out \in Outs
    BY <2>1, Typed DEF TaskType
  <2>. QED  BY <2>1, <2>2, Typed DEF Persist, TerminalFailure, Cancel, CutOff, Asking, At, stores
<1>2. Stored'
  BY <1>1, StoredWrites DEF Core
<1>3. CASE End(f, "cancelled") \/ End(f, task[f].out)
  BY <1>1, <1>2, <1>3, EndCore DEF Outs, Results
<1>4. CASE Goto(f, "delete")
  BY <1>1, <1>2, <1>4, DeleteCore DEF Goto
<1>5. CASE /\ Goto(f, "save") /\ task[f].pc = "persist"
           /\ record' = Entry("reauth-required", None)
  <2>1. /\ Fine(f, task'[f]) /\ task' = [task EXCEPT ![f] = task'[f]]
        /\ task'[f].pc = "save" /\ task'[f].kind = "refresh"
        /\ task'[f].cred = task[f].cred /\ task'[f].old = task[f].old
    BY <1>1, <1>5, GotoIs DEF Goto, LockedPcs
  <2>2. /\ task[f].cred # None /\ task[f].old # task[f].cred /\ task[f].old = vault
        /\ vault # None /\ Fresh(f)
    BY <1>1, <1>5 DEF Core, CredInv, Work, Fresh
  <2>3. record' # None /\ ~Usable'
    BY <1>1, <1>5, EntryIs DEF Core, Usable, Terminal
  <2>4. Work(f)'
    BY <1>1, <2>1, <2>2, <2>3 DEF Work
  <2>5. task'[f].cred \in Issued
    BY <1>1, <2>1, Typed
  <2>6. "save" \in LockedPcs /\ holder' = f
    BY <1>1, <1>5 DEF LockedPcs, Goto
  <2>. QED  BY <1>1, <1>2, <2>1, <2>2, <2>4, <2>5, <2>6, MoveCore
<1>. QED  BY <1>3, <1>4, <1>5 DEF Persist, TerminalFailure, Cancel, At

\* What a store call that fails may have written is typed.
LEMMA EffectStored ==
  ASSUME Core, NEW x \in Tasks, holder = x, UNCHANGED issued, asked' \subseteq asked,
         record' = record \/ record' = RecordWritten(x), vault' = vault \/ vault' = VaultWritten(x)
  PROVE  /\ Stored' /\ (task[x].pc # "save" => vault' \in {None, vault})
         /\ vault' \in {None, vault} \/ (Fresh(x) /\ vault' = task[x].cred)
<1>1. \/ record' = record
      \/ \E state \in States, cred \in Issued : record' = Entry(state, cred)
  <2>1. /\ StateOf(task[x].cred) \in States /\ None \in Issued /\ task[x].cred \in Issued
        /\ {"connected", "expiring", "disconnected", "reauth-required"} = States
    BY Typed DEF StateOf, States
  <2>2. RecordWritten(x) = record \/ \E state \in States, cred \in Issued : RecordWritten(x) = Entry(state, cred)
    BY <2>1 DEF RecordWritten, Created
  <2>. QED  BY <2>2
<1>2. CASE task[x].pc # "save"
  <2>1. vault' \in {None, vault}
    BY <1>2 DEF VaultWritten
  <2>. QED  BY <1>1, <1>2, <2>1, StoredWrites DEF Core
<1>3. CASE task[x].pc = "save"
  <2>1. task[x].kind \in {"connect", "refresh"} /\ task[x].cred \in Issued
    BY <1>3, Typed DEF Fine
  <2>2. Fresh(x) /\ record # None
    BY <1>3, <2>1 DEF Core, CredInv, Work, Fresh
  <2>3. record' = record /\ vault' \in {vault, task[x].cred}
    BY <1>3 DEF RecordWritten, VaultWritten
  <2>4. Stored'
    BY <2>1, <2>2, <2>3 DEF Core, CredInv, Stored, Issued
  <2>. QED  BY <1>3, <2>2, <2>3, <2>4
<1>. QED  BY <1>2, <1>3

\* A store call that fails ends the operation or sends it to the vault.
LEMMA FailCore ==
  ASSUME Core, NEW x \in Tasks, FailCall(x)
  PROVE  Core'
<1>0. /\ Fails(x)
      /\ record' = record \/ record' = RecordWritten(x)
      /\ vault' = vault \/ vault' = VaultWritten(x)
  BY DEF FailCall, stores
<1>1. /\ holder = x /\ task[x].pc # "asking" /\ UNCHANGED <<gen, stale, issued>>
      /\ asked' \subseteq asked
  BY DEF FailCall, CutOff
<1>2. /\ Stored' /\ (task[x].pc # "save" => vault' \in {None, vault})
      /\ vault' \in {None, vault} \/ (Fresh(x) /\ vault' = task[x].cred)
  BY <1>0, <1>1, EffectStored
<1>3. CASE End(x, "cancelled") \/ End(x, "failed")
  BY <1>1, <1>2, <1>3, EndCore DEF Outs, Results
<1>4. CASE DeleteAndThrow(x, "failed")
  BY <1>1, <1>2, <1>4, DeleteCore DEF DeleteAndThrow, Outs, Results
<1>5. CASE /\ x \in Flights /\ task[x].pc = "locked" /\ holder' = holder
           /\ task' = [task EXCEPT ![x].pc = "fail", ![x].out = "reauth"]
  <2>. DEFINE u == [task[x] EXCEPT !.pc = "fail"]
              t == [u EXCEPT !.out = "reauth"]
  <2>0. "fail" \in LockedPcs /\ "fail" \in Pcs /\ "reauth" \in Outs
    BY DEF LockedPcs, Pcs, Outs, Results
  <2>1. task' = [task EXCEPT ![x] = t]
    BY <1>5 DEF Core, LockInv
  <2>2. /\ u \in TaskType /\ u.pc = "fail" /\ u.kind = task[x].kind /\ u.proc = task[x].proc
        /\ u.old = task[x].old /\ u.cred = task[x].cred
    BY <2>0, SetPc, Typed
  <2>. HIDE DEF u
  <2>3. /\ t \in TaskType /\ t.pc = "fail" /\ t.kind = task[x].kind /\ t.proc = task[x].proc
        /\ t.old = task[x].old /\ t.cred = task[x].cred
    BY <2>0, <2>2, SetOut
  <2>. HIDE DEF t
  <2>4. Fine(x, t)
    <3>1. Fine(x, task[x])
      BY Typed
    <3>. QED  BY <1>5, <2>3, <3>1 DEF Fine
  <2>5. task'[x] = t
    BY <2>1 DEF Core, LockInv
  <2>6. Work(x)' /\ ~Fresh(x)' /\ t.cred \in Issued
    BY <2>3, <2>5, Typed DEF Work, Fresh
  <2>. QED  BY <1>1, <1>2, <1>5, <2>0, <2>1, <2>3, <2>4, <2>6, MoveCore
<1>. QED  BY <1>0, <1>1, <1>3, <1>4, <1>5 DEF Fails

\* A task that waits in vain is over; the lock stays where it is.
LEMMA WaitCore ==
  ASSUME Core, NEW x \in Tasks, GiveUp(x)
  PROVE  Core'
<1>1. /\ task[x].pc = "waiting" /\ holder' = holder /\ task' = [task EXCEPT ![x] = Over(x, "failed")]
      /\ UNCHANGED <<record, vault, gen, stale, issued, asked>>
  BY DEF GiveUp, stores
<1>. DEFINE t == Over(x, "failed")
<1>2. /\ Fine(x, t) /\ t.pc = "done" /\ t.cred \in {None, task[x].cred}
      /\ t.old \in {None, task[x].old}
  <2>1. "failed" \in Outs
    BY DEF Outs, Results
  <2>. QED  BY <2>1, OverFine, Typed
<1>3. task' = [task EXCEPT ![x] = t]
  BY <1>1
<1>. HIDE DEF t
<1>4. t.pc \notin LockedPcs /\ task[x].pc \notin LockedPcs
  BY <1>1, <1>2 DEF LockedPcs
<1>5. LockInv'
  BY <1>1, <1>2, <1>3, <1>4, LockFrame DEF Core
<1>6. task'[x] = t /\ \A y \in Tasks \ {x} : task'[y] = task[y]
  BY <1>3 DEF Core, LockInv
<1>7. \A y \in Tasks : Quieter(y)
  <2>1. Quieter(x)
    BY <1>2, <1>6, Typed DEF Quieter, Fresh
  <2>2. ASSUME NEW y \in Tasks \ {x} PROVE Quieter(y)
    <3>1. task'[y].cred \in Issued
      BY <1>6, Typed
    <3>. QED  BY <1>6, <3>1 DEF Quieter, Fresh
  <2>. QED  BY <2>1, <2>2
<1>. QED  BY <1>1, <1>5, <1>7, CredFrame DEF Core

\* A step of several tasks that gives none of them a credential or the lock.
LEMMA ManyCore ==
  ASSUME Core, task' = [x \in Tasks |-> task'[x]], gen' \in [Procs -> Nat],
         holder' \in {None} \cup Tasks,
         \A x \in Tasks : /\ Fine(x, task'[x]) /\ Quieter(x)
                          /\ holder' = x <=> task'[x].pc \in LockedPcs,
         UNCHANGED <<record, vault, issued>>, asked' \subseteq asked
  PROVE  Core'
<1>1. CredInv'
  BY CredFrame DEF Core
<1>2. task' \in [Tasks -> TaskType]
  BY DEF Fine
<1>. QED  BY <1>1, <1>2 DEF Core, LockInv

\* A task that is told to stop, a task that stays and one that is forgotten.
LEMMA AbortIs ==
  ASSUME Core, NEW x \in Tasks
  PROVE  /\ Fine(x, [task[x] EXCEPT !.aborted = TRUE])
         /\ [task[x] EXCEPT !.aborted = TRUE].pc = task[x].pc
         /\ task'[x] \in {task[x], [task[x] EXCEPT !.aborted = TRUE]} =>
              /\ Quieter(x) /\ Fine(x, task'[x])
              /\ task'[x].pc = task[x].pc /\ task'[x].kind = task[x].kind
              /\ task'[x].cred = task[x].cred /\ task'[x].old = task[x].old
              /\ task'[x].proc = task[x].proc /\ task'[x].gen = task[x].gen
              /\ task'[x].out = task[x].out
<1>. DEFINE t == [task[x] EXCEPT !.aborted = TRUE]
<1>1. /\ t \in TaskType /\ t.pc = task[x].pc /\ t.kind = task[x].kind /\ t.proc = task[x].proc
      /\ t.old = task[x].old /\ t.cred = task[x].cred /\ t.gen = task[x].gen
      /\ t.out = task[x].out
  <2>1. task[x] \in TaskType /\ TRUE \in BOOLEAN
    BY Typed
  <2>. QED  BY <2>1, SetAborted
<1>2. Fine(x, task[x]) /\ task[x].cred \in Issued
  BY Typed
<1>. HIDE DEF t
<1>3. Fine(x, t)
  BY <1>1, <1>2 DEF Fine
<1>4. task'[x] \in {task[x], t} => Quieter(x)
  BY <1>1, <1>2 DEF Quieter, Fresh
<1>. QED  BY <1>1, <1>2, <1>3, <1>4 DEF t

LEMMA ForgetIs ==
  ASSUME Core, NEW x \in Tasks, task'[x] = Absent(x)
  PROVE  Quieter(x) /\ Fine(x, task'[x]) /\ task'[x].pc \notin LockedPcs
<1>1. /\ Fine(x, Absent(x)) /\ Absent(x).pc = "none"
      /\ Absent(x).cred = None /\ Absent(x).old = None
  BY AbsentFine
<1>2. None \in Issued
  BY Typed
<1>. QED  BY <1>1, <1>2 DEF Quieter, Fresh, LockedPcs

LEMMA OverIs ==
  ASSUME Core, NEW x \in Tasks, NEW out \in Outs, task'[x] = Over(x, out)
  PROVE  Quieter(x) /\ Fine(x, task'[x]) /\ task'[x].pc = "done" /\ task'[x].pc \notin LockedPcs
<1>1. /\ Fine(x, Over(x, out)) /\ Over(x, out).pc = "done"
      /\ Over(x, out).cred \in {None, task[x].cred} /\ Over(x, out).old \in {None, task[x].old}
  BY OverFine, Typed
<1>2. None \in Issued /\ task[x].cred \in Issued
  BY Typed
<1>. QED  BY <1>1, <1>2 DEF Quieter, Fresh, LockedPcs

\* The caller of a credential gives up.
LEMMA AbortCore ==
  ASSUME Core, NEW c \in Calls, CallerAborts(c)
  PROVE  Core'
<1>1. /\ c \in Tasks /\ task[c].pc \in {"waiting", "join", "joined"}
      /\ UNCHANGED <<record, vault, holder, gen, stale, issued, asked, faults>>
      /\ task' = [x \in Tasks |->
           IF x = c
           THEN IF task[c].pc = "joined" THEN Over(c, "cancelled")
                ELSE [task[c] EXCEPT !.aborted = TRUE]
           ELSE IF x \in Flights /\ Consumers(x) = {c} THEN [task[x] EXCEPT !.aborted = TRUE]
           ELSE task[x]]
  BY DEF CallerAborts, stores, Tasks
<1>2. \A x \in Tasks : \/ task'[x] \in {task[x], [task[x] EXCEPT !.aborted = TRUE]}
                       \/ x = c /\ task'[x] = Over(c, "cancelled")
  BY <1>1, Zenon
<1>3. ASSUME NEW x \in Tasks
      PROVE /\ Fine(x, task'[x]) /\ Quieter(x)
            /\ holder' = x <=> task'[x].pc \in LockedPcs
  <2>1. CASE task'[x] \in {task[x], [task[x] EXCEPT !.aborted = TRUE]}
    <3>1. Fine(x, task'[x]) /\ Quieter(x) /\ task'[x].pc = task[x].pc
      BY <2>1, AbortIs
    <3>. QED  BY <1>1, <3>1, Typed
  <2>2. CASE x = c /\ task'[x] = Over(c, "cancelled")
    <3>1. Quieter(x) /\ Fine(x, task'[x]) /\ task'[x].pc \notin LockedPcs
      BY <2>2, OverIs DEF Outs, Results
    <3>2. holder # x
      BY <1>1, <2>2, Typed DEF LockedPcs
    <3>. QED  BY <1>1, <3>1, <3>2
  <2>. QED  BY <1>2, <2>1, <2>2
<1>4. gen' \in [Procs -> Nat] /\ holder' \in {None} \cup Tasks /\ task' = [x \in Tasks |-> task'[x]]
  BY <1>1 DEF Core, LockInv
<1>. QED  BY <1>1, <1>3, <1>4, ManyCore

\* A call joins the flight of its process or begins one.
LEMMA JoinCore ==
  ASSUME Core, NEW c \in Calls, Join(c)
  PROVE  Core'
<1>. DEFINE f == <<task[c].proc, task[c].gen>>
            flight == IF task[f].pc # "none" THEN task[f] ELSE [Absent(f) EXCEPT !.pc = "waiting"]
            joined == [task[c] EXCEPT !.pc = "joined"]
<1>1. /\ c \in Tasks /\ task[c].pc = "join"
      /\ \/ task' = [task EXCEPT ![c] = Over(c, "cancelled")]
         \/ task' = [task EXCEPT ![c] = Over(c, "cancelled"), ![f] = flight]
         \/ task' = [task EXCEPT ![c].pc = "joined", ![f] = flight]
      /\ UNCHANGED <<record, vault, holder, gen, stale, issued, asked, faults>>
  BY Zenon DEF Join, stores, Tasks
<1>2. /\ joined \in TaskType /\ joined.pc = "joined" /\ joined.kind = task[c].kind
      /\ joined.proc = task[c].proc /\ joined.cred = task[c].cred /\ joined.old = task[c].old
  <2>1. "joined" \in Pcs /\ task[c] \in TaskType
    BY <1>1, Typed DEF Pcs
  <2>. QED  BY <2>1, SetPc
<1>3. \A x \in Tasks : \/ task'[x] = task[x]
                       \/ x = c /\ (task'[x] = Over(c, "cancelled") \/ task'[x] = joined)
                       \/ x = f /\ x \in Flights /\ task'[x] = flight
  <2>1. f \notin Calls
    <3>1. task[c].proc \in Procs
      BY <1>1, Typed DEF Fine
    <3>. QED  BY <3>1, TaskNames DEF Calls
  <2>2. task \in [Tasks -> TaskType] /\ c # f /\ (f \in Tasks => f \in Flights)
    BY <2>1 DEF Core, LockInv, Tasks
  <2>. HIDE DEF f, flight
  <2>. QED  BY <1>1, <2>2
<1>. HIDE DEF joined
<1>4. ASSUME NEW x \in Tasks
      PROVE /\ Fine(x, task'[x]) /\ Quieter(x)
            /\ holder' = x <=> task'[x].pc \in LockedPcs
  <2>1. CASE task'[x] = task[x]
    <3>1. Fine(x, task'[x]) /\ Quieter(x) /\ task'[x].pc = task[x].pc
      BY <2>1, AbortIs
    <3>. QED  BY <1>1, <3>1, Typed
  <2>2. CASE x = c /\ task'[x] = Over(c, "cancelled")
    <3>1. Quieter(x) /\ Fine(x, task'[x]) /\ task'[x].pc \notin LockedPcs
      BY <2>2, OverIs DEF Outs, Results
    <3>2. holder # x
      BY <1>1, <2>2, Typed DEF LockedPcs
    <3>. QED  BY <1>1, <3>1, <3>2
  <2>3. CASE x = c /\ task'[x] = joined
    <3>1. Fine(x, task[x]) /\ task[x].cred \in Issued /\ holder # x
      BY <1>1, <2>3, Typed DEF LockedPcs
    <3>2. Fine(x, task'[x])
      BY <1>1, <1>2, <2>3, <3>1 DEF Fine
    <3>3. Quieter(x)
      BY <1>2, <2>3, <3>1 DEF Quieter, Fresh
    <3>. QED  BY <1>1, <1>2, <2>3, <3>1, <3>2, <3>3 DEF LockedPcs
  <2>4. CASE x = f /\ x \in Flights /\ task'[x] = flight
    <3>1. CASE task[f].pc # "none"
      <4>1. task'[x] = task[x]
        BY <2>4, <3>1
      <4>. QED  BY <2>1, <4>1
    <3>2. CASE task[f].pc = "none"
      <4>. DEFINE t == [Absent(x) EXCEPT !.pc = "waiting"]
      <4>1. task'[x] = t
        BY <2>4, <3>2
      <4>2. /\ Fine(x, Absent(x)) /\ Absent(x).cred = None /\ Absent(x).old = None
            /\ Absent(x) \in TaskType /\ "waiting" \in Pcs /\ None \in Issued /\ x[1] \in Procs
        BY <2>4, AbsentFine, Typed, TaskNames DEF Fine, Pcs
      <4>3. /\ t \in TaskType /\ t.pc = "waiting" /\ t.kind = Absent(x).kind
            /\ t.proc = Absent(x).proc /\ t.cred = None /\ t.old = None
        BY <4>2, SetPc
      <4>. HIDE DEF t
      <4>4. Absent(x).kind = "refresh" /\ Absent(x).proc = x[1]
        BY <2>4, <4>2 DEF Fine
      <4>5. Fine(x, t)
        BY <2>4, <4>2, <4>3, <4>4 DEF Fine
      <4>6. Quieter(x)
        BY <4>1, <4>2, <4>3, <4>4 DEF Quieter, Fresh
      <4>7. holder # x /\ "waiting" \notin LockedPcs
        BY <2>4, <3>2, Typed DEF LockedPcs
      <4>. QED  BY <1>1, <4>1, <4>3, <4>5, <4>6, <4>7
    <3>. QED  BY <3>1, <3>2
  <2>. QED  BY <1>3, <2>1, <2>2, <2>3, <2>4
<1>5. gen' \in [Procs -> Nat] /\ holder' \in {None} \cup Tasks /\ task' = [x \in Tasks |-> task'[x]]
  <2>1. DOMAIN task' = Tasks
    BY <1>1 DEF Core, LockInv
  <2>. QED  BY <1>1, <2>1 DEF Core, LockInv
<1>. QED  BY <1>1, <1>4, <1>5, ManyCore

\* A call that begins.
Begun(p, kind, g, cred) ==
  [kind |-> kind, proc |-> p, gen |-> g, pc |-> "waiting", cred |-> cred, old |-> None,
   aborted |-> FALSE, out |-> None]

LEMMA StartIs ==
  ASSUME NEW c \in Calls, NEW p \in Procs, NEW kind \in CallKinds, NEW g \in Nat, NEW cred \in Creds,
         NEW t, t = Begun(p, kind, g, cred)
  PROVE  /\ Fine(c, t) /\ t.kind = kind /\ t.proc = p /\ t.gen = g /\ t.pc = "waiting"
         /\ t.cred = cred /\ t.old = None
<1>2. /\ kind \in Kinds /\ p \in Owners /\ "waiting" \in Pcs /\ None \in Creds /\ None \in Outs
      /\ kind # "refresh"
  BY DEF Kinds, CallKinds, Owners, Pcs, Creds, Outs, Results
<1>3. t \in TaskType
  BY <1>2 DEF TaskType, Begun
<1>4. c \notin Flights
  BY TaskNames DEF Tasks
<1>5. /\ t.kind = kind /\ t.proc = p /\ t.gen = g /\ t.pc = "waiting" /\ t.cred = cred
      /\ t.old = None
  BY DEF Begun
<1>6. Fine(c, t)
  BY <1>2, <1>3, <1>4, <1>5 DEF Fine
<1>. QED  BY <1>5, <1>6

\* A call begins; connect begins with a credential of its own.
LEMMA StartCore ==
  ASSUME Core, NEW c \in Calls, NEW p \in Procs, NEW kind \in CallKinds, Start(c, p, kind)
  PROVE  Core'
<1>. DEFINE g == IF Advances(kind) THEN gen[p] + 1 ELSE gen[p]
            cred == IF kind = "connect" THEN issued + 1 ELSE None
            t == [Absent(c) EXCEPT !.kind = kind, !.proc = p, !.gen = g, !.pc = "waiting",
                                   !.cred = cred]
<1>1. /\ c \in Tasks /\ task[c].pc = "none"
      /\ kind = "connect" => issued < MaxCreds
      /\ issued' = (IF kind = "connect" THEN issued + 1 ELSE issued)
      /\ gen' = [gen EXCEPT ![p] = g]
      /\ UNCHANGED <<record, vault, holder, stale, asked, faults>>
      /\ task' = [x \in Tasks |->
           IF x = c THEN t
           ELSE IF Advances(kind) /\ x \in Flights /\ x[1] = p /\ Running(x)
                THEN [task[x] EXCEPT !.aborted = TRUE]
           ELSE task[x]]
  BY DEF Start, stores, Tasks
<1>2. issued \in Nat /\ MaxCreds \in Nat
  BY ConstantsAssumption DEF Core, CredInv, Stored
<1>3. g \in Nat /\ cred \in Creds
  BY <1>1, <1>2 DEF Core, LockInv, Creds
<1>4. gen' \in [Procs -> Nat]
  <2>. HIDE DEF g
  <2>. QED  BY <1>1, <1>3 DEF Core, LockInv
<1>5. /\ Fine(c, t) /\ t.kind = kind /\ t.proc = p /\ t.pc = "waiting" /\ t.cred = cred
      /\ t.old = None
  <2>. HIDE DEF g, cred
  <2>1. t = [Absent(c) EXCEPT !.kind = kind, !.proc = p, !.gen = g, !.pc = "waiting",
                              !.cred = cred]
    OBVIOUS
  <2>. HIDE DEF t
  <2>2. PICK h \in Nat, k \in Creds : h = g /\ k = cred
    BY <1>3
  <2>3. PICK u : u = t
    OBVIOUS
  <2>4. u = [Absent(c) EXCEPT !.kind = kind, !.proc = p, !.gen = h, !.pc = "waiting", !.cred = k]
    BY <2>1, <2>2, <2>3
  <2>5. u = Begun(p, kind, h, k)
    BY <2>4 DEF Absent, Begun
  <2>6. /\ Fine(c, u) /\ u.kind = kind /\ u.proc = p /\ u.pc = "waiting" /\ u.cred = k
        /\ u.old = None
    BY <2>5, StartIs
  <2>. QED  BY <2>2, <2>3, <2>6
<1>. HIDE DEF t
<1>6. task'[c] = t
  BY <1>1
<1>7. \A x \in Tasks \ {c} : task'[x] \in {task[x], [task[x] EXCEPT !.aborted = TRUE]}
  BY <1>1, Zenon
<1>8. ASSUME NEW x \in Tasks \ {c}
      PROVE  /\ Fine(x, task'[x]) /\ Quieter(x) /\ task'[x].pc = task[x].pc
             /\ task'[x].kind = task[x].kind /\ task'[x].cred = task[x].cred
             /\ task'[x].old = task[x].old
             /\ holder' = x <=> task'[x].pc \in LockedPcs
  <2>1. task'[x] \in {task[x], [task[x] EXCEPT !.aborted = TRUE]}
    BY <1>7
  <2>2. /\ Fine(x, task'[x]) /\ Quieter(x) /\ task'[x].pc = task[x].pc
        /\ task'[x].kind = task[x].kind /\ task'[x].cred = task[x].cred
        /\ task'[x].old = task[x].old
    BY <2>1, AbortIs
  <2>. QED  BY <1>1, <2>2, Typed
<1>9. holder' = c <=> task'[c].pc \in LockedPcs
  BY <1>1, <1>5, <1>6, Typed DEF LockedPcs
<1>10. holder' \in {None} \cup Tasks /\ task' = [x \in Tasks |-> task'[x]]
  BY <1>1 DEF Core, LockInv
<1>11. CASE kind # "connect"
  <2>1. None \in Issued
    BY <1>1, Typed
  <2>2. Quieter(c)
    BY <1>5, <1>6, <1>11, <2>1 DEF Quieter, Fresh, CallKinds
  <2>3. \A x \in Tasks : /\ Fine(x, task'[x]) /\ Quieter(x)
                         /\ holder' = x <=> task'[x].pc \in LockedPcs
    BY <1>5, <1>6, <1>8, <1>9, <2>2
  <2>4. UNCHANGED <<record, vault, issued, asked>>
    BY <1>1, <1>11
  <2>. QED  BY <1>4, <1>10, <2>3, <2>4, ManyCore
<1>12. CASE kind = "connect"
  <2>1. LockInv'
    <3>1. \A x \in Tasks : /\ Fine(x, task'[x])
                           /\ holder' = x <=> task'[x].pc \in LockedPcs
      BY <1>5, <1>6, <1>8, <1>9
    <3>2. task' \in [Tasks -> TaskType]
      BY <1>10, <3>1 DEF Fine
    <3>. QED  BY <1>4, <1>10, <3>1, <3>2 DEF LockInv
  <2>2. Stored' /\ \A y \in Tasks : FreshInv(y)'
    <3>1. \A y \in Tasks \ {c} : /\ task'[y].cred = task[y].cred /\ task'[y].old = task[y].old
                                 /\ Fresh(y)' => Fresh(y)
      BY <1>8 DEF Fresh
    <3>2. issued < MaxCreds /\ issued' = issued + 1 /\ UNCHANGED <<record, vault, asked>>
      BY <1>1, <1>12
    <3>3. task'[c].cred = issued + 1 /\ task'[c].old \in {None, task[c].old}
      BY <1>5, <1>6, <1>12
    <3>. QED  BY <1>1, <3>1, <3>2, <3>3, IssueKeeps
  <2>3. Usable' = Usable
    BY <1>1 DEF Usable
  <2>4. ASSUME NEW x \in Tasks \ {c} PROVE Work(x)'
    BY <1>1, <1>8, <2>3, <2>4 DEF Core, CredInv, Work
  <2>5. Work(c)'
    <3>1. cred # None
      BY <1>2, <1>12, TaskNames
    <3>. QED  BY <1>5, <1>6, <1>12, <3>1 DEF Work
  <2>. QED  BY <2>1, <2>2, <2>4, <2>5 DEF Core, CredInv
<1>. QED  BY <1>11, <1>12

\* The flight's answer reaches those who joined it.
LEMMA SettleCore ==
  ASSUME Core, NEW f \in Flights, Settle(f)
  PROVE  Core'
<1>. DEFINE cred == IF task[f].out = "ok" THEN task[f].cred ELSE None
            told(x) == [Over(x, task[f].out) EXCEPT !.cred = cred]
<1>1. /\ f \in Tasks /\ task[f].pc = "done"
      /\ UNCHANGED <<record, vault, holder, gen, stale, issued, asked, faults>>
      /\ task' = [x \in Tasks |->
           IF x = f THEN Absent(f)
           ELSE IF x \in Consumers(f) THEN told(x)
           ELSE task[x]]
  BY DEF Settle, stores, Tasks
<1>2. /\ cred \in Issued /\ cred \in Creds /\ task[f].out \in Outs
      /\ task[f] \in TaskType
  BY <1>1, Typed DEF TaskType
<1>. HIDE DEF cred
<1>3. ASSUME NEW x \in Tasks
      PROVE  /\ Fine(x, task'[x]) /\ Quieter(x)
             /\ holder' = x <=> task'[x].pc \in LockedPcs
  <2>1. CASE x = f
    <3>1. task'[x] = Absent(x)
      BY <1>1, <2>1
    <3>2. Quieter(x) /\ Fine(x, task'[x]) /\ task'[x].pc \notin LockedPcs
      BY <3>1, ForgetIs
    <3>3. holder # x
      BY <1>1, <2>1, Typed DEF LockedPcs
    <3>. QED  BY <1>1, <3>2, <3>3
  <2>2. CASE x # f /\ x \in Consumers(f)
    <3>. DEFINE t == Over(x, task[f].out)
                u == [t EXCEPT !.cred = cred]
    <3>1. task'[x] = u
      BY <1>1, <2>2
    <3>2. Fine(x, t) /\ t.pc = "done" /\ t.old \in {None, task[x].old} /\ t \in TaskType
      BY <1>2, OverFine, Typed DEF Fine
    <3>. HIDE DEF t
    <3>3. /\ u \in TaskType /\ u.pc = "done" /\ u.kind = t.kind /\ u.proc = t.proc
          /\ u.old = t.old /\ u.cred = cred
      BY <1>2, <3>2, SetCred
    <3>. HIDE DEF u
    <3>4. Fine(x, u)
      BY <3>2, <3>3 DEF Fine
    <3>5. Quieter(x)
      BY <1>2, <3>1, <3>2, <3>3 DEF Quieter, Fresh
    <3>6. holder # x
      BY <2>2, Typed DEF LockedPcs, Consumers
    <3>7. "done" \notin LockedPcs
      BY DEF LockedPcs
    <3>. QED  BY <1>1, <3>1, <3>3, <3>4, <3>5, <3>6, <3>7
  <2>3. CASE x # f /\ x \notin Consumers(f)
    <3>1. task'[x] = task[x]
      BY <1>1, <2>3
    <3>2. Fine(x, task'[x]) /\ Quieter(x) /\ task'[x].pc = task[x].pc
      BY <3>1, AbortIs
    <3>. QED  BY <1>1, <3>2, Typed
  <2>. QED  BY <2>1, <2>2, <2>3
<1>4. gen' \in [Procs -> Nat] /\ holder' \in {None} \cup Tasks /\ task' = [x \in Tasks |-> task'[x]]
  BY <1>1 DEF Core, LockInv
<1>. QED  BY <1>1, <1>3, <1>4, ManyCore

\* What is left of the tasks of a process that dies.
LEMMA CrashCore ==
  ASSUME Core, NEW p \in Procs, Crash(p)
  PROVE  Core'
<1>1. /\ UNCHANGED <<record, vault, stale, issued>> /\ asked' \subseteq asked
      /\ holder' = (IF holder # None /\ task[holder].proc = p THEN None ELSE holder)
      /\ gen' = [gen EXCEPT ![p] = 0]
      /\ task' = [x \in Tasks |->
           IF task[x].proc # p \/ (x \in Calls /\ ~Running(x)) THEN task[x]
           ELSE IF x \in Flights THEN Absent(x)
           ELSE Over(x, "crashed")]
  BY DEF Crash, stores, CutOff
<1>2. ASSUME NEW x \in Tasks
      PROVE  /\ Fine(x, task'[x]) /\ Quieter(x)
             /\ holder' = x <=> task'[x].pc \in LockedPcs
  <2>0. x # None /\ (holder = x <=> task[x].pc \in LockedPcs)
    BY Typed
  <2>1. CASE task[x].proc # p \/ (x \in Calls /\ ~Running(x))
    <3>1. task'[x] = task[x]
      BY <1>1, <2>1
    <3>2. Fine(x, task'[x]) /\ Quieter(x)
      BY <3>1, AbortIs
    <3>3. holder = x => task[x].proc # p
      BY <2>0, <2>1 DEF Running, LockedPcs
    <3>4. holder' = x <=> holder = x
      BY <1>1, <2>0, <3>3
    <3>. QED  BY <2>0, <3>1, <3>2, <3>4
  <2>2. CASE task[x].proc = p /\ ~(x \in Calls /\ ~Running(x))
    <3>1. task'[x] = Absent(x) \/ task'[x] = Over(x, "crashed")
      BY <1>1, <2>2
    <3>2. Fine(x, task'[x]) /\ Quieter(x) /\ task'[x].pc \notin LockedPcs
      BY <3>1, ForgetIs, OverIs DEF Outs, Results
    <3>3. holder' # x
      BY <1>1, <2>0, <2>2
    <3>. QED  BY <3>2, <3>3
  <2>. QED  BY <2>1, <2>2
<1>3. gen' \in [Procs -> Nat] /\ holder' \in {None} \cup Tasks /\ task' = [x \in Tasks |-> task'[x]]
  BY <1>1 DEF Core, LockInv
<1>. QED  BY <1>1, <1>2, <1>3, ManyCore

\* The record is written while nobody has the lock, and time passes.
LEMMA WriteCore ==
  ASSUME Core, Register \/ Status
  PROVE  Core'
<1>1. /\ holder = None /\ UNCHANGED <<vault, holder, gen, task, stale, issued, asked, faults>>
      /\ \/ record' = record
         \/ record' = Entry("disconnected", None)
         \/ record # None /\ record' = Entry(StateOf(record.exp), record.exp)
  BY DEF Register, Status, Created
<1>2. Stored'
  <2>1. /\ None \in Issued /\ "disconnected" \in States
        /\ StateOf(record.exp) \in States
    BY DEF Issued, States, Terminal, StateOf
  <2>2. record # None => record.exp \in Issued
    BY EntryIs DEF Core, CredInv, Stored
  <2>. QED  BY <1>1, <2>1, <2>2, StoredWrites DEF Core
<1>3. LockInv'
  BY <1>1 DEF Core, LockInv, Fine
<1>4. \A x \in Tasks : FreshInv(x)'
  BY <1>1 DEF Core, CredInv, FreshInv, Unused, Fresh, Issued
<1>5. ASSUME NEW x \in Tasks PROVE Work(x)'
  <2>1. task[x].pc \notin LockedPcs
    BY <1>1, Typed
  <2>. QED  BY <1>1, <2>1 DEF Core, CredInv, Work, LockedPcs
<1>. QED  BY <1>2, <1>3, <1>4, <1>5 DEF Core, CredInv

LEMMA AgeCore ==
  ASSUME Core, UNCHANGED <<stores, holder, gen, task, issued, asked>>
  PROVE  Core'
BY DEF Core, LockInv, Fine, CredInv, Stored, FreshInv, Work, Unused, Fresh, Issued, Usable, stores

-----------------------------------------------------------------------------
(* The invariant of the lock and of the credentials.                       *)

LEMMA ProceedCore ==
  ASSUME Core, NEW x \in Tasks, Proceed(x)
  PROVE  Core'
<1>1. CASE Acquire(x) \/ Delete(x) \/ Save(x) \/ Record(x) \/ Mark(x)
  BY <1>1, AcquireCore, EmptyCore, SaveCore, RecordCore, MarkCore
<1>2. CASE x \in Calls /\ (\/ Disconnect(x) \/ Create(x)
                           \/ Load(x) \/ Ready(x) \/ Due(x) \/ Join(x))
  BY <1>2, DisconnectCore, CreateCore, LoadCore, ReadyCore, DueCore, JoinCore
<1>3. CASE x \in Flights /\ (\/ FlightLoad(x) \/ Answer(x) \/ Cancel(x)
                             \/ \E out \in {"reauth", "timeout"} : Refuse(x, out)
                             \/ Persist(x) \/ TerminalFailure(x) \/ Settle(x))
  BY <1>3, FlightLoadCore, AnswerCore, RefuseCore, GiveUpCore, SettleCore
<1>. QED  BY <1>1, <1>2, <1>3 DEF Proceed

LEMMA CoreStep == Core /\ [Next]_vars => Core'
<1>. SUFFICES ASSUME Core, [Next]_vars PROVE Core'
  OBVIOUS
<1>1. CASE \E x \in Tasks : Proceed(x) \/ GiveUp(x) \/ FailCall(x)
  BY <1>1, ProceedCore, WaitCore, FailCore
<1>2. CASE \E c \in Calls :
             CallerAborts(c) \/ \E p \in Procs, kind \in CallKinds : Start(c, p, kind)
  BY <1>2, AbortCore, StartCore
<1>3. CASE \E p \in Procs : Crash(p)
  BY <1>3, CrashCore
<1>4. CASE Register \/ Status
  BY <1>4, WriteCore
<1>5. CASE Age(vault) \/ (record # None /\ Age(record.exp)) \/ UNCHANGED vars
  BY <1>5, AgeCore DEF Age, stores, vars
<1>. QED  BY <1>1, <1>2, <1>3, <1>4, <1>5 DEF Next

LEMMA CoreInit == Init => Core
<1>. SUFFICES ASSUME Init PROVE Core
  OBVIOUS
<1>1. \A x \in Tasks : /\ task[x] = Absent(x) /\ Fine(x, task[x]) /\ task[x].pc = "none"
                       /\ task[x].cred = None /\ task[x].old = None
  BY AbsentFine DEF Init
<1>2. LockInv
  <2>1. task \in [Tasks -> TaskType]
    BY <1>1 DEF Init, Fine
  <2>. QED  BY <1>1, <2>1, TaskNames DEF Init, LockInv, LockedPcs
<1>3. Stored
  <2>1. 1 \in 0..MaxCreds /\ 0 \in 0..MaxCreds /\ 1 \in 1..1
    BY ConstantsAssumption
  <2>2. "connected" \in States
    BY DEF States
  <2>3. asked = {}
    BY DEF Init
  <2>4. CASE record = None /\ vault = None /\ issued = 0
    BY <2>1, <2>3, <2>4 DEF Stored, Issued
  <2>5. CASE record = Entry("connected", 1) /\ vault = 1 /\ issued = 1
    <3>1. 1 \in Issued /\ record # None
      BY <2>1, <2>2, <2>5, ConstantsAssumption DEF Issued
    <3>. QED  BY <2>1, <2>2, <2>3, <2>5, <3>1 DEF Stored
  <2>. QED  BY <2>4, <2>5 DEF Init
<1>4. \A x \in Tasks : FreshInv(x) /\ Work(x)
  BY <1>1 DEF FreshInv, Work, Fresh, Issued
<1>. QED  BY <1>2, <1>3, <1>4 DEF Core, CredInv

\* Lock and credentials are as Core says in every state.
THEOREM CoreHolds == Spec => []Core
BY CoreInit, CoreStep, PTL DEF Spec

\* The stores hold what was issued, and the lock one task.
THEOREM TypeCorrect == Spec => []TypeOK
<1>1. Core /\ stale \subseteq 1..issued => TypeOK
  BY EntryIs DEF Core, LockInv, CredInv, Stored, TypeOK, Issued
<1>2. Init => stale \subseteq 1..issued
  BY DEF Init
<1>3. Core /\ stale \subseteq 1..issued /\ [Next]_vars => (stale \subseteq 1..issued)'
  <2>. SUFFICES ASSUME Core, stale \subseteq 1..issued, [Next]_vars PROVE (stale \subseteq 1..issued)'
    OBVIOUS
  <2>1. issued \in Nat
    BY DEF Core, CredInv, Stored
  <2>2. issued' = issued \/ issued' = issued + 1
    BY ZenonT(30) DEF Next, vars, Proceed, Acquire, Delete, Save, Record, Mark, Disconnect, Create, Load, Ready,
           Due, Join, FlightLoad, Answer, Cancel, Refuse, Persist, TerminalFailure, Settle, GiveUp,
           FailCall, CallerAborts, Start, Crash, Register, Status, Age
  <2>3. 1..issued \subseteq 1..issued'
    BY <2>1, <2>2
  <2>4. CASE Age(vault) \/ (record # None /\ Age(record.exp))
    <3>1. vault \in Issued /\ (record # None => record.exp \in Issued)
      BY EntryIs DEF Core, CredInv, Stored
    <3>. QED  BY <2>3, <2>4, <3>1 DEF Age, Issued
  <2>5. CASE ~(Age(vault) \/ (record # None /\ Age(record.exp)))
    <3>1. stale' = stale
      BY <2>5, ZenonT(30) DEF Next, vars, Proceed, Acquire, Delete, Save, Record, Mark, Disconnect, Create, Load,
                  Ready, Due, Join, FlightLoad, Answer, Cancel, Refuse, Persist, TerminalFailure,
                  Settle, GiveUp, FailCall, CallerAborts, Start, Crash, Register, Status
    <3>. QED  BY <2>3, <3>1
  <2>. QED  BY <2>4, <2>5
<1>. QED  BY <1>1, <1>2, <1>3, CoreHolds, PTL DEF Spec

\* A credential that the provider was asked to renew and that is still there for the next flight to
\* read is the one that the holder of the lock is about to give up.
Parting(x) == task[x].pc \in {"persist", "fail"}
Spent == Usable /\ vault \in asked => holder # None /\ Parting(holder) /\ task[holder].old = vault

\* A step that makes nothing usable leaves that as it was, unless it is the holder's.
LEMMA SpentKept ==
  ASSUME Spent, Usable' => Usable, vault' = vault, asked' \subseteq asked,
         holder # None /\ Parting(holder) =>
           /\ holder' = holder /\ Parting(holder)'
           /\ task'[holder].old = task[holder].old
  PROVE  Spent'
BY DEF Spent, Parting

\* The tasks that wait, begin or are told something leave the holder alone.
LEMMA Bystander ==
  ASSUME Core, NEW h \in Tasks, holder = h, Parting(h),
         \/ \E x \in Tasks : Acquire(x) \/ GiveUp(x)
         \/ \E c \in Calls : \/ CallerAborts(c) \/ Join(c)
                             \/ \E p \in Procs, kind \in CallKinds : Start(c, p, kind)
         \/ \E f \in Flights : Settle(f)
  PROVE  /\ holder' = holder /\ task'[h].pc = task[h].pc /\ task'[h].old = task[h].old
<1>1. /\ task[h].pc \in {"persist", "fail"} /\ h # None /\ task \in [Tasks -> TaskType]
  BY Typed DEF Parting, Core, LockInv
<1>2. CASE task'[h] \in {task[h], [task[h] EXCEPT !.aborted = TRUE]} /\ holder' = holder
  BY <1>2, AbortIs
<1>3. ASSUME NEW x \in Tasks, Acquire(x) \/ GiveUp(x)
      PROVE  task'[h] = task[h] /\ holder' = holder
  BY <1>1, <1>3 DEF Acquire, GiveUp
<1>4. ASSUME NEW c \in Calls, CallerAborts(c)
      PROVE  task'[h] \in {task[h], [task[h] EXCEPT !.aborted = TRUE]} /\ holder' = holder
  BY <1>1, <1>4 DEF CallerAborts
<1>5. ASSUME NEW c \in Calls, Join(c)
      PROVE  task'[h] = task[h] /\ holder' = holder
  <2>. DEFINE f == <<task[c].proc, task[c].gen>>
              flight == IF task[f].pc # "none" THEN task[f] ELSE [Absent(f) EXCEPT !.pc = "waiting"]
  <2>1. /\ task[c].pc = "join" /\ holder' = holder
        /\ \/ task' = [task EXCEPT ![c] = Over(c, "cancelled")]
           \/ task' = [task EXCEPT ![c] = Over(c, "cancelled"), ![f] = flight]
           \/ task' = [task EXCEPT ![c].pc = "joined", ![f] = flight]
    BY <1>5, Zenon DEF Join
  <2>2. h # c /\ (h = f => flight = task[h])
    BY <1>1, <2>1
  <2>. HIDE DEF f, flight
  <2>. QED  BY <1>1, <2>1, <2>2
<1>6. ASSUME NEW c \in Calls, NEW p \in Procs, NEW kind \in CallKinds, Start(c, p, kind)
      PROVE  task'[h] \in {task[h], [task[h] EXCEPT !.aborted = TRUE]} /\ holder' = holder
  <2>1. h # c /\ holder' = holder
    BY <1>1, <1>6 DEF Start
  <2>. QED  BY <1>6, <2>1, Zenon DEF Start
<1>7. ASSUME NEW f \in Flights, Settle(f)
      PROVE  task'[h] = task[h] /\ holder' = holder
  BY <1>1, <1>7 DEF Settle, Consumers
<1>. QED  BY <1>2, <1>3, <1>4, <1>5, <1>6, <1>7

\* The holder of the lock at any other point leaves nothing spent behind it.
LEMMA WorkSpent ==
  ASSUME Core, Core', Spent, NEW x \in Tasks, holder = x, ~Parting(x), asked' \subseteq asked,
         ((Usable' => Usable) /\ vault' = vault) \/ vault' \notin asked
  PROVE  Spent'
BY DEF Spent

\* What the holder may have written when it has saved, recorded, deleted or failed.
LEMMA WrittenSpent ==
  ASSUME Core, Core', Spent, NEW x \in Tasks, holder = x, ~Parting(x), asked' = asked,
         record' = record \/ record' = RecordWritten(x), vault' = vault \/ vault' = VaultWritten(x)
  PROVE  Spent'
<1>1. None \notin asked
  <2>1. 1..issued \subseteq Nat
    OBVIOUS
  <2>. QED  BY <2>1, TaskNames DEF Core, CredInv, Stored
<1>2. CASE task[x].pc = "save"
  <2>1. task[x].kind \in {"connect", "refresh"} /\ task[x].cred # None
    BY <1>2, Typed DEF Fine, Core, CredInv, Work
  <2>2. Fresh(x) /\ task[x].cred \notin asked /\ record' = record
    BY <1>2, <2>1 DEF Core, CredInv, FreshInv, Unused, Fresh, RecordWritten
  <2>. QED  BY <1>2, <2>2, WorkSpent DEF VaultWritten, Usable
<1>3. CASE task[x].pc = "record"
  <2>1. vault \notin asked /\ vault' = vault
    BY <1>3 DEF Core, CredInv, Work, VaultWritten
  <2>. QED  BY <2>1, WorkSpent
<1>4. CASE task[x].pc = "delete"
  <2>1. record' = record /\ vault' \in {None, vault}
    BY <1>4 DEF RecordWritten, VaultWritten
  <2>. QED  BY <1>1, <2>1, WorkSpent DEF Usable
<1>5. CASE task[x].pc \notin {"save", "record", "delete"}
  <2>1. vault' = vault
    BY <1>5 DEF VaultWritten
  <2>2. \/ record' = record \/ Usable
        \/ record' \in {Entry("reauth-required", None), Entry("disconnected", None)}
    BY <1>5 DEF RecordWritten, Parting, Created, Core, CredInv, Work
  <2>3. ~(Entry("reauth-required", None).state \notin Terminal)
        /\ ~(Entry("disconnected", None).state \notin Terminal)
    BY DEF Entry, Terminal
  <2>4. Usable' => Usable
    BY <2>2, <2>3 DEF Usable
  <2>. QED  BY <2>1, <2>4, WorkSpent
<1>. QED  BY <1>2, <1>3, <1>4, <1>5

\* The provider is asked, and what it was asked with is given up or was cut off.
LEMMA AskingSpent ==
  ASSUME Core, Core', NEW f \in Flights, Answer(f) \/ \E out \in {"reauth", "timeout"} : Refuse(f, out)
  PROVE  Spent'
<1>1. /\ f \in Tasks /\ f # None /\ holder = f /\ holder' = f /\ vault' = vault
      /\ task[f].kind = "refresh" /\ task[f].pc = "asking"
  BY TaskNames DEF Answer, Refuse, Asking, At, stores, Tasks
<1>2. task[f].old = vault
  BY <1>1 DEF Core, CredInv, Work
<1>3. task'[f].pc \in {"persist", "fail"} /\ task'[f].old = task[f].old
  <2>1. task \in [Tasks -> TaskType] /\ task[f] \in TaskType
    BY <1>1 DEF Core, LockInv
  <2>. QED  BY <1>1, <2>1 DEF Answer, Refuse, TaskType
<1>. QED  BY <1>1, <1>2, <1>3 DEF Spent, Parting

\* It is over for the holder at that point.
LEMMA PartingSpent ==
  ASSUME Core, Core', Spent, NEW x \in Tasks, holder = x, Parting(x), vault' = vault,
         ~Usable' \/ (Usable' = Usable /\ CutOff(x))
  PROVE  Spent'
BY DEF Spent, CutOff

LEMMA FailSpent ==
  ASSUME Core, Core', Spent, NEW x \in Tasks, FailCall(x)
  PROVE  Spent'
<1>1. CASE ~Parting(x)
  BY <1>1, WrittenSpent DEF FailCall, stores, Parting
<1>2. CASE Parting(x)
  <2>1. /\ RecordWritten(x) = Entry("reauth-required", None) /\ VaultWritten(x) = vault
        /\ task[x].pc \in {"persist", "fail"}
    BY <1>2 DEF RecordWritten, VaultWritten, Parting
  <2>2. record' = Entry("reauth-required", None) => ~Usable'
    BY DEF Usable, Entry, Terminal
  <2>3. holder = x /\ vault' = vault /\ (~Usable' \/ (Usable' = Usable /\ CutOff(x)))
    BY <2>1, <2>2 DEF FailCall, stores, Usable
  <2>. QED  BY <1>2, <2>3, PartingSpent
<1>. QED  BY <1>1, <1>2

LEMMA CrashSpent ==
  ASSUME Core, Core', Spent, NEW p \in Procs, Crash(p)
  PROVE  Spent'
<1>1. /\ UNCHANGED <<record, vault>> /\ Usable' = Usable
      /\ holder' = (IF holder # None /\ task[holder].proc = p THEN None ELSE holder)
      /\ \A x \in Tasks : task[x].proc # p => task'[x] = task[x]
      /\ IF holder # None /\ task[holder].proc = p /\ Parting(holder)
         THEN CutOff(holder) ELSE asked' = asked
  BY DEF Crash, stores, Usable, Parting
<1>2. CASE holder # None /\ Parting(holder) /\ task[holder].proc = p
  <2>1. holder \in Tasks
    BY <1>2 DEF Core, LockInv
  <2>. QED  BY <1>1, <1>2, <2>1, PartingSpent
<1>3. CASE ~(holder # None /\ Parting(holder) /\ task[holder].proc = p)
  <2>1. holder # None => holder \in Tasks
    BY DEF Core, LockInv
  <2>. QED  BY <1>1, <1>3, <2>1, SpentKept DEF Parting
<1>. QED  BY <1>2, <1>3

LEMMA ProceedSpent ==
  ASSUME Core, Core', Spent, NEW x \in Tasks, Proceed(x)
  PROVE  Spent'
<1>1. CASE Acquire(x) \/ (x \in Calls /\ Join(x)) \/ (x \in Flights /\ Settle(x))
  <2>1. UNCHANGED <<record, vault, asked>> /\ (Usable' => Usable)
    BY <1>1 DEF Acquire, Join, Settle, stores, Usable
  <2>2. holder # None /\ Parting(holder) =>
          /\ holder' = holder /\ Parting(holder)'
          /\ task'[holder].old = task[holder].old
    BY <1>1, Bystander DEF Parting, Core, LockInv
  <2>. QED  BY <2>1, <2>2, SpentKept
<1>2. CASE Delete(x) \/ Save(x) \/ Record(x) \/ Mark(x)
  BY <1>2, WrittenSpent DEF Delete, Save, Record, Mark, RecordWritten, VaultWritten, Parting
<1>3. CASE x \in Calls /\ (Disconnect(x) \/ Create(x) \/ Load(x) \/ Ready(x) \/ Due(x))
  BY <1>3, WrittenSpent
     DEF Disconnect, Create, Load, Ready, Due, At, stores, RecordWritten, VaultWritten, Parting
<1>4. CASE x \in Flights /\ (FlightLoad(x) \/ Cancel(x))
  BY <1>4, WrittenSpent DEF FlightLoad, Cancel, Asking, At, stores, Parting
<1>5. CASE x \in Flights /\ (Answer(x) \/ \E out \in {"reauth", "timeout"} : Refuse(x, out))
  BY <1>5, AskingSpent
<1>6. CASE x \in Flights /\ (Persist(x) \/ TerminalFailure(x))
  <2>1. record' = Entry("reauth-required", None) => ~Usable'
    BY DEF Usable, Entry, Terminal
  <2>2. /\ holder = x /\ Parting(x) /\ vault' = vault
        /\ ~Usable' \/ (Usable' = Usable /\ CutOff(x))
    BY <1>6, <2>1 DEF Persist, TerminalFailure, At, Parting, Usable
  <2>. QED  BY <2>2, PartingSpent
<1>. QED  BY <1>1, <1>2, <1>3, <1>4, <1>5, <1>6 DEF Proceed

LEMMA SpentStep == Core /\ Core' /\ Spent /\ [Next]_vars => Spent'
<1>. SUFFICES ASSUME Core, Core', Spent, [Next]_vars PROVE Spent'
  OBVIOUS
<1>1. CASE \E x \in Tasks : Proceed(x) \/ FailCall(x)
  BY <1>1, ProceedSpent, FailSpent
<1>2. CASE \/ \E x \in Tasks : GiveUp(x)
           \/ \E c \in Calls : CallerAborts(c) \/ \E p \in Procs, kind \in CallKinds : Start(c, p, kind)
  <2>1. UNCHANGED <<record, vault, asked>> /\ (Usable' => Usable)
    BY <1>2 DEF GiveUp, CallerAborts, Start, stores, Usable
  <2>2. holder # None /\ Parting(holder) =>
          /\ holder' = holder /\ Parting(holder)'
          /\ task'[holder].old = task[holder].old
    BY <1>2, Bystander DEF Parting, Core, LockInv
  <2>. QED  BY <2>1, <2>2, SpentKept
<1>3. CASE \E p \in Procs : Crash(p)
  BY <1>3, CrashSpent
<1>4. CASE Register \/ Status
  <2>1. record' = Entry("disconnected", None) => ~Usable'
    BY DEF Usable, Entry, Terminal
  <2>2. Usable' => Usable
    BY <1>4, <2>1 DEF Register, Status, Created, Usable
  <2>. QED  BY <1>4, <2>2, SpentKept DEF Register, Status
<1>5. CASE Age(vault) \/ (record # None /\ Age(record.exp)) \/ UNCHANGED vars
  BY <1>5 DEF Age, stores, vars, Spent, Usable, Parting
<1>. QED  BY <1>1, <1>2, <1>3, <1>4, <1>5 DEF Next

\* The provider is not asked twice to renew a credential unless the flight that asked was cut off,
\* however many processes, calls, credentials and failures there are.
THEOREM NeverAskedTwice == Spec => []AskedOnce
<1>1. Init => Spent
  BY DEF Init, Spent
<1>2. Core /\ Spent => AskedOnce
  <2>. SUFFICES ASSUME Core, Spent, NEW f \in Flights, Asking(f)
                PROVE  task[f].old \notin asked /\ \A g \in Flights \ {f} : ~Asking(g)
    BY DEF AskedOnce
  <2>1. f \in Tasks /\ holder = f /\ task[f].kind = "refresh" /\ task[f].pc = "asking"
    BY DEF Asking, At, Tasks
  <2>2. Usable /\ task[f].old = vault
    BY <2>1 DEF Core, CredInv, Work
  <2>. QED  BY <2>1, <2>2 DEF Spent, Parting, Asking, At
<1>. QED  BY <1>1, <1>2, CoreHolds, SpentStep, PTL DEF Spec

-----------------------------------------------------------------------------
(* What is left half done is repaired.                                     *)

Coherent == IF Usable THEN vault # None /\ record.exp = vault ELSE vault = None

\* A connect or a disconnect that nothing has made out of date waits for the lock.
Advanced(c) == task[c].pc = "waiting" /\ Advances(task[c].kind) /\ IsCurrentGeneration(c)
Pending == \E c \in Calls : Advanced(c)

\* The holder of the lock will leave the stores coherent.
Repairs(x) ==
  \/ task[x].kind = "connect" /\ task[x].pc = "locked" /\ IsCurrentGeneration(x)
  \/ task[x].kind = "disconnect" /\ task[x].pc = "locked"
  \/ task[x].pc \in {"save", "record"} /\ IsCurrentGeneration(x)
  \/ task[x].pc = "delete"

\* An operation that is out of date meets the one that made it so.
Timely(x) ==
  /\ task[x].pc \in {"asking", "persist", "fail", "save", "record"} => IsCurrentGeneration(x) \/ Pending
  /\ task[x].pc = "delete" => (record # None /\ ~Usable) \/ Pending

QuietInv ==
  /\ faults \in Nat
  /\ faults = 0 => /\ Coherent \/ Pending \/ \E x \in Tasks : Repairs(x)
                   /\ \A x \in Tasks : Timely(x)

\* A task whose part in this does not change.
Keeps(x) ==
  \/ task[x].pc \in LockedPcs
  \/ task'[x].pc \in LockedPcs
  \/ task[x].pc = "waiting" /\ Advances(task[x].kind)
  => /\ task'[x].pc = task[x].pc /\ task'[x].kind = task[x].kind
     /\ task'[x].proc = task[x].proc /\ task'[x].gen = task[x].gen

\* Only the holder of the lock repairs.
LEMMA RepairerHolds ==
  ASSUME Core, NEW x \in Tasks, Repairs(x) \/ ~Timely(x)
  PROVE  holder = x
<1>1. task[x].pc \in LockedPcs
  BY DEF Repairs, Timely, LockedPcs
<1>. QED  BY <1>1, Typed

LEMMA PendingKept ==
  ASSUME Core, NEW c \in Calls, Advanced(c), Keeps(c), gen' = gen
  PROVE  Pending'
BY DEF Advanced, Keeps, IsCurrentGeneration, Pending

\* A step that changes neither the stores nor what the tasks have to do with them.
LEMMA QuietFrame ==
  ASSUME Core, QuietInv, UNCHANGED <<record, vault, gen, faults>>, \A x \in Tasks : Keeps(x)
  PROVE  QuietInv'
<1>1. /\ Coherent' = Coherent /\ Usable' = Usable
      /\ (record # None)' = (record # None)
  BY DEF Coherent, Usable
<1>2. Pending => Pending'
  BY PendingKept DEF Pending, Tasks
<1>3. \A x \in Tasks : Repairs(x) => Repairs(x)'
  BY DEF Repairs, Keeps, LockedPcs, IsCurrentGeneration
<1>4. ASSUME NEW x \in Tasks, Timely(x) PROVE Timely(x)'
  BY <1>1, <1>2, <1>4 DEF Timely, Keeps, LockedPcs, IsCurrentGeneration
<1>. QED  BY <1>1, <1>2, <1>3, <1>4 DEF QuietInv

\* A step of the holder of the lock.
LEMMA QuietHold ==
  ASSUME Core, QuietInv, NEW x \in Tasks, holder = x, Core', holder' \in {None, x},
         \A y \in Tasks \ {x} : task'[y] = task[y], UNCHANGED <<gen, faults>>,
         faults = 0 /\ ~Pending /\ (Coherent \/ Repairs(x)) /\ Timely(x)
           => (Coherent' \/ Repairs(x)') /\ Timely(x)'
  PROVE  QuietInv'
<1>1. Pending => Pending'
  <2>1. ASSUME NEW c \in Calls, Advanced(c) PROVE Pending'
    <3>1. c \in Tasks /\ c # x
      BY <2>1, Typed DEF Advanced, LockedPcs, Tasks
    <3>. QED  BY <2>1, <3>1, PendingKept DEF Keeps
  <2>. QED  BY <2>1 DEF Pending
<1>2. ASSUME NEW y \in Tasks \ {x} PROVE ~Repairs(y) /\ Timely(y)'
  <2>1. task[y].pc \notin LockedPcs /\ task'[y] = task[y]
    BY Typed
  <2>. QED  BY <2>1 DEF Repairs, Timely, LockedPcs
<1>3. ASSUME Pending' PROVE Timely(x)'
  BY <1>3 DEF Timely
<1>. QED  BY <1>1, <1>2, <1>3 DEF QuietInv

\* The end of the task under the lock: then the stores are coherent.
LEMMA QuietEnd ==
  ASSUME Core, QuietInv, NEW x \in Tasks, holder = x, Core', NEW out \in Outs, End(x, out),
         UNCHANGED <<gen, faults>>,
         faults = 0 /\ ~Pending /\ (Coherent \/ Repairs(x)) /\ Timely(x) => Coherent'
  PROVE  QuietInv'
<1>1. /\ holder' = None /\ task'[x].pc = "done"
      /\ \A y \in Tasks \ {x} : task'[y] = task[y]
  BY EndLock DEF Core
<1>2. Timely(x)'
  BY <1>1 DEF Timely
<1>. QED  BY <1>1, <1>2, QuietHold

\* What Goto and DeleteAndThrow leave.
LEMMA GotoKeeps ==
  ASSUME Core, NEW x \in Tasks, NEW pc, NEW out,
         Goto(x, pc) \/ DeleteAndThrow(x, out)
  PROVE  /\ holder' = holder /\ \A y \in Tasks \ {x} : task'[y] = task[y]
         /\ task'[x].kind = task[x].kind /\ task'[x].proc = task[x].proc
         /\ task'[x].gen = task[x].gen
         /\ task'[x].pc = IF Goto(x, pc) THEN pc ELSE "delete"
<1>1. task[x] \in TaskType
  BY Typed
<1>. QED  BY <1>1 DEF Goto, DeleteAndThrow, Core, LockInv, TaskType

\* The steps under the lock.
LEMMA DisconnectQuiet ==
  ASSUME Core, Core', QuietInv, NEW c \in Calls, Disconnect(c)
  PROVE  QuietInv'
<1>1. /\ c \in Tasks /\ holder = c /\ UNCHANGED <<vault, gen, stale, issued, asked, faults>>
  BY DEF Disconnect, At, Tasks
<1>2. CASE End(c, "failed") /\ UNCHANGED record /\ record = None
  <2>1. Coherent'
    BY <1>1, <1>2 DEF Core, CredInv, Stored, Coherent, Usable
  <2>. QED  BY <1>1, <1>2, <2>1, QuietEnd DEF Outs, Results
<1>3. CASE record' = Entry("disconnected", None) /\ Goto(c, "delete")
  <2>1. /\ holder' = c /\ \A y \in Tasks \ {c} : task'[y] = task[y]
        /\ task'[c].pc = "delete"
    BY <1>1, <1>3, GotoKeeps
  <2>2. record' # None /\ ~Usable'
    <3>1. "disconnected" \in States /\ None \in Issued /\ "disconnected" \in Terminal
      BY DEF States, Terminal, Issued
    <3>. QED  BY <1>3, <3>1, EntryIs DEF Core, Usable
  <2>3. Repairs(c)' /\ Timely(c)'
    BY <2>1, <2>2 DEF Repairs, Timely
  <2>. QED  BY <1>1, <2>1, <2>3, QuietHold
<1>. QED  BY <1>2, <1>3 DEF Disconnect

LEMMA DeleteQuiet ==
  ASSUME Core, Core', QuietInv, NEW x \in Tasks, Delete(x)
  PROVE  QuietInv'
<1>1. /\ holder = x /\ task[x].pc = "delete"
      /\ UNCHANGED <<record, gen, stale, issued, asked, faults>> /\ vault' = None
      /\ End(x, IF task[x].out = None THEN "ok" ELSE task[x].out)
  BY DEF Delete
<1>2. (IF task[x].out = None THEN "ok" ELSE task[x].out) \in Outs
  BY Typed DEF TaskType, Outs, Results
<1>3. ~Pending /\ Timely(x) => Coherent'
  BY <1>1 DEF Timely, Coherent, Usable
<1>. QED  BY <1>1, <1>2, <1>3, QuietEnd

LEMMA CreateQuiet ==
  ASSUME Core, Core', QuietInv, NEW c \in Calls, Create(c)
  PROVE  QuietInv'
<1>1. /\ c \in Tasks /\ holder = c /\ UNCHANGED <<vault, gen, stale, issued, asked, faults>>
      /\ task[c].kind = "connect" /\ task[c].pc = "locked"
  BY DEF Create, At, Tasks
<1>2. CASE ~IsCurrentGeneration(c) /\ End(c, "cancelled") /\ UNCHANGED record
  <2>1. Coherent \/ Repairs(c) => Coherent'
    BY <1>1, <1>2 DEF Repairs, Coherent, Usable
  <2>. QED  BY <1>1, <1>2, <2>1, QuietEnd DEF Outs, Results
<1>3. CASE IsCurrentGeneration(c) /\ Goto(c, "save")
  <2>1. /\ holder' = c /\ \A y \in Tasks \ {c} : task'[y] = task[y]
        /\ task'[c].pc = "save" /\ task'[c].proc = task[c].proc /\ task'[c].gen = task[c].gen
    BY <1>1, <1>3, GotoKeeps
  <2>2. Repairs(c)' /\ Timely(c)'
    BY <1>1, <1>3, <2>1 DEF Repairs, Timely, IsCurrentGeneration
  <2>. QED  BY <1>1, <2>1, <2>2, QuietHold
<1>. QED  BY <1>2, <1>3 DEF Create

LEMMA SaveQuiet ==
  ASSUME Core, Core', QuietInv, NEW x \in Tasks, Save(x)
  PROVE  QuietInv'
<1>1. /\ holder = x /\ task[x].pc = "save" /\ UNCHANGED <<record, gen, stale, issued, asked, faults>>
      /\ Goto(x, "record") \/ DeleteAndThrow(x, "cancelled")
      /\ IsCurrentGeneration(x) => Goto(x, "record")
  BY DEF Save
<1>2. /\ holder' = x /\ \A y \in Tasks \ {x} : task'[y] = task[y]
      /\ task'[x].proc = task[x].proc /\ task'[x].gen = task[x].gen
      /\ IsCurrentGeneration(x) => task'[x].pc = "record"
  BY <1>1, GotoKeeps
<1>3. ~Pending /\ Timely(x) => Repairs(x)' /\ Timely(x)'
  BY <1>1, <1>2 DEF Repairs, Timely, IsCurrentGeneration
<1>. QED  BY <1>1, <1>2, <1>3, QuietHold

LEMMA RecordQuiet ==
  ASSUME Core, Core', QuietInv, NEW x \in Tasks, Record(x)
  PROVE  QuietInv'
<1>1. /\ holder = x /\ task[x].pc = "record" /\ UNCHANGED <<vault, gen, stale, issued, faults>>
      /\ vault = task[x].cred /\ task[x].cred # None /\ task[x].cred \in Issued
  BY Typed DEF Record, Core, CredInv, Work
<1>2. Coherent'
  <2>. DEFINE state == IF task[x].kind = "connect" THEN StateOf(task[x].cred) ELSE "connected"
  <2>1. record' = Entry(state, task[x].cred)
    BY DEF Record
  <2>2. state \in States /\ state \notin Terminal
    BY DEF States, Terminal, StateOf
  <2>. HIDE DEF state
  <2>. QED  BY <1>1, <2>1, <2>2, EntryIs DEF Core, Coherent, Usable
<1>3. CASE End(x, "ok")
  BY <1>1, <1>2, <1>3, QuietEnd DEF Outs, Results
<1>4. CASE ~IsCurrentGeneration(x) /\ DeleteAndThrow(x, "cancelled")
  <2>1. /\ holder' = x /\ \A y \in Tasks \ {x} : task'[y] = task[y]
    BY <1>1, <1>4, GotoKeeps
  <2>2. ~(~Pending /\ Timely(x))
    BY <1>1, <1>4 DEF Timely
  <2>. QED  BY <1>1, <2>1, <2>2, QuietHold
<1>. QED  BY <1>3, <1>4 DEF Record

\* A step under the lock that only reads.
LEMMA ReadQuiet ==
  ASSUME Core, Core', QuietInv, NEW x \in Tasks, holder = x,
         UNCHANGED <<record, vault, gen, faults>>, ~Repairs(x),
         \/ \E out \in Outs : End(x, out)
         \/ /\ holder' = holder /\ \A y \in Tasks \ {x} : task'[y] = task[y]
            /\ task'[x].pc # "delete"
            /\ task'[x].pc \in {"asking", "persist", "fail", "save", "record"} =>
                 /\ task'[x].proc = task[x].proc /\ task'[x].gen = task[x].gen
                 /\ IsCurrentGeneration(x) \/ task[x].pc = "asking"
  PROVE  QuietInv'
<1>1. Coherent' = Coherent
  BY DEF Coherent, Usable
<1>2. CASE \E out \in Outs : End(x, out)
  BY <1>1, <1>2, QuietEnd
<1>3. CASE /\ holder' = holder /\ \A y \in Tasks \ {x} : task'[y] = task[y]
           /\ task'[x].pc # "delete"
           /\ task'[x].pc \in {"asking", "persist", "fail", "save", "record"} =>
                /\ task'[x].proc = task[x].proc /\ task'[x].gen = task[x].gen
                /\ IsCurrentGeneration(x) \/ task[x].pc = "asking"
  <2>1. ~Pending /\ Timely(x) => Timely(x)'
    BY <1>3 DEF Timely, IsCurrentGeneration
  <2>. QED  BY <1>1, <1>3, <2>1, QuietHold
<1>. QED  BY <1>2, <1>3

LEMMA LoadQuiet ==
  ASSUME Core, Core', QuietInv, NEW c \in Calls, Load(c)
  PROVE  QuietInv'
<1>1. /\ c \in Tasks /\ holder = c /\ task[c].kind = "credential" /\ task[c].pc = "locked"
      /\ UNCHANGED <<record, vault, gen, stale, issued, asked, faults>>
  BY DEF Load, At, stores, Tasks
<1>2. ~Repairs(c)
  BY <1>1 DEF Repairs
<1>3. CASE End(c, "cancelled") \/ End(c, "failed") \/ End(c, "reauth")
  <2>1. \E out \in Outs : End(c, out)
    BY <1>3 DEF Outs, Results
  <2>. QED  BY <1>1, <1>2, <2>1, ReadQuiet
<1>4. CASE /\ holder' = holder
           /\ \E pc \in {"mark", "ready", "due"} :
                \/ task' = [task EXCEPT ![c].pc = pc]
                \/ task' = [task EXCEPT ![c].pc = pc, ![c].cred = vault]
  <2>1. \A y \in Tasks \ {c} : task'[y] = task[y]
    BY <1>4 DEF Core, LockInv
  <2>2. task'[c].pc \in {"mark", "ready", "due"}
    BY <1>1, <1>4, Typed DEF Core, LockInv, TaskType
  <2>. QED  BY <1>1, <1>2, <1>4, <2>1, <2>2, ReadQuiet
<1>5. \/ End(c, "cancelled") \/ End(c, "failed") \/ End(c, "reauth")
      \/ Goto(c, "mark")
      \/ /\ task' = [task EXCEPT ![c].pc = IF vault \in stale THEN "due" ELSE "ready",
                                 ![c].cred = vault]
         /\ UNCHANGED holder
  BY Zenon DEF Load
<1>6. (IF vault \in stale THEN "due" ELSE "ready") \in {"mark", "ready", "due"}
  OBVIOUS
<1>. QED  BY <1>3, <1>4, <1>5, <1>6 DEF Goto

\* The record is written from what was read, and says what the vault has.
LEMMA WriteQuiet ==
  ASSUME Core, Core', QuietInv, NEW x \in Tasks, Mark(x) \/ Ready(x) \/ Due(x)
  PROVE  QuietInv'
<1>1. /\ holder = x /\ UNCHANGED <<vault, gen, stale, issued, asked, faults>>
      /\ None \in Issued /\ task[x].cred \in Issued
  BY Typed DEF Mark, Ready, Due
<1>2. Coherent'
  <2>1. CASE Mark(x)
    <3>1. /\ record' = Entry("reauth-required", None) /\ vault = None
          /\ "reauth-required" \in States /\ "reauth-required" \in Terminal
      BY <2>1 DEF Mark, Core, CredInv, Work, States, Terminal
    <3>. QED  BY <1>1, <3>1, EntryIs DEF Core, Coherent, Usable
  <2>2. CASE Ready(x) \/ Due(x)
    <3>1. PICK state \in {"connected", "expiring"} : record' = Entry(state, task[x].cred)
      BY <2>2 DEF Ready, Due
    <3>2. /\ task[x].cred = vault /\ vault # None
          /\ state \in States /\ state \notin Terminal
      BY <2>2 DEF Ready, Due, Core, CredInv, Work, States, Terminal
    <3>. QED  BY <1>1, <3>1, <3>2, EntryIs DEF Core, Coherent, Usable
  <2>. QED  BY <2>1, <2>2
<1>3. CASE \E out \in Outs : End(x, out)
  BY <1>1, <1>2, <1>3, QuietEnd
<1>4. CASE task' = [task EXCEPT ![x].pc = "join", ![x].cred = None] /\ holder' = None
  <2>1. task'[x].pc = "join" /\ \A y \in Tasks \ {x} : task'[y] = task[y]
    BY <1>1, <1>4, Typed DEF Core, LockInv, TaskType
  <2>2. Timely(x)'
    BY <2>1 DEF Timely
  <2>. QED  BY <1>1, <1>2, <1>4, <2>1, <2>2, QuietHold
<1>5. \/ End(x, "cancelled") \/ End(x, "reauth") \/ End(x, "ok")
      \/ task' = [task EXCEPT ![x].pc = "join", ![x].cred = None] /\ holder' = None
  BY DEF Mark, Ready, Due
<1>. QED  BY <1>3, <1>4, <1>5 DEF Outs, Results

LEMMA FlightQuiet ==
  ASSUME Core, Core', QuietInv, NEW f \in Flights,
         FlightLoad(f) \/ Answer(f) \/ Cancel(f) \/ \E out \in {"reauth", "timeout"} : Refuse(f, out)
  PROVE  QuietInv'
<1>1. /\ f \in Tasks /\ holder = f /\ task[f].kind = "refresh" /\ task[f].pc \in {"locked", "asking"}
      /\ UNCHANGED <<record, vault, gen, faults>>
  BY DEF FlightLoad, Answer, Cancel, Refuse, Asking, At, stores, Tasks
<1>2. ~Repairs(f)
  BY <1>1 DEF Repairs
<1>3. CASE \E out \in Outs : End(f, out)
  BY <1>1, <1>2, <1>3, ReadQuiet
<1>4. ASSUME holder' \in {None, f}, task'[f].pc = "done", \A y \in Tasks \ {f} : task'[y] = task[y]
      PROVE  QuietInv'
  <2>1. Timely(f)' /\ Coherent' = Coherent
    BY <1>1, <1>4 DEF Timely, Coherent, Usable
  <2>. QED  BY <1>1, <1>2, <1>4, <2>1, QuietHold
<1>5. CASE FlightLoad(f)
  <2>1. /\ task[f].pc = "locked"
        /\ \/ End(f, "cancelled") \/ End(f, "reauth")
           \/ Goto(f, "mark")
           \/ /\ task' = [task EXCEPT ![f].pc = "done", ![f].out = "ok", ![f].cred = vault]
              /\ holder' = None
           \/ /\ IsCurrentGeneration(f)
              /\ task' = [task EXCEPT ![f].pc = "asking", ![f].old = vault] /\ UNCHANGED holder
    BY <1>5 DEF FlightLoad, At
  <2>2. CASE End(f, "cancelled") \/ End(f, "reauth")
    BY <1>3, <2>2 DEF Outs, Results
  <2>3. CASE Goto(f, "mark")
    <3>1. holder' = holder /\ task'[f].pc = "mark" /\ \A y \in Tasks \ {f} : task'[y] = task[y]
      BY <1>1, <2>3, GotoKeeps
    <3>. QED  BY <1>1, <1>2, <3>1, ReadQuiet
  <2>4. CASE /\ task' = [task EXCEPT ![f].pc = "done", ![f].out = "ok", ![f].cred = vault]
             /\ holder' = None
    <3>1. task'[f].pc = "done" /\ \A y \in Tasks \ {f} : task'[y] = task[y]
      BY <1>1, <2>4, Typed DEF Core, LockInv, TaskType
    <3>. QED  BY <1>4, <2>4, <3>1
  <2>5. CASE /\ IsCurrentGeneration(f)
             /\ task' = [task EXCEPT ![f].pc = "asking", ![f].old = vault] /\ UNCHANGED holder
    <3>1. /\ task'[f].pc = "asking" /\ task'[f].proc = task[f].proc /\ task'[f].gen = task[f].gen
          /\ \A y \in Tasks \ {f} : task'[y] = task[y]
      BY <1>1, <2>5, Typed DEF Core, LockInv, TaskType
    <3>. QED  BY <1>1, <1>2, <2>5, <3>1, ReadQuiet
  <2>. QED  BY <2>1, <2>2, <2>3, <2>4, <2>5
<1>6. CASE Answer(f)
  <2>1. task' = [task EXCEPT ![f].pc = "persist", ![f].cred = issued + 1] /\ holder' = holder
        /\ task[f].pc = "asking"
    BY <1>6 DEF Answer, Asking, At
  <2>2. /\ task'[f].pc = "persist" /\ task'[f].proc = task[f].proc /\ task'[f].gen = task[f].gen
        /\ \A y \in Tasks \ {f} : task'[y] = task[y]
    BY <1>1, <2>1, Typed DEF Core, LockInv, TaskType
  <2>. QED  BY <1>1, <1>2, <2>1, <2>2, ReadQuiet
<1>7. ASSUME NEW out \in {"reauth", "timeout"}, Refuse(f, out) PROVE QuietInv'
  <2>. DEFINE late == out = "timeout"
  <2>1. /\ task' = [task EXCEPT ![f].pc = "fail", ![f].out = out, ![f].aborted = late]
        /\ holder' = holder /\ task[f].pc = "asking"
    BY <1>7 DEF Refuse, Asking, At
  <2>. HIDE DEF late
  <2>2. /\ task'[f].pc = "fail" /\ task'[f].proc = task[f].proc /\ task'[f].gen = task[f].gen
        /\ \A y \in Tasks \ {f} : task'[y] = task[y]
    BY <1>1, <2>1, Typed DEF Core, LockInv, TaskType
  <2>. QED  BY <1>1, <1>2, <2>1, <2>2, ReadQuiet
<1>8. CASE Cancel(f)
  BY <1>3, <1>8 DEF Cancel, Outs, Results
<1>. QED  BY <1>5, <1>6, <1>7, <1>8

\* The flight gives up the old credential in the record; it or a later call goes on.
LEMMA RenounceQuiet ==
  ASSUME Core, Core', QuietInv, NEW f \in Flights, Persist(f) \/ TerminalFailure(f)
  PROVE  QuietInv'
<1>1. /\ f \in Tasks /\ holder = f /\ task[f].pc \in {"persist", "fail"}
      /\ UNCHANGED <<vault, gen, stale, issued, faults>>
      /\ record' = Entry("reauth-required", None) \/ ~IsCurrentGeneration(f)
      /\ "reauth-required" \in States /\ None \in Issued /\ "reauth-required" \in Terminal
  BY DEF Persist, TerminalFailure, At, Tasks, States, Terminal, Issued
<1>2. IsCurrentGeneration(f) => record' # None /\ ~Usable'
  BY <1>1, EntryIs DEF Core, Usable
<1>3. CASE IsCurrentGeneration(f)
  <2>1. PICK pc \in {"save", "delete"} : Goto(f, pc)
    BY <1>3 DEF Persist, TerminalFailure
  <2>2. /\ holder' = holder /\ task'[f].pc = pc /\ task'[f].proc = task[f].proc
        /\ task'[f].gen = task[f].gen
        /\ \A y \in Tasks \ {f} : task'[y] = task[y]
    BY <1>1, <2>1, GotoKeeps
  <2>3. Repairs(f)' /\ Timely(f)'
    BY <1>1, <1>2, <1>3, <2>2 DEF Repairs, Timely, IsCurrentGeneration
  <2>. QED  BY <1>1, <2>2, <2>3, QuietHold
<1>4. CASE ~IsCurrentGeneration(f)
  <2>1. PICK out : out \in Outs /\ End(f, out)
    <3>1. task[f].out \in Outs
      BY <1>1, Typed DEF TaskType
    <3>. QED  BY <1>4, <3>1 DEF Persist, TerminalFailure, Outs, Results
  <2>2. ~Pending /\ Timely(f) => FALSE
    BY <1>1, <1>4 DEF Timely
  <2>. QED  BY <1>1, <2>1, <2>2, QuietEnd
<1>. QED  BY <1>3, <1>4

\* A call that takes the lock is no longer pending, but at work.
LEMMA AcquireQuiet ==
  ASSUME Core, QuietInv, NEW x \in Tasks, Acquire(x)
  PROVE  QuietInv'
<1>1. /\ task[x].pc = "waiting" /\ holder = None
      /\ UNCHANGED <<record, vault, gen, stale, issued, asked, faults>>
  BY DEF Acquire, stores
<1>2. \A y \in Tasks : task[y].pc \notin LockedPcs
  BY <1>1, Typed
<1>3. CASE task[x].kind = "credential" /\ End(x, "cancelled")
  <2>1. /\ task'[x].pc = "done" /\ \A y \in Tasks \ {x} : task'[y] = task[y]
    <3>1. "cancelled" \in Outs
      BY DEF Outs, Results
    <3>. QED  BY <1>1, <1>3, <3>1, EndLock DEF Core
  <2>2. \A y \in Tasks : Keeps(y)
    BY <1>2, <1>3, <2>1 DEF Keeps, Advances, LockedPcs
  <2>. QED  BY <1>1, <2>2, QuietFrame
<1>4. CASE task' = [task EXCEPT ![x].pc = "locked"] /\ holder' = x
  <2>1. /\ task'[x].pc = "locked" /\ task'[x].kind = task[x].kind /\ task'[x].proc = task[x].proc
        /\ task'[x].gen = task[x].gen
        /\ \A y \in Tasks \ {x} : task'[y] = task[y]
    BY <1>4, Typed DEF Core, LockInv, TaskType
  <2>2. \A y \in Tasks : Timely(y)' /\ ~Repairs(y)
    BY <1>2, <2>1 DEF Timely, Repairs, LockedPcs
  <2>3. ASSUME Pending PROVE Pending' \/ Repairs(x)'
    <3>1. PICK c \in Calls : Advanced(c)
      BY <2>3 DEF Pending
    <3>2. CASE c = x
      BY <1>1, <2>1, <3>1, <3>2 DEF Advanced, Advances, Repairs, IsCurrentGeneration
    <3>3. CASE c # x
      <4>1. Keeps(c)
        BY <2>1, <3>3 DEF Keeps, Tasks
      <4>. QED  BY <1>1, <3>1, <4>1, PendingKept
    <3>. QED  BY <3>2, <3>3
  <2>4. Coherent' = Coherent
    BY <1>1 DEF Coherent, Usable
  <2>. QED  BY <1>1, <2>2, <2>3, <2>4 DEF QuietInv
<1>. QED  BY <1>3, <1>4 DEF Acquire

\* Steps of calls that do not have the lock.
LEMMA OverKeeps ==
  ASSUME Core, NEW x \in Tasks, task[x].pc \notin LockedPcs,
         task[x].pc = "waiting" => task[x].kind = "credential",
         task'[x].pc \notin LockedPcs
  PROVE  Keeps(x)
BY DEF Keeps, Advances

LEMMA AbortQuiet ==
  ASSUME Core, Core', QuietInv, NEW c \in Calls, CallerAborts(c)
  PROVE  QuietInv'
<1>1. /\ c \in Tasks /\ task[c].pc \in {"waiting", "join", "joined"} /\ task[c].kind = "credential"
      /\ UNCHANGED <<record, vault, holder, gen, stale, issued, asked, faults>>
      /\ task' = [x \in Tasks |->
           IF x = c
           THEN IF task[c].pc = "joined" THEN Over(c, "cancelled")
                ELSE [task[c] EXCEPT !.aborted = TRUE]
           ELSE IF x \in Flights /\ Consumers(x) = {c} THEN [task[x] EXCEPT !.aborted = TRUE]
           ELSE task[x]]
  BY DEF CallerAborts, stores, Tasks
<1>2. \A x \in Tasks : \/ task'[x] \in {task[x], [task[x] EXCEPT !.aborted = TRUE]}
                       \/ x = c /\ task'[x] = Over(c, "cancelled")
  BY <1>1, Zenon
<1>3. ASSUME NEW x \in Tasks PROVE Keeps(x)
  <2>1. CASE task'[x] \in {task[x], [task[x] EXCEPT !.aborted = TRUE]}
    BY <2>1, AbortIs DEF Keeps
  <2>2. CASE x = c /\ task'[x] = Over(c, "cancelled")
    <3>1. task'[x].pc \notin LockedPcs
      BY <2>2, OverIs DEF Outs, Results
    <3>. QED  BY <1>1, <2>2, <3>1, OverKeeps DEF LockedPcs
  <2>. QED  BY <1>2, <2>1, <2>2
<1>. QED  BY <1>1, <1>3, QuietFrame

LEMMA JoinQuiet ==
  ASSUME Core, Core', QuietInv, NEW c \in Calls, Join(c)
  PROVE  QuietInv'
<1>. DEFINE f == <<task[c].proc, task[c].gen>>
            flight == IF task[f].pc # "none" THEN task[f] ELSE [Absent(f) EXCEPT !.pc = "waiting"]
<1>1. /\ c \in Tasks /\ task[c].pc = "join" /\ task[c].kind = "credential"
      /\ \/ task' = [task EXCEPT ![c] = Over(c, "cancelled")]
         \/ task' = [task EXCEPT ![c] = Over(c, "cancelled"), ![f] = flight]
         \/ task' = [task EXCEPT ![c].pc = "joined", ![f] = flight]
      /\ UNCHANGED <<record, vault, holder, gen, stale, issued, asked, faults>>
  <2>1. c \in Tasks /\ task[c].pc = "join"
    BY DEF Join, Tasks
  <2>2. task[c].kind = "credential"
    BY <2>1, Typed DEF Fine
  <2>3. \/ task' = [task EXCEPT ![c] = Over(c, "cancelled")]
        \/ task' = [task EXCEPT ![c] = Over(c, "cancelled"), ![f] = flight]
        \/ task' = [task EXCEPT ![c].pc = "joined", ![f] = flight]
    BY Zenon DEF Join
  <2>. QED  BY <2>1, <2>2, <2>3 DEF Join, stores
<1>2. /\ f \in Tasks => f \in Flights /\ f # c
      /\ task \in [Tasks -> TaskType]
  <2>1. task[c].proc \in Procs
    BY <1>1, Typed DEF Fine
  <2>2. f \notin Calls
    BY <2>1, TaskNames DEF Calls
  <2>. QED  BY <2>2 DEF Core, LockInv, Tasks
<1>3. \A x \in Tasks \ {c} : task'[x] = task[x] \/ (x = f /\ task'[x] = flight)
  <2>. HIDE DEF f, flight
  <2>. QED  BY <1>1, <1>2
<1>4. holder' # c /\ task'[c].pc \notin LockedPcs
  BY <1>1, Typed DEF Core, LockInv, LockedPcs
<1>5. Keeps(c)
  BY <1>1, <1>4, OverKeeps DEF LockedPcs
<1>6. ASSUME NEW x \in Tasks \ {c} PROVE Keeps(x)
  <2>1. CASE task'[x] = task[x]
    BY <2>1 DEF Keeps
  <2>2. CASE task'[x] # task[x] /\ x = f /\ task'[x] = flight
    <3>1. /\ x \in Flights /\ task[x].pc = "none"
      BY <1>2, <2>2
    <3>2. task[x].pc \notin LockedPcs /\ task[x].pc # "waiting"
      BY <3>1 DEF LockedPcs
    <3>3. task'[x].pc \notin LockedPcs
      BY <1>1, <3>2, Typed DEF Core, LockInv
    <3>. QED  BY <3>2, <3>3 DEF Keeps
  <2>. QED  BY <1>3, <2>1, <2>2
<1>. QED  BY <1>1, <1>5, <1>6, QuietFrame

LEMMA SettleQuiet ==
  ASSUME Core, Core', QuietInv, NEW f \in Flights, Settle(f)
  PROVE  QuietInv'
<1>1. /\ f \in Tasks /\ task[f].pc = "done"
      /\ UNCHANGED <<record, vault, holder, gen, stale, issued, asked, faults>>
      /\ \A x \in Tasks \ {f} : x \notin Consumers(f) => task'[x] = task[x]
  BY DEF Settle, stores, Tasks
<1>2. ASSUME NEW x \in Tasks, x = f \/ x \in Consumers(f) PROVE Keeps(x)
  <2>1. task[x].pc \in {"done", "joined"}
    BY <1>1, <1>2 DEF Consumers
  <2>2. task[x].pc \notin LockedPcs
    BY <2>1 DEF LockedPcs
  <2>3. task'[x].pc \notin LockedPcs
    BY <1>1, <2>2, Typed DEF Core, LockInv
  <2>. QED  BY <2>1, <2>2, <2>3, OverKeeps
<1>3. ASSUME NEW x \in Tasks PROVE Keeps(x)
  <2>1. CASE x # f /\ x \notin Consumers(f)
    BY <1>1, <2>1 DEF Keeps
  <2>. QED  BY <1>2, <2>1
<1>. QED  BY <1>1, <1>3, QuietFrame

\* connect and disconnect make what was half done theirs; a credential call changes nothing.
LEMMA StartQuiet ==
  ASSUME Core, Core', QuietInv, NEW c \in Calls, NEW p \in Procs, NEW kind \in CallKinds,
         Start(c, p, kind)
  PROVE  QuietInv'
<1>. DEFINE g == IF Advances(kind) THEN gen[p] + 1 ELSE gen[p]
            cred == IF kind = "connect" THEN issued + 1 ELSE None
            t == [Absent(c) EXCEPT !.kind = kind, !.proc = p, !.gen = g, !.pc = "waiting",
                                   !.cred = cred]
<1>1. /\ c \in Tasks /\ task[c].pc = "none" /\ gen' = [gen EXCEPT ![p] = g]
      /\ UNCHANGED <<record, vault, holder, stale, asked, faults>>
      /\ task' = [x \in Tasks |->
           IF x = c THEN t
           ELSE IF Advances(kind) /\ x \in Flights /\ x[1] = p /\ Running(x)
                THEN [task[x] EXCEPT !.aborted = TRUE]
           ELSE task[x]]
  BY DEF Start, stores, Tasks
<1>2. t.kind = kind /\ t.proc = p /\ t.gen = g /\ t.pc = "waiting"
  BY DEF Absent
<1>. HIDE DEF t, cred
<1>3. task'[c] = t
  BY <1>1
<1>4. CASE ~Advances(kind)
  <2>1. gen' = gen
    BY <1>1, <1>4 DEF Core, LockInv
  <2>2. \A x \in Tasks \ {c} : task'[x] = task[x]
    BY <1>1, <1>4
  <2>3. Keeps(c)
    BY <1>1, <1>2, <1>3 DEF Keeps, LockedPcs
  <2>4. \A x \in Tasks : Keeps(x)
    BY <2>2, <2>3 DEF Keeps
  <2>. QED  BY <1>1, <2>1, <2>4, QuietFrame
<1>5. CASE Advances(kind)
  <2>1. gen'[p] = g
    BY <1>1 DEF Core, LockInv
  <2>2. Advanced(c)'
    BY <1>2, <1>3, <1>5, <2>1 DEF Advanced, IsCurrentGeneration
  <2>3. Pending'
    BY <2>2 DEF Pending
  <2>. QED  BY <1>1, <2>3 DEF QuietInv, Timely
<1>. QED  BY <1>4, <1>5

\* What fails is counted.
LEMMA FaultQuiet ==
  ASSUME QuietInv, faults' = faults + 1
  PROVE  QuietInv'
BY DEF QuietInv

\* Nobody is at work when register or status writes the record.
LEMMA WriteAloneQuiet ==
  ASSUME Core, QuietInv, Register \/ Status
  PROVE  QuietInv'
<1>1. /\ holder = None /\ UNCHANGED <<vault, holder, gen, task, stale, issued, asked, faults>>
  BY DEF Register, Status
<1>2. \A x \in Tasks : task[x].pc \notin LockedPcs
  BY <1>1, Typed
<1>3. \A x \in Tasks : ~Repairs(x) /\ Timely(x)'
  BY <1>1, <1>2 DEF Timely, Repairs, LockedPcs
<1>4. Pending' = Pending
  BY <1>1 DEF Pending, Advanced, IsCurrentGeneration
<1>5. Coherent => Coherent'
  <2>1. CASE record' = record
    BY <1>1, <2>1 DEF Coherent, Usable
  <2>2. CASE record = None /\ record' = Entry("disconnected", None)
    <3>1. /\ "disconnected" \in States /\ "disconnected" \in Terminal /\ None \in Issued
      BY DEF States, Terminal, Issued
    <3>. QED  BY <1>1, <2>2, <3>1, EntryIs DEF Core, Coherent, Usable
  <2>3. CASE Status
    <3>1. /\ Usable /\ record' = Entry(StateOf(record.exp), record.exp) /\ record.exp \in Issued
      BY <2>3, EntryIs DEF Status, Usable, Core, CredInv, Stored
    <3>2. StateOf(record.exp) \in States /\ StateOf(record.exp) \notin Terminal
      BY DEF StateOf, States, Terminal
    <3>. QED  BY <1>1, <3>1, <3>2, EntryIs DEF Core, Coherent, Usable
  <2>. QED  BY <2>1, <2>2, <2>3 DEF Register, Created
<1>. QED  BY <1>1, <1>3, <1>4, <1>5 DEF QuietInv

LEMMA ProceedQuiet ==
  ASSUME Core, Core', QuietInv, NEW x \in Tasks, Proceed(x)
  PROVE  QuietInv'
<1>1. CASE Acquire(x) \/ Delete(x) \/ Save(x) \/ Record(x) \/ Mark(x)
  BY <1>1, AcquireQuiet, DeleteQuiet, SaveQuiet, RecordQuiet, WriteQuiet
<1>2. CASE x \in Calls /\ (\/ Disconnect(x) \/ Create(x)
                           \/ Load(x) \/ Ready(x) \/ Due(x) \/ Join(x))
  BY <1>2, DisconnectQuiet, CreateQuiet, LoadQuiet, WriteQuiet, JoinQuiet
<1>3. CASE x \in Flights /\ (\/ FlightLoad(x) \/ Answer(x) \/ Cancel(x)
                             \/ \E out \in {"reauth", "timeout"} : Refuse(x, out)
                             \/ Persist(x) \/ TerminalFailure(x) \/ Settle(x))
  BY <1>3, FlightQuiet, RenounceQuiet, SettleQuiet
<1>. QED  BY <1>1, <1>2, <1>3 DEF Proceed

LEMMA QuietStep == Core /\ Core' /\ QuietInv /\ [Next]_vars => QuietInv'
<1>. SUFFICES ASSUME Core, Core', QuietInv, [Next]_vars PROVE QuietInv'
  OBVIOUS
<1>1. CASE \E x \in Tasks : Proceed(x)
  BY <1>1, ProceedQuiet
<1>2. CASE (\E x \in Tasks : GiveUp(x) \/ FailCall(x)) \/ \E p \in Procs : Crash(p)
  BY <1>2, FaultQuiet DEF GiveUp, FailCall, Crash
<1>3. CASE \E c \in Calls :
             CallerAborts(c) \/ \E p \in Procs, kind \in CallKinds : Start(c, p, kind)
  BY <1>3, AbortQuiet, StartQuiet
<1>4. CASE Register \/ Status
  BY <1>4, WriteAloneQuiet
<1>5. CASE Age(vault) \/ (record # None /\ Age(record.exp)) \/ UNCHANGED vars
  <2>1. UNCHANGED <<record, vault, gen, faults, task>>
    BY <1>5 DEF Age, stores, vars
  <2>2. \A x \in Tasks : Keeps(x)
    BY <2>1 DEF Keeps
  <2>. QED  BY <2>1, <2>2, QuietFrame
<1>. QED  BY <1>1, <1>2, <1>3, <1>4, <1>5 DEF Next

LEMMA QuietInit == Init => QuietInv
<1>. SUFFICES ASSUME Init PROVE QuietInv
  OBVIOUS
<1>1. \A x \in Tasks : Timely(x)
  BY AbsentFine DEF Init, Timely
<1>2. Coherent
  <2>1. CASE record = None /\ vault = None
    BY <2>1 DEF Coherent, Usable
  <2>2. CASE record = Entry("connected", 1) /\ vault = 1 /\ issued = 1
    <3>1. "connected" \in States /\ "connected" \notin Terminal /\ 1 \in Issued /\ CredInv
      BY <2>2, CoreInit DEF Core, States, Terminal, Issued
    <3>. QED  BY <2>2, <3>1, EntryIs, TaskNames DEF Coherent, Usable
  <2>. QED  BY <2>1, <2>2 DEF Init
<1>. QED  BY <1>1, <1>2 DEF Init, QuietInv

\* So is what is half done between vault and record.
THEOREM QuietHolds == Spec => []QuietInv
BY CoreInit, CoreStep, QuietInit, QuietStep, PTL DEF Spec

\* As long as nothing fails, a connection at rest is what its record says it is, however the
\* calls of the processes came after one another.
THEOREM RestIsCoherent == Spec => []QuietIsCoherent
<1>1. Core /\ QuietInv => QuietIsCoherent
  <2>. SUFFICES ASSUME Core, QuietInv, \A x \in Tasks : ~Running(x), faults = 0, record # None
                PROVE  IF record.state \in Terminal THEN vault = None
                       ELSE vault # None /\ record.exp = vault
    BY DEF QuietIsCoherent
  <2>1. ~Pending
    BY DEF Pending, Advanced, Running, Tasks
  <2>2. \A x \in Tasks : ~Repairs(x)
    BY DEF Repairs, Running
  <2>. QED  BY <2>1, <2>2 DEF QuietInv, Coherent, Usable
<1>. QED  BY <1>1, CoreHolds, QuietHolds, PTL

-----------------------------------------------------------------------------
(* What the connection has stood for.                                      *)

\* What an operation ends with after it has failed; a call that is over, and the flight's name.
Ending(x) ==
  /\ task[x].pc \in {"fail", "delete"} =>
       /\ task[x].kind # "credential"
       /\ task[x].kind = "refresh" => task[x].out \in {"reauth", "timeout", "cancelled", "failed"}
  /\ x \in Calls /\ task[x].pc = "done" => task[x].kind = "none"
  /\ x \in Flights => task[x].gen = x[2]

\* A credential that is to be the current one was not that before.
PastInv(x) ==
  /\ Fresh(x) => task[x].cred \notin past
  /\ task[x].pc = "record" => (task[x].kind = "connect" /\ Usable) \/ task[x].cred \notin past

\* What a flight will tell was the current credential while those who may join it were under way.
Told(f) == task[f].pc = "done" /\ task[f].out = "ok"
Listens(c) ==
  /\ c \in Calls /\ task[c].kind = "credential"
  /\ task[c].pc \in {"locked", "ready", "due", "join", "joined"}
SeenInv(f) ==
  Told(f) => /\ task[f].cred # None
             /\ \A c \in Calls : Listens(c) /\ task[c].proc = f[1] =>
                  task[f].cred \in seen[c] \cup {Current}

HistInv ==
  /\ past \subseteq 1..issued
  /\ \A x \in Tasks : Ending(x) /\ PastInv(x)
  /\ \A f \in Flights : SeenInv(f)

\* Only where no flight of its process has anything to tell does a call come to where it may join one.
Hears(x) ==
  Listens(x)' => /\ task'[x].proc = task[x].proc
                 /\ Listens(x) \/ \A f \in Flights : f[1] = task[x].proc => ~Told(f)'

\* A step in which task x does nothing that these could forbid.
Mild(x) ==
  /\ Ending(x)'
  /\ Fresh(x)' => \/ Fresh(x) /\ task'[x].cred = task[x].cred
                  \/ task'[x].cred = issued + 1
  /\ task'[x].pc = "record" =>
       /\ task'[x].kind = task[x].kind /\ task'[x].cred = task[x].cred
       /\ task[x].pc = "save" \/ (task[x].pc = "record" /\ Usable' = Usable)
  /\ x \in Flights /\ Told(x)' =>
       \/ Told(x) /\ task'[x].cred = task[x].cred
       \/ task'[x].cred # None /\ task'[x].cred \in {Current, Current'}
  /\ Hears(x)
  /\ x \in Calls /\ task[x].kind = "credential" /\ task'[x].pc = "done" /\ task'[x].out = "ok" =>
       task'[x].cred \in seen[x] \cup {Current}
Turn == Current' \in {Current, None} \/ Current' \notin past

\* The current credential is in use, so no fresh one is like it.
LEMMA CurrentIs ==
  ASSUME Core
  PROVE  /\ Current \in Issued
         /\ \A x \in Tasks : Fresh(x) /\ Current # None => task[x].cred # Current
<1>1. Current \in {None, vault} \/ (holder \in Tasks /\ Current = task[holder].old)
  BY DEF Current, Renewing, Tasks
<1>2. \A x \in Tasks : task[x].old \in Issued
  BY Typed
<1>3. vault \in Issued /\ None \in Issued
  BY DEF Core, CredInv, Stored, Issued
<1>4. \A x \in Tasks : Fresh(x) =>
        task[x].cred # vault /\ \A y \in Tasks : task[y].old # task[x].cred
  BY DEF Core, CredInv, FreshInv, Unused
<1>. QED  BY <1>1, <1>2, <1>3, <1>4

\* Steps in which every task is mild keep the history.
LEMMA HistFrame ==
  ASSUME Core, Core', HistInv, Remember, \A x \in Tasks : Mild(x),
         issued' \in {issued, issued + 1}
  PROVE  /\ HistInv'
         /\ \A c \in Calls :
              task[c].kind = "credential" /\ task'[c].pc = "done" /\ task'[c].out = "ok" =>
                task'[c].cred \in seen[c] \cup {Current}
<1>0. /\ issued \in Nat /\ Current \in Issued /\ issued + 1 \notin Issued /\ issued + 1 # None
      /\ past \subseteq 1..issued
  <2>1. issued \in Nat
    BY DEF Core, CredInv, Stored
  <2>. QED  BY <2>1, CurrentIs, TaskNames DEF Issued, HistInv
<1>1. (past \subseteq 1..issued)'
  <2>1. past' \subseteq 1..issued
    BY <1>0 DEF Remember, Issued
  <2>. QED  BY <1>0, <2>1
<1>2. \A x \in Tasks : Ending(x)'
  BY DEF Mild
<1>3. ASSUME NEW x \in Tasks PROVE PastInv(x)'
  <2>0. \A n : n \in past' => n \in past \/ (n = Current /\ n # None)
    BY DEF Remember
  <2>1. ASSUME Fresh(x)' PROVE task'[x].cred \notin past'
    <3>1. CASE Fresh(x) /\ task'[x].cred = task[x].cred
      BY <2>0, <3>1, CurrentIs DEF HistInv, PastInv
    <3>2. CASE task'[x].cred = issued + 1
      BY <1>0, <2>0, <3>2 DEF Issued
    <3>. QED  BY <2>1, <3>1, <3>2 DEF Mild
  <2>2. ASSUME task'[x].pc = "record"
        PROVE  (task'[x].kind = "connect" /\ Usable') \/ task'[x].cred \notin past'
    <3>0. /\ task'[x].kind = task[x].kind /\ task'[x].cred = task[x].cred
          /\ task[x].pc = "save" \/ (task[x].pc = "record" /\ Usable' = Usable)
      BY <2>2 DEF Mild
    <3>1. CASE task[x].pc = "save"
      <4>1. Fresh(x)
        <5>1. task[x].cred # None
          BY <3>1 DEF Core, CredInv, Work
        <5>2. task[x].kind \in {"connect", "refresh"}
          BY <3>1, Typed DEF Fine
        <5>. QED  BY <3>1, <5>1, <5>2 DEF Fresh
      <4>. QED  BY <2>0, <3>0, <4>1, CurrentIs DEF HistInv, PastInv
    <3>2. CASE task[x].pc = "record" /\ Usable' = Usable
      <4>1. /\ holder = x /\ x # None /\ task[x].kind \in {"connect", "refresh"}
            /\ task[x].kind = "refresh" => task[x].old # task[x].cred
            /\ x \in Flights <=> task[x].kind = "refresh"
        BY <3>2, Typed DEF LockedPcs, Fine, Core, CredInv, Work
      <4>2. CASE task[x].kind = "refresh"
        <5>1. Current \in {None, task[x].old}
          BY <3>2, <4>1, <4>2 DEF Current, Renewing
        <5>2. ~Usable
          BY <3>2, <4>2 DEF Core, CredInv, Work
        <5>. QED  BY <2>0, <3>0, <3>2, <4>1, <4>2, <5>1, <5>2 DEF HistInv, PastInv
      <4>3. CASE task[x].kind = "connect"
        <5>1. ~Usable => Current = None
          BY <4>1, <4>3 DEF Current, Renewing, Usable
        <5>. QED  BY <2>0, <3>0, <3>2, <4>3, <5>1 DEF HistInv, PastInv
      <4>. QED  BY <4>1, <4>2, <4>3
    <3>. QED  BY <3>0, <3>1, <3>2
  <2>. QED  BY <2>1, <2>2 DEF PastInv
<1>4. ASSUME NEW f \in Flights, Told(f)'
      PROVE  /\ task'[f].cred # None
             /\ \A c \in Calls : Listens(c)' /\ task'[c].proc = f[1] =>
                  task'[f].cred \in seen'[c] \cup {Current'}
  <2>1. ASSUME NEW c \in Calls, Listens(c)', task'[c].proc = f[1]
        PROVE  /\ Listens(c) /\ task[c].proc = f[1]
               /\ \A n \in seen[c] \cup {Current} : n # None => n \in seen'[c]
    <3>1. Listens(c) /\ task[c].proc = f[1]
      BY <1>4, <2>1 DEF Mild, Hears, Tasks
    <3>2. task[c].kind = "credential" /\ Running(c)
      BY <3>1 DEF Listens, Running
    <3>. QED  BY <3>1, <3>2 DEF Remember
  <2>2. CASE Told(f) /\ task'[f].cred = task[f].cred
    BY <2>1, <2>2 DEF HistInv, SeenInv
  <2>3. CASE task'[f].cred # None /\ task'[f].cred \in {Current, Current'}
    BY <2>1, <2>3
  <2>. QED  BY <1>4, <2>2, <2>3 DEF Mild, Tasks
<1>5. \A f \in Flights : SeenInv(f)'
  BY <1>4 DEF SeenInv
<1>6. HistInv'
  BY <1>1, <1>2, <1>3, <1>5 DEF HistInv
<1>. QED  BY <1>6 DEF Mild, Tasks

Harmless == (\A x \in Tasks : Mild(x)) /\ Turn

LEMMA OverSays ==
  ASSUME Core, NEW x \in Tasks, NEW out \in Outs
  PROVE  /\ Over(x, out).pc = "done" /\ Over(x, out).out \in {out, None}
         /\ x \in Flights => Over(x, out).gen = task[x].gen /\ Over(x, out).cred = task[x].cred
         /\ x \in Calls => Over(x, out).kind = "none"
         /\ x \in Calls /\ task[x].kind = "credential" /\ out = "ok" =>
              Over(x, out).cred = task[x].cred
<1>1. task[x] \in TaskType /\ (x \in Calls <=> x \notin Flights)
  BY Typed, TaskNames
<1>2. /\ Absent(x).out = None
      /\ x \notin Flights => Absent(x).kind = "none"
  BY DEF Absent
<1>3. CASE x \in Flights
  <2>1. Over(x, out) = [task[x] EXCEPT !.pc = "done", !.out = out]
    BY <1>3 DEF Over
  <2>. QED  BY <1>1, <1>3, <2>1 DEF TaskType
<1>4. CASE x \notin Flights
  <2>1. /\ DOMAIN Absent(x) = {"kind", "proc", "gen", "pc", "cred", "old", "aborted", "out"}
    BY DEF Absent
  <2>. QED  BY <1>1, <1>2, <1>4, <2>1 DEF Over, Absent
<1>. QED  BY <1>3, <1>4

\* A task that stays what it is, but for being told to stop.
LEMMA SameMild ==
  ASSUME Core, HistInv, NEW x \in Tasks,
         task'[x].pc = task[x].pc, task'[x].kind = task[x].kind, task'[x].proc = task[x].proc,
         task'[x].gen = task[x].gen, task'[x].cred = task[x].cred, task'[x].out = task[x].out,
         task[x].pc = "record" => Usable' = Usable
  PROVE  Mild(x)
<1>1. Ending(x)
  BY DEF HistInv
<1>2. Ending(x)'
  BY <1>1 DEF Ending
<1>3. Fresh(x)' => Fresh(x)
  BY DEF Fresh
<1>4. x \in Calls /\ task[x].pc = "done" => task[x].kind # "credential"
  BY <1>1 DEF Ending
<1>. QED  BY <1>2, <1>3, <1>4 DEF Mild, Hears, Listens, Told

\* A task that is over.
LEMMA OverMild ==
  ASSUME Core, HistInv, NEW x \in Tasks, NEW out \in Outs, task'[x] = Over(x, out),
         x \in Flights /\ out = "ok" => task[x].cred # None /\ task[x].cred \in {Current, Current'},
         x \in Calls /\ task[x].kind = "credential" /\ out = "ok" => task[x].cred = Current
  PROVE  Mild(x)
<1>1. /\ task'[x].pc = "done" /\ task'[x].out \in {out, None}
      /\ x \in Flights => task'[x].gen = task[x].gen /\ task'[x].cred = task[x].cred
      /\ x \in Calls => task'[x].kind = "none"
      /\ x \in Calls /\ task[x].kind = "credential" /\ out = "ok" => task'[x].cred = task[x].cred
  BY OverSays
<1>2. Ending(x)'
  BY <1>1 DEF Ending, HistInv
<1>3. task'[x].out = "ok" => out = "ok"
  <2>1. None # "ok"
    BY TaskNames DEF Results
  <2>. QED  BY <1>1, <2>1
<1>. QED  BY <1>1, <1>2, <1>3 DEF Mild, Hears, Listens, Told, Fresh

\* How the current credential changes.
LEMMA TurnNone ==
  ASSUME vault' = None \/ (~Usable' /\ ~Renewing')
  PROVE  Turn
BY DEF Turn, Current, Usable

LEMMA TurnSame ==
  ASSUME Core, UNCHANGED vault, record' = record \/ (Usable' = Usable), ~Renewing'
  PROVE  Turn
<1>1. Renewing => ~Usable
  BY DEF Renewing, Core, CredInv, Work, LockInv, Fine, Tasks
<1>2. Current' = IF Usable' THEN vault ELSE None
  BY DEF Current, Usable
<1>3. ~Renewing => Current = IF Usable THEN vault ELSE None
  BY DEF Current, Usable
<1>4. Usable' = Usable
  BY DEF Usable
<1>. QED  BY <1>1, <1>2, <1>3, <1>4 DEF Turn

\* The lock stays with the task that has it, and that goes on as it was.
LEMMA TurnKept ==
  ASSUME Core, UNCHANGED <<record, vault, holder>>,
         \A x \in Tasks : task[x].pc \in LockedPcs \/ task'[x].pc \in LockedPcs =>
           task'[x].pc = task[x].pc /\ task'[x].old = task[x].old
  PROVE  Turn
<1>1. Renewing' = Renewing /\ (Renewing => task'[holder].old = task[holder].old)
  BY DEF Renewing, Core, LockInv, LockedPcs, Tasks
<1>. QED  BY <1>1 DEF Turn, Current

LEMMA NotRenewing ==
  ASSUME NEW x \in Tasks, holder' \in {None, x},
         x \in Flights => holder' = None \/ task'[x].pc \notin {"save", "record"}
  PROVE  ~Renewing'
BY TaskNames DEF Renewing, Tasks

\* The other tasks while one works under the lock.
LEMMA OthersMild ==
  ASSUME Core, HistInv, NEW x \in Tasks, holder \in {None, x},
         \A y \in Tasks \ {x} : task'[y] = task[y]
  PROVE  \A y \in Tasks \ {x} : Mild(y)
<1>1. \A y \in Tasks \ {x} : task[y].pc # "record"
  BY Typed DEF LockedPcs
<1>. QED  BY <1>1, SameMild

\* The end of a task that tells nothing new.
LEMMA EndHarmless ==
  ASSUME Core, HistInv, NEW x \in Tasks, NEW out \in Outs, End(x, out), holder \in {None, x},
         x \in Flights => out # "ok",
         x \in Calls /\ task[x].kind = "credential" => out # "ok",
         gen' = gen,
         \/ vault' = None
         \/ ~Usable'
         \/ UNCHANGED vault /\ (record' = record \/ Usable' = Usable)
  PROVE  Harmless
<1>1. /\ holder' = None /\ task'[x] = Over(x, out)
      /\ \A y \in Tasks \ {x} : task'[y] = task[y]
  BY DEF End, Core, LockInv
<1>2. Mild(x)
  BY <1>1, OverMild
<1>3. ~Renewing'
  BY <1>1, NotRenewing
<1>4. Turn
  BY <1>3, TurnNone, TurnSame
<1>. QED  BY <1>1, <1>2, <1>4, OthersMild DEF Harmless

\* The task that has the lock, or is given it, goes on.
LEMMA MoveHarmless ==
  ASSUME Core, HistInv, NEW x \in Tasks, holder \in {None, x}, holder' \in {None, x},
         \A y \in Tasks \ {x} : task'[y] = task[y],
         task'[x].pc \notin {"done", "joined", "record"},
         task'[x].gen = task[x].gen, Fresh(x)' => Fresh(x) /\ task'[x].cred = task[x].cred,
         task'[x].pc \in {"fail", "delete"} =>
           /\ task'[x].kind # "credential"
           /\ task'[x].kind = "refresh" => task'[x].out \in {"reauth", "timeout", "cancelled", "failed"},
         task'[x].kind = "credential" => Hears(x),
         Turn
  PROVE  Harmless
<1>1. Ending(x)'
  BY DEF Ending, HistInv
<1>2. Hears(x)
  BY DEF Hears, Listens
<1>3. Mild(x)
  BY <1>1, <1>2 DEF Mild, Told
<1>. QED  BY <1>3, OthersMild DEF Harmless

LEMMA AcquireHarmless ==
  ASSUME Core, HistInv, NEW x \in Tasks, Acquire(x)
  PROVE  Harmless
<1>1. /\ task[x].pc = "waiting" /\ holder = None
      /\ UNCHANGED <<record, vault, gen, stale, issued, asked, faults>>
      /\ \A f \in Flights : f[1] = task[x].proc => task[f].pc # "done"
  BY DEF Acquire, stores
<1>2. CASE End(x, "cancelled")
  BY <1>1, <1>2, EndHarmless DEF Outs, Results
<1>3. CASE task' = [task EXCEPT ![x].pc = "locked"] /\ holder' = x
  <2>1. /\ task'[x].pc = "locked" /\ task'[x].kind = task[x].kind
        /\ task'[x].proc = task[x].proc /\ task'[x].gen = task[x].gen /\ task'[x].cred = task[x].cred
        /\ \A y \in Tasks \ {x} : task'[y] = task[y]
    BY <1>3, Typed DEF Core, LockInv, TaskType
  <2>2. Turn
    BY <1>1, <1>3, <2>1, NotRenewing, TurnSame
  <2>3. Fresh(x)' => Fresh(x)
    BY <1>1, <2>1 DEF Fresh
  <2>4. task'[x].kind = "credential" => Hears(x)
    BY <1>1, <2>1 DEF Hears, Told, Tasks
  <2>. QED  BY <1>1, <1>3, <2>1, <2>2, <2>3, <2>4, MoveHarmless
<1>. QED  BY <1>2, <1>3 DEF Acquire

\* What a task that goes on without new data is.
LEMMA GoesOn ==
  ASSUME Core, NEW x \in Tasks, NEW pc, NEW out, Goto(x, pc) \/ DeleteAndThrow(x, out)
  PROVE  /\ holder' = holder /\ \A y \in Tasks \ {x} : task'[y] = task[y]
         /\ task'[x].kind = task[x].kind /\ task'[x].proc = task[x].proc
         /\ task'[x].gen = task[x].gen /\ task'[x].cred = task[x].cred /\ task'[x].old = task[x].old
         /\ Goto(x, pc) => task'[x].pc = pc /\ task'[x].out = task[x].out
         /\ ~Goto(x, pc) => task'[x].pc = "delete" /\ task'[x].out = out
<1>1. task[x] \in TaskType
  BY Typed
<1>. QED  BY <1>1 DEF Goto, DeleteAndThrow, Core, LockInv, TaskType

\* A compensation is never told as a success.
LEMMA ThrowHarmless ==
  ASSUME Core, HistInv, NEW x \in Tasks, holder = x, task[x].pc \in {"save", "record", "fail"},
         NEW out \in {"cancelled", "failed"}, DeleteAndThrow(x, out), Turn
  PROVE  Harmless
<1>1. /\ holder' = x /\ \A y \in Tasks \ {x} : task'[y] = task[y]
      /\ task'[x].kind = task[x].kind /\ task'[x].gen = task[x].gen /\ task'[x].pc = "delete"
      /\ task'[x].out = out
  BY Typed DEF DeleteAndThrow, Core, LockInv, TaskType
<1>2. task[x].kind # "credential"
  BY Typed DEF Fine
<1>3. ~Fresh(x)'
  BY <1>1 DEF Fresh
<1>. QED  BY <1>1, <1>2, <1>3, MoveHarmless

LEMMA DisconnectHarmless ==
  ASSUME Core, HistInv, NEW c \in Calls, Disconnect(c)
  PROVE  Harmless
<1>1. /\ c \in Tasks /\ holder = c /\ task[c].kind = "disconnect" /\ task[c].pc = "locked"
      /\ UNCHANGED <<vault, gen, stale, issued, asked, faults>>
  BY DEF Disconnect, At, Tasks
<1>2. CASE End(c, "failed") /\ UNCHANGED record
  BY <1>1, <1>2, EndHarmless DEF Outs, Results
<1>3. CASE record' = Entry("disconnected", None) /\ Goto(c, "delete")
  <2>1. /\ holder' = c /\ \A y \in Tasks \ {c} : task'[y] = task[y]
        /\ task'[c].pc = "delete" /\ task'[c].kind = "disconnect" /\ task'[c].gen = task[c].gen
    BY <1>1, <1>3, GoesOn
  <2>2. ~Usable'
    BY <1>3 DEF Usable, Entry, Terminal
  <2>3. Turn
    BY <1>1, <2>1, <2>2, NotRenewing, TurnNone
  <2>4. ~Fresh(c)'
    BY <2>1 DEF Fresh
  <2>. QED  BY <1>1, <2>1, <2>3, <2>4, MoveHarmless
<1>. QED  BY <1>2, <1>3 DEF Disconnect

LEMMA DeleteHarmless ==
  ASSUME Core, HistInv, NEW x \in Tasks, Delete(x)
  PROVE  Harmless
<1>. DEFINE out == IF task[x].out = None THEN "ok" ELSE task[x].out
<1>1. /\ holder = x /\ task[x].pc = "delete" /\ UNCHANGED <<record, gen>> /\ vault' = None
      /\ End(x, out) /\ out \in Outs
  BY Typed DEF Delete, TaskType, Outs, Results
<1>2. /\ task[x].kind # "credential"
      /\ task[x].kind = "refresh" => task[x].out \in {"reauth", "timeout", "cancelled", "failed"}
      /\ x \in Flights => task[x].kind = "refresh"
  BY <1>1, Typed DEF HistInv, Ending, Fine
<1>3. x \in Flights => out # "ok"
  BY <1>2, TaskNames DEF Results
<1>. HIDE DEF out
<1>. QED  BY <1>1, <1>2, <1>3, EndHarmless

LEMMA CreateHarmless ==
  ASSUME Core, HistInv, NEW c \in Calls, Create(c)
  PROVE  Harmless
<1>1. /\ c \in Tasks /\ holder = c /\ task[c].kind = "connect" /\ task[c].pc = "locked"
      /\ UNCHANGED <<vault, gen, stale, issued, asked, faults>>
      /\ c \notin Flights
  BY TaskNames DEF Create, At, Tasks
<1>2. CASE End(c, "cancelled") /\ UNCHANGED record
  BY <1>1, <1>2, EndHarmless DEF Outs, Results
<1>3. CASE record' = Created /\ Goto(c, "save")
  <2>1. /\ holder' = c /\ \A y \in Tasks \ {c} : task'[y] = task[y]
        /\ task'[c].pc = "save" /\ task'[c].kind = task[c].kind /\ task'[c].gen = task[c].gen
        /\ task'[c].cred = task[c].cred
    BY <1>1, <1>3, GoesOn
  <2>2. Usable' = Usable
    <3>1. CASE record = None
      <4>1. record' = Entry("disconnected", None)
        BY <1>3, <3>1 DEF Created
      <4>. QED  BY <3>1, <4>1 DEF Usable, Entry, Terminal
    <3>2. CASE record # None
      BY <1>3, <3>2 DEF Created, Usable
    <3>. QED  BY <3>1, <3>2
  <2>3. Turn
    BY <1>1, <2>1, <2>2, NotRenewing, TurnSame
  <2>4. Fresh(c)' => Fresh(c)
    BY <1>1, <2>1 DEF Fresh
  <2>. QED  BY <1>1, <2>1, <2>3, <2>4, MoveHarmless
<1>. QED  BY <1>2, <1>3 DEF Create

\* The vault takes a credential that was never the current one.
LEMMA SaveHarmless ==
  ASSUME Core, HistInv, NEW x \in Tasks, Save(x)
  PROVE  Harmless
<1>1. /\ holder = x /\ task[x].pc = "save" /\ vault' = task[x].cred
      /\ UNCHANGED <<record, gen, stale, issued, asked, faults>>
      /\ x # None /\ task[x].kind \in {"connect", "refresh"}
      /\ x \in Flights <=> task[x].kind = "refresh"
  BY Typed DEF Save, Fine
<1>2. /\ task[x].cred # None /\ Fresh(x) /\ task[x].cred \notin past
      /\ task[x].kind = "refresh" => task[x].old = vault /\ vault # None
      /\ record # None
  BY <1>1 DEF Core, CredInv, Work, Fresh, HistInv, PastInv
<1>3. CASE Goto(x, "record")
  <2>1. /\ holder' = x /\ \A y \in Tasks \ {x} : task'[y] = task[y]
        /\ task'[x].kind = task[x].kind /\ task'[x].gen = task[x].gen
        /\ task'[x].cred = task[x].cred /\ task'[x].old = task[x].old /\ task'[x].pc = "record"
    BY <1>1, <1>3, GoesOn
  <2>2. Mild(x)
    <3>1. Ending(x)'
      BY <2>1 DEF Ending, HistInv
    <3>. QED  BY <1>1, <2>1, <3>1 DEF Mild, Hears, Listens, Told, Fresh
  <2>3. Turn
    <3>1. CASE x \in Flights
      <4>1. Current = task[x].old /\ Current' = task'[x].old
        BY <1>1, <1>2, <2>1, <3>1 DEF Current, Renewing
      <4>. QED  BY <2>1, <4>1 DEF Turn
    <3>2. CASE x \notin Flights
      <4>1. Current' \in {None, vault'}
        BY <2>1, <3>2 DEF Current, Renewing
      <4>. QED  BY <1>1, <1>2, <4>1 DEF Turn
    <3>. QED  BY <3>1, <3>2
  <2>. QED  BY <1>1, <2>1, <2>2, <2>3, OthersMild DEF Harmless
<1>4. CASE DeleteAndThrow(x, "cancelled")
  <2>1. holder' = x /\ task'[x].pc = "delete"
    BY <1>1, <1>4, Typed DEF DeleteAndThrow, Core, LockInv, TaskType
  <2>2. Turn
    <3>1. Current' \in {None, vault'}
      BY <2>1 DEF Current, Renewing
    <3>. QED  BY <1>1, <1>2, <3>1 DEF Turn
  <2>. QED  BY <1>1, <1>4, <2>2, ThrowHarmless
<1>. QED  BY <1>3, <1>4 DEF Save

LEMMA RecordHarmless ==
  ASSUME Core, HistInv, NEW x \in Tasks, Record(x)
  PROVE  Harmless
<1>1. /\ holder = x /\ task[x].pc = "record" /\ UNCHANGED <<vault, gen, stale, issued, faults>>
      /\ x # None /\ task[x].kind \in {"connect", "refresh"}
      /\ x \in Flights <=> task[x].kind = "refresh"
      /\ End(x, "ok") \/ DeleteAndThrow(x, "cancelled")
      /\ task[x].cred \in Issued
  BY Typed DEF Record, Fine
<1>2. vault = task[x].cred /\ task[x].cred # None
  BY <1>1 DEF Core, CredInv, Work
<1>3. Usable'
  <2>. DEFINE state == IF task[x].kind = "connect" THEN StateOf(task[x].cred) ELSE "connected"
  <2>1. record' = Entry(state, task[x].cred)
    BY DEF Record
  <2>2. state \in States /\ state \notin Terminal
    BY DEF States, Terminal, StateOf
  <2>. HIDE DEF state
  <2>. QED  BY <1>1, <2>1, <2>2, EntryIs DEF Core, Usable
<1>4. /\ \A y \in Tasks \ {x} : task'[y] = task[y]
      /\ ~Renewing'
  <2>1. /\ End(x, "ok") => holder' = None
        /\ DeleteAndThrow(x, "cancelled") => holder' = x /\ task'[x].pc = "delete"
        /\ \A y \in Tasks \ {x} : task'[y] = task[y]
    BY <1>1, Typed DEF End, DeleteAndThrow, Core, LockInv, TaskType
  <2>. QED  BY <1>1, <2>1, NotRenewing
<1>5. Current' = task[x].cred
  BY <1>1, <1>2, <1>3, <1>4 DEF Current, Usable
<1>6. Turn
  <2>1. CASE task[x].kind = "connect" /\ Usable
    <3>1. Current = vault
      BY <1>1, <1>2, <2>1 DEF Current, Renewing, Usable
    <3>. QED  BY <1>2, <1>5, <3>1 DEF Turn
  <2>2. CASE task[x].cred \notin past
    BY <1>5, <2>2 DEF Turn
  <2>. QED  BY <1>1, <2>1, <2>2 DEF HistInv, PastInv
<1>7. CASE End(x, "ok")
  <2>1. task'[x] = Over(x, "ok") /\ "ok" \in Outs
    BY <1>7 DEF End, Core, LockInv, Outs, Results
  <2>2. Mild(x)
    BY <1>1, <1>2, <1>5, <2>1, OverMild
  <2>. QED  BY <1>1, <1>4, <1>6, <2>2, OthersMild DEF Harmless
<1>8. CASE DeleteAndThrow(x, "cancelled")
  BY <1>1, <1>6, <1>8, ThrowHarmless
<1>. QED  BY <1>1, <1>7, <1>8

LEMMA LoadHarmless ==
  ASSUME Core, HistInv, NEW c \in Calls, Load(c)
  PROVE  Harmless
<1>1. /\ c \in Tasks /\ holder = c /\ task[c].kind = "credential" /\ task[c].pc = "locked"
      /\ UNCHANGED <<record, vault, gen, stale, issued, asked, faults>>
      /\ c \notin Flights
  BY TaskNames DEF Load, At, stores, Tasks
<1>2. CASE End(c, "cancelled") \/ End(c, "failed") \/ End(c, "reauth")
  BY <1>1, <1>2, EndHarmless DEF Outs, Results
<1>3. CASE /\ holder' = holder
           /\ \E pc \in {"mark", "ready", "due"} :
                \/ task' = [task EXCEPT ![c].pc = pc]
                \/ task' = [task EXCEPT ![c].pc = pc, ![c].cred = vault]
  <2>1. \A y \in Tasks \ {c} : task'[y] = task[y]
    BY <1>3 DEF Core, LockInv
  <2>2. /\ task'[c].pc \in {"mark", "ready", "due"}
        /\ task'[c].gen = task[c].gen /\ task'[c].proc = task[c].proc
    BY <1>1, <1>3, Typed DEF Core, LockInv, TaskType
  <2>3. Turn
    BY <1>1, <1>3, NotRenewing, TurnSame
  <2>4. ~Fresh(c)'
    BY <2>2 DEF Fresh
  <2>5. Hears(c)
    BY <1>1, <2>2 DEF Hears, Listens
  <2>. QED  BY <1>1, <1>3, <2>1, <2>2, <2>3, <2>4, <2>5, MoveHarmless
<1>4. \/ End(c, "cancelled") \/ End(c, "failed") \/ End(c, "reauth")
      \/ Goto(c, "mark")
      \/ /\ task' = [task EXCEPT ![c].pc = IF vault \in stale THEN "due" ELSE "ready",
                                 ![c].cred = vault]
         /\ UNCHANGED holder
  BY Zenon DEF Load
<1>5. (IF vault \in stale THEN "due" ELSE "ready") \in {"mark", "ready", "due"}
  OBVIOUS
<1>. QED  BY <1>2, <1>3, <1>4, <1>5 DEF Goto

LEMMA MarkHarmless ==
  ASSUME Core, HistInv, NEW x \in Tasks, Mark(x)
  PROVE  Harmless
<1>1. /\ holder = x /\ UNCHANGED <<vault, gen, stale, issued, asked, faults>>
      /\ End(x, "cancelled") \/ End(x, "reauth")
  BY DEF Mark
<1>2. ~Usable'
  BY DEF Mark, Usable, Entry, Terminal
<1>. QED  BY <1>1, <1>2, EndHarmless DEF Outs, Results

\* A call that is told a credential read it while it was the current one.
LEMMA TellHarmless ==
  ASSUME Core, HistInv, NEW c \in Calls, Ready(c) \/ Due(c)
  PROVE  Harmless
<1>1. /\ c \in Tasks /\ holder = c /\ c \notin Flights /\ task[c].pc \in {"ready", "due"}
      /\ UNCHANGED <<vault, gen, stale, issued, asked, faults>>
      /\ task[c].cred \in Issued
  BY TaskNames, Typed DEF Ready, Due, Tasks
<1>2. Usable /\ task[c].cred = vault /\ vault # None
  BY <1>1 DEF Core, CredInv, Work
<1>3. Current = vault
  BY <1>1, <1>2 DEF Current, Renewing, Usable
<1>4. Usable'
  <2>1. PICK state \in {"connected", "expiring"} : record' = Entry(state, task[c].cred)
    BY DEF Ready, Due
  <2>2. state \in States /\ state \notin Terminal
    BY DEF States, Terminal
  <2>. QED  BY <1>1, <2>1, <2>2, EntryIs DEF Core, Usable
<1>5. CASE End(c, "cancelled")
  BY <1>1, <1>2, <1>4, <1>5, EndHarmless DEF Outs, Results
<1>6. CASE End(c, "ok")
  <2>1. task'[c] = Over(c, "ok") /\ "ok" \in Outs /\ holder' = None
    BY <1>1, <1>6 DEF End, Core, LockInv, Outs, Results
  <2>2. Mild(c)
    BY <1>1, <1>2, <1>3, <2>1, OverMild
  <2>3. Turn
    BY <1>1, <1>2, <1>4, <2>1, NotRenewing, TurnSame
  <2>4. \A y \in Tasks \ {c} : task'[y] = task[y]
    BY <1>6 DEF End, Core, LockInv
  <2>. QED  BY <1>1, <2>2, <2>3, <2>4, OthersMild DEF Harmless
<1>7. CASE task' = [task EXCEPT ![c].pc = "join", ![c].cred = None] /\ holder' = None
  <2>1. /\ task'[c].pc = "join" /\ task'[c].gen = task[c].gen /\ task'[c].proc = task[c].proc
        /\ \A y \in Tasks \ {c} : task'[y] = task[y]
    BY <1>1, <1>7, Typed DEF Core, LockInv, TaskType
  <2>2. Turn
    BY <1>1, <1>2, <1>4, <1>7, NotRenewing, TurnSame
  <2>3. ~Fresh(c)'
    BY <2>1 DEF Fresh
  <2>4. Hears(c)
    <3>1. task[c].kind = "credential"
      BY <1>1, Typed DEF Fine
    <3>. QED  BY <1>1, <2>1, <3>1 DEF Hears, Listens
  <2>. QED  BY <1>1, <1>7, <2>1, <2>2, <2>3, <2>4, MoveHarmless
<1>. QED  BY <1>5, <1>6, <1>7 DEF Ready, Due

LEMMA FlightLoadHarmless ==
  ASSUME Core, HistInv, NEW f \in Flights, FlightLoad(f)
  PROVE  Harmless
<1>1. /\ f \in Tasks /\ holder = f /\ task[f].kind = "refresh" /\ task[f].pc = "locked"
      /\ UNCHANGED <<record, vault, gen, stale, issued, asked, faults>>
  BY DEF FlightLoad, At, stores, Tasks
<1>2. \/ End(f, "cancelled") \/ End(f, "reauth")
      \/ Goto(f, "mark")
      \/ /\ record.state \notin Terminal /\ vault # None
         /\ task' = [task EXCEPT ![f].pc = "done", ![f].out = "ok", ![f].cred = vault]
         /\ holder' = None
      \/ task' = [task EXCEPT ![f].pc = "asking", ![f].old = vault] /\ UNCHANGED holder
  BY DEF FlightLoad
<1>3. CASE End(f, "cancelled") \/ End(f, "reauth")
  BY <1>1, <1>3, TaskNames, EndHarmless DEF Outs, Results
<1>4. CASE Goto(f, "mark") \/
           (task' = [task EXCEPT ![f].pc = "asking", ![f].old = vault] /\ UNCHANGED holder)
  <2>1. /\ holder' = f /\ \A y \in Tasks \ {f} : task'[y] = task[y]
        /\ task'[f].pc \in {"mark", "asking"} /\ task'[f].gen = task[f].gen
        /\ task'[f].kind = "refresh"
    BY <1>1, <1>4, Typed DEF Goto, Core, LockInv, TaskType
  <2>2. Turn
    BY <1>1, <2>1, NotRenewing, TurnSame
  <2>3. ~Fresh(f)'
    BY <2>1 DEF Fresh
  <2>. QED  BY <1>1, <2>1, <2>2, <2>3, MoveHarmless
<1>5. CASE /\ record.state \notin Terminal /\ vault # None
           /\ task' = [task EXCEPT ![f].pc = "done", ![f].out = "ok", ![f].cred = vault]
           /\ holder' = None
  <2>1. /\ task'[f].pc = "done" /\ task'[f].cred = vault /\ task'[f].gen = task[f].gen
        /\ \A y \in Tasks \ {f} : task'[y] = task[y]
    BY <1>1, <1>5, Typed DEF Core, LockInv, TaskType
  <2>2. Current = vault
    BY <1>1, <1>5 DEF Current, Renewing, Core, CredInv, Stored
  <2>3. Turn
    BY <1>1, <1>5, NotRenewing, TurnSame
  <2>4. Mild(f)
    <3>1. Ending(f)' /\ f \notin Calls
      BY <1>1, <2>1, TaskNames DEF Ending, HistInv
    <3>. QED  BY <1>5, <2>1, <2>2, <3>1 DEF Mild, Fresh, Hears, Listens
  <2>. QED  BY <1>1, <2>1, <2>3, <2>4, OthersMild DEF Harmless
<1>. QED  BY <1>2, <1>3, <1>4, <1>5

\* A credential is issued to the flight.
LEMMA AnswerHarmless ==
  ASSUME Core, HistInv, NEW f \in Flights, Answer(f)
  PROVE  Harmless
<1>1. /\ f \in Tasks /\ holder = f /\ task[f].kind = "refresh" /\ task[f].pc = "asking"
      /\ task' = [task EXCEPT ![f].pc = "persist", ![f].cred = issued + 1]
      /\ UNCHANGED <<record, vault, holder, gen, stale, faults>>
  BY DEF Answer, Asking, At, stores, Tasks
<1>2. /\ task'[f].pc = "persist" /\ task'[f].cred = issued + 1 /\ task'[f].gen = task[f].gen
      /\ \A y \in Tasks \ {f} : task'[y] = task[y]
  BY <1>1, Typed DEF Core, LockInv, TaskType
<1>3. Turn
  BY <1>1, <1>2, NotRenewing, TurnSame
<1>4. Mild(f)
  <2>1. Ending(f)' /\ f \notin Calls
    BY <1>1, <1>2, TaskNames DEF Ending, HistInv
  <2>. QED  BY <1>2, <2>1 DEF Mild, Hears, Listens, Told, Fresh
<1>. QED  BY <1>1, <1>2, <1>3, <1>4, OthersMild DEF Harmless

LEMMA RefuseHarmless ==
  ASSUME Core, HistInv, NEW f \in Flights, NEW out \in {"reauth", "timeout"}, Refuse(f, out)
  PROVE  Harmless
<1>. DEFINE late == out = "timeout"
<1>1. /\ f \in Tasks /\ holder = f /\ task[f].kind = "refresh" /\ task[f].pc = "asking"
      /\ task' = [task EXCEPT ![f].pc = "fail", ![f].out = out, ![f].aborted = late]
      /\ UNCHANGED <<record, vault, holder, gen, stale, issued, faults>>
  BY DEF Refuse, Asking, At, stores, Tasks
<1>. HIDE DEF late
<1>2. /\ task'[f].pc = "fail" /\ task'[f].out = out /\ task'[f].gen = task[f].gen
      /\ task'[f].kind = "refresh"
      /\ \A y \in Tasks \ {f} : task'[y] = task[y]
  BY <1>1, Typed DEF Core, LockInv, TaskType
<1>3. Turn
  BY <1>1, <1>2, NotRenewing, TurnSame
<1>4. ~Fresh(f)'
  BY <1>2 DEF Fresh
<1>. QED  BY <1>1, <1>2, <1>3, <1>4, MoveHarmless

\* While the flight replaces a credential, that one stays the current one.
LEMMA RenounceHarmless ==
  ASSUME Core, HistInv, NEW f \in Flights, Persist(f) \/ TerminalFailure(f) \/ Cancel(f)
  PROVE  Harmless
<1>1. /\ f \in Tasks /\ f \notin Calls /\ holder = f /\ task[f].kind = "refresh"
      /\ UNCHANGED <<vault, gen, stale, issued, faults>>
  BY TaskNames DEF Persist, TerminalFailure, Cancel, Asking, At, stores, Tasks
<1>2. Persist(f) \/ TerminalFailure(f) => \/ ~Usable' /\ record' # None
                                          \/ record' = record /\ holder' = None
  <2>1. "reauth-required" \in States /\ None \in Issued
    BY DEF States, Terminal, Issued
  <2>2. Entry("reauth-required", None) # None /\ Entry("reauth-required", None).state = "reauth-required"
    BY <2>1, EntryIs DEF Core
  <2>. QED  BY <2>2 DEF Persist, TerminalFailure, End, Usable, Terminal
<1>3. CASE Cancel(f)
  BY <1>1, <1>3, EndHarmless DEF Cancel, stores, Outs, Results
<1>4. CASE Persist(f) /\ Goto(f, "save")
  <2>1. /\ holder' = f /\ \A y \in Tasks \ {f} : task'[y] = task[y]
        /\ task'[f].kind = task[f].kind /\ task'[f].gen = task[f].gen /\ task'[f].pc = "save"
        /\ task'[f].cred = task[f].cred /\ task'[f].old = task[f].old
    BY <1>1, <1>4, GoesOn
  <2>2. /\ task[f].pc = "persist" /\ task[f].old = vault /\ vault # None /\ Usable
    BY <1>1, <1>4 DEF Persist, At, Core, CredInv, Work
  <2>3. Turn
    <3>1. Current = vault
      BY <1>1, <2>2 DEF Current, Renewing, Usable
    <3>2. Current' = vault
      BY <1>1, <1>2, <1>4, <2>1, <2>2, TaskNames DEF Current, Renewing
    <3>. QED  BY <3>1, <3>2 DEF Turn
  <2>4. Fresh(f)' => Fresh(f)
    BY <1>1, <2>1, <2>2 DEF Fresh
  <2>. QED  BY <1>1, <2>1, <2>3, <2>4, MoveHarmless
<1>5. CASE TerminalFailure(f) /\ Goto(f, "delete")
  <2>1. /\ holder' = f /\ \A y \in Tasks \ {f} : task'[y] = task[y]
        /\ task'[f].kind = task[f].kind /\ task'[f].gen = task[f].gen /\ task'[f].pc = "delete"
        /\ task'[f].out = task[f].out
    BY <1>1, <1>5, GoesOn
  <2>2. task[f].out \in {"reauth", "timeout", "cancelled", "failed"}
    BY <1>1, <1>5 DEF TerminalFailure, At, HistInv, Ending
  <2>3. Turn
    BY <1>2, <1>5, <2>1, NotRenewing, TurnNone, <1>1, TaskNames
  <2>4. ~Fresh(f)'
    BY <2>1 DEF Fresh
  <2>. QED  BY <1>1, <2>1, <2>2, <2>3, <2>4, MoveHarmless
<1>6. CASE (Persist(f) /\ End(f, "cancelled")) \/ (TerminalFailure(f) /\ End(f, task[f].out))
  <2>1. TerminalFailure(f) => task[f].out \in {"reauth", "timeout", "cancelled", "failed"}
    BY <1>1 DEF TerminalFailure, At, HistInv, Ending
  <2>2. PICK out \in {"reauth", "timeout", "cancelled", "failed"} : End(f, out)
    BY <1>6, <2>1
  <2>3. out \in Outs
    BY DEF Outs, Results
  <2>. QED  BY <1>1, <1>2, <1>6, <2>2, <2>3, EndHarmless
<1>. QED  BY <1>3, <1>4, <1>5, <1>6 DEF Persist, TerminalFailure

\* What a store call that fails may have written does not bring back a credential.
LEMMA EffectTurn ==
  ASSUME Core, HistInv, NEW x \in Tasks, holder = x, ~Renewing', UNCHANGED issued,
         record' = record \/ record' = RecordWritten(x), vault' = vault \/ vault' = VaultWritten(x)
  PROVE  Turn
<1>1. Current' = IF Usable' THEN vault' ELSE None
  BY DEF Current, Usable
<1>2. x # None /\ (x \in Flights <=> task[x].kind = "refresh") /\ task[x].pc \in LockedPcs
  BY Typed DEF Fine
<1>3. ~Renewing /\ Usable => Current = vault
  BY DEF Current, Usable
<1>4. CASE task[x].pc = "save"
  <2>1. record' = record /\ vault' \in {vault, task[x].cred} /\ task[x].kind \in {"connect", "refresh"}
    BY <1>4, Typed DEF RecordWritten, VaultWritten, Fine
  <2>2. task[x].cred \notin past
    BY <1>4, <2>1 DEF HistInv, PastInv, Fresh, Core, CredInv, Work
  <2>3. CASE task[x].kind = "refresh"
    <3>1. ~Usable
      BY <1>4, <2>3 DEF Core, CredInv, Work
    <3>. QED  BY <1>1, <2>1, <3>1 DEF Turn, Usable
  <2>4. CASE task[x].kind = "connect"
    BY <1>1, <1>2, <1>3, <2>1, <2>2, <2>4 DEF Turn, Renewing, Usable
  <2>. QED  BY <2>1, <2>3, <2>4
<1>5. CASE task[x].pc = "record"
  <2>1. vault' = vault /\ vault = task[x].cred
    BY <1>5 DEF VaultWritten, Core, CredInv, Work
  <2>2. CASE task[x].kind = "connect" /\ Usable
    BY <1>1, <1>2, <1>3, <2>1, <2>2 DEF Turn, Renewing
  <2>3. CASE task[x].cred \notin past
    BY <1>1, <2>1, <2>3 DEF Turn
  <2>. QED  BY <1>5, <2>2, <2>3 DEF HistInv, PastInv
<1>6. CASE task[x].pc \notin {"save", "record"}
  <2>1. ~Renewing
    BY <1>6 DEF Renewing
  <2>2. \/ record' = record \/ Usable
        \/ record' \in {Entry("reauth-required", None), Entry("disconnected", None)}
    BY <1>6 DEF RecordWritten, Created, Core, CredInv, Work
  <2>3. \A state \in Terminal : Entry(state, None).state \in Terminal
    BY DEF Entry
  <2>4. Usable' => Usable
    BY <2>2, <2>3 DEF Usable, Terminal
  <2>5. vault' \in {None, vault}
    BY <1>6 DEF VaultWritten
  <2>. QED  BY <1>1, <1>3, <2>1, <2>4, <2>5 DEF Turn
<1>. QED  BY <1>4, <1>5, <1>6

\* A store call that fails.
LEMMA FailHarmless ==
  ASSUME Core, HistInv, NEW x \in Tasks, FailCall(x)
  PROVE  Harmless
<1>0. /\ Fails(x)
      /\ record' = record \/ record' = RecordWritten(x)
      /\ vault' = vault \/ vault' = VaultWritten(x)
  BY DEF FailCall, stores
<1>1. /\ holder = x /\ task[x].pc # "asking" /\ UNCHANGED <<gen, stale, issued>>
      /\ ~Renewing' => Turn
  BY <1>0, EffectTurn DEF FailCall
<1>2. CASE End(x, "cancelled") \/ End(x, "failed")
  <2>1. PICK out \in {"cancelled", "failed"} : End(x, out)
    BY <1>2
  <2>2. /\ holder' = None /\ task'[x] = Over(x, out) /\ out \in Outs
        /\ \A y \in Tasks \ {x} : task'[y] = task[y]
    BY <2>1 DEF End, Core, LockInv, Outs, Results
  <2>3. Mild(x) /\ Turn
    BY <1>1, <2>2, OverMild, NotRenewing
  <2>. QED  BY <1>1, <2>2, <2>3, OthersMild DEF Harmless
<1>3. CASE task[x].pc = "record" /\ DeleteAndThrow(x, "failed")
  <2>1. holder' = x /\ task'[x].pc = "delete"
    BY <1>1, <1>3, Typed DEF DeleteAndThrow, Core, LockInv, TaskType
  <2>2. Turn
    BY <1>1, <2>1, NotRenewing
  <2>. QED  BY <1>1, <1>3, <2>2, ThrowHarmless
<1>4. CASE /\ x \in Flights /\ holder' = holder
           /\ task' = [task EXCEPT ![x].pc = "fail", ![x].out = "reauth"]
  <2>1. /\ task'[x].pc = "fail" /\ task'[x].out = "reauth" /\ task'[x].gen = task[x].gen
        /\ task'[x].kind = task[x].kind
        /\ \A y \in Tasks \ {x} : task'[y] = task[y]
    BY <1>1, <1>4, Typed DEF Core, LockInv, TaskType
  <2>2. Turn
    BY <1>1, <1>4, <2>1, NotRenewing
  <2>3. ~Fresh(x)' /\ task[x].kind = "refresh"
    BY <1>4, <2>1, Typed DEF Fresh, Fine
  <2>. QED  BY <1>1, <1>4, <2>1, <2>2, <2>3, MoveHarmless
<1>. QED  BY <1>0, <1>1, <1>2, <1>3, <1>4 DEF Fails

\* Steps beside the one that has the lock.
LEMMA WaitHarmless ==
  ASSUME Core, Core', HistInv, NEW x \in Tasks, GiveUp(x)
  PROVE  Harmless
<1>1. /\ task[x].pc = "waiting" /\ holder' = holder /\ task' = [task EXCEPT ![x] = Over(x, "failed")]
      /\ UNCHANGED <<record, vault, gen, stale, issued, asked>>
  BY DEF GiveUp, stores
<1>2. task'[x] = Over(x, "failed") /\ \A y \in Tasks \ {x} : task'[y] = task[y]
  BY <1>1 DEF Core, LockInv
<1>3. Mild(x) /\ task'[x].pc = "done"
  <2>1. "failed" \in Outs
    BY DEF Outs, Results
  <2>. QED  BY <1>2, <2>1, OverMild, OverSays
<1>4. \A y \in Tasks \ {x} : Mild(y)
  BY <1>1, <1>2, SameMild DEF Usable
<1>5. Turn
  BY <1>1, <1>2, <1>3, TurnKept DEF LockedPcs
<1>. QED  BY <1>3, <1>4, <1>5 DEF Harmless

LEMMA AbortHarmless ==
  ASSUME Core, Core', HistInv, NEW c \in Calls, CallerAborts(c)
  PROVE  Harmless
<1>1. /\ c \in Tasks /\ task[c].pc \in {"waiting", "join", "joined"}
      /\ UNCHANGED <<record, vault, holder, gen, stale, issued, asked, faults>>
      /\ task' = [x \in Tasks |->
           IF x = c
           THEN IF task[c].pc = "joined" THEN Over(c, "cancelled")
                ELSE [task[c] EXCEPT !.aborted = TRUE]
           ELSE IF x \in Flights /\ Consumers(x) = {c} THEN [task[x] EXCEPT !.aborted = TRUE]
           ELSE task[x]]
  BY DEF CallerAborts, stores, Tasks
<1>2. \A x \in Tasks : \/ task'[x] \in {task[x], [task[x] EXCEPT !.aborted = TRUE]}
                       \/ x = c /\ task'[x] = Over(c, "cancelled")
  BY <1>1, Zenon
<1>3. ASSUME NEW x \in Tasks
      PROVE  /\ Mild(x)
             /\ task[x].pc \in LockedPcs \/ task'[x].pc \in LockedPcs =>
                  task'[x].pc = task[x].pc /\ task'[x].old = task[x].old
  <2>1. CASE task'[x] \in {task[x], [task[x] EXCEPT !.aborted = TRUE]}
    BY <1>1, <2>1, AbortIs, SameMild DEF Usable
  <2>2. CASE x = c /\ task'[x] = Over(c, "cancelled")
    <3>1. "cancelled" \in Outs
      BY DEF Outs, Results
    <3>2. Mild(x) /\ task'[x].pc = "done"
      BY <2>2, <3>1, OverMild, OverSays
    <3>. QED  BY <1>1, <2>2, <3>2 DEF LockedPcs
  <2>. QED  BY <1>2, <2>1, <2>2
<1>. QED  BY <1>1, <1>3, TurnKept DEF Harmless

LEMMA JoinHarmless ==
  ASSUME Core, Core', HistInv, NEW c \in Calls, Join(c)
  PROVE  Harmless
<1>. DEFINE f == <<task[c].proc, task[c].gen>>
            flight == IF task[f].pc # "none" THEN task[f] ELSE [Absent(f) EXCEPT !.pc = "waiting"]
            joined == [task[c] EXCEPT !.pc = "joined"]
<1>1. /\ c \in Tasks /\ task[c].pc = "join"
      /\ \/ task' = [task EXCEPT ![c] = Over(c, "cancelled")]
         \/ task' = [task EXCEPT ![c] = Over(c, "cancelled"), ![f] = flight]
         \/ task' = [task EXCEPT ![c].pc = "joined", ![f] = flight]
      /\ UNCHANGED <<record, vault, holder, gen, stale, issued, asked, faults>>
  BY Zenon DEF Join, stores, Tasks
<1>2. /\ f \in Tasks => f \in Flights /\ f # c
      /\ task \in [Tasks -> TaskType] /\ (f \in Flights => f \in Tasks)
  <2>1. task[c].proc \in Procs
    BY <1>1, Typed DEF Fine
  <2>2. f \notin Calls
    BY <2>1, TaskNames DEF Calls
  <2>. QED  BY <2>2 DEF Core, LockInv, Tasks
<1>3. /\ \A x \in Tasks \ {c} : task'[x] = task[x] \/ (x = f /\ task'[x] = flight)
      /\ \/ task'[c] = Over(c, "cancelled")
         \/ task'[c] = joined /\ (f \in Tasks => task'[f] = flight)
  <2>. HIDE DEF f, flight
  <2>. QED  BY <1>1, <1>2
<1>4. task[f].pc = "none" =>
        /\ flight.pc = "waiting" /\ flight.cred = None
        /\ f \in Flights => flight.gen = f[2]
  BY DEF Absent
<1>5. Mild(c) /\ task'[c].pc \notin LockedPcs
  <2>1. CASE task'[c] = Over(c, "cancelled")
    <3>1. "cancelled" \in Outs
      BY DEF Outs, Results
    <3>. QED  BY <1>1, <2>1, <3>1, OverMild, OverSays DEF LockedPcs
  <2>2. CASE task'[c] = joined /\ (f \in Tasks => task'[f] = flight)
    <3>1. /\ task'[c].pc = "joined" /\ task'[c].proc = task[c].proc /\ task'[c].gen = task[c].gen
          /\ c \notin Flights
      BY <1>1, <2>2, Typed, TaskNames DEF TaskType
    <3>2. Hears(c)
      <4>1. task[c].kind = "credential"
        BY <1>1, Typed DEF Fine
      <4>. QED  BY <1>1, <3>1, <4>1 DEF Hears, Listens
    <3>3. Ending(c)' /\ ~Fresh(c)'
      BY <3>1 DEF Ending, Fresh
    <3>. HIDE DEF f, flight, joined
    <3>. QED  BY <3>1, <3>2, <3>3 DEF Mild, LockedPcs
  <2>. QED  BY <1>3, <2>1, <2>2
<1>6. ASSUME NEW x \in Tasks \ {c}
      PROVE  /\ Mild(x)
             /\ task[x].pc \in LockedPcs \/ task'[x].pc \in LockedPcs =>
                  task'[x].pc = task[x].pc /\ task'[x].old = task[x].old
  <2>1. CASE task'[x] = task[x]
    BY <1>1, <2>1, SameMild DEF Usable
  <2>2. CASE task'[x] # task[x] /\ x = f /\ task'[x] = flight
    <3>1. task[x].pc = "none" /\ x \in Flights /\ x \notin Calls
      <4>1. x \in Flights
        BY <1>2, <2>2
      <4>2. task[x].pc = "none"
        BY <2>2
      <4>. QED  BY <4>1, <4>2, TaskNames
    <3>2. task'[x].pc = "waiting" /\ task'[x].cred = None /\ task'[x].gen = x[2]
      <4>. HIDE DEF f, flight
      <4>1. f \in Flights /\ task[f].pc = "none"
        BY <2>2, <3>1
      <4>2. flight.pc = "waiting" /\ flight.cred = None /\ flight.gen = f[2]
        BY <1>4, <4>1
      <4>. QED  BY <2>2, <4>2
    <3>3. Ending(x)' /\ ~Fresh(x)' /\ ~Told(x)'
      BY <3>1, <3>2 DEF Ending, Fresh, Told
    <3>4. Mild(x)
      BY <3>1, <3>2, <3>3 DEF Mild, Hears, Listens
    <3>5. task[x].pc \notin LockedPcs
      BY <3>1 DEF LockedPcs
    <3>. QED  BY <3>2, <3>4, <3>5 DEF LockedPcs
  <2>. QED  BY <1>3, <2>1, <2>2
<1>7. Turn
  <2>1. task[c].pc \notin LockedPcs
    BY <1>1 DEF LockedPcs
  <2>. QED  BY <1>1, <1>5, <1>6, <2>1, TurnKept
<1>. QED  BY <1>5, <1>6, <1>7 DEF Harmless

\* What a flight tells its callers was the current credential while they waited.
LEMMA SettleHarmless ==
  ASSUME Core, Core', HistInv, NEW f \in Flights, Settle(f)
  PROVE  Harmless
<1>. DEFINE cred == IF task[f].out = "ok" THEN task[f].cred ELSE None
            told(x) == [Over(x, task[f].out) EXCEPT !.cred = cred]
<1>1. /\ f \in Tasks /\ f \notin Calls /\ task[f].pc = "done"
      /\ UNCHANGED <<record, vault, holder, gen, stale, issued, asked, faults>>
      /\ task' = [x \in Tasks |->
           IF x = f THEN Absent(f)
           ELSE IF x \in Consumers(f) THEN told(x)
           ELSE task[x]]
  BY TaskNames DEF Settle, stores, Tasks
<1>2. task[f].out \in Outs
  BY <1>1, Typed DEF TaskType
<1>3. ASSUME NEW x \in Tasks
      PROVE  /\ Mild(x)
             /\ task[x].pc \in LockedPcs \/ task'[x].pc \in LockedPcs =>
                  task'[x].pc = task[x].pc /\ task'[x].old = task[x].old
  <2>1. CASE x = f
    <3>1. task'[x] = Absent(x)
      BY <1>1, <2>1
    <3>2. task'[x].pc = "none" /\ task'[x].cred = None /\ task'[x].gen = x[2]
      BY <2>1, <3>1 DEF Absent
    <3>3. Ending(x)' /\ ~Fresh(x)' /\ ~Told(x)'
      BY <1>1, <2>1, <3>2 DEF Ending, Fresh, Told
    <3>4. Mild(x)
      BY <1>1, <2>1, <3>2, <3>3 DEF Mild, Hears, Listens
    <3>. QED  BY <1>1, <2>1, <3>2, <3>4 DEF LockedPcs
  <2>2. CASE x # f /\ x \in Consumers(f)
    <3>. DEFINE t == Over(x, task[f].out)
                u == [t EXCEPT !.cred = cred]
    <3>1. task'[x] = u
      BY <1>1, <2>2
    <3>2. /\ t.pc = "done" /\ t.out \in {task[f].out, None} /\ t.kind = "none" /\ t \in TaskType
          /\ x \in Calls /\ x \notin Flights /\ task[x].pc = "joined"
      <4>1. x \in Calls /\ task[x].pc = "joined" /\ x \notin Flights
        BY <2>2, TaskNames DEF Consumers
      <4>2. t \in TaskType
        BY <1>2, OverFine, Typed DEF Fine
      <4>. QED  BY <1>2, <4>1, <4>2, OverSays
    <3>3. u.pc = "done" /\ u.out = t.out /\ u.kind = "none" /\ u.cred = cred
      <4>. HIDE DEF t, cred
      <4>. QED  BY <3>2 DEF TaskType
    <3>4. u.out = "ok" => u.cred \in seen[x] \cup {Current}
      <4>1. ASSUME u.out = "ok" PROVE Told(f) /\ u.cred = task[f].cred
        <5>1. None # "ok"
          BY TaskNames DEF Results
        <5>2. task[f].out = "ok"
          BY <3>2, <3>3, <4>1, <5>1
        <5>. QED  BY <1>1, <3>3, <5>2 DEF Told
      <4>2. Listens(x) /\ task[x].proc = f[1]
        <5>1. task[x].kind = "credential"
          BY <1>1, <3>2, Typed DEF Fine
        <5>2. task[x].proc = task[f].proc /\ task[f].proc = f[1]
          BY <1>1, <2>2, Typed DEF Fine, Consumers
        <5>. QED  BY <3>2, <5>1, <5>2 DEF Listens
      <4>. QED  BY <3>2, <4>1, <4>2 DEF HistInv, SeenInv
    <3>. HIDE DEF t, u, cred
    <3>5. Ending(x)' /\ ~Fresh(x)'
      BY <3>1, <3>2, <3>3 DEF Ending, Fresh
    <3>6. Mild(x)
      BY <3>1, <3>2, <3>3, <3>4, <3>5 DEF Mild, Hears, Listens
    <3>. QED  BY <3>1, <3>2, <3>3, <3>6 DEF LockedPcs
  <2>3. CASE x # f /\ x \notin Consumers(f)
    <3>1. task'[x] = task[x]
      BY <1>1, <2>3
    <3>. QED  BY <1>1, <3>1, SameMild DEF Usable
  <2>. QED  BY <2>1, <2>2, <2>3
<1>. QED  BY <1>1, <1>3, TurnKept DEF Harmless

LEMMA StartHarmless ==
  ASSUME Core, Core', HistInv, NEW c \in Calls, NEW p \in Procs, NEW kind \in CallKinds,
         Start(c, p, kind)
  PROVE  Harmless
<1>. DEFINE g == IF Advances(kind) THEN gen[p] + 1 ELSE gen[p]
            cred == IF kind = "connect" THEN issued + 1 ELSE None
            t == [Absent(c) EXCEPT !.kind = kind, !.proc = p, !.gen = g, !.pc = "waiting",
                                   !.cred = cred]
<1>1. /\ c \in Tasks /\ c \notin Flights /\ task[c].pc = "none"
      /\ UNCHANGED <<record, vault, holder, stale, asked, faults>>
      /\ task' = [x \in Tasks |->
           IF x = c THEN t
           ELSE IF Advances(kind) /\ x \in Flights /\ x[1] = p /\ Running(x)
                THEN [task[x] EXCEPT !.aborted = TRUE]
           ELSE task[x]]
  BY TaskNames DEF Start, stores, Tasks
<1>2. t.kind = kind /\ t.pc = "waiting" /\ t.cred = cred
  BY DEF Absent
<1>. HIDE DEF t
<1>3. task'[c] = t
  BY <1>1
<1>4. \A x \in Tasks \ {c} : task'[x] \in {task[x], [task[x] EXCEPT !.aborted = TRUE]}
  BY <1>1, Zenon
<1>5. Mild(c)
  <2>1. Fresh(c)' => task'[c].cred = issued + 1
    BY <1>2, <1>3 DEF Fresh
  <2>2. Ending(c)'
    BY <1>1, <1>2, <1>3 DEF Ending
  <2>. QED  BY <1>1, <1>2, <1>3, <2>1, <2>2 DEF Mild, Hears, Listens
<1>6. ASSUME NEW x \in Tasks \ {c}
      PROVE  Mild(x) /\ task'[x].pc = task[x].pc /\ task'[x].old = task[x].old
  <2>1. task'[x] \in {task[x], [task[x] EXCEPT !.aborted = TRUE]}
    BY <1>4
  <2>2. /\ task'[x].pc = task[x].pc /\ task'[x].kind = task[x].kind
        /\ task'[x].cred = task[x].cred /\ task'[x].old = task[x].old
        /\ task'[x].proc = task[x].proc /\ task'[x].gen = task[x].gen
        /\ task'[x].out = task[x].out
    BY <2>1, AbortIs
  <2>. QED  BY <1>1, <2>2, SameMild DEF Usable
<1>7. Turn
  BY <1>1, <1>2, <1>3, <1>6, TurnKept DEF LockedPcs
<1>. QED  BY <1>5, <1>6, <1>7 DEF Harmless

LEMMA CrashHarmless ==
  ASSUME Core, Core', HistInv, NEW p \in Procs, Crash(p)
  PROVE  Harmless
<1>1. /\ UNCHANGED <<record, vault, stale, issued>>
      /\ holder' = (IF holder # None /\ task[holder].proc = p THEN None ELSE holder)
      /\ task' = [x \in Tasks |->
           IF task[x].proc # p \/ (x \in Calls /\ ~Running(x)) THEN task[x]
           ELSE IF x \in Flights THEN Absent(x)
           ELSE Over(x, "crashed")]
  BY DEF Crash, stores
<1>2. ASSUME NEW x \in Tasks
      PROVE  /\ Mild(x)
             /\ task'[x] = task[x] \/ task'[x].pc \in {"none", "done"}
  <2>1. CASE task'[x] = task[x]
    BY <1>1, <2>1, SameMild DEF Usable
  <2>2. CASE x \in Flights /\ task'[x] = Absent(x)
    <3>1. task'[x].pc = "none" /\ task'[x].cred = None /\ task'[x].gen = x[2]
      BY <2>2 DEF Absent
    <3>2. Ending(x)' /\ ~Fresh(x)' /\ ~Told(x)'
      BY <2>2, <3>1, TaskNames DEF Ending, Fresh, Told
    <3>. QED  BY <2>2, <3>1, <3>2, TaskNames DEF Mild, Hears, Listens
  <2>3. CASE task'[x] = Over(x, "crashed")
    <3>1. "crashed" \in Outs
      BY DEF Outs, Results
    <3>. QED  BY <2>3, <3>1, OverMild, OverSays
  <2>. QED  BY <1>1, <2>1, <2>2, <2>3
<1>3. Turn
  <2>1. CASE holder' = holder
    <3>1. ASSUME NEW x \in Tasks, task[x].pc \in LockedPcs \/ task'[x].pc \in LockedPcs
          PROVE  task'[x].pc = task[x].pc /\ task'[x].old = task[x].old
      <4>1. holder = x /\ x # None
        BY <2>1, <3>1, Typed DEF Core, LockInv
      <4>2. task[x].proc # p
        BY <1>1, <2>1, <4>1
      <4>. QED  BY <1>1, <4>2
    <3>. QED  BY <1>1, <2>1, <3>1, TurnKept
  <2>2. CASE holder' = None
    <3>1. ~Renewing'
      BY <2>2, TaskNames DEF Renewing, Tasks
    <3>. QED  BY <1>1, <3>1, TurnSame
  <2>. QED  BY <1>1, <2>1, <2>2
<1>. QED  BY <1>2, <1>3 DEF Harmless

LEMMA WriteHarmless ==
  ASSUME Core, HistInv, Register \/ Status
  PROVE  Harmless
<1>1. /\ holder = None /\ UNCHANGED <<vault, holder, gen, task, stale, issued, asked, faults>>
  BY DEF Register, Status
<1>2. \A x \in Tasks : task[x].pc # "record"
  BY <1>1, Typed DEF LockedPcs
<1>3. \A x \in Tasks : Mild(x)
  BY <1>1, <1>2, SameMild
<1>4. ~Renewing'
  BY <1>1, TaskNames DEF Renewing, Tasks
<1>5. Usable' = Usable
  <2>1. CASE record' = record
    BY <2>1 DEF Usable
  <2>2. CASE record = None /\ record' = Entry("disconnected", None)
    BY <2>2 DEF Usable, Entry, Terminal
  <2>3. CASE Status
    <3>1. /\ Usable /\ record' = Entry(StateOf(record.exp), record.exp) /\ record.exp \in Issued
      BY <2>3, EntryIs DEF Status, Usable, Core, CredInv, Stored
    <3>2. StateOf(record.exp) \in States /\ StateOf(record.exp) \notin Terminal
      BY DEF StateOf, States, Terminal
    <3>. QED  BY <3>1, <3>2, EntryIs DEF Core, Usable
  <2>. QED  BY <2>1, <2>2, <2>3 DEF Register, Created
<1>. QED  BY <1>1, <1>3, <1>4, <1>5, TurnSame DEF Harmless

LEMMA ProceedHarmless ==
  ASSUME Core, Core', HistInv, NEW x \in Tasks, Proceed(x)
  PROVE  Harmless
<1>1. CASE Acquire(x) \/ Delete(x) \/ Save(x) \/ Record(x) \/ Mark(x)
  BY <1>1, AcquireHarmless, DeleteHarmless, SaveHarmless, RecordHarmless, MarkHarmless
<1>2. CASE x \in Calls /\ (\/ Disconnect(x) \/ Create(x)
                           \/ Load(x) \/ Ready(x) \/ Due(x) \/ Join(x))
  BY <1>2, DisconnectHarmless, CreateHarmless, LoadHarmless, TellHarmless, JoinHarmless
<1>3. CASE x \in Flights /\ (\/ FlightLoad(x) \/ Answer(x) \/ Cancel(x)
                             \/ \E out \in {"reauth", "timeout"} : Refuse(x, out)
                             \/ Persist(x) \/ TerminalFailure(x) \/ Settle(x))
  BY <1>3, FlightLoadHarmless, AnswerHarmless, RefuseHarmless, RenounceHarmless, SettleHarmless
<1>. QED  BY <1>1, <1>2, <1>3 DEF Proceed

LEMMA StepHarmless ==
  ASSUME Core, Core', HistInv, [Next]_vars
  PROVE  Harmless
<1>1. CASE \E x \in Tasks : Proceed(x) \/ GiveUp(x) \/ FailCall(x)
  BY <1>1, ProceedHarmless, WaitHarmless, FailHarmless
<1>2. CASE \E c \in Calls :
             CallerAborts(c) \/ \E p \in Procs, kind \in CallKinds : Start(c, p, kind)
  BY <1>2, AbortHarmless, StartHarmless
<1>3. CASE \E p \in Procs : Crash(p)
  BY <1>3, CrashHarmless
<1>4. CASE Register \/ Status
  BY <1>4, WriteHarmless
<1>5. CASE Age(vault) \/ (record # None /\ Age(record.exp)) \/ UNCHANGED vars
  <2>1. UNCHANGED <<record, vault, holder, task>>
    BY <1>5 DEF Age, stores, vars
  <2>2. \A x \in Tasks : Mild(x)
    BY <2>1, SameMild DEF Usable
  <2>. QED  BY <2>1, <2>2, TurnKept DEF Harmless
<1>. QED  BY <1>1, <1>2, <1>3, <1>4, <1>5 DEF Next

LEMMA IssuedOnce ==
  ASSUME [Next]_vars
  PROVE  issued' \in {issued, issued + 1}
BY ZenonT(30) DEF Next, vars, Proceed, Acquire, Delete, Save, Record, Mark, Disconnect, Create, Load, Ready,
       Due, Join, FlightLoad, Answer, Cancel, Refuse, Persist, TerminalFailure, Settle, GiveUp,
       FailCall, CallerAborts, Start, Crash, Register, Status, Age

LEMMA HistInit == MCInit => HistInv
<1>. SUFFICES ASSUME MCInit PROVE HistInv
  OBVIOUS
<1>1. \A x \in Tasks : /\ task[x] = Absent(x) /\ task[x].pc = "none"
                       /\ x \in Flights => task[x].gen = x[2]
  <2>1. ASSUME NEW x \in Tasks, x \in Flights PROVE Absent(x).gen = x[2]
    BY <2>1 DEF Absent
  <2>. QED  BY <2>1, AbsentFine DEF MCInit, Init
<1>2. \A x \in Tasks : Ending(x) /\ PastInv(x)
  BY <1>1 DEF Ending, PastInv, Fresh
<1>3. \A f \in Flights : SeenInv(f)
  BY <1>1 DEF SeenInv, Told, Tasks
<1>. QED  BY <1>2, <1>3 DEF HistInv, MCInit

\* What a step of the lifecycle shows, told with what was seen before it.
Shown ==
  /\ Current' # Current => Current' = None \/ Current' \notin past
  /\ \A c \in Calls :
       task[c].kind = "credential" /\ task'[c].pc = "done" /\ task'[c].out = "ok" =>
         task'[c].cred \in seen[c] \cup {Current}

LEMMA HistStep ==
  ASSUME Core, Core', HistInv, Next, Remember
  PROVE  HistInv' /\ Shown
<1>1. Harmless
  BY StepHarmless
<1>. QED  BY <1>1, HistFrame, IssuedOnce DEF Harmless, Turn, Shown

\* A credential that was the current one and is not any more never is again, and what a call hands
\* out was the current one at some time during the call.
THEOREM OnlyCurrentHandedOut == HistorySpec => OnlyCurrentIsUsed
<1>1. MCInit => Core /\ HistInv
  BY CoreInit, HistInit DEF MCInit
<1>2. Core /\ HistInv /\ [Next /\ Remember]_<<vars, past, seen>> => Core' /\ HistInv'
  <2>. SUFFICES ASSUME Core, HistInv, [Next /\ Remember]_<<vars, past, seen>>
                PROVE  Core' /\ HistInv'
    OBVIOUS
  <2>1. CASE Next /\ Remember
    BY <2>1, CoreStep, HistStep
  <2>2. CASE UNCHANGED <<vars, past, seen>>
    <3>1. Core'
      BY <2>2, CoreStep
    <3>2. HistInv'
      BY <2>2 DEF HistInv, Ending, PastInv, SeenInv, Told, Listens, Fresh, Usable, Current, Renewing,
                  vars
    <3>. QED  BY <3>1, <3>2
  <2>. QED  BY <2>1, <2>2
<1>3. Core /\ Core' /\ HistInv /\ [Next /\ Remember]_<<vars, past, seen>> =>
        [Current' # Current => Current' = None \/ Current' \notin past]_vars
  BY HistStep DEF Shown
<1>4. Core /\ Core' /\ HistInv /\ [Next /\ Remember]_<<vars, past, seen>> =>
        [\A c \in Calls :
           task[c].kind = "credential" /\ task'[c].pc = "done" /\ task'[c].out = "ok" =>
             task'[c].cred \in seen[c] \cup {Current}]_vars
  BY HistStep DEF Shown
<1>. QED  BY <1>1, <1>2, <1>3, <1>4, PTL
          DEF HistorySpec, OnlyCurrentIsUsed, NeverReturns, HandedOutWasCurrent

\* The same for the run's bounded specification.
THEOREM OnlyCurrentInRuns == MCSpec => OnlyCurrentIsUsed
<1>1. MCNext => Next /\ Remember
  BY DEF MCNext
<1>2. [MCNext]_<<vars, past, seen>> => [Next /\ Remember]_<<vars, past, seen>>
  BY <1>1
<1>3. MCSpec => HistorySpec
  BY <1>2, PTL DEF MCSpec, HistorySpec
<1>. QED  BY <1>3, OnlyCurrentHandedOut
=============================================================================
