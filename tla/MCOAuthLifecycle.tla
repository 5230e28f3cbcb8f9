-------------------------- MODULE MCOAuthLifecycle --------------------------
(***************************************************************************)
(* The lifecycle with what it has shown so far: "past" are the credentials *)
(* that the connection stood for before this step, "seen" those that it    *)
(* stood for while a call was under way.                                   *)
(***************************************************************************)
EXTENDS OAuthLifecycle

VARIABLES past, seen

MCInit == Init /\ past = {} /\ seen = [c \in Calls |-> {}]
Remember ==
  /\ past' = past \cup ({Current} \ {None})
  /\ seen' = [c \in Calls |-> IF Running(c) /\ task[c].kind = "credential"
                           THEN seen[c] \cup ({Current} \ {None}) ELSE {}]
HistorySpec == MCInit /\ [][Next /\ Remember]_<<vars, past, seen>>

\* The processes are alike: the first call may be taken to be of a given one.
FirstCall == task'[<<None, 1>>].proc \in {None, CHOOSE p \in Procs : TRUE}
MCNext == Next /\ FirstCall /\ Remember
MCSpec == MCInit /\ [][MCNext]_<<vars, past, seen>>

\* A credential that was disconnected, replaced or given up never becomes usable again, however
\* the calls of the processes interleave and whatever a failed compensation left in the vault.
NeverReturns == [][Current' # Current => Current' = None \/ Current' \notin past]_vars

\* A call hands out only a credential that the connection stood for at some time during the call.
HandedOutWasCurrent ==
  [][\A c \in Calls :
       task[c].kind = "credential" /\ task'[c].pc = "done" /\ task'[c].out = "ok" =>
         task'[c].cred \in seen[c] \cup {Current}]_vars

\* So only the current credential is ever used.
OnlyCurrentIsUsed == NeverReturns /\ HandedOutWasCurrent
=============================================================================
