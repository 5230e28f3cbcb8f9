------------------------------ MODULE AuditLog ------------------------------
(***************************************************************************)
(* What the managed audit journal promises (audit/audit-journal.ts and     *)
(* docs/architecture.md): the retained records are one log, in the order   *)
(* they were written; a record enters it whole or not at all; only the     *)
(* record just written is ever acknowledged; and nothing leaves the log    *)
(* but its oldest records, through retention, never the newest one.        *)
(***************************************************************************)
EXTENDS Naturals, Sequences

CONSTANT Records \* a set of natural numbers: the later record is the larger

VARIABLES log, acked

AInit == log = <<>> /\ acked = {}

Write(r) ==
  /\ \A i \in 1..Len(log) : log[i] < r
  /\ r \notin acked
  /\ log' = Append(log, r)
  /\ UNCHANGED acked

Acknowledge ==
  /\ log # <<>>
  /\ acked' = acked \cup {log[Len(log)]}
  /\ UNCHANGED log

Retire(k) ==
  /\ k < Len(log)
  /\ log' = SubSeq(log, k + 1, Len(log))
  /\ UNCHANGED acked

ANext ==
  \/ \E r \in Records : Write(r)
  \/ Acknowledge
  \/ \E k \in 1..Len(log) : Retire(k)

ASpec == AInit /\ [][ANext]_<<log, acked>>
=============================================================================
