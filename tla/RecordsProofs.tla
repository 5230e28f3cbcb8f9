----------------------------- MODULE RecordsProofs -----------------------------
(***************************************************************************)
(* The profile contexts for every number of services, chats, requests,     *)
(* snapshots of the keyring and failures.  One invariant says what each    *)
(* request has done so far and that what was struck is revoked or over;    *)
(* the others relate the handles to the snapshots they were minted with    *)
(* and to what their service remembers.                                    *)
(***************************************************************************)
EXTENDS MCRecords, TLAPS

Rounds == {"resolve", "replace", "undo"}
Phases == {"none", "open", "check", "confirm", "mint", "audit", "strike", "done"}
Over0 == {"none", "done"}
CallRecords ==
  [kind : {"none", "use", "revoke", "select"}, pc : Phases, round : Rounds, s : Services \cup {None},
   chat : Chats \cup {None}, handle : Handles \cup {None}, auth : Nat, at : Nat, out : {None, "ok", "used"}]
Sealeds == [epoch : Nat, key : Nat, chat : Chats, issued : Nat, expires : Nat]

Types ==
  /\ now \in Nat
  /\ handle \in [Handles -> Sealeds \cup {None}]
  /\ call \in [Calls -> CallRecords]

\* Nothing that was struck comes back before it has expired by the clock that is furthest ahead.
ExpiredSomewhere(h) == \E s \in Services : ExpiredAt(s, h)
Revoked(h) == \E r \in revoked : r.handle = h
Struck(h) == ExpiredSomewhere(h) \/ Revoked(h)

Active(x) == x.pc \notin Over0
Own(x) == x.round = "undo"
\* What the phase of a request that is under way tells of it.
Underway(c) ==
  Active(call[c]) =>
    /\ call[c].s \in Services /\ call[c].chat \in Chats /\ call[c].kind # "none" /\ call[c].out = None
    /\ call[c].at <= Clock(call[c].s)
    /\ call[c].handle = None => call[c].kind = "select" /\ (Own(call[c]) \/ call[c].pc \in {"confirm", "mint", "audit"})
    /\ call[c].handle # None => Disclosed(call[c].handle)
    /\ call[c].round # "resolve" => call[c].kind = "select"
    /\ call[c].round = "replace" => call[c].handle # None
    /\ call[c].pc \in {"confirm", "mint", "audit"} => call[c].kind = "select" /\ ~Own(call[c])
    /\ call[c].pc = "confirm" => call[c].round = "resolve"
    /\ call[c].pc \in {"mint", "audit"} /\ call[c].round = "resolve" => call[c].handle = None
    /\ call[c].pc = "strike" => call[c].kind # "use"
\* The handle it opened is of its own chat.
Bound(c) ==
  Active(call[c]) /\ call[c].pc # "open" /\ call[c].handle # None /\ ~Own(call[c]) =>
    handle[call[c].handle].chat = call[c].chat
\* When it has minted, and when it has the record of that in the journal.
Minting(c) ==
  /\ handle[c] # None =>
       /\ call[c].s \in Services
       /\ \/ call[c].pc \in {"audit", "done"}
          \/ call[c].pc = "strike" /\ call[c].round = "replace"
          \/ Active(call[c]) /\ Own(call[c])
  /\ call[c].pc = "audit" \/ (Active(call[c]) /\ Own(call[c])) => handle[c] # None
  /\ call[c].pc = "strike" /\ call[c].round = "replace" => c \in trail
\* What was answered with success has been done.
Finished(c) ==
  /\ call[c].pc = "none" => call[c].out = None
  /\ call[c].pc = "done" /\ call[c].out = "ok" =>
       /\ call[c].kind \in {"revoke", "select"}
       /\ handle[c] # None => c \in trail
       /\ call[c].handle # None =>
            Disclosed(call[c].handle) /\ handle[call[c].handle].chat = call[c].chat /\ Struck(call[c].handle)

RequestInv == \A c \in Calls : Underway(c) /\ Bound(c) /\ Minting(c) /\ Finished(c)

\* A handle is revoked when a request of its chat has given it up, or when it was never given out.
GivenUp(h) ==
  \E c \in Calls :
    call[c].handle = h /\ call[c].pc = "done" /\ call[c].out = "ok" /\ call[c].kind # "use" /\ call[c].chat = handle[h].chat
TakenBack(h) == h \in Calls /\ call[h].pc = "done" /\ call[h].out # "ok"
RevokedInv ==
  \A r \in revoked :
    /\ r.handle \in Handles /\ handle[r.handle] # None /\ r.expires = handle[r.handle].expires
    /\ GivenUp(r.handle) \/ TakenBack(r.handle)

ContextInv == Types /\ RequestInv /\ RevokedInv

-----------------------------------------------------------------------------
(* The records.                                                            *)

\* The fields of a request that a step changes, and that it leaves the rest.
LEMMA GoesTo ==
  ASSUME call \in [Calls -> CallRecords], NEW c \in Calls, NEW p \in Phases
  PROVE  LET y == [call EXCEPT ![c].pc = p] IN
         /\ y \in [Calls -> CallRecords] /\ \A d \in Calls \ {c} : y[d] = call[d]
         /\ y[c].pc = p /\ y[c].at = call[c].at /\ y[c].round = call[c].round
         /\ y[c].kind = call[c].kind /\ y[c].s = call[c].s /\ y[c].chat = call[c].chat
         /\ y[c].handle = call[c].handle /\ y[c].auth = call[c].auth /\ y[c].out = call[c].out
BY DEF CallRecords, Phases

\* Who asks, for whom and with what stays when a request goes on.
SameCall(c) ==
  /\ call'[c].s = call[c].s /\ call'[c].chat = call[c].chat /\ call'[c].kind = call[c].kind
  /\ call'[c].handle = call[c].handle /\ call'[c].out = call[c].out
\* The same with the clock that was read.
LEMMA GoesAt ==
  ASSUME call \in [Calls -> CallRecords], NEW c \in Calls, NEW p \in Phases, NEW t \in Nat
  PROVE  call' = [call EXCEPT ![c].pc = p, ![c].at = t] =>
           /\ call' \in [Calls -> CallRecords] /\ \A d \in Calls \ {c} : call'[d] = call[d]
           /\ call'[c].pc = p /\ call'[c].at = t /\ call'[c].round = call[c].round /\ SameCall(c)
<1>. DEFINE x == [call EXCEPT ![c].pc = p]
            v == [x EXCEPT ![c].at = t]
<1>1. call' = [call EXCEPT ![c].pc = p, ![c].at = t] => call' = v
  OBVIOUS
<1>2. /\ x \in [Calls -> CallRecords] /\ \A d \in Calls \ {c} : x[d] = call[d]
      /\ x[c].pc = p /\ x[c].round = call[c].round
      /\ x[c].kind = call[c].kind /\ x[c].s = call[c].s /\ x[c].chat = call[c].chat
      /\ x[c].handle = call[c].handle /\ x[c].auth = call[c].auth /\ x[c].out = call[c].out
  BY GoesTo
<1>. HIDE DEF x
<1>3. /\ v \in [Calls -> CallRecords] /\ \A d \in Calls \ {c} : v[d] = x[d]
      /\ v[c].pc = x[c].pc /\ v[c].at = t /\ v[c].round = x[c].round
      /\ v[c].kind = x[c].kind /\ v[c].s = x[c].s /\ v[c].chat = x[c].chat
      /\ v[c].handle = x[c].handle /\ v[c].auth = x[c].auth /\ v[c].out = x[c].out
  BY <1>2 DEF CallRecords
<1>. HIDE DEF v
<1>. QED  BY <1>1, <1>2, <1>3 DEF SameCall

\* The same in another round.
LEMMA GoesRound ==
  ASSUME call \in [Calls -> CallRecords], NEW c \in Calls, NEW p \in Phases, NEW t \in Nat, NEW r \in Rounds
  PROVE  call' = [call EXCEPT ![c].round = r, ![c].pc = p, ![c].at = t] =>
           /\ call' \in [Calls -> CallRecords] /\ \A d \in Calls \ {c} : call'[d] = call[d]
           /\ call'[c].pc = p /\ call'[c].at = t /\ call'[c].round = r /\ SameCall(c)
<1>. DEFINE x == [call EXCEPT ![c].round = r]
            z == [x EXCEPT ![c].pc = p]
            v == [z EXCEPT ![c].at = t]
<1>1. call' = [call EXCEPT ![c].round = r, ![c].pc = p, ![c].at = t] => call' = v
  OBVIOUS
<1>2. /\ x \in [Calls -> CallRecords] /\ \A d \in Calls \ {c} : x[d] = call[d]
      /\ x[c].round = r
      /\ x[c].kind = call[c].kind /\ x[c].s = call[c].s /\ x[c].chat = call[c].chat
      /\ x[c].handle = call[c].handle /\ x[c].auth = call[c].auth /\ x[c].out = call[c].out
  BY DEF CallRecords
<1>. HIDE DEF x
<1>3. /\ z \in [Calls -> CallRecords] /\ \A d \in Calls \ {c} : z[d] = x[d]
      /\ z[c].pc = p /\ z[c].round = x[c].round
      /\ z[c].kind = x[c].kind /\ z[c].s = x[c].s /\ z[c].chat = x[c].chat
      /\ z[c].handle = x[c].handle /\ z[c].auth = x[c].auth /\ z[c].out = x[c].out
  BY <1>2 DEF CallRecords
<1>. HIDE DEF z
<1>4. /\ v \in [Calls -> CallRecords] /\ \A d \in Calls \ {c} : v[d] = z[d]
      /\ v[c].pc = z[c].pc /\ v[c].at = t /\ v[c].round = z[c].round
      /\ v[c].kind = z[c].kind /\ v[c].s = z[c].s /\ v[c].chat = z[c].chat
      /\ v[c].handle = z[c].handle /\ v[c].auth = z[c].auth /\ v[c].out = z[c].out
  BY <1>3 DEF CallRecords
<1>. HIDE DEF v
<1>5. /\ v \in [Calls -> CallRecords] /\ \A d \in Calls \ {c} : v[d] = call[d]
      /\ v[c].pc = p /\ v[c].at = t /\ v[c].round = r
      /\ v[c].kind = call[c].kind /\ v[c].s = call[c].s /\ v[c].chat = call[c].chat
      /\ v[c].handle = call[c].handle /\ v[c].auth = call[c].auth /\ v[c].out = call[c].out
  BY <1>2, <1>3, <1>4
<1>. QED  BY <1>1, <1>5 DEF SameCall

\* A request that is over keeps what its success has shown, or who minted for it.
LEMMA EndsAs ==
  ASSUME Types, NEW c \in Calls, NEW result, result \in {"ok", "invalid", "unavailable", "revoked", "rejected", "expired", "failed"},
         End(c, result)
  PROVE  /\ call' \in [Calls -> CallRecords] /\ \A d \in Calls \ {c} : call'[d] = call[d]
         /\ call'[c].pc = "done" /\ call'[c].out \in {None, "ok", "used"}
         /\ result = "ok" /\ call[c].kind # "use" =>
              /\ call'[c].out = "ok" /\ call'[c].kind = call[c].kind /\ call'[c].s = call[c].s
              /\ call'[c].chat = call[c].chat /\ call'[c].handle = call[c].handle /\ call'[c].round = call[c].round
         /\ ~(result = "ok" /\ call[c].kind # "use") =>
              /\ call'[c].out # "ok" /\ (result # "ok" => call'[c].out = None)
              /\ call'[c].handle = None /\ (handle[c] # None => call'[c].s = call[c].s)
<1>0. call[c] \in CallRecords /\ None # "ok" /\ None # "used"
  BY ClocksAssumption DEF Types
<1>1. call' = [call EXCEPT ![c] = Over(c, result)]
  BY DEF End
<1>2. CASE result = "ok" /\ call[c].kind # "use"
  <2>. DEFINE x == [call[c] EXCEPT !.pc = "done"]
              z == [x EXCEPT !.out = result]
              y == [z EXCEPT !.at = 0]
              v == [y EXCEPT !.auth = 0]
  <2>1. Over(c, result) = v
    BY <1>2 DEF Over
  <2>2. x \in CallRecords /\ x.pc = "done" /\ x.kind = call[c].kind /\ x.s = call[c].s /\ x.chat = call[c].chat
          /\ x.handle = call[c].handle /\ x.round = call[c].round
    BY <1>0 DEF CallRecords, Phases
  <2>. HIDE DEF x
  <2>3. z \in CallRecords /\ z.pc = "done" /\ z.kind = call[c].kind /\ z.s = call[c].s /\ z.chat = call[c].chat
          /\ z.handle = call[c].handle /\ z.round = call[c].round /\ z.out = "ok"
    BY <1>2, <2>2 DEF CallRecords
  <2>. HIDE DEF z
  <2>4. y \in CallRecords /\ y.pc = "done" /\ y.kind = call[c].kind /\ y.s = call[c].s /\ y.chat = call[c].chat
          /\ y.handle = call[c].handle /\ y.round = call[c].round /\ y.out = "ok"
    BY <2>3 DEF CallRecords
  <2>. HIDE DEF y
  <2>5. v \in CallRecords /\ v.pc = "done" /\ v.kind = call[c].kind /\ v.s = call[c].s /\ v.chat = call[c].chat
          /\ v.handle = call[c].handle /\ v.round = call[c].round /\ v.out = "ok"
    BY <2>4 DEF CallRecords
  <2>. HIDE DEF v
  <2>. QED  BY <1>1, <1>2, <2>1, <2>5 DEF Types
<1>3. CASE ~(result = "ok" /\ call[c].kind # "use")
  <2>. DEFINE o == IF result = "ok" THEN "used" ELSE None
              service == IF handle[c] = None THEN None ELSE call[c].s
  <2>1. Over(c, result) = [NoCall EXCEPT !.pc = "done", !.out = o, !.s = service]
    BY <1>3 DEF Over
  <2>2. Over(c, result) = [kind |-> "none", pc |-> "done", round |-> "resolve", s |-> service, chat |-> None,
                           handle |-> None, auth |-> 0, at |-> 0, out |-> o]
    BY <2>1 DEF NoCall
  <2>3. o \in {None, "used"} /\ service \in Services \cup {None}
    BY <1>0 DEF CallRecords
  <2>. HIDE DEF o, service
  <2>4. Over(c, result) \in CallRecords
    BY <2>2, <2>3 DEF CallRecords, Phases, Rounds
  <2>5. o # "ok" /\ (result # "ok" => o = None) /\ (handle[c] # None => service = call[c].s)
    BY <1>0 DEF o, service
  <2>. QED  BY <1>0, <1>1, <1>3, <2>2, <2>3, <2>4, <2>5 DEF Types
<1>. QED  BY <1>2, <1>3

-----------------------------------------------------------------------------
(* What every step keeps.                                                  *)

HandlesKept == \A h \in Handles : handle[h] # None => handle'[h] = handle[h]
DoneKept == \A d \in Calls : call[d].pc = "done" => call'[d] = call[d]
\* What is pruned has expired for the service that prunes.
PrunedAt(at) == \E s \in Services : at <= Clock(s)' /\ Pruned(at) \subseteq revoked'
Keeps == revoked \subseteq revoked' \/ \E at \in Nat : PrunedAt(at)
Onward == now <= now' /\ trail \subseteq trail' /\ HandlesKept /\ DoneKept /\ Keeps

Later ==
  /\ now <= now' /\ trail \subseteq trail' /\ HandlesKept /\ DoneKept
  /\ \A h \in Handles : Disclosed(h) => Disclosed(h)'
  /\ \A h \in Handles : handle[h] # None /\ Struck(h) => Struck(h)'

\* What has expired stays so, and what is pruned has expired.
LEMMA ExpiryLasts ==
  ASSUME Types, Types', now <= now', HandlesKept, NEW h \in Handles, handle[h] # None, ExpiredSomewhere(h)
  PROVE  ExpiredSomewhere(h)'
<1>1. PICK s \in Services : handle[h].expires <= Clock(s)
  BY DEF ExpiredSomewhere, ExpiredAt
<1>2. handle[h].expires \in Nat /\ now \in Nat /\ now' \in Nat /\ Ahead[s] \in Nat
  BY ClocksAssumption DEF Types, Sealeds
<1>3. handle'[h].expires <= Clock(s)'
  BY <1>1, <1>2 DEF Clock, HandlesKept
<1>. QED  BY <1>3 DEF ExpiredSomewhere, ExpiredAt

\* What has expired by some clock has by that of a service that is not behind.
LEMMA ExpiredForAll ==
  ASSUME Types, NEW h \in Handles, handle[h] # None, ExpiredSomewhere(h), NEW s \in Services, ~Behind(s)
  PROVE  ExpiredAt(s, h)
<1>1. PICK t \in Services : handle[h].expires <= Clock(t)
  BY DEF ExpiredSomewhere, ExpiredAt
<1>2. Ahead[t] <= Ahead[s] /\ Ahead[s] \in Nat /\ Ahead[t] \in Nat
  BY ClocksAssumption DEF Behind
<1>3. handle[h].expires \in Nat /\ now \in Nat
  BY DEF Types, Sealeds
<1>. QED  BY <1>1, <1>2, <1>3 DEF Clock, ExpiredAt

\* A step that goes on keeps what was disclosed and what was struck.
LEMMA OnwardIsLater ==
  ASSUME Types, Types', RevokedInv, Onward
  PROVE  Later
<1>1. ASSUME NEW h \in Handles, Disclosed(h) PROVE Disclosed(h)'
  <2>1. handle[h] # None /\ (h = 0 \/ (call[h].pc = "done" /\ call[h].out = "ok"))
    BY <1>1 DEF Disclosed
  <2>2. handle'[h] # None
    BY <2>1 DEF Onward, HandlesKept
  <2>3. h # 0 => h \in Calls
    BY ClocksAssumption DEF Handles, Calls
  <2>. QED  BY <2>1, <2>2, <2>3 DEF Disclosed, Onward, DoneKept
<1>2. ASSUME NEW h \in Handles, handle[h] # None, Struck(h) PROVE Struck(h)'
  <2>1. CASE ExpiredSomewhere(h)
    BY <1>2, <2>1, ExpiryLasts DEF Onward, Struck
  <2>2. CASE Revoked(h)
    <3>1. PICK r \in revoked : r.handle = h
      BY <2>2 DEF Revoked
    <3>2. r.expires = handle[h].expires
      BY <3>1 DEF RevokedInv
    <3>3. CASE r \in revoked'
      BY <3>1, <3>3 DEF Struck, Revoked
    <3>4. CASE r \notin revoked'
      <4>1. PICK at \in Nat : PrunedAt(at)
        BY <3>1, <3>4 DEF Onward, Keeps
      <4>2. PICK s \in Services : at <= Clock(s)' /\ Pruned(at) \subseteq revoked'
        BY <4>1 DEF PrunedAt
      <4>3. ~(r.expires > at)
        BY <3>1, <3>4, <4>2 DEF Pruned
      <4>4. handle[h].expires \in Nat /\ now' \in Nat /\ Ahead[s] \in Nat
        BY <1>2, ClocksAssumption DEF Types, Sealeds
      <4>5. handle'[h].expires <= Clock(s)'
        BY <1>2, <3>2, <4>2, <4>3, <4>4 DEF Clock, Onward, HandlesKept
      <4>. QED  BY <4>5 DEF Struck, ExpiredSomewhere, ExpiredAt
    <3>. QED  BY <3>3, <3>4
  <2>. QED  BY <1>2, <2>1, <2>2 DEF Struck
<1>. QED  BY <1>1, <1>2 DEF Onward, Later

\* A request that takes no step is as it was.
LEMMA Untouched ==
  ASSUME Types, Types', Later, NEW c \in Calls, Underway(c), Bound(c), Minting(c), Finished(c),
         call'[c] = call[c], handle'[c] = handle[c]
  PROVE  Underway(c)' /\ Bound(c)' /\ Minting(c)' /\ Finished(c)'
<1>. DEFINE x == call[c]
<1>0. x \in CallRecords /\ call'[c] = x
  BY DEF Types
<1>1. x.handle # None => x.handle \in Handles
  BY <1>0 DEF CallRecords
<1>2. \A h \in Handles : Disclosed(h) => Disclosed(h)' /\ handle[h] # None /\ handle'[h] = handle[h] /\ (Struck(h) => Struck(h)')
  BY DEF Later, Disclosed, HandlesKept
<1>3. Underway(c)'
  <2>1. x.s \in Services /\ x.at <= Clock(x.s) => x.at <= now' + Ahead[x.s]
    BY <1>0, ClocksAssumption DEF Clock, Types, CallRecords, Later
  <2>2. Active(x) => x.s \in Services /\ x.at <= Clock(x.s) /\ (x.handle # None => Disclosed(x.handle))
    BY DEF Underway
  <2>3. Active(x) /\ x.handle # None => Disclosed(x.handle)'
    BY <1>1, <1>2, <2>2
  <2>4. Active(x) => x.at <= Clock(x.s)'
    BY <2>1, <2>2 DEF Clock
  <2>. QED  BY <1>0, <2>3, <2>4 DEF Underway, Disclosed, Clock
<1>4. Bound(c)'
  BY <1>0, <1>1, <1>2 DEF Bound, Underway
<1>5. Minting(c)'
  BY <1>0 DEF Minting, Later
<1>6. Finished(c)'
  <2>1. x.pc = "done" /\ x.out = "ok" /\ x.handle # None =>
          Disclosed(x.handle)' /\ handle'[x.handle].chat = x.chat /\ Struck(x.handle)'
    BY <1>1, <1>2 DEF Finished
  <2>2. x.pc = "done" /\ x.out = "ok" => x.kind \in {"revoke", "select"} /\ (handle'[c] # None => c \in trail')
    BY DEF Finished, Later
  <2>3. x.pc = "none" => x.out = None
    BY DEF Finished
  <2>. QED  BY <1>0, <2>1, <2>2, <2>3 DEF Finished, Disclosed, Struck, Revoked, ExpiredSomewhere, ExpiredAt
<1>. QED  BY <1>3, <1>4, <1>5, <1>6

\* What was given up or taken back stays so.
LEMMA RevokedStill ==
  ASSUME Types, Types', RevokedInv, Later, NEW r \in revoked
  PROVE  /\ r.handle \in Handles /\ handle'[r.handle] # None /\ r.expires = handle'[r.handle].expires
         /\ GivenUp(r.handle)' \/ TakenBack(r.handle)'
<1>1. r.handle \in Handles /\ handle[r.handle] # None /\ r.expires = handle[r.handle].expires
  BY DEF RevokedInv
<1>2. handle'[r.handle] = handle[r.handle]
  BY <1>1 DEF Later, HandlesKept
<1>3. GivenUp(r.handle) => GivenUp(r.handle)'
  BY <1>2 DEF GivenUp, Later, DoneKept
<1>4. TakenBack(r.handle) => TakenBack(r.handle)'
  BY DEF TakenBack, Later, DoneKept
<1>. QED  BY <1>1, <1>2, <1>3, <1>4 DEF RevokedInv

\* A step of one request, or of none, that adds no revocation.
LEMMA ContextKept ==
  ASSUME ContextInv, Types', Onward, revoked' \subseteq revoked,
         \A d \in Calls : (call'[d] = call[d] /\ handle'[d] = handle[d])
                            \/ (Underway(d)' /\ Bound(d)' /\ Minting(d)' /\ Finished(d)')
  PROVE  ContextInv'
<1>1. Later
  BY OnwardIsLater DEF ContextInv
<1>2. RequestInv'
  BY <1>1, Untouched DEF ContextInv, RequestInv
<1>3. RevokedInv'
  BY <1>1, RevokedStill DEF ContextInv, RevokedInv, GivenUp, TakenBack
<1>. QED  BY <1>2, <1>3 DEF ContextInv

-----------------------------------------------------------------------------
(* The steps.                                                              *)

\* Nothing is none, and no call has the number of the handle that is older than the model.
LEMMA DistinctNone == None \notin Handles /\ None # "ok" /\ None # "used" /\ 0 \notin Calls /\ Calls \subseteq Handles /\ Calls \subseteq Nat
BY ClocksAssumption DEF Handles, Calls

\* Time goes on, or the keyring does.
LEMMA WorldStep ==
  ASSUME ContextInv, Tick \/ Rekey \/ \E until, activated : Rotate(until, activated)
  PROVE  ContextInv'
<1>1. now <= now' /\ now' \in Nat /\ UNCHANGED <<handle, revoked, trail, call>>
  <2>1. now' \in {now, now + 1} /\ UNCHANGED <<handle, revoked, trail, call>>
    BY Zenon DEF Tick, Rekey, Rotate
  <2>. QED  BY <2>1 DEF ContextInv, Types
<1>2. Types' /\ Onward
  BY <1>1 DEF ContextInv, Types, Onward, HandlesKept, DoneKept, Keeps
<1>. QED  BY <1>1, <1>2, ContextKept

\* A request that begins has done nothing yet.
LEMMA StartStep ==
  ASSUME ContextInv, NEW c \in Calls, NEW kind \in {"use", "revoke", "select"}, NEW s \in Services, NEW chat \in Chats,
         NEW h \in {d \in Handles : Disclosed(d)} \cup {None}, Start(c, kind, s, chat, h)
  PROVE  ContextInv'
<1>. DEFINE t == Clock(s)
            auth == t + AuthLife
            first == IF h = None THEN "confirm" ELSE "open"
            asked == IF h = None THEN 0 ELSE t
            x == [kind |-> kind, pc |-> first, round |-> "resolve", s |-> s, chat |-> chat,
                  handle |-> h, auth |-> auth, at |-> asked, out |-> None]
<1>1. /\ call[c].pc = "none" /\ (h = None => kind = "select")
      /\ call' = [call EXCEPT ![c] = x] /\ UNCHANGED <<now, handle, revoked, trail>>
  <2>. DEFINE y == [NoCall EXCEPT !.kind = kind, !.s = s, !.chat = chat, !.handle = h, !.auth = auth,
                                  !.at = asked, !.pc = first]
  <2>0. y = [NoCall EXCEPT !.kind = kind, !.s = s, !.chat = chat, !.handle = h, !.auth = auth,
                         !.at = asked, !.pc = first]
    BY DEF y
  <2>1. y = x
    <3>. HIDE DEF y, auth, asked, first
    <3>. QED  BY <2>0 DEF NoCall
  <2>2. call' = [call EXCEPT ![c] = y] /\ call[c].pc = "none" /\ (h = None => kind = "select")
          /\ UNCHANGED <<now, handle, revoked, trail>>
    BY Zenon DEF Start
  <2>. HIDE DEF x, y
  <2>. QED  BY <2>1, <2>2
<1>2. t \in Nat /\ AuthLife \in Nat
  BY ClocksAssumption DEF Clock, ContextInv, Types
<1>3. x \in CallRecords
  BY <1>2 DEF CallRecords, Phases, Rounds
<1>4. call'[c] = x /\ Types' /\ \A d \in Calls \ {c} : call'[d] = call[d]
  BY <1>1, <1>3 DEF ContextInv, Types
<1>5. Onward
  BY <1>1, <1>4 DEF Onward, HandlesKept, DoneKept, Keeps, ContextInv, Types
<1>6. handle[c] = None
  <2>1. Minting(c)
    BY DEF ContextInv, RequestInv
  <2>. QED  BY <1>1, <2>1 DEF Minting, Active, Over0
<1>7. Underway(c)'
  <2>1. h # None => Disclosed(h)'
    BY <1>1, <1>4 DEF Disclosed
  <2>2. ~Own(x) /\ x.s = s /\ x.at <= t
    BY <1>2 DEF Own
  <2>3. x.at <= Clock(s)'
    BY <1>1, <2>2 DEF Clock
  <2>4. /\ x.s \in Services /\ x.chat \in Chats /\ x.kind = kind /\ x.out = None
        /\ x.handle = h /\ x.round = "resolve" /\ x.pc = (IF h = None THEN "confirm" ELSE "open")
    OBVIOUS
  <2>. HIDE DEF x
  <2>5. /\ call'[c].s = s /\ call'[c].kind = x.kind /\ call'[c].pc = x.pc /\ call'[c].handle = h /\ call'[c].round = "resolve"
        /\ call'[c].out = None /\ call'[c].at = x.at /\ call'[c].chat = x.chat
    BY <1>4, <2>2, <2>4
  <2>7. h # None => Disclosed(h)'
    BY <2>1
  <2>8. call'[c].handle = None \/ call'[c].pc = "confirm" =>
          call'[c].handle = None /\ call'[c].kind = "select" /\ call'[c].pc = "confirm"
    BY <1>1, <2>4, <2>5
  <2>9. Disclosed(call[c].handle)' \/ call'[c].handle = None
    BY <2>5, <2>7 DEF Disclosed
  <2>10. call'[c].s \in Services /\ call'[c].chat \in Chats /\ call'[c].kind # "none" /\ call'[c].pc \in {"confirm", "open"}
    BY <2>4, <2>5
  <2>11. (call[c].at <= Clock(call[c].s))'
    BY <2>3, <2>5 DEF Clock
  <2>. QED  BY ONLY <2>5, <2>8, <2>9, <2>10, <2>11 DEF Underway, Active, Own
<1>8. Bound(c)' /\ Minting(c)' /\ Finished(c)'
  <2>1. handle'[c] = None
    BY <1>1, <1>6
  <2>2. x.pc \in {"open", "confirm"} /\ (x.pc = "confirm" => x.handle = None)
    OBVIOUS
  <2>3. call'[c].pc \in {"open", "confirm"} /\ call'[c].round = "resolve" /\ call'[c].out = None
          /\ (call'[c].pc = "confirm" => call'[c].handle = None)
    BY <1>4, <2>2
  <2>. QED  BY <2>1, <2>3 DEF Bound, Minting, Finished, Own
<1>. HIDE DEF x
<1>. QED  BY <1>1, <1>4, <1>5, <1>7, <1>8, ContextKept

\* The phases between which a request may go, by its kind and round.
Fits(x) ==
  /\ Active(x)
  /\ x.handle = None => x.kind = "select" /\ (Own(x) \/ x.pc \in {"confirm", "mint", "audit"})
  /\ x.round # "resolve" => x.kind = "select"
  /\ x.round = "replace" => x.handle # None
  /\ x.pc \in {"confirm", "mint", "audit"} => x.kind = "select" /\ ~Own(x)
  /\ x.pc = "confirm" => x.round = "resolve"
  /\ x.pc \in {"mint", "audit"} /\ x.round = "resolve" => x.handle = None
  /\ x.pc = "strike" => x.kind # "use"

\* A request that goes on to a phase that fits.
LEMMA MovesOn ==
  ASSUME ContextInv, Types', NEW c \in Calls, Active(call[c]), now' = now, trail \subseteq trail', HandlesKept,
         \A d \in Calls \ {c} : call'[d] = call[d],
         SameCall(c), Fits(call'[c]), call'[c].at <= Clock(call[c].s),
         call'[c].pc # "open" /\ call[c].handle # None /\ ~Own(call'[c]) => handle[call[c].handle].chat = call[c].chat,
         handle'[c] # None =>
           call'[c].pc = "audit" \/ (call'[c].pc = "strike" /\ call'[c].round = "replace") \/ Own(call'[c]),
         call'[c].pc = "audit" \/ Own(call'[c]) => handle'[c] # None,
         call'[c].pc = "strike" /\ call'[c].round = "replace" => c \in trail'
  PROVE  Underway(c)' /\ Bound(c)' /\ Minting(c)' /\ Finished(c)'
<1>1. Underway(c) /\ call[c] \in CallRecords
  BY DEF ContextInv, RequestInv, Types
<1>2. call[c].handle # None => Disclosed(call[c].handle)
  BY <1>1 DEF Underway
<1>3. call[c].handle # None => call[c].handle \in Handles /\ Disclosed(call[c].handle)'
  <2>1. call[c].handle # None => call[c].handle \in Handles
    BY <1>1 DEF CallRecords
  <2>. DEFINE h == call[c].handle
  <2>2. h # None => handle'[h] = handle[h] /\ handle[h] # None /\ (h = 0 \/ (call[h].pc = "done" /\ call[h].out = "ok"))
    BY <1>2, <2>1 DEF HandlesKept, Disclosed
  <2>3. h # None /\ h # 0 => h \in Calls \ {c} /\ call'[h] = call[h]
    BY <2>1, <2>2 DEF Active, Over0, Handles, Calls
  <2>4. h = call'[c].handle
    BY DEF SameCall
  <2>. HIDE DEF h
  <2>5. h # None => handle'[h] # None /\ (h = 0 \/ (call'[h].pc = "done" /\ call'[h].out = "ok"))
    BY <2>2, <2>3
  <2>. QED  BY <2>1, <2>4, <2>5 DEF h, Disclosed
<1>4. Underway(c)'
  <2>1. (call[c].at <= Clock(call[c].s))'
    BY DEF SameCall, Clock
  <2>2. Fits(call[c])'
    BY DEF Fits, Active, Own
  <2>. QED  BY <1>1, <1>3, <2>1, <2>2 DEF Underway, SameCall, Fits
<1>5. Bound(c)'
  BY <1>2, <1>3 DEF Bound, SameCall, HandlesKept, Disclosed, Own, Active
<1>6. Minting(c)'
  BY <1>1 DEF Minting, Underway, SameCall, Fits, Own, Active
<1>7. Finished(c)'
  BY DEF Finished, Fits, Active, Over0
<1>. QED  BY <1>4, <1>5, <1>6, <1>7

\* One request took a step: the others are as they were.
LEMMA OneStep ==
  ASSUME ContextInv, Types', NEW c \in Calls, Active(call[c]), now' = now, trail \subseteq trail', HandlesKept, Keeps,
         revoked' \subseteq revoked, \A d \in Calls \ {c} : call'[d] = call[d] /\ handle'[d] = handle[d],
         Underway(c)' /\ Bound(c)' /\ Minting(c)' /\ Finished(c)'
  PROVE  ContextInv'
<1>1. Onward
  BY DEF Onward, DoneKept, Active, Over0, ContextInv, Types
<1>. QED  BY <1>1, ContextKept

\* A request that ends without success, or only used its handle.
LEMMA EndsWithout ==
  ASSUME ContextInv, NEW c \in Calls, Active(call[c]), UNCHANGED <<now, handle, trail>>, Keeps, revoked' \subseteq revoked,
         NEW result \in {"ok", "invalid", "unavailable", "revoked", "rejected", "expired", "failed"},
         End(c, result), result = "ok" => call[c].kind = "use"
  PROVE  ContextInv'
<1>1. Types
  BY DEF ContextInv
<1>2. /\ call' \in [Calls -> CallRecords] /\ \A d \in Calls \ {c} : call'[d] = call[d]
      /\ call'[c].pc = "done" /\ call'[c].out # "ok" /\ call'[c].handle = None
      /\ handle[c] # None => call'[c].s = call[c].s
  BY <1>1, EndsAs
<1>3. Types' /\ HandlesKept
  BY <1>1, <1>2 DEF Types, HandlesKept
<1>4. Underway(c)' /\ Bound(c)' /\ Finished(c)'
  BY <1>2 DEF Underway, Bound, Finished, Active, Over0
<1>5. Minting(c)'
  BY <1>2 DEF Minting, ContextInv, RequestInv, Active, Over0
<1>. QED  BY <1>2, <1>3, <1>4, <1>5, OneStep

\* The time that a request reads is its service's.
LEMMA ReadsClock ==
  ASSUME ContextInv, NEW c \in Calls, Active(call[c])
  PROVE  /\ call[c].s \in Services /\ Clock(call[c].s) \in Nat /\ 0 <= Clock(call[c].s)
         /\ call[c].at \in Nat /\ call[c].at <= Clock(call[c].s)
<1>1. Underway(c) /\ call[c] \in CallRecords /\ now \in Nat
  BY DEF ContextInv, RequestInv, Types
<1>. QED  BY <1>1, ClocksAssumption DEF Underway, Clock, CallRecords

\* A handle that does not open ends its request; one that does is looked up in the store.
LEMMA OpenStep ==
  ASSUME ContextInv, NEW c \in Calls, Open(c)
  PROVE  ContextInv'
<1>1. call[c].pc = "open" /\ UNCHANGED <<now, handle, revoked, trail>> /\ Active(call[c]) /\ Keeps
  BY DEF Open, Active, Over0, Keeps
<1>2. CASE End(c, "unavailable") \/ End(c, "invalid")
  BY <1>1, <1>2, EndsWithout
<1>3. CASE \E ring \in Served : /\ Opens(ring, IF Own(call[c]) THEN c ELSE call[c].handle, call[c].chat, call[c].at)
                               /\ call' = [call EXCEPT ![c].pc = "check"]
  <2>1. ~Own(call[c]) => handle[call[c].handle].chat = call[c].chat
    BY <1>3 DEF Opens
  <2>2. call \in [Calls -> CallRecords] /\ "check" \in Phases /\ call' = [call EXCEPT ![c].pc = "check"]
    BY <1>3 DEF ContextInv, Types, Phases
  <2>3. /\ call' \in [Calls -> CallRecords] /\ \A d \in Calls \ {c} : call'[d] = call[d]
        /\ call'[c].pc = "check" /\ call'[c].at = call[c].at /\ call'[c].round = call[c].round /\ SameCall(c)
    BY <2>2, GoesTo DEF SameCall
  <2>4. Types' /\ HandlesKept
    BY <1>1, <2>3 DEF ContextInv, Types, HandlesKept
  <2>5. Underway(c) /\ Minting(c)
    BY DEF ContextInv, RequestInv
  <2>6. Fits(call'[c])
    BY <1>1, <2>3, <2>5 DEF Fits, Active, Over0, Own, Underway, SameCall
  <2>7. Underway(c)' /\ Bound(c)' /\ Minting(c)' /\ Finished(c)'
    BY <1>1, <2>1, <2>3, <2>4, <2>5, <2>6, ReadsClock, MovesOn DEF Minting, Own
  <2>. QED  BY <1>1, <2>3, <2>4, <2>7, OneStep
<1>. QED  BY <1>2, <1>3, Zenon DEF Open, Own

\* What was listed when the store was asked is pruned by the time it was asked with.
LEMMA CheckStep ==
  ASSUME ContextInv, NEW c \in Calls, Check(c)
  PROVE  ContextInv'
<1>1. call[c].pc = "check" /\ UNCHANGED <<now, handle, trail>> /\ Active(call[c]) /\ revoked' = Pruned(call[c].at)
  BY DEF Check, Active, Over0
<1>2. Keeps /\ revoked' \subseteq revoked
  <2>1. call[c].s \in Services /\ call[c].at \in Nat /\ call[c].at <= Clock(call[c].s)
    BY <1>1, ReadsClock
  <2>2. \E s \in Services : call[c].at <= Clock(s)'
    BY <1>1, <2>1 DEF Clock
  <2>. QED  BY <1>1, <2>1, <2>2 DEF Keeps, PrunedAt, Pruned
<1>3. CASE End(c, "revoked") \/ (call[c].kind = "use" /\ End(c, "ok"))
  BY <1>1, <1>2, <1>3, EndsWithout
<1>4. CASE Opened(c) /\ call[c].kind # "use"
  <2>. DEFINE r == call[c].round
              fresh == Clock(call[c].s)
  <2>0. call \in [Calls -> CallRecords] /\ {"strike", "confirm", "mint"} \subseteq Phases /\ r \in Rounds /\ fresh \in Nat
    BY <1>1, ReadsClock DEF ContextInv, Types, Phases, CallRecords
  <2>1. PICK p \in {"strike", "confirm", "mint"}, t \in {0, fresh} :
          /\ call' = [call EXCEPT ![c].pc = p, ![c].at = t]
          /\ p = "strike" => call[c].kind = "revoke" \/ r = "undo"
          /\ p = "confirm" => r = "resolve" /\ call[c].kind # "revoke"
          /\ p = "mint" => r = "replace" /\ call[c].kind # "revoke"
    BY <1>4, <2>0, Zenon DEF Opened, Rounds
  <2>2. p \in Phases /\ t \in Nat
    BY <2>0, <2>1
  <2>3. /\ call' \in [Calls -> CallRecords] /\ \A d \in Calls \ {c} : call'[d] = call[d]
        /\ call'[c].pc = p /\ call'[c].at = t /\ call'[c].round = r /\ SameCall(c)
    BY <2>0, <2>1, <2>2, GoesAt, Zenon
  <2>4. Types' /\ HandlesKept
    BY <1>1, <2>3 DEF ContextInv, Types, HandlesKept
  <2>5. Underway(c) /\ Bound(c) /\ Minting(c) /\ call[c].kind \in {"none", "use", "revoke", "select"}
    BY <2>0 DEF ContextInv, RequestInv, CallRecords
  <2>6. Fits(call'[c])
    BY <1>1, <1>4, <2>1, <2>3, <2>5 DEF Fits, Active, Over0, Own, Underway, SameCall
  <2>7. call'[c].at <= Clock(call[c].s)
    BY <1>1, <2>1, <2>3, ReadsClock
  <2>8. handle'[c] # None <=> Own(call'[c])
    BY <1>1, <2>3, <2>5 DEF Minting, Own
  <2>9. call'[c].pc = "strike" /\ call'[c].round = "replace" => c \in trail'
    BY <2>1, <2>3, <2>5, <1>1 DEF Underway
  <2>10. call[c].handle # None /\ ~Own(call'[c]) => handle[call[c].handle].chat = call[c].chat
    BY <1>1, <2>3, <2>5 DEF Bound, Own
  <2>11. Underway(c)' /\ Bound(c)' /\ Minting(c)' /\ Finished(c)'
    BY <1>1, <2>3, <2>4, <2>6, <2>7, <2>8, <2>9, <2>10, MovesOn
  <2>. QED  BY <1>1, <1>2, <2>3, <2>4, <2>11, OneStep
<1>. QED  BY <1>3, <1>4, Zenon DEF Check, Opened

\* A request whose keyring or store fails is over.
LEMMA UnavailableStep ==
  ASSUME ContextInv, NEW c \in Calls, Unavailable(c)
  PROVE  ContextInv'
<1>1. Active(call[c]) /\ UNCHANGED <<now, handle, revoked, trail>> /\ End(c, "unavailable") /\ Keeps
  BY DEF Unavailable, Active, Over0, Keeps
<1>. QED  BY <1>1, EndsWithout

\* A selection that is confirmed opens its handle again, or mints when it has none.
LEMMA ConfirmStep ==
  ASSUME ContextInv, NEW c \in Calls, Confirm(c)
  PROVE  ContextInv'
<1>1. call[c].pc = "confirm" /\ UNCHANGED <<now, handle, revoked, trail>> /\ Active(call[c]) /\ Keeps
  BY DEF Confirm, Active, Over0, Keeps
<1>2. CASE End(c, "rejected") \/ End(c, "expired")
  BY <1>1, <1>2, EndsWithout
<1>. DEFINE t == Clock(call[c].s)
<1>0. /\ call \in [Calls -> CallRecords] /\ t \in Nat /\ {"open", "mint"} \subseteq Phases /\ Rounds = {"resolve", "replace", "undo"}
      /\ Underway(c) /\ Bound(c) /\ Minting(c)
  BY <1>1, ReadsClock DEF ContextInv, RequestInv, Types, Phases, Rounds
<1>3. CASE call[c].handle # None /\ call' = [call EXCEPT ![c].round = "replace", ![c].pc = "open", ![c].at = t]
  <2>3. /\ call' \in [Calls -> CallRecords] /\ \A d \in Calls \ {c} : call'[d] = call[d]
        /\ call'[c].pc = "open" /\ call'[c].at = t /\ call'[c].round = "replace" /\ SameCall(c)
    <3>. HIDE DEF t
    <3>1. "replace" \in Rounds /\ "open" \in Phases
      BY <1>0
    <3>. QED  BY <1>0, <1>3, <3>1, GoesRound, Zenon
  <2>4. Types' /\ HandlesKept
    BY <1>1, <2>3 DEF ContextInv, Types, HandlesKept
  <2>6. Fits(call'[c])
    BY <1>0, <1>1, <1>3, <2>3 DEF Fits, Active, Over0, Own, Underway, SameCall
  <2>7. call'[c].at <= Clock(call[c].s) /\ (handle'[c] # None <=> Own(call'[c]))
    BY <1>0, <1>1, <2>3 DEF Minting, Own, Underway
  <2>8. Underway(c)' /\ Bound(c)' /\ Minting(c)' /\ Finished(c)'
    BY <1>1, <2>3, <2>4, <2>6, <2>7, MovesOn
  <2>. QED  BY <1>1, <2>3, <2>4, <2>8, OneStep
<1>4. CASE call[c].handle = None /\ call' = [call EXCEPT ![c].pc = "mint", ![c].at = t]
  <2>3. /\ call' \in [Calls -> CallRecords] /\ \A d \in Calls \ {c} : call'[d] = call[d]
        /\ call'[c].pc = "mint" /\ call'[c].at = t /\ call'[c].round = call[c].round /\ SameCall(c)
    <3>. HIDE DEF t
    <3>1. "mint" \in Phases
      BY <1>0
    <3>. QED  BY <1>0, <1>4, <3>1, GoesAt, Zenon
  <2>4. Types' /\ HandlesKept
    BY <1>1, <2>3 DEF ContextInv, Types, HandlesKept
  <2>6. Fits(call'[c])
    BY <1>0, <1>1, <1>4, <2>3 DEF Fits, Active, Over0, Own, Underway, SameCall
  <2>7. call'[c].at <= Clock(call[c].s) /\ (handle'[c] # None <=> Own(call'[c]))
    BY <1>0, <1>1, <2>3 DEF Minting, Own, Underway
  <2>8. Underway(c)' /\ Bound(c)' /\ Minting(c)' /\ Finished(c)'
    BY <1>1, <1>4, <2>3, <2>4, <2>6, <2>7, MovesOn
  <2>. QED  BY <1>1, <2>3, <2>4, <2>8, OneStep
<1>. QED  BY <1>2, <1>3, <1>4, Zenon DEF Confirm

Kept == [epoch : Nat, key : Nat, until : Nat]
Snapshots == [epoch : Nat, key : Nat, activated : Nat, published : Nat, kept : SUBSET Kept]
RingTypes == rings \in Seq(Snapshots) /\ Len(rings) >= 1

\* What is served is a snapshot.
LEMMA ServedIsSnapshot ==
  ASSUME RingTypes, NEW ring \in Served
  PROVE  ring \in Snapshots /\ \E i \in DOMAIN rings : ring = rings[i] /\ (i = Len(rings) \/ (i = Len(rings) - 1 /\ now <= Last.published + Lag))
<1>1. Len(rings) \in DOMAIN rings /\ DOMAIN rings = 1..Len(rings) /\ Last = rings[Len(rings)]
  BY DEF RingTypes, Last
<1>2. \E i \in DOMAIN rings : ring = rings[i] /\ (i = Len(rings) \/ (i = Len(rings) - 1 /\ now <= Last.published + Lag))
  BY <1>1 DEF Served
<1>3. \A i \in DOMAIN rings : rings[i] \in Snapshots
  BY DEF RingTypes
<1>. QED  BY <1>2, <1>3

\* What a request seals is a handle, and its first.
LEMMA Seals ==
  ASSUME ContextInv, RingTypes, NEW c \in Calls, call[c].pc = "mint", NEW ring \in Served, NEW life \in Lifetimes
  PROVE  LET seal == Sealed(ring.epoch, ring.key, call[c].chat, call[c].at, Earlier(call[c].at + life, call[c].auth)) IN
         seal \in Sealeds /\ seal # None /\ handle[c] = None
<1>. DEFINE seal == Sealed(ring.epoch, ring.key, call[c].chat, call[c].at, Earlier(call[c].at + life, call[c].auth))
<1>1. call[c] \in CallRecords /\ Underway(c) /\ Minting(c) /\ Active(call[c])
  BY DEF ContextInv, RequestInv, Types, Active, Over0
<1>2. ring \in Snapshots /\ life \in Nat
  BY ServedIsSnapshot, ClocksAssumption
<1>3. seal \in Sealeds
  <2>1. call[c].at \in Nat /\ call[c].auth \in Nat /\ call[c].chat \in Chats
    BY <1>1 DEF CallRecords, Underway
  <2>2. Earlier(call[c].at + life, call[c].auth) \in Nat
    BY <1>2, <2>1 DEF Earlier
  <2>3. ring.epoch \in Nat /\ ring.key \in Nat
    BY <1>2 DEF Snapshots
  <2>. QED  BY <2>1, <2>2, <2>3 DEF Sealed, Sealeds
<1>4. seal # None
  BY <1>3, ClocksAssumption DEF Sealeds
<1>5. handle[c] = None
  BY <1>1 DEF Minting, Underway, Own
<1>. QED  BY <1>3, <1>4, <1>5

\* A handle is sealed once, for the chat that asked.
LEMMA MintStep ==
  ASSUME ContextInv, RingTypes, NEW c \in Calls, Mint(c)
  PROVE  ContextInv'
<1>1. call[c].pc = "mint" /\ UNCHANGED <<now, revoked, trail>> /\ Active(call[c]) /\ Keeps
  BY DEF Mint, Active, Over0, Keeps
<1>2. CASE UNCHANGED handle /\ (End(c, "unavailable") \/ End(c, "invalid"))
  BY <1>1, <1>2, EndsWithout
<1>3. CASE \E ring \in Served, life \in Lifetimes :
             /\ handle' = [handle EXCEPT ![c] = Sealed(ring.epoch, ring.key, call[c].chat, call[c].at,
                                                       Earlier(call[c].at + life, call[c].auth))]
             /\ call' = [call EXCEPT ![c].pc = "audit", ![c].at = 0]
  <2>0. PICK ring \in Served, life \in Lifetimes :
             /\ handle' = [handle EXCEPT ![c] = Sealed(ring.epoch, ring.key, call[c].chat, call[c].at,
                                                       Earlier(call[c].at + life, call[c].auth))]
             /\ call' = [call EXCEPT ![c].pc = "audit", ![c].at = 0]
    BY <1>3
  <2>1. /\ call \in [Calls -> CallRecords] /\ "audit" \in Phases /\ handle \in [Handles -> Sealeds \cup {None}]
        /\ call[c] \in CallRecords /\ c \in Handles /\ Underway(c) /\ Bound(c) /\ Minting(c)
    BY DistinctNone DEF ContextInv, RequestInv, Types, Phases
  <2>. DEFINE seal == Sealed(ring.epoch, ring.key, call[c].chat, call[c].at, Earlier(call[c].at + life, call[c].auth))
  <2>3. seal \in Sealeds /\ seal # None /\ handle[c] = None
    BY <1>1, Seals
  <2>5. /\ call' \in [Calls -> CallRecords] /\ \A d \in Calls \ {c} : call'[d] = call[d]
        /\ call'[c].pc = "audit" /\ call'[c].at = 0 /\ call'[c].round = call[c].round /\ SameCall(c)
    <3>1. 0 \in Nat
      OBVIOUS
    <3>. QED  BY <2>0, <2>1, <3>1, GoesAt, Zenon
  <2>. HIDE DEF seal
  <2>6. /\ handle' \in [Handles -> Sealeds \cup {None}] /\ handle'[c] = seal /\ handle[c] = None
        /\ \A d \in Handles \ {c} : handle'[d] = handle[d]
    <3>1. handle' = [handle EXCEPT ![c] = seal]
      BY <2>0 DEF seal
    <3>. QED  BY <2>1, <2>3, <3>1
  <2>7. Types' /\ HandlesKept /\ \A d \in Calls \ {c} : handle'[d] = handle[d]
    BY <1>1, <2>5, <2>6, DistinctNone DEF ContextInv, Types, HandlesKept
  <2>8. Fits(call'[c])
    BY <1>1, <2>1, <2>5 DEF Fits, Active, Over0, Own, Underway, SameCall
  <2>9. call'[c].at <= Clock(call[c].s) /\ (call[c].handle # None => handle[call[c].handle].chat = call[c].chat)
    BY <1>1, <2>1, <2>5, ReadsClock DEF Bound, Underway
  <2>10. Underway(c)' /\ Bound(c)' /\ Minting(c)' /\ Finished(c)'
    BY <1>1, <2>3, <2>5, <2>6, <2>7, <2>8, <2>9, MovesOn
  <2>. QED  BY <1>1, <2>5, <2>7, <2>10, OneStep
<1>. QED  BY <1>2, <1>3, Zenon DEF Mint

\* A selection is answered, or strikes its predecessor, after its record is in the journal.
LEMMA AuditStep ==
  ASSUME ContextInv, NEW c \in Calls, Audit(c)
  PROVE  ContextInv'
<1>1. call[c].pc = "audit" /\ UNCHANGED <<now, handle, revoked>> /\ Active(call[c]) /\ Keeps /\ trail \subseteq trail'
  BY DEF Audit, Active, Over0, Keeps
<1>. DEFINE t == Clock(call[c].s)
<1>0. /\ call \in [Calls -> CallRecords] /\ t \in Nat /\ {"open", "strike"} \subseteq Phases /\ Rounds = {"resolve", "replace", "undo"}
      /\ Underway(c) /\ Bound(c) /\ Minting(c) /\ Types /\ call[c].round \in Rounds
  BY <1>1, ReadsClock DEF ContextInv, RequestInv, Types, Phases, Rounds, CallRecords
<1>2. CASE UNCHANGED trail /\ End(c, "failed")
  BY <1>1, <1>2, EndsWithout
<1>3. CASE trail' = trail \cup {c} /\ call[c].round # "replace" /\ End(c, "ok")
  <2>1. call[c].kind = "select" /\ call[c].handle = None
    BY <1>0, <1>1, <1>3 DEF Underway, Own
  <2>2. /\ call' \in [Calls -> CallRecords] /\ \A d \in Calls \ {c} : call'[d] = call[d]
        /\ call'[c].pc = "done" /\ call'[c].kind = "select" /\ call'[c].handle = None /\ call'[c].s = call[c].s
    BY <1>0, <1>3, <2>1, EndsAs
  <2>3. Types' /\ HandlesKept
    BY <1>1, <2>2 DEF ContextInv, Types, HandlesKept
  <2>4. Underway(c)' /\ Bound(c)' /\ Minting(c)' /\ Finished(c)'
    <3>1. c \in trail' /\ call'[c].pc = "done" /\ call'[c].handle = None /\ call'[c].kind = "select" /\ handle' = handle
      BY <1>1, <1>3, <2>2
    <3>2. handle'[c] # None => call'[c].s \in Services
      BY <1>0, <2>2, <3>1 DEF Minting
    <3>3. Underway(c)' /\ Bound(c)'
      BY <3>1 DEF Underway, Bound, Active, Over0
    <3>4. Minting(c)'
      BY <3>1, <3>2 DEF Minting, Active, Over0
    <3>. QED  BY <3>1, <3>3, <3>4 DEF Finished
  <2>. QED  BY <1>1, <2>2, <2>3, <2>4, OneStep
<1>4. CASE trail' = trail \cup {c} /\ call[c].round = "replace" /\ call' = [call EXCEPT ![c].pc = "strike"]
  <2>3. /\ call' \in [Calls -> CallRecords] /\ \A d \in Calls \ {c} : call'[d] = call[d]
        /\ call'[c].pc = "strike" /\ call'[c].at = call[c].at /\ call'[c].round = "replace" /\ SameCall(c)
    BY <1>0, <1>4, GoesTo DEF SameCall
  <2>4. Types' /\ HandlesKept
    BY <1>1, <2>3 DEF ContextInv, Types, HandlesKept
  <2>6. Fits(call'[c])
    BY <1>0, <1>1, <1>4, <2>3 DEF Fits, Active, Over0, Own, Underway, SameCall
  <2>7. call'[c].at <= Clock(call[c].s) /\ ~Own(call'[c]) /\ (call[c].handle # None => handle[call[c].handle].chat = call[c].chat)
    BY <1>0, <1>1, <1>4, <2>3, ReadsClock DEF Bound, Own
  <2>8. Underway(c)' /\ Bound(c)' /\ Minting(c)' /\ Finished(c)'
    BY <1>1, <1>4, <2>3, <2>4, <2>6, <2>7, MovesOn
  <2>. QED  BY <1>1, <2>3, <2>4, <2>8, OneStep
<1>5. CASE UNCHANGED trail /\ call' = [call EXCEPT ![c].round = "undo", ![c].pc = "open", ![c].at = t]
  <2>3. /\ call' \in [Calls -> CallRecords] /\ \A d \in Calls \ {c} : call'[d] = call[d]
        /\ call'[c].pc = "open" /\ call'[c].at = t /\ call'[c].round = "undo" /\ SameCall(c)
    <3>. HIDE DEF t
    <3>1. "undo" \in Rounds /\ "open" \in Phases
      BY <1>0
    <3>. QED  BY <1>0, <1>5, <3>1, GoesRound, Zenon
  <2>4. Types' /\ HandlesKept
    BY <1>1, <2>3 DEF ContextInv, Types, HandlesKept
  <2>6. Fits(call'[c])
    BY <1>0, <1>1, <2>3 DEF Fits, Active, Over0, Own, Underway, SameCall
  <2>7. call'[c].at <= Clock(call[c].s) /\ Own(call'[c]) /\ handle'[c] # None
    BY <1>0, <1>1, <2>3 DEF Minting, Own
  <2>8. Underway(c)' /\ Bound(c)' /\ Minting(c)' /\ Finished(c)'
    BY <1>1, <1>5, <2>3, <2>4, <2>6, <2>7, MovesOn
  <2>. QED  BY <1>1, <2>3, <2>4, <2>8, OneStep
<1>. QED  BY <1>2, <1>3, <1>4, <1>5, Zenon DEF Audit

\* A handle that was struck is revoked, or was over for the service that did it.
LEMMA StrikeStep ==
  ASSUME ContextInv, NEW c \in Calls, Strike(c)
  PROVE  ContextInv'
<1>1. call[c].pc = "strike" /\ UNCHANGED <<now, handle, trail>> /\ Active(call[c])
  BY DEF Strike, Active, Over0
<1>5. PICK h, s, t : h = (IF Own(call[c]) THEN c ELSE call[c].handle) /\ s = call[c].s /\ t = Clock(s)
  OBVIOUS
<1>. DEFINE entry == [handle |-> h, expires |-> handle[h].expires]
<1>0. /\ t \in Nat /\ t = Clock(s)' /\ s \in Services /\ Underway(c) /\ Bound(c) /\ Minting(c) /\ Finished(c)
      /\ Types /\ call[c] \in CallRecords /\ c \in Handles
  <2>1. t \in Nat /\ s \in Services
    BY <1>1, <1>5, ReadsClock
  <2>2. t = Clock(s)'
    BY <1>1, <1>5 DEF Clock
  <2>. QED  BY <2>1, <2>2, DistinctNone DEF ContextInv, RequestInv, Types
<1>2. CASE revoked' = Pruned(t) /\ End(c, "unavailable")
  <2>1. Keeps /\ revoked' \subseteq revoked
    <3>1. PrunedAt(t) /\ revoked' \subseteq revoked
      BY <1>0, <1>2 DEF PrunedAt, Pruned
    <3>. QED  BY <1>0, <3>1 DEF Keeps
  <2>. QED  BY <1>1, <1>2, <2>1, EndsWithout
<1>3. CASE Insert(h, t) /\ End(c, IF Own(call[c]) THEN "failed" ELSE "ok")
  <2>1. (entry.expires <= t \/ entry \in revoked') /\ Pruned(t) \subseteq revoked' /\ revoked' \subseteq Pruned(t) \cup {entry}
    BY <1>3 DEF Insert
  <2>2. Keeps
    <3>1. PrunedAt(t)
      BY <1>0, <2>1 DEF PrunedAt
    <3>. QED  BY <1>0, <3>1 DEF Keeps
  <2>3. /\ call' \in [Calls -> CallRecords] /\ \A d \in Calls \ {c} : call'[d] = call[d]
        /\ call'[c].pc = "done"
        /\ Own(call[c]) => call'[c].out # "ok" /\ call'[c].handle = None /\ (handle[c] # None => call'[c].s = call[c].s)
        /\ ~Own(call[c]) => /\ call'[c].out = "ok" /\ call'[c].kind = call[c].kind /\ call'[c].s = call[c].s
                            /\ call'[c].chat = call[c].chat /\ call'[c].handle = call[c].handle
    BY <1>0, <1>1, <1>3, EndsAs DEF Underway
  <2>4. Types' /\ Onward
    BY <1>0, <1>1, <2>2, <2>3 DEF Types, Onward, HandlesKept, DoneKept, Active, Over0
  <2>5. Later
    BY <1>0, <2>4, OnwardIsLater DEF ContextInv
  <2>6. /\ h \in Handles /\ handle[h] # None /\ handle'[h] = handle[h]
        /\ ~Own(call[c]) => h = call[c].handle /\ h # None /\ Disclosed(h) /\ handle[h].chat = call[c].chat
    BY <1>0, <1>1, <1>5 DEF Underway, Minting, Bound, CallRecords, Disclosed, Own
  <2>7. entry.handle = h /\ entry.expires = handle'[h].expires
    BY <2>6
  <2>8. Struck(h)'
    <3>1. entry.expires <= t => ExpiredSomewhere(h)'
      BY <1>0, <2>7 DEF ExpiredSomewhere, ExpiredAt
    <3>. QED  BY <2>1, <2>7, <3>1 DEF Struck, Revoked
  <2>. HIDE DEF entry
  <2>9. Underway(c)' /\ Bound(c)'
    BY <2>3 DEF Underway, Bound, Active, Over0
  <2>10. Minting(c)'
    BY <1>0, <1>1, <2>3 DEF Minting, Active, Over0
  <2>11. Finished(c)'
    <3>1. CASE Own(call[c])
      BY <2>3, <3>1 DEF Finished
    <3>2. CASE ~Own(call[c])
      <4>1. call[c].kind \in {"revoke", "select"}
        BY <1>0, <1>1 DEF Underway, CallRecords
      <4>2. handle'[c] # None => c \in trail'
        BY <1>0, <1>1, <3>2 DEF Minting
      <4>3. call'[c].handle = h /\ Disclosed(h)' /\ handle'[h].chat = call'[c].chat
        BY <2>3, <2>5, <2>6, <3>2 DEF Later
      <4>4. Disclosed(call[c].handle)' /\ Struck(call[c].handle)' /\ handle'[call'[c].handle].chat = call'[c].chat
        BY <2>8, <4>3 DEF Disclosed, Struck, Revoked, ExpiredSomewhere, ExpiredAt
      <4>. QED  BY <2>3, <3>2, <4>1, <4>2, <4>4 DEF Finished
    <3>. QED  BY <3>1, <3>2
  <2>12. RequestInv'
    <3>1. ASSUME NEW d \in Calls \ {c} PROVE Underway(d)' /\ Bound(d)' /\ Minting(d)' /\ Finished(d)'
      BY <1>0, <1>1, <2>3, <2>4, <2>5, Untouched DEF ContextInv, RequestInv
    <3>. QED  BY <2>9, <2>10, <2>11, <3>1 DEF RequestInv
  <2>13. GivenUp(h)' \/ TakenBack(h)'
    <3>1. CASE Own(call[c])
      BY <1>5, <2>3, <3>1 DEF TakenBack
    <3>2. CASE ~Own(call[c])
      BY <1>0, <1>1, <2>3, <2>6, <3>2 DEF GivenUp, Underway
    <3>. QED  BY <3>1, <3>2
  <2>14. RevokedInv'
    <3>1. ASSUME NEW r \in revoked' 
          PROVE  /\ r.handle \in Handles /\ handle'[r.handle] # None /\ r.expires = handle'[r.handle].expires
                 /\ GivenUp(r.handle)' \/ TakenBack(r.handle)'
      <4>1. CASE r \in revoked
        BY <1>0, <2>4, <2>5, <4>1, RevokedStill DEF ContextInv
      <4>2. CASE r = entry
        BY <2>6, <2>7, <2>13, <4>2
      <4>. QED  BY <2>1, <4>1, <4>2 DEF Pruned
    <3>. QED  BY <3>1 DEF RevokedInv, GivenUp, TakenBack
  <2>. QED  BY <2>4, <2>12, <2>14 DEF ContextInv
<1>4. \/ revoked' = Pruned(t) /\ End(c, "unavailable")
      \/ Insert(h, t) /\ End(c, IF Own(call[c]) THEN "failed" ELSE "ok")
  <2>1. \/ revoked' = Pruned(Clock(call[c].s)) /\ End(c, "unavailable")
        \/ /\ Insert(IF call[c].round = "undo" THEN c ELSE call[c].handle, Clock(call[c].s))
           /\ End(c, IF call[c].round = "undo" THEN "failed" ELSE "ok")
    BY Zenon DEF Strike
  <2>2. h = (IF call[c].round = "undo" THEN c ELSE call[c].handle) /\ t = Clock(call[c].s)
    BY <1>5 DEF Own
  <2>. QED  BY <2>1, <2>2, Zenon DEF Own
<1>. QED  BY <1>2, <1>3, <1>4

-----------------------------------------------------------------------------
(* Handovers.                                                              *)

\* Every step of a request keeps the invariant.
LEMMA StepOf ==
  ASSUME ContextInv, RingTypes, NEW c \in Calls, Step(c)
  PROVE  ContextInv'
BY OpenStep, CheckStep, ConfirmStep, MintStep, AuditStep, StrikeStep, UnavailableStep DEF Step

\* The key manager publishes snapshots.
LEMMA RingStep ==
  ASSUME Types, RingTypes, [Next]_vars
  PROVE  RingTypes'
<1>1. /\ Last \in Snapshots /\ now \in Nat /\ MaxLife \in Nat /\ Skew \in Nat /\ MaxRings \in Nat
  BY ClocksAssumption DEF RingTypes, Last, Types
<1>2. ASSUME NEW new \in Snapshots, rings' = Append(rings, new) PROVE RingTypes'
  BY <1>2 DEF RingTypes
<1>3. ASSUME NEW until \in Nat \cup {None}, NEW activated \in Nat, Rotate(until, activated) PROVE RingTypes'
  <2>. DEFINE kept == IF until = None THEN {} ELSE {[epoch |-> Last.epoch, key |-> Last.key, until |-> until]}
              new == [epoch |-> Last.epoch + 1, key |-> Last.epoch + 1, activated |-> activated, published |-> now, kept |-> kept]
  <2>1. rings' = Append(rings, new)
    BY <1>3 DEF Rotate
  <2>2. kept \in SUBSET Kept
    BY <1>1 DEF Kept, Snapshots
  <2>. HIDE DEF kept
  <2>3. new \in Snapshots
    BY <1>1, <2>2 DEF Snapshots
  <2>. HIDE DEF new
  <2>. QED  BY <1>2, <2>1, <2>3
<1>4. CASE Rekey
  <2>. DEFINE x == [Last EXCEPT !.key = MaxRings + 1]
              new == [x EXCEPT !.published = now]
  <2>1. rings' = Append(rings, [Last EXCEPT !.key = MaxRings + 1, !.published = now])
    BY <1>4 DEF Rekey
  <2>2. [Last EXCEPT !.key = MaxRings + 1, !.published = now] = new
    OBVIOUS
  <2>3. x \in Snapshots
    BY <1>1 DEF Snapshots
  <2>. HIDE DEF x
  <2>4. new \in Snapshots
    BY <1>1, <2>3 DEF Snapshots
  <2>. HIDE DEF new
  <2>. QED  BY <1>2, <2>1, <2>2, <2>4
<1>5. CASE UNCHANGED rings
  BY <1>5 DEF RingTypes
<1>6. ASSUME NEW c \in Calls, Step(c) PROVE UNCHANGED rings
  BY <1>6, Zenon DEF Step, Open, Check, Confirm, Mint, Audit, Strike, Unavailable
<1>7. ASSUME NEW c, NEW kind, NEW s, NEW chat, NEW h, Start(c, kind, s, chat, h) PROVE UNCHANGED rings
  BY <1>7, Zenon DEF Start
<1>8. {None, now + MaxLife + Skew, now + MaxLife + Skew + 1} \subseteq Nat \cup {None} /\ now + Skew + 1 \in Nat
  BY <1>1
<1>9. Tick \/ UNCHANGED vars => UNCHANGED rings
  BY Zenon DEF Tick, vars
<1>. QED  BY <1>1, <1>3, <1>4, <1>5, <1>6, <1>7, <1>8, <1>9 DEF Next

\* So does every step of the model.
LEMMA ContextNext ==
  ASSUME ContextInv, RingTypes, [Next]_vars
  PROVE  ContextInv' /\ RingTypes'
<1>1. RingTypes'
  BY RingStep DEF ContextInv
<1>2. CASE UNCHANGED vars
  <2>1. UNCHANGED <<now, handle, revoked, trail, call>>
    BY <1>2 DEF vars
  <2>2. Types' /\ Onward
    BY <2>1 DEF ContextInv, Types, Onward, HandlesKept, DoneKept, Keeps
  <2>. QED  BY <1>1, <2>1, <2>2, ContextKept
<1>3. CASE Next
  <2>1. ASSUME NEW c \in Calls, NEW kind \in {"use", "revoke", "select"}, NEW s \in Services, NEW chat \in Chats,
               NEW h \in {d \in Handles : Disclosed(d)} \cup {None}, Start(c, kind, s, chat, h)
        PROVE  ContextInv'
    BY <2>1, StartStep
  <2>2. ASSUME NEW c \in Calls, Step(c) PROVE ContextInv'
    BY <2>2, StepOf
  <2>3. ASSUME Tick \/ Rekey \/ \E until, activated : Rotate(until, activated) PROVE ContextInv'
    BY <2>3, WorldStep
  <2>4. CASE \E c \in Calls : Step(c)
    BY <1>1, <2>2, <2>4
  <2>5. CASE \E c \in Calls, kind \in {"use", "revoke", "select"}, s \in Services, chat \in Chats :
               \E h \in {d \in Handles : Disclosed(d)} \cup {None} : Start(c, kind, s, chat, h)
    BY <1>1, <2>1, <2>5
  <2>6. CASE Tick \/ Rekey \/ \E until, activated : Rotate(until, activated)
    BY <1>1, <2>3, <2>6
  <2>. QED  BY <1>3, <2>4, <2>5, <2>6, Zenon DEF Next
<1>. QED  BY <1>1, <1>2, <1>3

\* At first there are no requests, and one handle.
LEMMA ContextInit ==
  ASSUME Init
  PROVE  ContextInv /\ RingTypes
<1>1. RingTypes
  <2>. DEFINE new == [epoch |-> 1, key |-> 1, activated |-> 0, published |-> 0, kept |-> {}]
  <2>1. rings = <<new>>
    BY DEF Init
  <2>2. new \in Snapshots
    BY DEF Snapshots
  <2>. HIDE DEF new
  <2>. QED  BY <2>1, <2>2 DEF RingTypes
<1>2. Types
  <2>1. Sealed(1, 1, CHOOSE chat \in Chats : TRUE, 0, MaxLife) \in Sealeds
    BY ClocksAssumption DEF Sealed, Sealeds
  <2>2. NoCall \in CallRecords
    BY DEF NoCall, CallRecords, Phases, Rounds
  <2>. HIDE DEF Sealeds
  <2>. QED  BY <2>1, <2>2 DEF Init, Types
<1>3. ASSUME NEW c \in Calls PROVE call[c] = NoCall /\ handle[c] = None
  BY DistinctNone DEF Init
<1>4. NoCall.pc = "none" /\ NoCall.out = None /\ NoCall.round = "resolve"
  BY DEF NoCall
<1>5. RequestInv
  BY <1>3, <1>4 DEF RequestInv, Underway, Bound, Minting, Finished, Active, Over0, Own
<1>6. RevokedInv
  BY DEF Init, RevokedInv
<1>. QED  BY <1>1, <1>2, <1>5, <1>6 DEF ContextInv

\* What is disclosed is recorded and its predecessor dead; what is revoked was given up by its chat.
LEMMA Handover ==
  ASSUME ContextInv
  PROVE  HandoverComplete
<1>1. ASSUME NEW c \in Calls, Disclosed(c)
      PROVE  /\ c \in trail
             /\ call[c].handle # None => \A s \in Services : ~Behind(s) =>
                  ExpiredAt(s, call[c].handle) \/ \E r \in revoked : r.handle = call[c].handle
  <2>. DEFINE h == call[c].handle
  <2>1. c \in trail /\ (h # None => Disclosed(h) /\ Struck(h))
    BY <1>1, DistinctNone DEF ContextInv, RequestInv, Finished, Disclosed
  <2>2. h # None => h \in Handles /\ handle[h] # None
    BY <2>1 DEF ContextInv, Types, CallRecords, Disclosed
  <2>3. Types
    BY DEF ContextInv
  <2>4. ASSUME h # None, NEW s \in Services, ~Behind(s) PROVE ExpiredAt(s, h) \/ Revoked(h)
    BY <2>1, <2>2, <2>3, <2>4, ExpiredForAll DEF Struck
  <2>. QED  BY <2>1, <2>4 DEF Revoked
<1>2. ASSUME NEW r \in revoked, Disclosed(r.handle) PROVE GivenUp(r.handle)
  BY <1>2, DistinctNone DEF ContextInv, RevokedInv, TakenBack, Disclosed
<1>. QED  BY <1>1, <1>2 DEF HandoverComplete, GivenUp

\* A client holds a handle only when its selection is in the journal and the handle it replaces is dead for
\* every service whose clock is not behind another's: revoked, or expired by that service's own clock; a handle
\* is revoked only when its own chat has the successor or has asked for it.
THEOREM HandoversComplete == Spec => []HandoverComplete
BY ContextInit, ContextNext, Handover, PTL DEF Spec

-----------------------------------------------------------------------------
(* Rotations.  The clocks of the services, and the cache that stands       *)
(* before the keyring, stay within the skew that the services allow for.   *)

ClocksWithin == \A s \in Services : Ahead[s] + Lag <= Skew

\* The epochs go up; what a snapshot with a new epoch keeps is the key of the one before.
RingOrder ==
  /\ rings[1].activated = 0 /\ rings[1].kept = {}
  /\ \A i \in DOMAIN rings :
       /\ rings[i].published <= now
       /\ \A j \in 1..i : rings[j].epoch <= rings[i].epoch
       /\ i > 1 /\ rings[i].epoch > rings[i-1].epoch =>
            /\ \A k \in rings[i].kept :
                 k.epoch = rings[i-1].epoch /\ k.key = rings[i-1].key /\ rings[i].kept = {k}
            /\ rings[i].kept # {} => rings[i].activated = rings[i].published
\* A handle was sealed with a snapshot that was the last, or had been until just before.
Within(h) ==
  /\ handle[h].expires <= handle[h].issued + MaxLife /\ handle[h].issued <= now + Skew
  /\ \E i \in DOMAIN rings :
       /\ rings[i].epoch = handle[h].epoch /\ rings[i].key = handle[h].key
       /\ i < Len(rings) => handle[h].issued <= rings[i+1].published + Skew
Minted == \A h \in Handles : handle[h] # None => Within(h)
RotationInv == RingOrder /\ Minted

\* A new snapshot comes after the others, at the time it is.
LEMMA Published ==
  ASSUME Types, RingTypes, RotationInv, NEW ring \in Snapshots, rings' = Append(rings, ring), UNCHANGED <<now, handle>>,
         ring.published = now, ring.epoch >= Last.epoch,
         ring.epoch > Last.epoch =>
           /\ \A k \in ring.kept : k.epoch = Last.epoch /\ k.key = Last.key /\ ring.kept = {k}
           /\ ring.kept # {} => ring.activated = ring.published
  PROVE  RotationInv'
<1>. DEFINE n == Len(rings)
<1>1. /\ n \in Nat /\ n >= 1 /\ Len(rings') = n + 1 /\ rings'[n+1] = ring /\ Last = rings[n]
      /\ \A i \in 1..n : rings'[i] = rings[i] /\ rings[i] \in Snapshots
      /\ DOMAIN rings = 1..n /\ DOMAIN rings' = 1..(n+1)
  BY DEF RingTypes, Last
<1>. HIDE DEF n
<1>2. now \in Nat /\ Skew \in Nat /\ \A i \in 1..n : rings[i].epoch \in Nat /\ rings[i].published \in Nat
  BY <1>1, ClocksAssumption DEF Types, Snapshots
<1>3. RingOrder'
  <2>1. ASSUME NEW i \in 1..n
        PROVE  /\ rings'[i].published <= now'
               /\ \A j \in 1..i : rings'[j].epoch <= rings'[i].epoch
               /\ i > 1 /\ rings'[i].epoch > rings'[i-1].epoch =>
                    /\ \A k \in rings'[i].kept :
                         k.epoch = rings'[i-1].epoch /\ k.key = rings'[i-1].key /\ rings'[i].kept = {k}
                    /\ rings'[i].kept # {} => rings'[i].activated = rings'[i].published
    <3>1. \A j \in 1..i : j \in 1..n
      BY <1>1
    <3>2. i > 1 => i - 1 \in 1..n
      BY <1>1
    <3>. QED  BY <1>1, <3>1, <3>2 DEF RotationInv, RingOrder
  <2>2. /\ ring.published <= now'
        /\ \A j \in 1..(n+1) : rings'[j].epoch <= ring.epoch
    <3>1. ASSUME NEW j \in 1..n PROVE rings[j].epoch <= ring.epoch
      <4>1. rings[j].epoch <= rings[n].epoch /\ n \in 1..n
        BY <1>1 DEF RotationInv, RingOrder
      <4>2. ring.epoch \in Nat
        BY DEF Snapshots
      <4>. QED  BY <1>1, <1>2, <4>1, <4>2
    <3>2. \A j \in 1..(n+1) : j \in 1..n \/ j = n + 1
      BY <1>1
    <3>3. ring.epoch \in Nat /\ ring.published = now
      BY DEF Snapshots
    <3>. QED  BY <1>1, <1>2, <3>1, <3>2, <3>3
  <2>3. rings'[(n+1)-1] = Last /\ 1 \in 1..n
    BY <1>1
  <2>4. \A i \in 1..(n+1) : i \in 1..n \/ i = n + 1
    BY <1>1
  <2>5. rings'[1].activated = 0 /\ rings'[1].kept = {}
    BY <1>1, <2>3 DEF RotationInv, RingOrder
  <2>6. /\ rings'[n+1].published <= now'
        /\ \A j \in 1..(n+1) : rings'[j].epoch <= rings'[n+1].epoch
        /\ n+1 > 1 /\ rings'[n+1].epoch > rings'[(n+1)-1].epoch =>
             /\ \A k \in rings'[n+1].kept :
                  k.epoch = rings'[(n+1)-1].epoch /\ k.key = rings'[(n+1)-1].key /\ rings'[n+1].kept = {k}
             /\ rings'[n+1].kept # {} => rings'[n+1].activated = rings'[n+1].published
    BY <1>1, <2>2, <2>3
  <2>. QED  BY <1>1, <2>1, <2>4, <2>5, <2>6 DEF RingOrder
<1>4. ASSUME NEW h \in Handles, handle'[h] # None PROVE Within(h)'
  <2>1. Within(h) /\ handle'[h] = handle[h]
    BY <1>4 DEF RotationInv, Minted
  <2>2. PICK i \in 1..n : /\ rings[i].epoch = handle[h].epoch /\ rings[i].key = handle[h].key
                          /\ i < n => handle[h].issued <= rings[i+1].published + Skew
    BY <1>1, <2>1 DEF Within, n
  <2>3. i \in 1..(n+1) /\ rings'[i] = rings[i]
    BY <1>1
  <2>4. i < n => i + 1 \in 1..n /\ rings'[i+1] = rings[i+1]
    BY <1>1
  <2>5. i = n => rings'[i+1].published = now
    BY <1>1
  <2>6. handle'[h].issued <= rings'[i+1].published + Skew
    BY <1>1, <2>1, <2>2, <2>4, <2>5 DEF Within
  <2>. QED  BY <1>1, <2>1, <2>2, <2>3, <2>6 DEF Within
<1>. QED  BY <1>3, <1>4 DEF RotationInv, Minted

\* Time that goes by changes nothing.
LEMMA NothingPublished ==
  ASSUME Types, Types', RingTypes, RotationInv, UNCHANGED rings, now <= now',
         \A h \in Handles : handle'[h] = handle[h] \/ Within(h)'
  PROVE  RotationInv'
<1>1. now \in Nat /\ now' \in Nat /\ Skew \in Nat
  BY ClocksAssumption DEF Types
<1>2. RingOrder'
  <2>1. \A i \in DOMAIN rings : rings[i].published <= now => rings[i].published <= now'
    <3>1. ASSUME NEW i \in DOMAIN rings, rings[i].published <= now PROVE rings[i].published <= now'
      <4>0. rings[i] \in Snapshots
        BY <3>1 DEF RingTypes
      <4>1. rings[i].published \in Nat
        BY <4>0 DEF Snapshots
      <4>. QED  BY <1>1, <3>1, <4>1
    <3>. QED  BY <3>1
  <2>. QED  BY <2>1 DEF RotationInv, RingOrder
<1>3. ASSUME NEW h \in Handles, handle'[h] # None, handle'[h] = handle[h] PROVE Within(h)'
  <2>1. Within(h) /\ handle[h] \in Sealeds
    BY <1>3 DEF RotationInv, Minted, Types
  <2>2. handle'[h].issued <= now' + Skew
    BY <1>1, <1>3, <2>1 DEF Within, Sealeds
  <2>. QED  BY <1>3, <2>1, <2>2 DEF Within
<1>. QED  BY <1>2, <1>3 DEF RotationInv, Minted

\* A mint takes a snapshot that is served, and a lifetime that is no longer than it may be.
LEMMA MintsWithin ==
  ASSUME ClocksWithin, ContextInv, RingTypes, NEW c \in Calls, Mint(c)
  PROVE  \A h \in Handles : handle'[h] = handle[h] \/ Within(h)'
<1>1. call[c].pc = "mint" /\ UNCHANGED <<now, rings>> /\ Active(call[c])
  BY DEF Mint, Active, Over0
<1>. SUFFICES ASSUME NEW h \in Handles, handle'[h] # handle[h] PROVE Within(h)'
  OBVIOUS
<1>2. PICK ring \in Served, life \in Lifetimes :
        /\ ~(call[c].auth <= call[c].at \/ life > MaxLife)
        /\ handle' = [handle EXCEPT ![c] = Sealed(ring.epoch, ring.key, call[c].chat, call[c].at,
                                                  Earlier(call[c].at + life, call[c].auth))]
  BY Zenon DEF Mint
<1>. DEFINE at == call[c].at
            expires == Earlier(at + life, call[c].auth)
<1>3. h = c /\ handle'[h] = Sealed(ring.epoch, ring.key, call[c].chat, at, expires)
  BY <1>2, DistinctNone DEF ContextInv, Types
<1>4. /\ at \in Nat /\ life \in Nat /\ life <= MaxLife /\ MaxLife \in Nat /\ Skew \in Nat /\ Lag \in Nat /\ now \in Nat
      /\ call[c].s \in Services /\ at <= Clock(call[c].s) /\ call[c].auth \in Nat /\ Ahead[call[c].s] \in Nat
  BY <1>1, <1>2, ReadsClock, ClocksAssumption DEF ContextInv, Types, CallRecords
<1>5. expires <= at + MaxLife /\ at <= now + Skew
  BY <1>4 DEF Earlier, Clock, ClocksWithin
<1>6. PICK i \in DOMAIN rings : ring = rings[i] /\ (i = Len(rings) \/ (i = Len(rings) - 1 /\ now <= Last.published + Lag))
  BY ServedIsSnapshot
<1>7. i < Len(rings) => at <= rings[i+1].published + Skew
  <2>1. DOMAIN rings = 1..Len(rings) /\ Len(rings) \in DOMAIN rings /\ Last = rings[Len(rings)]
    BY DEF RingTypes, Last
  <2>2. Last \in Snapshots /\ Last.published \in Nat
    <3>1. Last \in Snapshots
      BY <2>1 DEF RingTypes
    <3>. QED  BY <3>1 DEF Snapshots
  <2>3. i < Len(rings) => i + 1 = Len(rings) /\ now <= Last.published + Lag
    BY <1>6, <2>1
  <2>4. PICK ahead \in Nat : ahead = Ahead[call[c].s] /\ at <= now + ahead /\ ahead + Lag <= Skew
    BY <1>4 DEF Clock, ClocksWithin
  <2>5. i < Len(rings) => rings[i+1].published = Last.published
    BY <2>1, <2>3
  <2>. HIDE DEF at
  <2>6. i < Len(rings) => at <= Last.published + Skew
    <3>1. PICK p \in Nat : p = Last.published
      BY <2>2
    <3>2. now \in Nat /\ Lag \in Nat /\ Skew \in Nat /\ at \in Nat
      BY <1>4
    <3>3. now <= p + Lag => at <= p + Skew
      BY <2>4, <3>2
    <3>. QED  BY <2>3, <3>1, <3>3
  <2>. QED  BY <2>5, <2>6
<1>. HIDE DEF at, expires
<1>8. /\ handle'[h].expires = expires /\ handle'[h].issued = at
      /\ handle'[h].epoch = ring.epoch /\ handle'[h].key = ring.key
  BY <1>3 DEF Sealed
<1>9. i < Len(rings) => handle'[h].issued <= rings[i+1].published + Skew
  BY <1>7, <1>8 DEF at
<1>. QED  BY <1>1, <1>5, <1>6, <1>8, <1>9 DEF Within

\* Nothing else publishes or mints.
LEMMA RotationNext ==
  ASSUME ClocksWithin, ContextInv, RingTypes, ContextInv', RotationInv, [Next]_vars
  PROVE  RotationInv'
<1>0. Types /\ Types' /\ Last \in Snapshots /\ now \in Nat /\ MaxLife \in Nat /\ Skew \in Nat /\ MaxRings \in Nat
  BY ClocksAssumption DEF ContextInv, Types, RingTypes, Last
<1>1. ASSUME NEW until \in Nat \cup {None}, NEW activated \in Nat, Rotate(until, activated), until = None \/ activated = now
      PROVE  RotationInv'
  <2>. DEFINE kept == IF until = None THEN {} ELSE {[epoch |-> Last.epoch, key |-> Last.key, until |-> until]}
              new == [epoch |-> Last.epoch + 1, key |-> Last.epoch + 1, activated |-> activated, published |-> now, kept |-> kept]
  <2>1. rings' = Append(rings, new) /\ UNCHANGED <<now, handle>>
    BY <1>1 DEF Rotate
  <2>2. kept \in SUBSET Kept /\ (kept # {} => activated = now)
        /\ \A k \in kept : k.epoch = Last.epoch /\ k.key = Last.key /\ kept = {k}
    BY <1>0, <1>1 DEF Kept, Snapshots
  <2>. HIDE DEF kept
  <2>3. new \in Snapshots /\ new.published = now /\ new.epoch >= Last.epoch /\ new.kept = kept /\ new.activated = activated
    BY <1>0, <2>2 DEF Snapshots
  <2>. HIDE DEF new
  <2>4. new.epoch > Last.epoch =>
          /\ \A k \in new.kept : k.epoch = Last.epoch /\ k.key = Last.key /\ new.kept = {k}
          /\ new.kept # {} => new.activated = new.published
    BY <2>2, <2>3
  <2>. QED  BY <1>0, <2>1, <2>3, <2>4, Published
<1>2. CASE Rekey
  <2>. DEFINE x == [Last EXCEPT !.key = MaxRings + 1]
              new == [x EXCEPT !.published = now]
  <2>1. rings' = Append(rings, [Last EXCEPT !.key = MaxRings + 1, !.published = now]) /\ UNCHANGED <<now, handle>>
    BY <1>2 DEF Rekey
  <2>2. [Last EXCEPT !.key = MaxRings + 1, !.published = now] = new
    OBVIOUS
  <2>3. x \in Snapshots /\ x.epoch = Last.epoch
    BY <1>0 DEF Snapshots
  <2>. HIDE DEF x
  <2>4. new \in Snapshots /\ new.epoch = Last.epoch /\ new.published = now
    BY <1>0, <2>3 DEF Snapshots
  <2>5. Last.epoch \in Nat
    BY <1>0 DEF Snapshots
  <2>. HIDE DEF new
  <2>6. new.epoch >= Last.epoch /\ ~(new.epoch > Last.epoch)
    BY <2>4, <2>5
  <2>. QED  BY <1>0, <2>1, <2>2, <2>4, <2>6, Published
<1>3. CASE UNCHANGED <<rings, handle>> /\ now <= now'
  BY <1>0, <1>3, NothingPublished
<1>4. ASSUME NEW c \in Calls, Mint(c) PROVE RotationInv'
  <2>1. UNCHANGED <<rings, now>>
    BY <1>4 DEF Mint
  <2>2. now <= now'
    BY <1>0, <2>1
  <2>. QED  BY <1>0, <1>4, <2>1, <2>2, MintsWithin, NothingPublished
<1>5. ASSUME NEW c \in Calls, Step(c) PROVE Mint(c) \/ UNCHANGED <<now, rings, handle>>
  BY <1>5, Zenon DEF Step, Open, Check, Confirm, Audit, Strike, Unavailable
<1>6. ASSUME NEW c, NEW kind, NEW s, NEW chat, NEW h, Start(c, kind, s, chat, h) PROVE UNCHANGED <<now, rings, handle>>
  BY <1>6, Zenon DEF Start
<1>7. (Tick => UNCHANGED <<rings, handle>> /\ now' = now + 1) /\ (UNCHANGED vars => UNCHANGED <<now, rings, handle>>)
  BY Zenon DEF Tick, vars
<1>8. {None, now + MaxLife + Skew, now + MaxLife + Skew + 1} \subseteq Nat \cup {None} /\ now + Skew + 1 \in Nat
  BY <1>0
<1>9. CASE Tick \/ UNCHANGED <<now, rings, handle>>
  <2>1. UNCHANGED <<rings, handle>> /\ now <= now'
    BY <1>0, <1>7, <1>9
  <2>. QED  BY <1>3, <2>1
<1>10. ASSUME NEW c \in Calls, Step(c) PROVE RotationInv'
  BY <1>4, <1>5, <1>9, <1>10
<1>11. ASSUME NEW until \in {None, now + MaxLife + Skew, now + MaxLife + Skew + 1}, Rotate(until, now) PROVE RotationInv'
  BY <1>0, <1>1, <1>8, <1>11
<1>12. Rotate(None, now + Skew + 1) => RotationInv'
  BY <1>1, <1>8
<1>. QED  BY <1>2, <1>6, <1>7, <1>9, <1>10, <1>11, <1>12, Zenon DEF Next

\* What has been sealed opens with the last snapshot, or with the key that it keeps.
LEMMA Rotated ==
  ASSUME ClocksWithin, ContextInv, RingTypes, RotationInv
  PROVE  RotationKeepsContexts
<1>. DEFINE n == Len(rings)
<1>. SUFFICES ASSUME NEW h \in Handles, NEW s \in Services, Disclosed(h), handle[h].expires > Clock(s),
                     \A i \in DOMAIN rings : i > 1 =>
                       /\ rings[i].epoch > rings[i-1].epoch
                       /\ \E k \in rings[i].kept : k.until = rings[i].activated + MaxLife + Skew,
                     Last.epoch <= handle[h].epoch + 1
              PROVE  Valid(Last, Clock(s)) /\ Opens(Last, h, handle[h].chat, Clock(s))
  BY DEF RotationKeepsContexts
<1>. DEFINE at == Clock(s)
            p == handle[h]
<1>1. /\ n \in Nat /\ n >= 1 /\ DOMAIN rings = 1..n /\ Last = rings[n] /\ n \in 1..n /\ 1 \in 1..n
      /\ \A i \in 1..n : rings[i] \in Snapshots
  BY DEF RingTypes, Last
<1>2. Within(h) /\ p \in Sealeds /\ now \in Nat /\ MaxLife \in Nat \ {0} /\ Skew \in Nat /\ Ahead[s] \in Nat /\ at = now + Ahead[s]
  BY ClocksAssumption DEF RotationInv, Minted, Disclosed, ContextInv, Types, Clock
<1>3. PICK i \in 1..n : /\ rings[i].epoch = p.epoch /\ rings[i].key = p.key
                        /\ i < n => p.issued <= rings[i+1].published + Skew
  BY <1>1, <1>2 DEF Within
<1>. HIDE DEF n, at, p
<1>4. /\ p.epoch \in Nat /\ p.issued \in Nat /\ p.expires \in Nat /\ Last.activated \in Nat /\ Last.published \in Nat
      /\ at \in Nat /\ now <= at
  <2>1. p.epoch \in Nat /\ p.issued \in Nat /\ p.expires \in Nat
    BY <1>2 DEF Sealeds
  <2>2. Last.activated \in Nat /\ Last.published \in Nat
    BY <1>1 DEF Snapshots
  <2>. QED  BY <1>2, <2>1, <2>2
<1>5. n > 1 => /\ \A k \in Last.kept : k.epoch = rings[n-1].epoch /\ k.key = rings[n-1].key /\ Last.kept = {k}
               /\ Last.activated = Last.published
               /\ \E k \in Last.kept : k.until = Last.activated + MaxLife + Skew
  BY <1>1 DEF RotationInv, RingOrder
<1>6. /\ Last.published <= now
      /\ n = 1 => Last.activated = 0 /\ Last.kept = {}
  BY <1>1 DEF RotationInv, RingOrder
<1>7. \A k \in Last.kept : n > 1 /\ k.until = Last.activated + MaxLife + Skew
  BY <1>1, <1>5, <1>6
<1>8. Last.activated <= now
  BY <1>1, <1>4, <1>5, <1>6, <1>2
<1>9. Valid(Last, at)
  <2>1. Last.activated <= at + Skew
    BY <1>2, <1>4, <1>8
  <2>2. \A k \in Last.kept : k.until > Last.activated /\ k.until <= Last.activated + MaxLife + Skew
    BY <1>2, <1>4, <1>7
  <2>. QED  BY <2>1, <2>2 DEF Valid
<1>10. /\ p.issued <= at + Skew /\ p.expires - p.issued <= MaxLife /\ p.expires > at
  <2>1. p.expires <= p.issued + MaxLife /\ p.issued <= now + Skew /\ p.expires > at
    BY <1>2 DEF Within, p, at
  <2>. QED  BY <1>2, <1>4, <2>1
<1>11. \/ p.epoch = Last.epoch /\ p.key = Last.key
       \/ \E k \in Last.kept : k.epoch = p.epoch /\ k.key = p.key /\ k.until > at
  <2>1. CASE i = n
    BY <1>1, <1>3, <2>1
  <2>2. CASE i = n - 1
    <3>1. n > 1 /\ i + 1 = n /\ i < n
      BY <1>1, <2>2
    <3>2. PICK k \in Last.kept : k.until = Last.activated + MaxLife + Skew
      BY <1>5, <3>1
    <3>3. k.epoch = p.epoch /\ k.key = p.key
      BY <1>3, <1>5, <2>2, <3>1, <3>2
    <3>4. p.issued <= Last.activated + Skew
      BY <1>1, <1>3, <1>5, <3>1
    <3>5. p.expires <= p.issued + MaxLife /\ p.expires > at
      BY <1>2 DEF Within, p, at
    <3>6. k.until > at
      BY <1>2, <1>4, <3>2, <3>4, <3>5
    <3>. QED  BY <3>3, <3>6
  <2>3. CASE i < n - 1
    <3>1. i + 1 \in 1..n /\ n - 1 \in 1..n /\ i + 1 \in 1..(n-1) /\ i + 1 > 1 /\ (i + 1) - 1 = i /\ n > 1
      BY <1>1, <2>3
    <3>2. rings[i+1].epoch > rings[i].epoch /\ rings[n].epoch > rings[n-1].epoch
      BY <1>1, <3>1
    <3>3. rings[i+1].epoch <= rings[n-1].epoch
      BY <1>1, <3>1 DEF RotationInv, RingOrder
    <3>4. rings[i].epoch \in Nat /\ rings[i+1].epoch \in Nat /\ rings[n-1].epoch \in Nat /\ rings[n].epoch \in Nat
      BY <1>1, <3>1 DEF Snapshots
    <3>5. rings[n].epoch <= rings[i].epoch + 1
      BY <1>1, <1>3 DEF p
    <3>. QED  BY <3>2, <3>3, <3>4, <3>5
  <2>. QED  BY <1>1, <2>1, <2>2, <2>3
<1>. QED  BY <1>9, <1>10, <1>11 DEF Opens, at, p

\* At first there is one snapshot, and one handle that was sealed with it.
LEMMA RotationInit ==
  ASSUME ClocksWithin, Init
  PROVE  RotationInv
<1>. DEFINE ring == [epoch |-> 1, key |-> 1, activated |-> 0, published |-> 0, kept |-> {}]
            seal == Sealed(1, 1, CHOOSE chat \in Chats : TRUE, 0, MaxLife)
<1>1. rings = <<ring>> /\ now = 0 /\ \A h \in Handles : handle[h] # None => handle[h] = seal
  BY DEF Init
<1>2. Len(rings) = 1 /\ DOMAIN rings = {1} /\ rings[1] = ring
  BY <1>1
<1>3. ring.epoch = 1 /\ ring.key = 1 /\ ring.activated = 0 /\ ring.published = 0 /\ ring.kept = {}
  OBVIOUS
<1>4. seal.epoch = 1 /\ seal.key = 1 /\ seal.issued = 0 /\ seal.expires = MaxLife
  BY DEF Sealed
<1>. HIDE DEF ring, seal
<1>5. RingOrder
  BY <1>1, <1>2, <1>3 DEF RingOrder
<1>6. Minted
  <2>1. MaxLife \in Nat /\ Skew \in Nat
    BY ClocksAssumption
  <2>. QED  BY <1>1, <1>2, <1>3, <1>4, <2>1 DEF Minted, Within
<1>. QED  BY <1>5, <1>6 DEF RotationInv

\* The journal takes no step of the contexts.
LEMMA ContextsAlone ==
  /\ RecordsInit => MCInit
  /\ [RecordsNext]_<<part, contexts, journal>> => [MCNext]_<<vars, dead>>
  /\ MCInit => Init
  /\ [MCNext]_<<vars, dead>> => [Next]_vars
<1>1. RecordsInit => MCInit
  BY Zenon DEF RecordsInit
<1>2. MCInit => Init
  BY Zenon DEF MCInit
<1>3. [MCNext]_<<vars, dead>> => [Next]_vars
  BY Zenon DEF MCNext
<1>4. Keep => MCNext
  BY Zenon DEF Keep
<1>5. Write => UNCHANGED <<vars, dead>>
  BY Zenon DEF Write, contexts
<1>6. UNCHANGED <<part, contexts, journal>> => UNCHANGED <<vars, dead>>
  BY Zenon DEF contexts
<1>. QED  BY <1>1, <1>2, <1>3, <1>4, <1>5, <1>6, Zenon DEF RecordsNext

\* A handover leaves a chat with one usable context at the services that are not behind, and a rotation of the keys whose overlap is as long as it
\* may be takes no handle away, when the clocks of the services and the keyring's cache stay within the skew.
THEOREM ContextsKept ==
  ASSUME ClocksWithin
  PROVE  RecordsSpec => []ContextsLast
<1>. DEFINE Inv == ContextInv /\ RingTypes /\ RotationInv
<1>1. RecordsInit => Inv
  BY ContextsAlone, ContextInit, RotationInit
<1>2. Inv /\ [RecordsNext]_<<part, contexts, journal>> => Inv'
  <2>1. Inv /\ [Next]_vars => Inv'
    BY ContextNext, RotationNext
  <2>. QED  BY <2>1, ContextsAlone
<1>3. Inv => ContextsLast
  BY Handover, Rotated DEF ContextsLast
<1>. QED  BY <1>1, <1>2, <1>3, PTL DEF RecordsSpec

-----------------------------------------------------------------------------
(* Nothing rolls back.                                                     *)

Ranks == [epoch : Nat, key : Nat]
\* An epoch does not go back, nor to another key.
AtMost(a, b) == a.epoch < b.epoch \/ (a.epoch = b.epoch /\ a.key = b.key)
\* A service has minted nothing that is above what it remembers.
MemoryInv ==
  /\ highest \in [Services -> Ranks]
  /\ \A d \in Calls : handle[d] # None => AtMost(handle[d], highest[call[d].s])

\* A step is of one request: the others are as they were, and it goes on or is over.
LEMMA StepsAlone ==
  ASSUME ContextInv, NEW c \in Calls, Step(c)
  PROVE  /\ Active(call[c]) /\ \A d \in Calls \ {c} : call'[d] = call[d]
         /\ handle[c] # None => call'[c].s = call[c].s
<1>. DEFINE Ends == \E result \in {"ok", "invalid", "unavailable", "revoked", "rejected", "expired", "failed"} : End(c, result)
            Goes == \E p \in Phases : call' = [call EXCEPT ![c].pc = p]
            Reads == \E p \in Phases, t \in Nat : call' = [call EXCEPT ![c].pc = p, ![c].at = t]
            Turns == \E p \in Phases, t \in Nat, r \in Rounds : call' = [call EXCEPT ![c].round = r, ![c].pc = p, ![c].at = t]
<1>1. Active(call[c])
  BY Zenon DEF Step, Open, Check, Confirm, Mint, Audit, Strike, Unavailable, Active, Over0
<1>2. Clock(call[c].s) \in Nat /\ {"open", "check", "confirm", "mint", "audit", "strike"} \subseteq Phases /\ {"replace", "undo"} \subseteq Rounds
      /\ 0 \in Nat /\ Types /\ call \in [Calls -> CallRecords]
  BY <1>1, ReadsClock DEF Phases, Rounds, ContextInv, Types
<1>3. Ends \/ Goes \/ Reads \/ Turns
  <2>1. ASSUME Open(c) PROVE Ends \/ Goes
    BY <2>1, <1>2, Zenon DEF Open
  <2>2. ASSUME Check(c) PROVE Ends \/ Reads
    BY <2>2, <1>2, Zenon DEF Check, Opened
  <2>3. ASSUME Confirm(c) PROVE Ends \/ Reads \/ Turns
    BY <2>3, <1>2, Zenon DEF Confirm
  <2>4. ASSUME Mint(c) PROVE Ends \/ Reads
    BY <2>4, <1>2, Zenon DEF Mint
  <2>5. ASSUME Audit(c) PROVE Ends \/ Goes \/ Turns
    BY <2>5, <1>2, Zenon DEF Audit
  <2>6. ASSUME Strike(c) PROVE Ends
    BY <2>6, <1>2, Zenon DEF Strike
  <2>7. ASSUME Unavailable(c) PROVE Ends
    BY <2>7, <1>2, Zenon DEF Unavailable
  <2>. QED  BY <2>1, <2>2, <2>3, <2>4, <2>5, <2>6, <2>7, Zenon DEF Step
<1>4. CASE Ends
  <2>1. /\ \A d \in Calls \ {c} : call'[d] = call[d]
        /\ handle[c] # None => call'[c].s = call[c].s
    BY <1>2, <1>4, EndsAs
  <2>. QED  BY <1>1, <2>1
<1>5. CASE Goes \/ Reads \/ Turns
  <2>1. CASE Goes
    <3>1. PICK p \in Phases : call' = [call EXCEPT ![c].pc = p]
      BY <2>1
    <3>. QED  BY <1>1, <1>2, <3>1, GoesTo
  <2>2. CASE Reads
    BY <1>1, <1>2, <2>2, GoesAt DEF SameCall
  <2>3. CASE Turns
    BY <1>1, <1>2, <2>3, GoesRound DEF SameCall
  <2>. QED  BY <1>5, <2>1, <2>2, <2>3
<1>. QED  BY <1>3, <1>4, <1>5

\* What is minted has the rank that its service remembers then.
LEMMA Mints ==
  ASSUME ContextInv, RingTypes, MemoryInv, NEW c \in Calls, Mint(c), handle' # handle
  PROVE  /\ call[c].s \in Services /\ call'[c].s = call[c].s /\ handle[c] = None /\ handle'[c] # None
         /\ \A h \in Handles \ {c} : handle'[h] = handle[h]
         /\ handle'[c].epoch = highest'[call[c].s].epoch /\ handle'[c].key = highest'[call[c].s].key
<1>1. call[c].pc = "mint" /\ Active(call[c])
  BY DEF Mint, Active, Over0
<1>2. PICK ring \in Served, life \in Lifetimes :
        /\ Remember(call[c].s, ring)
        /\ handle' = [handle EXCEPT ![c] = Sealed(ring.epoch, ring.key, call[c].chat, call[c].at,
                                                  Earlier(call[c].at + life, call[c].auth))]
        /\ call' = [call EXCEPT ![c].pc = "audit", ![c].at = 0]
  BY Zenon DEF Mint
<1>3. call \in [Calls -> CallRecords] /\ "audit" \in Phases /\ 0 \in Nat /\ c \in Handles /\ handle[c] = None /\ call[c].s \in Services
  <2>1. call \in [Calls -> CallRecords] /\ "audit" \in Phases /\ 0 \in Nat /\ c \in Handles /\ call[c].s \in Services
    BY <1>1, DistinctNone, ReadsClock DEF ContextInv, Types, Phases
  <2>. QED  BY <1>1, <1>2, <2>1, Seals
<1>4. call'[c].s = call[c].s
  BY <1>2, <1>3, GoesAt, Zenon DEF SameCall
<1>. DEFINE seal == Sealed(ring.epoch, ring.key, call[c].chat, call[c].at, Earlier(call[c].at + life, call[c].auth))
<1>5. handle' = [handle EXCEPT ![c] = seal]
  BY <1>2
<1>6. seal.epoch = ring.epoch /\ seal.key = ring.key
  BY DEF Sealed
<1>. HIDE DEF seal
<1>7. handle'[c] = seal /\ \A h \in Handles \ {c} : handle'[h] = handle[h]
  BY <1>3, <1>5 DEF ContextInv, Types
<1>8. highest'[call[c].s] = [epoch |-> ring.epoch, key |-> ring.key]
  BY <1>2, <1>3 DEF Remember, MemoryInv
<1>9. handle'[c] # None
  BY <1>1, <1>2, <1>7, Seals DEF seal
<1>. QED  BY <1>3, <1>4, <1>6, <1>7, <1>8, <1>9

\* A rank that is at most a second is at most what that one is at most.
LEMMA RanksOrder ==
  ASSUME NEW a, NEW b \in Ranks, NEW d \in Ranks, a.epoch \in Nat, AtMost(a, b), AtMost(b, d)
  PROVE  AtMost(a, d)
BY DEF AtMost, Ranks

\* What a service remembers goes on only to a snapshot that it has compared with it.
LEMMA MemoryGrows ==
  ASSUME ContextInv, RingTypes, MemoryInv, [Next]_vars
  PROVE  highest' \in [Services -> Ranks] /\ \A s \in Services : AtMost(highest[s], highest'[s])
<1>0. highest \in [Services -> Ranks]
  BY DEF MemoryInv
<1>1. CASE UNCHANGED highest
  BY <1>0, <1>1 DEF AtMost, Ranks
<1>2. ASSUME NEW c \in Calls, Active(call[c]), NEW ring \in Served, NotRolledBack(call[c].s, ring), Remember(call[c].s, ring)
      PROVE  highest' \in [Services -> Ranks] /\ \A s \in Services : AtMost(highest[s], highest'[s])
  <2>. DEFINE new == [epoch |-> ring.epoch, key |-> ring.key]
  <2>1. call[c].s \in Services /\ ring.epoch \in Nat /\ ring.key \in Nat
    BY <1>2, ReadsClock, ServedIsSnapshot DEF Snapshots
  <2>2. highest' = [highest EXCEPT ![call[c].s] = new]
    BY <1>2 DEF Remember
  <2>3. new \in Ranks /\ new.epoch = ring.epoch /\ new.key = ring.key
    BY <2>1 DEF Ranks
  <2>. HIDE DEF new
  <2>4. highest[call[c].s] \in Ranks /\ AtMost(highest[call[c].s], new)
    BY <1>0, <1>2, <2>1, <2>3 DEF NotRolledBack, AtMost, Ranks
  <2>5. \A s \in Services : AtMost(highest[s], highest[s])
    BY <1>0 DEF AtMost, Ranks
  <2>. QED  BY <1>0, <2>1, <2>2, <2>3, <2>4, <2>5
<1>3. ASSUME NEW c \in Calls, Step(c)
      PROVE  UNCHANGED highest \/ \E ring \in Served : NotRolledBack(call[c].s, ring) /\ Remember(call[c].s, ring)
  BY <1>3, Zenon DEF Step, Open, Check, Confirm, Mint, Audit, Strike, Unavailable, Accepts
<1>4. ASSUME NEW c, NEW kind, NEW s, NEW chat, NEW h, Start(c, kind, s, chat, h) PROVE UNCHANGED highest
  BY <1>4, Zenon DEF Start
<1>5. (\A until, activated : Rotate(until, activated) => UNCHANGED highest) /\ (Rekey \/ Tick \/ UNCHANGED vars => UNCHANGED highest)
  BY Zenon DEF Rotate, Rekey, Tick, vars
<1>6. ASSUME NEW c \in Calls, Step(c)
      PROVE  highest' \in [Services -> Ranks] /\ \A s \in Services : AtMost(highest[s], highest'[s])
  BY <1>1, <1>2, <1>3, <1>6, StepsAlone
<1>. QED  BY <1>1, <1>4, <1>5, <1>6, Zenon DEF Next

\* Who minted stays known.
LEMMA MintersKept ==
  ASSUME ContextInv, [Next]_vars, NEW d \in Calls, handle[d] # None
  PROVE  call'[d].s = call[d].s
<1>1. ASSUME NEW c \in Calls, Step(c) PROVE call'[d].s = call[d].s
  BY <1>1, StepsAlone
<1>2. ASSUME NEW c \in Calls, NEW kind, NEW s, NEW chat, NEW h, Start(c, kind, s, chat, h) PROVE call'[d].s = call[d].s
  <2>1. call[c].pc = "none"
    BY <1>2, Zenon DEF Start
  <2>2. Minting(c) /\ call \in [Calls -> CallRecords]
    BY DEF ContextInv, RequestInv, Types
  <2>3. c # d
    BY <2>1, <2>2 DEF Minting, Active, Over0
  <2>4. \E x : call' = [call EXCEPT ![c] = x]
    BY <1>2, Zenon DEF Start
  <2>. QED  BY <2>2, <2>3, <2>4
<1>3. (\A until, activated : Rotate(until, activated) => UNCHANGED call) /\ (Rekey \/ Tick \/ UNCHANGED vars => UNCHANGED call)
  BY Zenon DEF Rotate, Rekey, Tick, vars
<1>. QED  BY <1>1, <1>2, <1>3, Zenon DEF Next

\* Only a mint seals anything.
LEMMA OnlyMints ==
  ASSUME [Next]_vars
  PROVE  UNCHANGED handle \/ \E c \in Calls : Mint(c)
<1>1. ASSUME NEW c \in Calls, Step(c) PROVE Mint(c) \/ UNCHANGED handle
  BY <1>1, Zenon DEF Step, Open, Check, Confirm, Audit, Strike, Unavailable
<1>2. ASSUME NEW c, NEW kind, NEW s, NEW chat, NEW h, Start(c, kind, s, chat, h) PROVE UNCHANGED handle
  BY <1>2, Zenon DEF Start
<1>3. (\A until, activated : Rotate(until, activated) => UNCHANGED handle) /\ (Rekey \/ Tick \/ UNCHANGED vars => UNCHANGED handle)
  BY Zenon DEF Rotate, Rekey, Tick, vars
<1>. QED  BY <1>1, <1>2, <1>3, Zenon DEF Next

\* What one service mints is never below what it has minted.
NeverBack ==
  \A c, d \in Calls :
    /\ handle[c] = None /\ handle'[c] # None /\ handle[d] # None /\ call[d].s = call[c].s
    => \/ handle'[c].epoch > handle[d].epoch
       \/ handle'[c].epoch = handle[d].epoch /\ handle'[c].key = handle[d].key

\* So what a service has minted stays below what it remembers, and no mint is below another.
LEMMA MemoryNext ==
  ASSUME ContextInv, RingTypes, MemoryInv, [Next]_vars
  PROVE  MemoryInv' /\ NeverBack
<1>1. highest' \in [Services -> Ranks] /\ highest \in [Services -> Ranks] /\ \A s \in Services : AtMost(highest[s], highest'[s])
  BY MemoryGrows DEF MemoryInv
<1>2. ASSUME NEW d \in Calls, handle[d] # None
      PROVE  call'[d].s = call[d].s /\ call[d].s \in Services /\ handle[d].epoch \in Nat /\ AtMost(handle[d], highest'[call[d].s])
  <2>1. call'[d].s = call[d].s /\ call[d].s \in Services
    BY <1>2, MintersKept DEF ContextInv, RequestInv, Minting
  <2>2. handle[d].epoch \in Nat /\ AtMost(handle[d], highest[call[d].s])
    BY <1>2, DistinctNone DEF ContextInv, Types, Sealeds, MemoryInv
  <2>. QED  BY <1>1, <2>1, <2>2, RanksOrder
<1>3. CASE UNCHANGED handle
  BY <1>1, <1>2, <1>3 DEF MemoryInv, NeverBack
<1>4. CASE handle' # handle
  <2>1. PICK c \in Calls : Mint(c)
    BY <1>4, OnlyMints
  <2>2. /\ call[c].s \in Services /\ call'[c].s = call[c].s /\ handle[c] = None /\ handle'[c] # None
        /\ \A h \in Handles \ {c} : handle'[h] = handle[h]
        /\ handle'[c].epoch = highest'[call[c].s].epoch /\ handle'[c].key = highest'[call[c].s].key
    BY <1>4, <2>1, Mints
  <2>3. \A d \in Calls \ {c} : handle'[d] = handle[d]
    BY <2>2, DistinctNone
  <2>4. AtMost(handle'[c], highest'[call[c].s])
    BY <2>2 DEF AtMost
  <2>5. MemoryInv'
    BY <1>1, <1>2, <2>2, <2>3, <2>4 DEF MemoryInv
  <2>6. NeverBack
    <3>1. ASSUME NEW d \in Calls, handle[d] # None, call[d].s = call[c].s
          PROVE  \/ handle'[c].epoch > handle[d].epoch
                 \/ handle'[c].epoch = handle[d].epoch /\ handle'[c].key = handle[d].key
      <4>1. AtMost(handle[d], highest'[call[c].s]) /\ handle[d].epoch \in Nat
        BY <1>2, <3>1
      <4>2. highest'[call[c].s].epoch \in Nat
        BY <1>1, <2>2 DEF Ranks
      <4>. QED  BY <2>2, <4>1, <4>2 DEF AtMost
    <3>. QED  BY <2>3, <3>1 DEF NeverBack
  <2>. QED  BY <2>5, <2>6
<1>. QED  BY <1>3, <1>4

-----------------------------------------------------------------------------
(* What is revoked stays revoked.                                          *)

\* A step goes on from what was: no handle, no answer and no revocation that still matters is lost.
LEMMA NextIsLater ==
  ASSUME ContextInv, ContextInv', RingTypes, MemoryInv, [Next]_vars
  PROVE  Later
<1>0. Types /\ Types' /\ RevokedInv /\ now \in Nat /\ call \in [Calls -> CallRecords]
  BY DEF ContextInv, Types
<1>1. HandlesKept
  <2>1. ASSUME handle' # handle PROVE HandlesKept
    BY <2>1, OnlyMints, Mints DEF HandlesKept
  <2>. QED  BY <2>1 DEF HandlesKept
<1>2. now <= now' /\ trail \subseteq trail' /\ DoneKept /\ Keeps
  <2>1. ASSUME UNCHANGED <<trail, revoked, call>>, now' \in {now, now + 1} PROVE now <= now' /\ trail \subseteq trail' /\ DoneKept /\ Keeps
    BY <1>0, <2>1 DEF DoneKept, Keeps
  <2>2. ASSUME NEW c \in Calls, Step(c) PROVE now <= now' /\ trail \subseteq trail' /\ DoneKept /\ Keeps
    <3>1. UNCHANGED now /\ trail \subseteq trail'
      BY <2>2, Zenon DEF Step, Open, Check, Confirm, Mint, Audit, Strike, Unavailable
    <3>2. Active(call[c]) /\ DoneKept
      BY <2>2, StepsAlone DEF DoneKept, Active, Over0
    <3>3. PICK s \in Services, at \in Nat, t \in Nat : s = call[c].s /\ at = call[c].at /\ t = Clock(s) /\ at <= t
      BY <3>2, ReadsClock
    <3>4. UNCHANGED revoked \/ revoked' = Pruned(call[c].at) \/ Pruned(Clock(call[c].s)) \subseteq revoked'
      BY <2>2, Zenon DEF Step, Open, Check, Confirm, Mint, Audit, Strike, Unavailable, Insert
    <3>5. t <= Clock(s)' /\ at <= Clock(s)'
      BY <3>1, <3>3 DEF Clock
    <3>6. UNCHANGED revoked \/ PrunedAt(at) \/ PrunedAt(t)
      BY <3>3, <3>4, <3>5 DEF PrunedAt
    <3>7. Keeps
      BY <3>3, <3>6 DEF Keeps
    <3>. QED  BY <1>0, <3>1, <3>2, <3>7
  <2>3. ASSUME NEW c \in Calls, NEW kind, NEW s, NEW chat, NEW h, Start(c, kind, s, chat, h)
        PROVE  now <= now' /\ trail \subseteq trail' /\ DoneKept /\ Keeps
    <3>1. call[c].pc = "none" /\ UNCHANGED <<now, trail, revoked>> /\ \E x : call' = [call EXCEPT ![c] = x]
      BY <2>3, Zenon DEF Start
    <3>2. DoneKept
      BY <1>0, <3>1 DEF DoneKept
    <3>. QED  BY <1>0, <3>1, <3>2 DEF Keeps
  <2>4. /\ \A until, activated : Rotate(until, activated) => UNCHANGED <<trail, revoked, call, now>>
        /\ Rekey \/ UNCHANGED vars => UNCHANGED <<trail, revoked, call, now>>
        /\ Tick => UNCHANGED <<trail, revoked, call>> /\ now' = now + 1
    BY Zenon DEF Rotate, Rekey, Tick, vars
  <2>5. Rekey \/ UNCHANGED vars \/ Tick \/ (\E until, activated : Rotate(until, activated)) =>
          now <= now' /\ trail \subseteq trail' /\ DoneKept /\ Keeps
    BY <2>1, <2>4
  <2>. QED  BY <2>2, <2>3, <2>5, Zenon DEF Next
<1>. QED  BY <1>0, <1>1, <1>2, OnwardIsLater DEF Onward

\* What had been given up when a request began has expired or is still revoked.
DeadInv == dead \in [Calls -> SUBSET Handles] /\ \A c \in Calls : \A h \in dead[c] : handle[h] # None /\ Struck(h)

\* What a service that is not behind finds neither listed nor expired, nobody has given up.
StillRevoked ==
  \A c \in Calls :
    call[c].pc = "check" /\ call'[c].pc # "check" /\ (call'[c].pc = "done" => call'[c].out # None) =>
      \/ call[c].round = "undo"
      \/ call[c].handle \notin dead[c]
      \/ ExpiredAt(call[c].s, call[c].handle) \/ Behind(call[c].s)

\* What was struck when a request began stays struck.
LEMMA DeadStay ==
  ASSUME ContextInv, ContextInv', RingTypes, MemoryInv, DeadInv, [MCNext]_<<vars, dead>>
  PROVE  DeadInv'
<1>1. Later
  BY ContextsAlone, NextIsLater
<1>2. ASSUME NEW h \in Handles, handle[h] # None, Struck(h) PROVE handle'[h] # None /\ Struck(h)'
  BY <1>1, <1>2 DEF Later, HandlesKept
<1>3. CASE UNCHANGED dead
  <2>1. ASSUME NEW c \in Calls, NEW h \in dead'[c] PROVE handle'[h] # None /\ Struck(h)'
    BY <1>2, <1>3, <2>1 DEF DeadInv
  <2>. QED  BY <1>3, <2>1 DEF DeadInv, Struck, Revoked, ExpiredSomewhere, ExpiredAt
<1>4. CASE MCNext
  <2>1. dead' = [c \in Calls |-> IF call[c].pc = "none" /\ call'[c].pc # "none" THEN Answered \ {None}
                                 ELSE IF call'[c].pc = "done" THEN {} ELSE dead[c]]
    BY <1>4, Zenon DEF MCNext
  <2>2. ASSUME NEW h \in Answered \ {None} PROVE h \in Handles /\ handle[h] # None /\ Struck(h)
    <3>1. PICK c \in Calls : call[c].handle = h /\ call[c].pc = "done" /\ call[c].out = "ok"
      BY <2>2 DEF Answered
    <3>2. Finished(c) /\ call[c] \in CallRecords
      BY DEF ContextInv, RequestInv, Types
    <3>. QED  BY <2>2, <3>1, <3>2 DEF Finished, Disclosed, CallRecords
  <2>. HIDE DEF Answered
  <2>3. \A c \in Calls : dead'[c] \subseteq (Answered \ {None}) \cup dead[c]
    BY <2>1
  <2>4. ASSUME NEW c \in Calls, NEW h \in dead'[c] PROVE h \in Handles /\ handle'[h] # None /\ Struck(h)'
    <3>1. h \in Handles /\ handle[h] # None /\ Struck(h)
      BY <2>2, <2>3, <2>4 DEF DeadInv
    <3>. QED  BY <1>2, <3>1
  <2>5. dead' \in [Calls -> SUBSET Handles]
    BY <2>1, <2>4
  <2>. QED  BY <2>4, <2>5 DEF DeadInv, Struck, Revoked, ExpiredSomewhere, ExpiredAt
<1>. QED  BY <1>3, <1>4

\* A request that gets past the store held a handle that was not listed.
LEMMA StaysRevoked ==
  ASSUME ContextInv, RingTypes, DeadInv, [Next]_vars
  PROVE  StillRevoked
<1>. SUFFICES ASSUME NEW c \in Calls, call[c].pc = "check", call'[c].pc # "check", call'[c].pc = "done" => call'[c].out # None,
                     call[c].round # "undo", call[c].handle \in dead[c], ~Behind(call[c].s)
              PROVE  ExpiredAt(call[c].s, call[c].handle)
  BY DEF StillRevoked
<1>. DEFINE h == call[c].handle
<1>0. Types /\ call \in [Calls -> CallRecords] /\ Active(call[c])
  BY DEF ContextInv, Types, Active, Over0
<1>1. Step(c)
  <2>1. ASSUME NEW d \in Calls, Step(d) PROVE Step(c)
    BY <2>1, StepsAlone
  <2>2. ASSUME NEW d \in Calls, NEW kind, NEW s, NEW chat, NEW g, Start(d, kind, s, chat, g) PROVE FALSE
    <3>1. call[d].pc = "none" /\ \E x : call' = [call EXCEPT ![d] = x]
      BY <2>2, Zenon DEF Start
    <3>. QED  BY <1>0, <3>1
  <2>3. (\A until, activated : Rotate(until, activated) => UNCHANGED call) /\ (Rekey \/ Tick \/ UNCHANGED vars => UNCHANGED call)
    BY Zenon DEF Rotate, Rekey, Tick, vars
  <2>. QED  BY <2>1, <2>2, <2>3, Zenon DEF Next
<1>2. ASSUME NEW result \in {"unavailable", "revoked"} PROVE ~End(c, result)
  <2>1. ASSUME End(c, result) PROVE FALSE
    BY <1>0, <1>2, <2>1, EndsAs
  <2>. QED  BY <2>1
<1>3. ~Listed(h, call[c].at)
  <2>1. Check(c) \/ Unavailable(c)
    BY <1>1 DEF Step, Open, Confirm, Mint, Audit, Strike
  <2>. QED  BY <1>2, <2>1 DEF Check, Unavailable
<1>4. h \in Handles /\ handle[h] # None /\ Struck(h)
  BY DEF DeadInv
<1>5. ASSUME NEW r \in revoked, r.handle = h PROVE ExpiredAt(call[c].s, h)
  <2>1. ~(r.expires > call[c].at) /\ r.expires = handle[h].expires
    BY <1>3, <1>5 DEF Listed, Pruned, ContextInv, RevokedInv
  <2>2. handle[h].expires \in Nat
    BY <1>0, <1>4 DEF Types, Sealeds
  <2>3. call[c].s \in Services /\ Clock(call[c].s) \in Nat /\ call[c].at \in Nat /\ call[c].at <= Clock(call[c].s)
    BY <1>0, ReadsClock
  <2>4. handle[h].expires <= Clock(call[c].s)
    BY <2>1, <2>2, <2>3
  <2>. QED  BY <2>4 DEF ExpiredAt
<1>6. call[c].s \in Services
  BY <1>0, ReadsClock
<1>. QED  BY <1>0, <1>4, <1>5, <1>6, ExpiredForAll DEF Struck, Revoked

\* A service never mints with an older epoch, or with another key of an epoch; and once a revocation has been
\* answered no request that begins later gets the context of that handle at a service whose clock is not behind
\* another's before the handle has expired by the clock of that service.
THEOREM RecordsNeverGoBack == RecordsSpec => NothingRollsBack
<1>. DEFINE Inv == ContextInv /\ RingTypes /\ MemoryInv /\ DeadInv
<1>1. RecordsInit => Inv
  <2>1. ASSUME MCInit PROVE MemoryInv
    <3>1. \A c \in Calls : handle[c] = None
      BY <2>1, DistinctNone DEF MCInit, Init
    <3>2. highest \in [Services -> Ranks]
      BY <2>1 DEF MCInit, Init, Ranks
    <3>. QED  BY <3>1, <3>2 DEF MemoryInv
  <2>2. ASSUME MCInit PROVE DeadInv
    BY <2>2 DEF MCInit, DeadInv
  <2>. QED  BY <2>1, <2>2, ContextsAlone, ContextInit
<1>2. Inv /\ [RecordsNext]_<<part, contexts, journal>> => Inv' /\ [NeverBack]_vars /\ [StillRevoked]_<<vars, dead>>
  <2>1. Inv /\ [MCNext]_<<vars, dead>> => Inv' /\ NeverBack /\ StillRevoked
    BY ContextsAlone, ContextNext, MemoryNext, DeadStay, StaysRevoked
  <2>. QED  BY <2>1, ContextsAlone
<1>3. (MintingNeverRollsBack <=> [][NeverBack]_vars) /\ (RevokedStaysRevoked <=> [][StillRevoked]_<<vars, dead>>)
  BY PTL DEF MintingNeverRollsBack, RevokedStaysRevoked, NeverBack, StillRevoked
<1>. QED  BY <1>1, <1>2, <1>3, PTL DEF RecordsSpec, NothingRollsBack
=============================================================================
