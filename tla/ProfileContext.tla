--------------------------- MODULE ProfileContext ---------------------------
(***************************************************************************)
(* ProfileContextHandleService (profiles/profile-context-handle.ts) and    *)
(* the modern calls of MiftahServer that use it: the profile of a request  *)
(* comes from a sealed handle that the client carries, minted, resolved,   *)
(* replaced and revoked by several services of one deployment that share   *)
(* only a keyring and a store of revocations.                              *)
(*                                                                         *)
(* A service reads its clock, waits for the keyring and then for the       *)
(* store, and decides by the time it read first.  A handle is named by the *)
(* call that minted it (0 is older than the model); that it cannot be      *)
(* forged is the cipher's doing and taken as given.  A step is what runs   *)
(* between two awaits, ending with the effect of the call waited for.      *)
(***************************************************************************)
EXTENDS Naturals, Sequences, FiniteSets

CONSTANTS
  None,
  Services,
  Chats,       \* authenticated bindings: issuer, subject, audience, chat
  Ahead,       \* how far the clock of each service is ahead
  MaxLife,     \* maximumLifetimeMs
  Lifetimes,   \* the lifetimes that are asked for
  AuthLife,    \* how long the authentication of a request holds
  Skew,        \* clockSkewMs
  Lag,         \* for how long the keyring's cache may serve the last snapshot but one
  Capacity,    \* maximumEntries of the revocation store
  NumCalls,    \* bound: requests
  MaxOpen,     \* bound: requests at the same time
  MaxTime,     \* bound: the time
  MaxRings,    \* bound: snapshots of the keyring
  MaxFaults    \* bound: failures of the keyring, the store or the audit journal

ASSUME ClocksAssumption ==
  /\ Ahead \in [Services -> Nat]
  /\ MaxLife \in Nat \ {0} /\ AuthLife \in Nat \ {0} /\ Lifetimes \subseteq Nat \ {0} /\ Skew \in Nat /\ Lag \in Nat /\ Capacity \in Nat \ {0}
  /\ Chats # {} /\ NumCalls \in Nat /\ MaxRings \in Nat
  /\ None \notin 0..NumCalls /\ None \notin {"ok", "used"}
  /\ None \notin [epoch : Nat, key : Nat, chat : Chats, issued : Nat, expires : Nat]

VARIABLES
  now,
  rings,    \* the snapshots of the keyring, each atomic, in the order of their publication
  highest,  \* highestActiveEpoch and highestActiveKey of each service
  handle,   \* what each handle seals
  revoked,  \* the deployment's revocation store
  trail,    \* handles whose selection is in the audit journal
  call,     \* requests
  faults

vars == <<now, rings, highest, handle, revoked, trail, call, faults>>

Calls == 1..NumCalls
Handles == 0..NumCalls
Clock(s) == now + Ahead[s]
Earlier(a, b) == IF a < b THEN a ELSE b

Sealed(epoch, key, chat, issued, expires) ==
  [epoch |-> epoch, key |-> key, chat |-> chat, issued |-> issued, expires |-> expires]
NoCall == [kind |-> "none", pc |-> "none", round |-> "resolve", s |-> None, chat |-> None,
           handle |-> None, auth |-> 0, at |-> 0, out |-> None]

Init ==
  /\ now = 0
  /\ rings = << [epoch |-> 1, key |-> 1, activated |-> 0, published |-> 0, kept |-> {}] >>
  /\ highest = [s \in Services |-> [epoch |-> 0, key |-> 0]]
  /\ handle = [h \in Handles |-> IF h = 0 THEN Sealed(1, 1, CHOOSE chat \in Chats : TRUE, 0, MaxLife) ELSE None]
  /\ revoked = {}
  /\ trail = {0}
  /\ call = [c \in Calls |-> NoCall]
  /\ faults = 0

\* The client has a handle when the call that minted it has answered.
Disclosed(h) == handle[h] # None /\ (h = 0 \/ (call[h].pc = "done" /\ call[h].out = "ok"))
\* Of a call that is over only what the answer showed is kept.
Over(c, out) ==
  IF out = "ok" /\ call[c].kind # "use" THEN [call[c] EXCEPT !.pc = "done", !.out = out, !.at = 0, !.auth = 0]
  ELSE [NoCall EXCEPT !.pc = "done", !.out = IF out = "ok" THEN "used" ELSE None,
                      !.s = IF handle[c] = None THEN None ELSE call[c].s]
End(c, out) == call' = [call EXCEPT ![c] = Over(c, out)]
Fault == faults < MaxFaults /\ faults' = faults + 1

---------------------------------------------------------------------------
(* The keyring.                                                            *)

Last == rings[Len(rings)]
\* A short-lived cache stands in front of the key manager.
Served ==
  {Last} \cup {rings[i] : i \in {j \in DOMAIN rings : j = Len(rings) - 1 /\ now <= Last.published + Lag}}

\* validateKeyring: the active key has begun, and the overlap with the kept ones has its limit.
Valid(ring, at) ==
  /\ ring.activated <= at + Skew
  /\ \A k \in ring.kept :
       k.until > ring.activated /\ k.until <= ring.activated + MaxLife + Skew

\* The service remembers the newest epoch and its key.
NoMemory(s, ring) == TRUE  \* mutant
NotRolledBack(s, ring) ==
  /\ ring.epoch >= highest[s].epoch
  /\ ring.epoch = highest[s].epoch => ring.key = highest[s].key

Accepts(s, ring, at) == Valid(ring, at) /\ NotRolledBack(s, ring)
Remember(s, ring) == highest' = [highest EXCEPT ![s] = [epoch |-> ring.epoch, key |-> ring.key]]

\* openAndValidate, what it decides with the keyring: the key, the seal and the payload.
Opens(ring, h, chat, at) ==
  LET p == handle[h] IN
  /\ \/ p.epoch = ring.epoch /\ p.key = ring.key
     \/ \E k \in ring.kept : k.epoch = p.epoch /\ k.key = p.key /\ k.until > at
  /\ p.chat = chat
  /\ p.issued <= at + Skew
  /\ p.expires - p.issued <= MaxLife
  /\ p.expires > at

\* The key manager goes on to a new epoch; the last key is dropped, or kept for a while.
Rotate(until, activated) ==
  /\ Len(rings) < MaxRings
  /\ rings' = Append(rings,
       [epoch |-> Last.epoch + 1, key |-> Last.epoch + 1, activated |-> activated, published |-> now,
        kept |-> IF until = None THEN {} ELSE {[epoch |-> Last.epoch, key |-> Last.key, until |-> until]}])
  /\ UNCHANGED <<now, highest, handle, revoked, trail, call, faults>>

\* A fault that the services are to notice: another key for the same epoch.
Rekey ==
  /\ Len(rings) < MaxRings
  /\ Fault
  /\ rings' = Append(rings, [Last EXCEPT !.key = MaxRings + 1, !.published = now])
  /\ UNCHANGED <<now, highest, handle, revoked, trail, call>>

Tick ==
  /\ now < MaxTime
  /\ now' = now + 1
  /\ UNCHANGED <<rings, highest, handle, revoked, trail, call, faults>>

---------------------------------------------------------------------------
(* The revocation store: every access first prunes by the time it is given.*)

PrunedEarly(at) == {r \in revoked : r.expires > at + Skew}  \* mutant: it allows for the clocks the wrong way
Pruned(at) == {r \in revoked : r.expires > at}
Listed(h, at) == \E r \in Pruned(at) : r.handle = h

\* revoke of the store: it refuses when it is full, and never evicts.
Insert(h, at) ==
  LET entry == [handle |-> h, expires |-> handle[h].expires] IN
  /\ entry.expires > at /\ ~Listed(h, at) => Cardinality(Pruned(at)) < Capacity
  /\ revoked' = IF entry.expires <= at THEN Pruned(at) ELSE Pruned(at) \cup {entry}
Full(h, at) ==
  handle[h].expires > at /\ ~Listed(h, at) /\ Cardinality(Pruned(at)) >= Capacity

---------------------------------------------------------------------------
(* Requests.                                                               *)

\* prepareCall: the request is authenticated and the first clock is read.  A selection without
\* a handle has nothing to resolve.
Start(c, kind, s, chat, h) ==
  /\ call[c].pc = "none"
  /\ \A d \in Calls : d < c => call[d].pc # "none"
  /\ Cardinality({d \in Calls : call[d].pc \notin {"none", "done"}}) < MaxOpen
  /\ h = None => kind = "select"
  /\ call' = [call EXCEPT ![c] =
       [NoCall EXCEPT !.kind = kind, !.s = s, !.chat = chat, !.handle = h, !.auth = Clock(s) + AuthLife,
                      !.at = IF h = None THEN 0 ELSE Clock(s), !.pc = IF h = None THEN "confirm" ELSE "open"]]
  /\ UNCHANGED <<now, rings, highest, handle, revoked, trail, faults>>

\* openAndValidate up to the call of the store.
Open(c) ==
  LET x == call[c]
      h == IF x.round = "undo" THEN c ELSE x.handle IN
  /\ x.pc = "open"
  /\ \E ring \in Served :
       \/ /\ ~Accepts(x.s, ring, x.at)
          /\ End(c, "unavailable") /\ UNCHANGED highest
       \/ /\ Accepts(x.s, ring, x.at) /\ Remember(x.s, ring)
          /\ IF Opens(ring, h, x.chat, x.at) THEN call' = [call EXCEPT ![c].pc = "check"] ELSE End(c, "invalid")
  /\ UNCHANGED <<now, rings, handle, revoked, trail, faults>>

\* What a caller of openAndValidate does when the handle holds.
Opened(c) ==
  LET x == call[c] IN
  IF x.kind = "use" THEN End(c, "ok")
  ELSE IF x.kind = "revoke" \/ x.round = "undo" THEN call' = [call EXCEPT ![c].pc = "strike", ![c].at = 0]
  ELSE IF x.round = "resolve" THEN call' = [call EXCEPT ![c].pc = "confirm", ![c].at = 0]
  ELSE call' = [call EXCEPT ![c].pc = "mint", ![c].at = Clock(x.s)]

\* isRevoked, asked with the time read before the keyring was waited for.
Check(c) ==
  LET x == call[c]
      h == IF x.round = "undo" THEN c ELSE x.handle IN
  /\ x.pc = "check"
  /\ revoked' = Pruned(x.at)
  /\ IF Listed(h, x.at) THEN End(c, "revoked") ELSE Opened(c)
  /\ UNCHANGED <<now, rings, highest, handle, trail, faults>>

\* handleModernProfileSelection: the confirmation may take any time; then replace or mint
\* reads the clock again, and replace opens the handle again.
Confirm(c) ==
  LET x == call[c] IN
  /\ x.pc = "confirm"
  /\ \/ End(c, "rejected")
     \/ /\ x.handle # None /\ x.auth <= Clock(x.s)
        /\ End(c, "expired")
     \/ /\ x.handle # None /\ x.auth > Clock(x.s)
        /\ call' = [call EXCEPT ![c].round = "replace", ![c].pc = "open", ![c].at = Clock(x.s)]
     \/ /\ x.handle = None
        /\ call' = [call EXCEPT ![c].pc = "mint", ![c].at = Clock(x.s)]
  /\ UNCHANGED <<now, rings, highest, handle, revoked, trail, faults>>

\* mintAt: no longer than it may be, and no longer than the authentication of the request.
Mint(c) ==
  LET x == call[c] IN
  /\ x.pc = "mint"
  /\ \E ring \in Served, life \in Lifetimes :
       \/ /\ ~Accepts(x.s, ring, x.at)
          /\ End(c, "unavailable") /\ UNCHANGED <<highest, handle>>
       \/ /\ Accepts(x.s, ring, x.at) /\ Remember(x.s, ring)
          /\ IF x.auth <= x.at \/ life > MaxLife
             THEN End(c, "invalid") /\ UNCHANGED handle
             ELSE /\ handle' = [handle EXCEPT ![c] = Sealed(ring.epoch, ring.key, x.chat, x.at, Earlier(x.at + life, x.auth))]
                  /\ call' = [call EXCEPT ![c].pc = "audit", ![c].at = 0]
  /\ UNCHANGED <<now, rings, revoked, trail, faults>>

\* writeProfileAction.  When it fails replace has done nothing yet, and a mint is taken back.
Audit(c) ==
  LET x == call[c] IN
  /\ x.pc = "audit"
  /\ \/ /\ trail' = trail \cup {c}
        /\ IF x.round = "replace" THEN call' = [call EXCEPT ![c].pc = "strike"] ELSE End(c, "ok")
        /\ UNCHANGED faults
     \/ /\ Fault
        /\ IF x.round = "replace" \/ x.auth <= Clock(x.s)
           THEN End(c, "failed")
           ELSE call' = [call EXCEPT ![c].round = "undo", ![c].pc = "open", ![c].at = Clock(x.s)]
        /\ UNCHANGED trail
  /\ UNCHANGED <<now, rings, highest, handle, revoked>>

\* revokeOpened, with a clock of its own.
StrikeAnyway(c) ==  \* mutant: a revocation that fails does not fail the call
  LET x == call[c] IN
  /\ x.pc = "strike"
  /\ End(c, IF x.round = "undo" THEN "failed" ELSE "ok")
  /\ Insert(IF x.round = "undo" THEN c ELSE x.handle, Clock(x.s)) \/ UNCHANGED revoked
  /\ UNCHANGED <<now, rings, highest, handle, trail, faults>>
Strike(c) ==
  LET x == call[c]
      h == IF x.round = "undo" THEN c ELSE x.handle IN
  /\ x.pc = "strike"
  /\ \/ /\ Insert(h, Clock(x.s))
        /\ End(c, IF x.round = "undo" THEN "failed" ELSE "ok")
     \/ /\ Full(h, Clock(x.s))
        /\ revoked' = Pruned(Clock(x.s))
        /\ End(c, "unavailable")
  /\ UNCHANGED <<now, rings, highest, handle, trail, faults>>

\* The keyring provider, or the store, rejects.
Unavailable(c) ==
  /\ call[c].pc \in {"open", "check", "mint", "strike"}
  /\ Fault
  /\ End(c, "unavailable")
  /\ UNCHANGED <<now, rings, highest, handle, revoked, trail>>

Step(c) == Open(c) \/ Check(c) \/ Confirm(c) \/ Mint(c) \/ Audit(c) \/ Strike(c) \/ Unavailable(c)

Next ==
  \/ \E c \in Calls : Step(c)
  \/ \E c \in Calls, kind \in {"use", "revoke", "select"}, s \in Services, chat \in Chats :
       \E h \in {d \in Handles : Disclosed(d)} \cup {None} : Start(c, kind, s, chat, h)
  \/ \E until \in {None, now + MaxLife + Skew, now + MaxLife + Skew + 1} :
       Rotate(until, now)
  \/ Rotate(None, now + Skew + 1)
  \/ Rekey
  \/ Tick

Spec == Init /\ [][Next]_vars

---------------------------------------------------------------------------
(* Properties.                                                             *)

\* Each service takes a handle for expired by its own clock, and prunes by it.  So one whose clock is
\* behind another's may find the revocation pruned of a handle that it does not take for expired yet.
ExpiredAt(s, h) == handle[h].expires <= Clock(s)
Behind(s) == \E t \in Services : Ahead[t] > Ahead[s]

\* A client holds a handle only when its selection is in the journal and the handle it replaces
\* is dead, expired by the service's own clock or revoked, for every service that is not behind;
\* and a handle is revoked only when its own chat has the successor or has asked for it.  Whatever
\* fails on the way, a chat is left with one usable context at these services.
HandoverComplete ==
  /\ \A c \in Calls : Disclosed(c) =>
       /\ c \in trail
       /\ call[c].handle # None => \A s \in Services : ~Behind(s) =>
            ExpiredAt(s, call[c].handle) \/ \E r \in revoked : r.handle = call[c].handle
  /\ \A r \in revoked : Disclosed(r.handle) =>
       \E c \in Calls :
         /\ call[c].handle = r.handle /\ call[c].out = "ok" /\ call[c].kind # "use"
         /\ call[c].chat = handle[r.handle].chat

\* A rotation whose overlap is as long as it may be takes no context away: a handle that a
\* client holds opens at every service that takes the newest keyring, until it expires.  This is
\* so because the skew allows for the clocks and for the cache together.
RotationKeepsContexts ==
  \A h \in Handles, s \in Services :
    /\ Disclosed(h) /\ handle[h].expires > Clock(s)
    /\ \A i \in DOMAIN rings : i > 1 =>
         /\ rings[i].epoch > rings[i-1].epoch
         /\ \E k \in rings[i].kept : k.until = rings[i].activated + MaxLife + Skew
    /\ Last.epoch <= handle[h].epoch + 1
    => Valid(Last, Clock(s)) /\ Opens(Last, h, handle[h].chat, Clock(s))

\* One service never goes back to an older epoch, nor to another key of an epoch, for the
\* handles it mints, whatever the cache or the key manager serves.
MintingNeverRollsBack ==
  [][\A c, d \in Calls :
       /\ handle[c] = None /\ handle'[c] # None /\ handle[d] # None /\ call[d].s = call[c].s
       => \/ handle'[c].epoch > handle[d].epoch
          \/ handle'[c].epoch = handle[d].epoch /\ handle'[c].key = handle[d].key]_vars
=============================================================================
