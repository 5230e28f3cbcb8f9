------------------------------ MODULE ServerProofs ------------------------------
(***************************************************************************)
(* The safety properties of the facade's parts, as MCServer composes them, *)
(* for every value of the constants.  Each part has its own invariant; a   *)
(* step of one part leaves the others' variables alone, so an invariant of *)
(* a part is one of the composition (the theorems at the end of each       *)
(* section).                                                               *)
(***************************************************************************)
EXTENDS MCServer, FiniteSetTheorems, SequenceTheorems, TLAPS

all == <<part, operationVars, lists, toolVars, catalogVars, subscriptionVars, identityVars, decisionVars>>

-----------------------------------------------------------------------------
(* Identities.                                                             *)

Answers == Identities!Results \cup {"cancelled", "unavailable"}
Probes ==
  [session : Nat, epoch : Nat, phase : {"probing", "saving", "done"}, aborted : BOOLEAN,
   result : Answers \cup {None}, before : Nat]
Waits ==
  [pc : {"idle", "has", "waiting", "done"}, session : Nat, probe : Nat, got : Answers \cup {None, "left"}]

IdentityTypes ==
  /\ epoch \in Nat /\ generation \in Nat /\ file \in Nat /\ binding \in Nat
  /\ caller \in [Callers -> Waits]
  /\ probes \in Seq(Probes)
  /\ inFlight \subseteq DOMAIN probes /\ cache \subseteq DOMAIN probes
  /\ status \in DOMAIN probes \cup {None, Failure}

\* A result that is shown to all was probed in this epoch and is no cancellation; an aborted probe has
\* nobody who waits for it; and what was verified is on record.
PublishedInv ==
  /\ \A p \in cache \cup ({status} \ {None, Failure}) : probes[p].epoch = epoch
  /\ \A p \in cache : probes[p].phase = "done" /\ probes[p].result \in Answers \ {"cancelled"}
WaitersInv ==
  /\ \A c \in Callers : caller[c].got # "cancelled"
  /\ \A c \in Callers : caller[c].pc = "waiting" =>
       caller[c].probe \in DOMAIN probes /\ ~probes[caller[c].probe].aborted
RecordedInv == \A p \in DOMAIN probes : probes[p].result = "verified" => file >= p

IdentityInv == IdentityTypes /\ PublishedInv /\ WaitersInv /\ RecordedInv

\* What the two fields that a step sets at once leave of a record.
LEMMA ProbeWith ==
  ASSUME NEW old \in Probes, NEW phase \in {"saving", "done"}
  PROVE  /\ \A r : [old EXCEPT !.phase = phase, !.result = r]
                     = [session |-> old.session, epoch |-> old.epoch, phase |-> phase,
                        aborted |-> old.aborted, result |-> r, before |-> old.before]
         /\ \A b : [old EXCEPT !.phase = phase, !.before = b]
                     = [session |-> old.session, epoch |-> old.epoch, phase |-> phase,
                        aborted |-> old.aborted, result |-> old.result, before |-> b]
<1>. DEFINE x == [old EXCEPT !.phase = phase]
<1>1. /\ x \in Probes /\ x.session = old.session /\ x.epoch = old.epoch /\ x.phase = phase
      /\ x.aborted = old.aborted /\ x.before = old.before /\ x.result = old.result
  BY DEF Probes
<1>2. ASSUME NEW r PROVE [old EXCEPT !.phase = phase, !.result = r] = [x EXCEPT !.result = r]
  OBVIOUS
<1>3. ASSUME NEW b PROVE [old EXCEPT !.phase = phase, !.before = b] = [x EXCEPT !.before = b]
  OBVIOUS
<1>. HIDE DEF x
<1>4. ASSUME NEW r
      PROVE  [x EXCEPT !.result = r] = [session |-> x.session, epoch |-> x.epoch, phase |-> x.phase,
                                        aborted |-> x.aborted, result |-> r, before |-> x.before]
  BY <1>1 DEF Probes
<1>5. ASSUME NEW b
      PROVE  [x EXCEPT !.before = b] = [session |-> x.session, epoch |-> x.epoch, phase |-> x.phase,
                                        aborted |-> x.aborted, result |-> x.result, before |-> b]
  BY <1>1 DEF Probes
<1>. QED  BY <1>1, <1>2, <1>3, <1>4, <1>5

\* Who waits for a probe, when one caller's record changes.
LEMMA WaitWith ==
  ASSUME NEW old \in Waits, NEW pc \in {"has", "waiting", "done"}
  PROVE  /\ \A s : [old EXCEPT !.pc = pc, !.session = s]
                     = [pc |-> pc, session |-> s, probe |-> old.probe, got |-> old.got]
         /\ \A p : [old EXCEPT !.pc = pc, !.probe = p]
                     = [pc |-> pc, session |-> old.session, probe |-> p, got |-> old.got]
         /\ \A g : [old EXCEPT !.pc = pc, !.got = g]
                     = [pc |-> pc, session |-> old.session, probe |-> old.probe, got |-> g]
<1>. DEFINE x == [old EXCEPT !.pc = pc]
<1>1. x \in Waits /\ x.pc = pc /\ x.session = old.session /\ x.probe = old.probe /\ x.got = old.got
  BY DEF Waits
<1>2. /\ \A s : [old EXCEPT !.pc = pc, !.session = s] = [x EXCEPT !.session = s]
      /\ \A p : [old EXCEPT !.pc = pc, !.probe = p] = [x EXCEPT !.probe = p]
      /\ \A g : [old EXCEPT !.pc = pc, !.got = g] = [x EXCEPT !.got = g]
  OBVIOUS
<1>. HIDE DEF x
<1>3. /\ \A s : [x EXCEPT !.session = s] = [pc |-> x.pc, session |-> s, probe |-> x.probe, got |-> x.got]
      /\ \A p : [x EXCEPT !.probe = p] = [pc |-> x.pc, session |-> x.session, probe |-> p, got |-> x.got]
      /\ \A g : [x EXCEPT !.got = g] = [pc |-> x.pc, session |-> x.session, probe |-> x.probe, got |-> g]
  BY <1>1 DEF Waits
<1>. QED  BY <1>1, <1>2, <1>3, ZenonT(30)

\* A caller that is done waits for nothing.
LEMMA IdleWaits ==
  Identities!Idle \in Waits /\ Identities!Idle.got = None /\ Identities!Idle.pc = "idle"
  /\ Identities!Idle.session = 0 /\ Identities!Idle.probe = 0
<1>1. None \in Answers \cup {None, "left"}
  OBVIOUS
<1>. QED  BY <1>1 DEF Identities!Idle, Waits

\* Callers that get an answer are done; nobody else hears of it.
LEMMA GetsOf ==
  ASSUME IdentityTypes, NEW S \in SUBSET Callers, NEW value \in Answers \cup {"left"}, Identities!Gets(S, value)
  PROVE  /\ caller' \in [Callers -> Waits]
         /\ \A c \in S : caller'[c].pc = "done" /\ caller'[c].got = value
         /\ \A c \in Callers \ S : caller'[c] = caller[c]
<1>. DEFINE one == [pc |-> "done", session |-> 0, probe |-> 0, got |-> value]
<1>1. [Identities!Idle EXCEPT !.pc = "done", !.got = value] = one
  <2>1. [Identities!Idle EXCEPT !.pc = "done", !.got = value]
          = [pc |-> "done", session |-> Identities!Idle.session, probe |-> Identities!Idle.probe, got |-> value]
    BY IdleWaits, WaitWith, ZenonT(30)
  <2>. QED  BY <2>1, IdleWaits
<1>2. caller' = [c \in Callers |-> IF c \in S THEN one ELSE caller[c]]
  BY <1>1 DEF Identities!Gets
<1>3. one \in Waits /\ one.pc = "done" /\ one.got = value
  BY DEF Waits
<1>. QED  BY <1>2, <1>3 DEF IdentityTypes

\* One field of a probe changes.
LEMMA ProbeFields ==
  ASSUME IdentityTypes, NEW p \in DOMAIN probes, NEW q \in Probes, probes' = [probes EXCEPT ![p] = q]
  PROVE  /\ probes' \in Seq(Probes) /\ DOMAIN probes' = DOMAIN probes
         /\ probes'[p] = q /\ \A o \in DOMAIN probes \ {p} : probes'[o] = probes[o]
BY DEF IdentityTypes

\* A probe that settles is published, or not, and told to its callers.
LEMMA SettleStep ==
  ASSUME IdentityInv, NEW p \in DOMAIN probes, NEW result \in Answers,
         Identities!Settle(p, result), probes[p].phase # "done", result = "cancelled" => probes[p].aborted,
         file' \in Nat, file' >= file, result = "verified" => file' >= p,
         binding' \in Nat, UNCHANGED <<epoch, generation>>
  PROVE  IdentityInv'
<1>. DEFINE q == [session |-> probes[p].session, epoch |-> probes[p].epoch, phase |-> "done",
                  aborted |-> probes[p].aborted, result |-> result, before |-> probes[p].before]
<1>1. probes[p] \in Probes
  BY DEF IdentityInv, IdentityTypes
<1>2. q \in Probes
  BY <1>1 DEF Probes
<1>3. [probes[p] EXCEPT !.phase = "done", !.result = result] = q
  BY <1>1, ProbeWith
<1>4. probes' = [probes EXCEPT ![p] = q]
  BY <1>3 DEF Identities!Settle, IdentityInv, IdentityTypes
<1>5. q.epoch = probes[p].epoch /\ q.result = result /\ q.aborted = probes[p].aborted /\ q.phase = "done"
  OBVIOUS
<1>. HIDE DEF q
<1>6. /\ probes' \in Seq(Probes) /\ DOMAIN probes' = DOMAIN probes
      /\ probes'[p] = q /\ \A o \in DOMAIN probes \ {p} : probes'[o] = probes[o]
  BY <1>2, <1>4, ProbeFields DEF IdentityInv
<1>7. Identities!Waiting(p) \in SUBSET Callers /\ Identities!Gets(Identities!Waiting(p), result)
  BY DEF Identities!Waiting, Identities!Settle
<1>8. /\ caller' \in [Callers -> Waits]
      /\ \A c \in Identities!Waiting(p) : caller'[c].pc = "done" /\ caller'[c].got = result
      /\ \A c \in Callers \ Identities!Waiting(p) : caller'[c] = caller[c]
  BY <1>7, GetsOf DEF IdentityInv
<1>9. result = "cancelled" => Identities!Waiting(p) = {}
  BY DEF Identities!Waiting, IdentityInv, WaitersInv
<1>10. \/ /\ probes[p].epoch = epoch /\ result # "cancelled"
          /\ cache' \subseteq cache \cup {p} /\ status' = p
       \/ UNCHANGED <<cache, status>>
  BY DEF Identities!Settle, Identities!Publishes, Identities!Without
<1>11. inFlight' \subseteq inFlight
  BY DEF Identities!Settle
<1>12. IdentityTypes'
  BY <1>6, <1>8, <1>10, <1>11 DEF IdentityInv, IdentityTypes
<1>13. PublishedInv'
  <2>1. \A o \in DOMAIN probes : probes'[o].epoch = probes[o].epoch
    BY <1>5, <1>6
  <2>2. p \notin cache
    BY DEF IdentityInv, PublishedInv
  <2>. QED  BY <1>5, <1>6, <1>10, <2>1, <2>2 DEF IdentityInv, IdentityTypes, PublishedInv
<1>14. WaitersInv'
  BY <1>5, <1>6, <1>8, <1>9 DEF IdentityInv, IdentityTypes, WaitersInv, Identities!Waiting
<1>15. RecordedInv'
  <2>. SUFFICES ASSUME NEW o \in DOMAIN probes', probes'[o].result = "verified" PROVE file' >= o
    BY DEF RecordedInv
  <2>1. CASE o = p
    BY <2>1, <1>5, <1>6
  <2>2. CASE o # p
    <3>1. file >= o /\ o \in Nat /\ file \in Nat
      BY <2>2, <1>6 DEF IdentityInv, IdentityTypes, RecordedInv
    <3>. QED  BY <3>1
  <2>. QED  BY <2>1, <2>2
<1>. QED  BY <1>12, <1>13, <1>14, <1>15 DEF IdentityInv

\* Evidence that matches is bound, and saved before it counts.
LEMMA ProbeEndsStep ==
  ASSUME IdentityInv, NEW p \in DOMAIN probes, Identities!ProbeEnds(p)
  PROVE  IdentityInv'
<1>1. PICK result \in (IF probes[p].aborted THEN {"cancelled"} ELSE Identities!Results) :
        IF result = "verified" /\ ~storeDown
        THEN /\ binding' = p
             /\ probes' = [probes EXCEPT ![p].phase = "saving", ![p].before = binding]
             /\ UNCHANGED <<caller, inFlight, cache, status>>
        ELSE /\ Identities!Settle(p, IF result = "cancelled" \/ ~storeDown THEN result ELSE "unavailable")
             /\ UNCHANGED binding
  BY DEF Identities!ProbeEnds
<1>2. UNCHANGED <<epoch, generation, file>> /\ file \in Nat /\ binding \in Nat /\ p \in Nat /\ probes[p] \in Probes
  BY DEF Identities!ProbeEnds, IdentityInv, IdentityTypes
<1>3. CASE result = "verified" /\ ~storeDown
  <2>. DEFINE q == [session |-> probes[p].session, epoch |-> probes[p].epoch, phase |-> "saving",
                    aborted |-> probes[p].aborted, result |-> probes[p].result, before |-> binding]
  <2>1. q \in Probes
    BY <1>2 DEF Probes
  <2>2. [probes[p] EXCEPT !.phase = "saving", !.before = binding] = q
    BY <1>2, ProbeWith
  <2>3. probes' = [probes EXCEPT ![p] = q] /\ binding' = p /\ UNCHANGED <<caller, inFlight, cache, status>>
    BY <1>1, <1>3, <2>2 DEF IdentityInv, IdentityTypes
  <2>4. q.epoch = probes[p].epoch /\ q.result = probes[p].result /\ q.aborted = probes[p].aborted
    OBVIOUS
  <2>. HIDE DEF q
  <2>5. /\ probes' \in Seq(Probes) /\ DOMAIN probes' = DOMAIN probes
        /\ probes'[p] = q /\ \A o \in DOMAIN probes \ {p} : probes'[o] = probes[o]
    BY <2>1, <2>3, ProbeFields DEF IdentityInv
  <2>6. \A o \in DOMAIN probes : /\ probes'[o].epoch = probes[o].epoch
                                 /\ probes'[o].result = probes[o].result
                                 /\ probes'[o].aborted = probes[o].aborted
    BY <2>4, <2>5
  <2>7. IdentityTypes'
    BY <1>2, <2>3, <2>5 DEF IdentityInv, IdentityTypes
  <2>8. probes[p].phase = "probing"
    BY DEF Identities!ProbeEnds
  <2>9. PublishedInv'
    BY <1>2, <2>3, <2>5, <2>6, <2>8 DEF IdentityInv, IdentityTypes, PublishedInv
  <2>10. WaitersInv' /\ RecordedInv'
    BY <1>2, <2>3, <2>5, <2>6 DEF IdentityInv, WaitersInv, RecordedInv
  <2>. QED  BY <2>7, <2>9, <2>10 DEF IdentityInv
<1>4. CASE ~(result = "verified" /\ ~storeDown)
  <2>. DEFINE told == IF result = "cancelled" \/ ~storeDown THEN result ELSE "unavailable"
  <2>1. Identities!Settle(p, told) /\ UNCHANGED binding
    BY <1>1, <1>4
  <2>2. /\ told \in Answers /\ told # "verified"
        /\ told = "cancelled" => probes[p].aborted
    BY <1>1, <1>4 DEF Answers, Identities!Results
  <2>. HIDE DEF told
  <2>3. file' \in Nat /\ file' >= file /\ binding' \in Nat
    BY <1>2, <2>1
  <2>4. probes[p].phase # "done"
    BY DEF Identities!ProbeEnds
  <2>. QED  BY <1>2, <2>1, <2>2, <2>3, <2>4, SettleStep
<1>. QED  BY <1>3, <1>4

\* The store keeps the newest evidence; a failure is told, and not the verification.
LEMMA SaveEndsStep ==
  ASSUME IdentityInv, NEW p \in DOMAIN probes, Identities!SaveEnds(p)
  PROVE  IdentityInv'
<1>1. /\ UNCHANGED <<epoch, generation>> /\ file \in Nat /\ binding \in Nat /\ p \in Nat /\ probes[p].before \in Nat
      /\ probes[p].phase # "done"
  <2>1. probes[p] \in Probes /\ p \in Nat
    BY DEF IdentityInv, IdentityTypes
  <2>2. UNCHANGED <<epoch, generation>> /\ probes[p].phase = "saving"
    BY DEF Identities!SaveEnds
  <2>. QED  BY <2>1, <2>2 DEF IdentityInv, IdentityTypes, Probes
<1>2. CASE file' = Identities!Newest(p) /\ Identities!Settle(p, "verified") /\ UNCHANGED <<binding, storeDown>>
  <2>1. file' \in Nat /\ file' >= file /\ file' >= p /\ binding' \in Nat
    BY <1>1, <1>2 DEF Identities!Newest
  <2>2. "verified" \in Answers /\ "verified" # "cancelled"
    BY DEF Answers, Identities!Results
  <2>. QED  BY <1>1, <1>2, <2>1, <2>2, SettleStep
<1>3. CASE Identities!Rejected(p) /\ UNCHANGED file
  <2>1. file' \in Nat /\ file' >= file /\ binding' \in Nat /\ Identities!Settle(p, "unavailable")
    BY <1>1, <1>3 DEF Identities!Rejected
  <2>2. "unavailable" \in Answers /\ "unavailable" # "cancelled" /\ "unavailable" # "verified"
    BY DEF Answers
  <2>. QED  BY <1>1, <2>1, <2>2, SettleStep
<1>. QED  BY <1>2, <1>3 DEF Identities!SaveEnds

\* A caller gets the cached result, or waits for a probe that nobody has given up.
LEMMA VerifyStep ==
  ASSUME IdentityInv, NEW c \in Callers, NEW force \in BOOLEAN, Identities!Verify(c, force)
  PROVE  IdentityInv'
<1>. DEFINE key == <<caller[c].session, epoch>>
            WaitFor(p) == caller' = [caller EXCEPT ![c].pc = "waiting", ![c].probe = p]
            next == Len(probes) + 1
            new == [session |-> key[1], epoch |-> epoch, phase |-> "probing",
                    aborted |-> FALSE, result |-> None, before |-> 0]
<1>1. /\ UNCHANGED <<epoch, generation, cache, status, binding, file>>
      /\ caller[c] \in Waits /\ probes \in Seq(Probes) /\ epoch \in Nat /\ file \in Nat
  BY DEF Identities!Verify, IdentityInv, IdentityTypes
<1>2. ASSUME NEW p \in Nat, WaitFor(p)
      PROVE  /\ caller' \in [Callers -> Waits] /\ caller'[c].pc = "waiting" /\ caller'[c].probe = p
             /\ caller'[c].got = caller[c].got /\ \A d \in Callers \ {c} : caller'[d] = caller[d]
  <2>1. [caller[c] EXCEPT !.pc = "waiting", !.probe = p]
          = [pc |-> "waiting", session |-> caller[c].session, probe |-> p, got |-> caller[c].got]
    BY <1>1, WaitWith
  <2>2. caller' = [caller EXCEPT ![c] = [pc |-> "waiting", session |-> caller[c].session, probe |-> p,
                                         got |-> caller[c].got]]
    BY <1>2, <2>1 DEF IdentityInv, IdentityTypes
  <2>3. [pc |-> "waiting", session |-> caller[c].session, probe |-> p, got |-> caller[c].got] \in Waits
    BY <1>1 DEF Waits
  <2>. QED  BY <2>2, <2>3 DEF IdentityInv, IdentityTypes
<1>3. CASE \E p \in cache : Identities!Gets({c}, probes[p].result) /\ UNCHANGED <<probes, inFlight>>
  <2>1. PICK p \in cache : Identities!Gets({c}, probes[p].result) /\ UNCHANGED <<probes, inFlight>>
    BY <1>3
  <2>2. PICK value \in Answers \ {"cancelled"} : value = probes[p].result
    BY DEF IdentityInv, PublishedInv
  <2>3. {c} \in SUBSET Callers /\ Identities!Gets({c}, value)
    BY <2>1, <2>2
  <2>4. /\ caller' \in [Callers -> Waits] /\ caller'[c].pc = "done" /\ caller'[c].got = value
        /\ \A d \in Callers \ {c} : caller'[d] = caller[d]
    BY <2>2, <2>3, GetsOf DEF IdentityInv
  <2>. QED
    BY <1>1, <2>1, <2>2, <2>4 DEF IdentityInv, IdentityTypes, PublishedInv, WaitersInv, RecordedInv
<1>4. CASE \E p \in inFlight : Identities!Joins(p, key) /\ WaitFor(p) /\ UNCHANGED <<probes, inFlight>>
  <2>1. PICK p \in inFlight : Identities!Joins(p, key) /\ WaitFor(p) /\ UNCHANGED <<probes, inFlight>>
    BY <1>4
  <2>2. p \in DOMAIN probes /\ p \in Nat /\ ~probes[p].aborted
    BY <2>1 DEF IdentityInv, IdentityTypes, Identities!Joins
  <2>3. /\ caller' \in [Callers -> Waits] /\ caller'[c].pc = "waiting" /\ caller'[c].probe = p
        /\ caller'[c].got = caller[c].got /\ \A d \in Callers \ {c} : caller'[d] = caller[d]
    BY <1>2, <2>1, <2>2
  <2>. QED
    BY <1>1, <2>1, <2>2, <2>3 DEF IdentityInv, IdentityTypes, PublishedInv, WaitersInv, RecordedInv
<1>5. CASE /\ probes' = Append(probes, new) /\ inFlight' = Identities!Without(inFlight, key) \cup {next}
           /\ WaitFor(next)
  <2>1. new \in Probes /\ new.result = None /\ ~new.aborted
    BY <1>1 DEF Probes, Waits
  <2>. HIDE DEF new
  <2>2. /\ probes' \in Seq(Probes) /\ DOMAIN probes' = DOMAIN probes \cup {next} /\ next \in Nat
        /\ next \notin DOMAIN probes /\ probes'[next] = new
        /\ \A o \in DOMAIN probes : probes'[o] = probes[o]
    BY <1>1, <1>5, <2>1
  <2>3. /\ caller' \in [Callers -> Waits] /\ caller'[c].pc = "waiting" /\ caller'[c].probe = next
        /\ caller'[c].got = caller[c].got /\ \A d \in Callers \ {c} : caller'[d] = caller[d]
    BY <1>2, <1>5, <2>2
  <2>4. inFlight' \subseteq inFlight \cup {next}
    BY <1>5 DEF Identities!Without
  <2>. HIDE DEF next
  <2>5. IdentityTypes'
    BY <1>1, <2>2, <2>3, <2>4 DEF IdentityInv, IdentityTypes
  <2>6. PublishedInv'
    BY <1>1, <2>2 DEF IdentityInv, IdentityTypes, PublishedInv
  <2>7. WaitersInv'
    BY <2>1, <2>2, <2>3 DEF IdentityInv, IdentityTypes, WaitersInv
  <2>8. RecordedInv'
    BY <1>1, <2>1, <2>2, ServerAssumption DEF IdentityInv, RecordedInv
  <2>. QED  BY <2>5, <2>6, <2>7, <2>8 DEF IdentityInv
<1>. QED
  <2>1. \/ \E p \in cache \ aged : Identities!Gets({c}, probes[p].result) /\ UNCHANGED <<probes, inFlight>>
        \/ \E p \in inFlight : Identities!Joins(p, key) /\ WaitFor(p) /\ UNCHANGED <<probes, inFlight>>
        \/ /\ probes' = Append(probes, new) /\ inFlight' = Identities!Without(inFlight, key) \cup {next}
           /\ WaitFor(next)
    BY Zenon DEF Identities!Verify
  <2>. HIDE DEF key, WaitFor, next, new
  <2>. QED  BY <1>3, <1>4, <1>5, <2>1

\* A caller leaves, and aborts a probe that nobody else waits for.
LEMMA CancelStep ==
  ASSUME IdentityInv, NEW c \in Callers, Identities!Cancel(c)
  PROVE  IdentityInv'
<1>1. PICK p \in DOMAIN probes : p = caller[c].probe
  BY DEF Identities!Cancel, IdentityInv, WaitersInv
<1>2. PICK gone \in BOOLEAN : gone = (probes[p].aborted \/ Identities!Waiting(p) = {c})
  OBVIOUS
<1>. DEFINE q == [session |-> probes[p].session, epoch |-> probes[p].epoch, phase |-> probes[p].phase,
                  aborted |-> gone, result |-> probes[p].result, before |-> probes[p].before]
<1>3. /\ UNCHANGED <<epoch, generation, inFlight, cache, status, binding, file>>
      /\ probes[p] \in Probes /\ caller[c].pc = "waiting" /\ Identities!Gets({c}, "left")
  BY DEF Identities!Cancel, IdentityInv, IdentityTypes
<1>4. [probes[p] EXCEPT !.aborted = gone] = q
  BY <1>3 DEF Probes
<1>5. probes' = [probes EXCEPT ![p] = q]
  BY <1>1, <1>2, <1>4, Zenon DEF Identities!Cancel
<1>6. /\ q \in Probes /\ q.epoch = probes[p].epoch /\ q.result = probes[p].result /\ q.aborted = gone
      /\ q.phase = probes[p].phase
  BY <1>3 DEF Probes
<1>. HIDE DEF q
<1>7. /\ probes' \in Seq(Probes) /\ DOMAIN probes' = DOMAIN probes
      /\ probes'[p] = q /\ \A o \in DOMAIN probes \ {p} : probes'[o] = probes[o]
  BY <1>5, <1>6, ProbeFields DEF IdentityInv
<1>8. /\ caller' \in [Callers -> Waits] /\ caller'[c].pc = "done" /\ caller'[c].got = "left"
      /\ \A d \in Callers \ {c} : caller'[d] = caller[d]
  BY <1>3, GetsOf DEF IdentityInv
<1>9. ASSUME NEW d \in Callers \ {c}, caller[d].pc = "waiting", caller[d].probe = p
      PROVE  gone = FALSE
  BY <1>2, <1>9 DEF Identities!Waiting, IdentityInv, WaitersInv
<1>10. IdentityTypes'
  BY <1>3, <1>7, <1>8 DEF IdentityInv, IdentityTypes
<1>11. PublishedInv' /\ RecordedInv'
  BY <1>3, <1>6, <1>7 DEF IdentityInv, IdentityTypes, PublishedInv, RecordedInv
<1>12. WaitersInv'
  <2>1. ASSUME NEW d \in Callers, caller'[d].pc = "waiting"
        PROVE  caller'[d].probe \in DOMAIN probes' /\ ~probes'[caller'[d].probe].aborted
    <3>1. d # c /\ caller'[d] = caller[d] /\ caller[d].pc = "waiting"
      BY <2>1, <1>8
    <3>2. caller[d].probe \in DOMAIN probes /\ ~probes[caller[d].probe].aborted
      BY <3>1 DEF IdentityInv, WaitersInv
    <3>. QED  BY <3>1, <3>2, <1>6, <1>7, <1>9
  <2>2. ASSUME NEW d \in Callers PROVE caller'[d].got # "cancelled"
    BY <1>8 DEF IdentityInv, WaitersInv
  <2>. QED  BY <2>1, <2>2 DEF WaitersInv
<1>. QED  BY <1>10, <1>11, <1>12 DEF IdentityInv

\* The remaining steps touch no probe; an invalidation takes back what was published.
LEMMA OtherSteps ==
  ASSUME IdentityInv,
         \/ Identities!Invalidate \/ Identities!StoreBreaks
         \/ \E c \in Callers : Identities!Acquire(c) \/ Identities!AcquisitionFails(c)
         \/ \E p \in DOMAIN probes : Identities!Ages(p)
  PROVE  IdentityInv'
<1>1. CASE Identities!Invalidate
  <2>1. /\ cache' = {} /\ inFlight' = {} /\ status' = None /\ epoch' \in Nat /\ generation' \in Nat
        /\ UNCHANGED <<caller, probes, binding, file>>
    BY <1>1 DEF Identities!Invalidate, IdentityInv, IdentityTypes
  <2>. QED  BY <2>1 DEF IdentityInv, IdentityTypes, PublishedInv, WaitersInv, RecordedInv
<1>2. CASE Identities!StoreBreaks \/ \E p \in DOMAIN probes : Identities!Ages(p)
  <2>1. UNCHANGED <<epoch, generation, caller, probes, inFlight, cache, status, binding, file>>
    BY <1>2 DEF Identities!StoreBreaks, Identities!Ages
  <2>. QED  BY <2>1 DEF IdentityInv, IdentityTypes, PublishedInv, WaitersInv, RecordedInv
<1>3. ASSUME NEW c \in Callers, Identities!Acquire(c) PROVE IdentityInv'
  <2>1. UNCHANGED <<epoch, generation, probes, inFlight, cache, status, binding, file>>
    BY <1>3 DEF Identities!Acquire
  <2>2. caller' = [caller EXCEPT ![c] = [pc |-> "has", session |-> generation, probe |-> caller[c].probe,
                                         got |-> caller[c].got]]
    <3>1. caller[c] \in Waits
      BY DEF IdentityInv, IdentityTypes
    <3>2. [caller[c] EXCEPT !.pc = "has", !.session = generation]
            = [pc |-> "has", session |-> generation, probe |-> caller[c].probe, got |-> caller[c].got]
      BY <3>1, WaitWith
    <3>. QED  BY <1>3, <3>2 DEF Identities!Acquire, IdentityInv, IdentityTypes
  <2>3. /\ caller' \in [Callers -> Waits] /\ caller'[c].pc = "has" /\ caller'[c].got = caller[c].got
        /\ \A d \in Callers \ {c} : caller'[d] = caller[d]
    BY <2>2 DEF IdentityInv, IdentityTypes, Waits
  <2>. QED  BY <2>1, <2>3 DEF IdentityInv, IdentityTypes, PublishedInv, WaitersInv, RecordedInv
<1>4. ASSUME NEW c \in Callers, Identities!AcquisitionFails(c) PROVE IdentityInv'
  <2>1. status' = Failure /\ UNCHANGED <<epoch, generation, caller, probes, inFlight, cache, binding, file>>
    BY <1>4 DEF Identities!AcquisitionFails
  <2>. QED  BY <2>1 DEF IdentityInv, IdentityTypes, PublishedInv, WaitersInv, RecordedInv
<1>. QED  BY <1>1, <1>2, <1>3, <1>4

\* IdentityManager: what it publishes is of the upstream's last life, nobody hears of a cancellation not
\* its own, and what counts as verified is on record, however probes, restarts, cancellations, failing
\* saves and invalidations interleave.
THEOREM IdentitiesAreHonest == ServerSpec => []IdentityIsHonest
<1>. DEFINE Inv == part = "identities" => IdentityInv
<1>1. ServerInit => Inv
  <2>. SUFFICES ASSUME Identities!Init PROVE IdentityInv
    BY DEF ServerInit
  <2>1. probes = <<>> /\ Identities!Idle \in Waits /\ Identities!Idle.got = None /\ Identities!Idle.pc = "idle"
    BY IdleWaits DEF Identities!Init
  <2>2. \A c \in Callers : caller[c] = Identities!Idle
    BY DEF Identities!Init
  <2>3. IdentityTypes
    BY <2>1 DEF Identities!Init, IdentityTypes
  <2>4. PublishedInv /\ WaitersInv /\ RecordedInv
    BY <2>1, <2>2, ServerAssumption DEF Identities!Init, PublishedInv, WaitersInv, RecordedInv
  <2>. QED  BY <2>3, <2>4 DEF IdentityInv
<1>2. Inv /\ [ServerNext]_all => Inv'
  <2>. SUFFICES ASSUME Inv, [ServerNext]_all, part' = "identities" PROVE IdentityInv'
    OBVIOUS
  <2>1. part = "identities" /\ (Identities!Next \/ UNCHANGED identityVars)
    BY DEF ServerNext, all, Request, ListTools, ListResources, Subscribe, VerifyIdentity, Rule
  <2>2. CASE Identities!Next
    <3>1. 1..Len(probes) = DOMAIN probes
      BY <2>1 DEF IdentityInv, IdentityTypes
    <3>. QED
      BY <2>1, <2>2, <3>1, ProbeEndsStep, SaveEndsStep, VerifyStep, CancelStep, OtherSteps
      DEF Identities!Next
  <2>3. CASE UNCHANGED identityVars
    BY <2>1, <2>3 DEF identityVars, IdentityInv, IdentityTypes, PublishedInv, WaitersInv, RecordedInv
  <2>. QED  BY <2>1, <2>2, <2>3
<1>3. Inv => IdentityIsHonest
  <2>1. IdentityInv => Identities!IdentityIsHonest
    BY DEF IdentityInv, IdentityTypes, PublishedInv, WaitersInv, RecordedInv, Identities!IdentityIsHonest
  <2>. QED  BY <2>1 DEF IdentityIsHonest
<1>. QED  BY <1>1, <1>2, <1>3, PTL DEF ServerSpec, all

-----------------------------------------------------------------------------
(* The catalogue of resources and prompts.                                 *)

PageMaps == UNION {[S -> Nat] : S \in SUBSET Upstreams}
Gots == [ok : BOOLEAN, ver : 0..MaxVer]
GotMaps == UNION {[S -> Gots \cup {None}] : S \in SUBSET Upstreams}
Entries == [of : Upstreams, page : 0..Pages, ver : 0..MaxVer]
Lists ==
  [op : {None, "list", "read"}, pc : {"new", "listing", "found", "reading", "done"}, kind : Catalog!Kinds \cup {None},
   pages : PageMaps \cup {<<>>}, got : GotMaps \cup {<<>>}, lost : SUBSET Catalog!Kinds, of : Upstreams \cup {None},
   ver : 0..MaxVer, round : Nat, told : BOOLEAN]

\* What a request brings is no older than the last invalidation of its kind, unless it is lost to the request.
Asks(r, since) ==
  r.pc = "listing" =>
    /\ r.kind \in (IF r.op = "list" THEN Catalog!Kinds ELSE Catalog!Groups)
    /\ r.pages \in PageMaps /\ r.got \in GotMaps /\ DOMAIN r.got = DOMAIN r.pages
    /\ r.kind \notin r.lost => \A u \in DOMAIN r.got :
         r.got[u] # None /\ r.got[u].ok => r.got[u].ver >= since[<<Catalog!GroupOf(r.kind), u>>]
Seeks(r) == r.pc \in {"found", "reading"} => r.kind \in Catalog!Groups
Reads(r, since) ==
  r.pc = "reading" =>
    /\ r.of \in Upstreams
    /\ "resources" \notin r.lost => r.ver >= since[<<"resources", r.of>>]
ListOK(r, since) == r \in Lists /\ Asks(r, since) /\ Seeks(r) /\ Reads(r, since)

\* Neither is a route or a cursor.
CursorOK(c, since) ==
  /\ c \in [kind : {c.kind}, pages : {c.pages}, ver : {c.ver}, turn : {c.turn}]
  /\ c.kind \in Catalog!Kinds /\ c.pages \in PageMaps
  /\ \A u \in DOMAIN c.pages : c.ver[u] >= since[<<Catalog!GroupOf(c.kind), u>>]
EntryOK(k, r, since) == r \in Entries /\ r.ver >= since[<<Catalog!GroupOf(k), r.of>>]

Versions ==
  /\ ver \in [Catalog!Groups \X Upstreams -> 0..MaxVer]
  /\ known \in [Catalog!Groups \X Upstreams -> 0..MaxVer]
  /\ \A x \in Catalog!Groups \X Upstreams : ver[x] >= known[x]
CatalogTypes ==
  /\ strict \in BOOLEAN
  /\ DOMAIN routes = Catalog!Kinds
  /\ avail \in [Catalog!Kinds -> [Upstreams -> BOOLEAN \cup {None}]]
  /\ view \in [Catalog!Kinds -> (SUBSET Upstreams) \cup {None}]
  /\ task \in [Catalog!Tasks -> Lists]
Currents ==
  /\ \A t \in Catalog!Tasks : ListOK(task[t], known)
  /\ \A k \in Catalog!Kinds : \A r \in Catalog!RoutesOf(k) : EntryOK(k, r, known)
  /\ \A c \in cursors : CursorOK(c, known)

\* What a settled client was shown is what is available, and has its routes.
SettledInv(k) ==
  Catalog!Settled(k) =>
    /\ view[k] = {} => Upstreams = {}
    /\ strict => view[k] = Upstreams
    /\ \A u \in Upstreams :
         /\ avail[k][u] \in BOOLEAN
         /\ u \in view[k] <=> avail[k][u]
         /\ u \in view[k] => \E r \in Catalog!RoutesOf(k) : r.of = u /\ r.page = 1

CatalogInv == Versions /\ CatalogTypes /\ Currents /\ \A k \in Catalog!Kinds : SettledInv(k)

\* Each kind of catalogue is in one group.
LEMMA KindsAndGroups ==
  /\ Catalog!Groups \subseteq Catalog!Kinds
  /\ \A k \in Catalog!Kinds : Catalog!GroupOf(k) \in Catalog!Groups /\ k \in Catalog!KindsOf(Catalog!GroupOf(k))
  /\ \A g \in Catalog!Groups : Catalog!GroupOf(g) = g /\ g \in Catalog!KindsOf(g)
  /\ \A g \in Catalog!Groups : \A k \in Catalog!KindsOf(g) : k \in Catalog!Kinds /\ Catalog!GroupOf(k) = g
BY DEF Catalog!Groups, Catalog!Kinds, Catalog!GroupOf, Catalog!KindsOf

\* A request that is told of a notification is as good as before.
LEMMA ToldList ==
  ASSUME NEW r, NEW since, ListOK(r, since)
  PROVE  ListOK([r EXCEPT !.told = TRUE], since)
<1>. DEFINE s == [r EXCEPT !.told = TRUE]
<1>1. /\ s \in Lists /\ s.op = r.op /\ s.pc = r.pc /\ s.kind = r.kind /\ s.pages = r.pages /\ s.got = r.got
      /\ s.lost = r.lost /\ s.of = r.of /\ s.ver = r.ver
  BY DEF ListOK, Lists
<1>. HIDE DEF s
<1>2. Asks(s, since)
  BY <1>1 DEF ListOK, Asks
<1>3. Seeks(s) /\ Reads(s, since)
  BY <1>1 DEF ListOK, Seeks, Reads
<1>. QED  BY <1>1, <1>2, <1>3 DEF ListOK, s

\* What is invalidated is lost to the requests under way.
LEMMA StaleList ==
  ASSUME NEW r, ListOK(r, known), NEW kinds \in SUBSET Catalog!Kinds,
         \A x \in Catalog!Groups \X Upstreams : known'[x] = known[x] \/ Catalog!KindsOf(x[1]) \subseteq kinds
  PROVE  ListOK([r EXCEPT !.lost = @ \cup kinds], known')
<1>. DEFINE s == [r EXCEPT !.lost = @ \cup kinds]
<1>1. /\ s \in Lists /\ s.op = r.op /\ s.pc = r.pc /\ s.kind = r.kind /\ s.pages = r.pages /\ s.got = r.got
      /\ s.lost = r.lost \cup kinds /\ s.of = r.of /\ s.ver = r.ver
  BY DEF ListOK, Lists
<1>. HIDE DEF s
<1>2. ASSUME s.pc = "listing", s.kind \notin s.lost, NEW u \in DOMAIN s.got, s.got[u] # None, s.got[u].ok
      PROVE  s.got[u].ver >= known'[<<Catalog!GroupOf(s.kind), u>>]
  <2>1. r.kind \in Catalog!Kinds /\ r.kind \notin r.lost /\ r.kind \notin kinds /\ u \in Upstreams
    BY <1>1, <1>2, KindsAndGroups DEF ListOK, Asks, GotMaps
  <2>2. <<Catalog!GroupOf(r.kind), u>> \in Catalog!Groups \X Upstreams
    BY <2>1, KindsAndGroups
  <2>3. known'[<<Catalog!GroupOf(r.kind), u>>] = known[<<Catalog!GroupOf(r.kind), u>>]
    BY <2>1, <2>2, KindsAndGroups
  <2>. QED  BY <1>1, <1>2, <2>1, <2>3 DEF ListOK, Asks
<1>3. ASSUME s.pc = "reading", "resources" \notin s.lost
      PROVE  s.ver >= known'[<<"resources", s.of>>]
  <2>1. r.of \in Upstreams /\ "resources" \in Catalog!Groups /\ "resources" \in Catalog!KindsOf("resources")
    BY <1>1, <1>3, KindsAndGroups DEF ListOK, Reads, Catalog!Groups
  <2>2. known'[<<"resources", r.of>>] = known[<<"resources", r.of>>]
    BY <1>1, <1>3, <2>1
  <2>. QED  BY <1>1, <1>3, <2>2 DEF ListOK, Reads
<1>4. Asks(s, known')
  BY <1>1, <1>2 DEF ListOK, Asks
<1>5. Seeks(s) /\ Reads(s, known')
  BY <1>1, <1>3 DEF ListOK, Seeks, Reads
<1>. QED  BY <1>1, <1>4, <1>5 DEF ListOK, s

\* A request that is not under way rests on nothing.
LEMMA IdleList ==
  ASSUME NEW r \in Lists, r.pc \in {"new", "done"}, NEW since
  PROVE  ListOK(r, since)
BY DEF ListOK, Asks, Seeks, Reads

\* The counters may begin.
LEMMA Zeros == 0 \in 0..MaxVer /\ 0 \in 0..Pages
BY ServerAssumption

\* The records a request may become.
LEMMA NewLists ==
  /\ Catalog!NoTask \in Lists /\ Catalog!NoTask.pc = "new"
  /\ Catalog!Done \in Lists /\ Catalog!Done.pc = "done"
  /\ \A g \in Catalog!Groups : \A since : ListOK(Catalog!Located(g), since)
<1>1. /\ {} \in SUBSET Catalog!Kinds /\ None \in Catalog!Kinds \cup {None} /\ None \in Upstreams \cup {None}
      /\ <<>> \in PageMaps \cup {<<>>} /\ <<>> \in GotMaps \cup {<<>>} /\ None \in {None, "list", "read"}
  OBVIOUS
<1>2. Catalog!NoTask \in Lists /\ Catalog!NoTask.pc = "new"
  BY <1>1, Zeros DEF Catalog!NoTask, Lists
<1>3. Catalog!Done \in Lists /\ Catalog!Done.pc = "done"
  BY <1>2 DEF Catalog!Done, Lists
<1>4. ASSUME NEW g \in Catalog!Groups, NEW since PROVE ListOK(Catalog!Located(g), since)
  <2>1. /\ Catalog!Located(g) \in Lists /\ Catalog!Located(g).pc = "found" /\ Catalog!Located(g).kind = g
    BY <1>1, Zeros, KindsAndGroups DEF Catalog!Located, Lists
  <2>. QED  BY <2>1 DEF ListOK, Asks, Seeks, Reads
<1>. QED  BY <1>2, <1>3, <1>4

\* A listing that begins is well formed.
LEMMA ListingOK ==
  ASSUME NEW what \in {"list", "read"}, NEW k \in (IF what = "list" THEN Catalog!Kinds ELSE Catalog!Groups), NEW pages \in PageMaps, NEW round \in Nat,
         NEW told \in BOOLEAN, NEW since
  PROVE  ListOK(Catalog!Listing(what, k, pages, round, told), since)
<1>. DEFINE r == Catalog!Listing(what, k, pages, round, told)
            got == [u \in DOMAIN pages |-> None]
<1>1. PICK S \in SUBSET Upstreams : pages \in [S -> Nat]
  BY DEF PageMaps
<1>2. got \in [S -> Gots \cup {None}] /\ DOMAIN got = DOMAIN pages
  BY <1>1
<1>3. got \in GotMaps /\ \A u \in DOMAIN got : got[u] = None
  BY <1>2 DEF GotMaps
<1>4. r = [op |-> what, pc |-> "listing", kind |-> k, pages |-> pages, got |-> got, lost |-> {},
           of |-> None, ver |-> 0, round |-> round, told |-> told]
  BY DEF Catalog!Listing
<1>. HIDE DEF got
<1>5. k \in Catalog!Kinds
  BY KindsAndGroups
<1>6. r \in Lists /\ r.op = what /\ r.pc = "listing" /\ r.kind = k /\ r.pages = pages /\ r.got = got
  BY <1>3, <1>4, <1>5, Zeros DEF Lists
<1>. HIDE DEF r
<1>7. Asks(r, since)
  BY <1>2, <1>3, <1>6 DEF Asks
<1>8. Seeks(r) /\ Reads(r, since)
  BY <1>6 DEF Seeks, Reads
<1>. QED  BY <1>6, <1>7, <1>8 DEF ListOK, r

\* The first pages are those of every upstream.
LEMMA FirstPagesType == Catalog!FirstPages \in PageMaps /\ DOMAIN Catalog!FirstPages = Upstreams
BY DEF Catalog!FirstPages, PageMaps

\* A request that is bound to an upstream is as old as the upstream's catalogue.
LEMMA BoundOK ==
  ASSUME CatalogInv, NEW k \in Catalog!Groups, NEW u \in Upstreams
  PROVE  ListOK(Catalog!Bound(k, u), known)
<1>. DEFINE r == Catalog!Bound(k, u)
<1>1. <<"resources", u>> \in Catalog!Groups \X Upstreams
  BY DEF Catalog!Groups
<1>2. ver[<<"resources", u>>] \in 0..MaxVer /\ ver[<<"resources", u>>] >= known[<<"resources", u>>]
  BY <1>1 DEF CatalogInv, Versions
<1>3. PICK n \in 0..MaxVer : n = ver[<<"resources", u>>]
  BY <1>2
<1>4. r = [op |-> "read", pc |-> "reading", kind |-> k, pages |-> <<>>, got |-> <<>>, lost |-> {},
           of |-> u, ver |-> n, round |-> 0, told |-> FALSE]
  BY <1>3 DEF Catalog!Bound
<1>5. r \in Lists /\ r.pc = "reading" /\ r.kind = k /\ r.of = u /\ r.ver = n
  BY <1>4, KindsAndGroups DEF Lists
<1>. HIDE DEF r
<1>6. Asks(r, known) /\ Seeks(r)
  BY <1>5 DEF Asks, Seeks
<1>7. Reads(r, known)
  BY <1>2, <1>3, <1>5 DEF Reads
<1>. QED  BY <1>5, <1>6, <1>7 DEF ListOK, r

\* To rank cursors changes nothing but their turns.
LEMMA TurnOK ==
  ASSUME NEW since, NEW c, CursorOK(c, since), NEW n
  PROVE  CursorOK([c EXCEPT !.turn = n], since)
<1>. DEFINE d == [c EXCEPT !.turn = n]
<1>1. c \in [kind : {c.kind}, pages : {c.pages}, ver : {c.ver}, turn : {c.turn}]
  BY DEF CursorOK
<1>2. d.kind = c.kind /\ d.pages = c.pages /\ d.ver = c.ver /\ d.turn = n
  BY <1>1
<1>3. d \in [kind : {d.kind}, pages : {d.pages}, ver : {d.ver}, turn : {d.turn}]
  BY <1>1, <1>2
<1>. HIDE DEF d
<1>. QED  BY <1>2, <1>3 DEF CursorOK, d

\* Closing the gaps in the order of the cursors changes nothing else in them.
LEMMA RankedOK ==
  ASSUME NEW since, NEW cs, \A c \in cs : CursorOK(c, since)
  PROVE  \A c \in Catalog!Ranked(cs) : CursorOK(c, since)
<1>1. ASSUME NEW c \in Catalog!Ranked(cs) PROVE CursorOK(c, since)
  <2>1. PICK d \in cs : \E n : c = [d EXCEPT !.turn = n]
    BY DEF Catalog!Ranked
  <2>. QED  BY <2>1, TurnOK
<1>. QED  BY <1>1

\* The requests after a notification, and what is no longer pending.
LEMMA NotifyStep ==
  ASSUME CatalogInv, known' = known, NEW t \in Catalog!Tasks, NEW changed, NEW after, ListOK(after, known),
         Catalog!Notify(t, changed, after)
  PROVE  /\ task' \in [Catalog!Tasks -> Lists]
         /\ \A s \in Catalog!Tasks : ListOK(task'[s], known')
         /\ pending' = pending \ {Catalog!GroupOf(task[t].kind)}
<1>1. ASSUME NEW s \in Catalog!Tasks PROVE task'[s] \in {after, task[s], [task[s] EXCEPT !.told = TRUE]}
  BY DEF Catalog!Notify
<1>2. ASSUME NEW s \in Catalog!Tasks PROVE ListOK(task'[s], known')
  <2>1. ListOK(task[s], known)
    BY DEF CatalogInv, Currents
  <2>2. ListOK([task[s] EXCEPT !.told = TRUE], known)
    BY <2>1, ToldList
  <2>. QED  BY <1>1, <2>1, <2>2
<1>3. task' = [s \in Catalog!Tasks |-> task'[s]]
  BY DEF Catalog!Notify
<1>4. \A s \in Catalog!Tasks : task'[s] \in Lists
  BY <1>2 DEF ListOK
<1>5. pending' = pending \ {Catalog!GroupOf(task[t].kind)}
  BY DEF Catalog!Notify
<1>. QED  BY <1>2, <1>3, <1>4, <1>5

\* Who is not told of a pending change is not concerned, and a change of one's own list is told.
LEMMA HeardStep ==
  ASSUME NEW t, task[t].kind \in Catalog!Kinds, NEW changed,
         pending' = pending \ {Catalog!GroupOf(task[t].kind)}, Catalog!Heard(t, changed) \subseteq dirty',
         NEW k \in Catalog!Kinds, k \notin dirty', Catalog!GroupOf(k) \notin pending'
  PROVE  Catalog!GroupOf(k) \notin pending /\ ~(k = task[t].kind /\ k \in changed)
BY KindsAndGroups DEF Catalog!Heard, Catalog!Due

\* A settled client stays so while what it was shown stays.
LEMMA StaysSettled ==
  ASSUME NEW k \in Catalog!Kinds, SettledInv(k), Catalog!Settled(k)' => Catalog!Settled(k),
         view'[k] = view[k], avail'[k] = avail[k], strict' = strict,
         Catalog!RoutesOf(k) \subseteq Catalog!RoutesOf(k)'
  PROVE  SettledInv(k)'
BY DEF SettledInv

\* A request of a step of the catalogue has a kind.
LEMMA OpenKind ==
  ASSUME CatalogInv, NEW t \in Catalog!Tasks
  PROVE  /\ ListOK(task[t], known)
         /\ task[t].pc \in {"listing", "found", "reading"} => task[t].kind \in Catalog!Kinds
         /\ task[t].pc \in {"found", "reading"} => task[t].kind \in Catalog!Groups
<1>1. ListOK(task[t], known)
  BY DEF CatalogInv, Currents
<1>. QED  BY <1>1, KindsAndGroups DEF ListOK, Asks, Seeks

-----------------------------------------------------------------------------
(* One lemma for each step of the catalogue.                               *)

\* The catalogue begins well.
LEMMA CatalogInit ==
  ASSUME Catalog!Init PROVE CatalogInv
<1>1. Versions
  BY ServerAssumption DEF Catalog!Init, Versions
<1>2. task = [t \in Catalog!Tasks |-> Catalog!NoTask]
  BY DEF Catalog!Init
<1>3. CatalogTypes
  <2>1. strict \in BOOLEAN /\ DOMAIN routes = Catalog!Kinds
    BY DEF Catalog!Init
  <2>2. avail \in [Catalog!Kinds -> [Upstreams -> BOOLEAN \cup {None}]]
    BY DEF Catalog!Init
  <2>3. view \in [Catalog!Kinds -> (SUBSET Upstreams) \cup {None}]
    <3>1. view = [k \in Catalog!Kinds |-> None]
      BY DEF Catalog!Init
    <3>2. None \in (SUBSET Upstreams) \cup {None}
      OBVIOUS
    <3>. QED  BY <3>1, <3>2
  <2>. QED  BY <1>2, <2>1, <2>2, <2>3, NewLists DEF CatalogTypes
<1>4. \A t \in Catalog!Tasks : ListOK(task[t], known)
  BY <1>2, NewLists, IdleList
<1>5. \A k \in Catalog!Kinds : Catalog!RoutesOf(k) = {}
  BY DEF Catalog!Init, Catalog!RoutesOf
<1>6. Currents
  BY <1>4, <1>5 DEF Currents, Catalog!Init
<1>7. \A k \in Catalog!Kinds : SettledInv(k)
  BY DEF SettledInv, Catalog!Settled, Catalog!Init
<1>. QED  BY <1>1, <1>3, <1>6, <1>7 DEF CatalogInv

\* A step that leaves the registry and the client alone, and gives a request a good record.
LEMMA TaskStep ==
  ASSUME CatalogInv, NEW t \in Catalog!Tasks, NEW r, ListOK(r, known), task' = [task EXCEPT ![t] = r],
         UNCHANGED <<strict, ver, known, routes, avail, pending, view, dirty, cut>>,
         \A c \in cursors' : CursorOK(c, known)
  PROVE  CatalogInv'
<1>1. Versions'
  BY DEF CatalogInv, Versions
<1>2. task' \in [Catalog!Tasks -> Lists] /\ \A s \in Catalog!Tasks : ListOK(task'[s], known')
  <2>1. r \in Lists /\ task \in [Catalog!Tasks -> Lists] /\ \A s \in Catalog!Tasks : ListOK(task[s], known)
    BY DEF CatalogInv, CatalogTypes, Currents, ListOK
  <2>. QED  BY <2>1
<1>3. CatalogTypes'
  BY <1>2 DEF CatalogInv, CatalogTypes
<1>4. ASSUME NEW k \in Catalog!Kinds PROVE Catalog!RoutesOf(k)' = Catalog!RoutesOf(k)
  BY DEF Catalog!RoutesOf
<1>5. Currents'
  BY <1>2, <1>4 DEF CatalogInv, Currents
<1>6. ASSUME NEW k \in Catalog!Kinds PROVE SettledInv(k)'
  <2>1. SettledInv(k) /\ (Catalog!Settled(k)' => Catalog!Settled(k))
    BY DEF CatalogInv, Catalog!Settled
  <2>2. view'[k] = view[k] /\ avail'[k] = avail[k] /\ strict' = strict
    OBVIOUS
  <2>. QED  BY <1>4, <2>1, <2>2, StaysSettled
<1>. QED  BY <1>1, <1>3, <1>5, <1>6 DEF CatalogInv

\* A list request keeps the invariant: it uses a cursor at most.
LEMMA ListInv ==
  ASSUME CatalogInv, NEW t \in Catalog!Tasks, NEW k \in Catalog!Kinds, Catalog!List(t, k)
  PROVE  CatalogInv'
<1>1. UNCHANGED <<strict, ver, known, routes, avail, pending, view, dirty, cut>>
  BY DEF Catalog!List, Catalog!world, Catalog!client
<1>2. \A c \in cursors : CursorOK(c, known)
  BY DEF CatalogInv, Currents
<1>3. CASE task' = [task EXCEPT ![t] = Catalog!Listing("list", k, Catalog!FirstPages, 0, FALSE)] /\ UNCHANGED cursors
  <2>1. ListOK(Catalog!Listing("list", k, Catalog!FirstPages, 0, FALSE), known)
    BY ListingOK, FirstPagesType
  <2>. QED  BY <1>1, <1>2, <1>3, <2>1, TaskStep
<1>4. ASSUME NEW c \in cursors, cursors' = Catalog!Used(c),
             task' = [task EXCEPT ![t] = Catalog!Listing("list", k, c.pages, 0, FALSE)]
      PROVE  CatalogInv'
  <2>1. CursorOK(c, known) /\ c.pages \in PageMaps
    BY <1>2 DEF CursorOK
  <2>2. ListOK(Catalog!Listing("list", k, c.pages, 0, FALSE), known)
    BY <2>1, ListingOK
  <2>3. CursorOK(Catalog!Youngest(c), known)
    BY <2>1, TurnOK DEF Catalog!Youngest
  <2>4. \A d \in (cursors \ {c}) \cup {Catalog!Youngest(c)} : CursorOK(d, known)
    BY <1>2, <2>3
  <2>5. \A d \in cursors' : CursorOK(d, known)
    BY <1>4, <2>4, RankedOK DEF Catalog!Used
  <2>. QED  BY <1>1, <1>4, <2>2, <2>5, TaskStep
<1>. QED  BY <1>3, <1>4 DEF Catalog!List

\* An upstream's page, or its failure, keeps the invariant: what it brings is as new as the upstream.
LEMMA AnswerInv ==
  ASSUME CatalogInv, NEW t \in Catalog!Tasks, NEW u \in Upstreams, Catalog!Answer(t, u)
  PROVE  CatalogInv'
<1>1. UNCHANGED <<strict, ver, known, routes, cursors, avail, pending, view, dirty, cut>>
  BY DEF Catalog!Answer, Catalog!world, Catalog!client, Catalog!registry
<1>. DEFINE r == task[t]
            fresh == [ok |-> TRUE, ver |-> ver[<<Catalog!GroupOf(r.kind), u>>]]
            lost == [ok |-> FALSE, ver |-> 0]
<1>2. ListOK(r, known) /\ Asks(r, known) /\ r.kind \in Catalog!Kinds /\ r.pc = "listing" /\ u \in DOMAIN r.got
  BY OpenKind DEF Catalog!Answer, Catalog!Unanswered, ListOK
<1>3. PICK g \in {fresh, lost} : task' = [task EXCEPT ![t].got[u] = g]
  BY DEF Catalog!Answer
<1>4. <<Catalog!GroupOf(r.kind), u>> \in Catalog!Groups \X Upstreams
  BY <1>2, KindsAndGroups
<1>5. g \in Gots /\ (g.ok => g.ver >= known[<<Catalog!GroupOf(r.kind), u>>])
  <2>1. lost \in Gots
    BY ServerAssumption DEF Gots
  <2>2. ver[<<Catalog!GroupOf(r.kind), u>>] \in 0..MaxVer
        /\ ver[<<Catalog!GroupOf(r.kind), u>>] >= known[<<Catalog!GroupOf(r.kind), u>>]
    BY <1>4 DEF CatalogInv, Versions
  <2>3. fresh \in Gots
    BY <2>2 DEF Gots
  <2>4. CASE g = fresh
    BY <2>2, <2>3, <2>4
  <2>5. CASE g = lost
    <3>1. ~g.ok
      BY <2>5
    <3>. QED  BY <2>1, <2>5, <3>1
  <2>. QED  BY <2>4, <2>5
<1>. DEFINE s == [r EXCEPT !.got[u] = g]
<1>6. task' = [task EXCEPT ![t] = s]
  BY <1>3
<1>7. PICK S \in SUBSET Upstreams : r.got \in [S -> Gots \cup {None}]
  BY <1>2 DEF ListOK, Asks, GotMaps
<1>8. [r.got EXCEPT ![u] = g] \in [S -> Gots \cup {None}]
  BY <1>5, <1>7
<1>9. [r.got EXCEPT ![u] = g] \in GotMaps
  BY <1>8 DEF GotMaps
<1>10. r \in Lists
  BY <1>2 DEF ListOK
<1>11. /\ s.op = r.op /\ s.pc = r.pc /\ s.kind = r.kind /\ s.pages = r.pages /\ s.got = [r.got EXCEPT ![u] = g]
       /\ s.lost = r.lost
  BY <1>10 DEF Lists
<1>12. s \in Lists
  BY <1>9, <1>10 DEF Lists
<1>. HIDE DEF s, fresh, lost
<1>13. Asks(s, known)
  BY <1>2, <1>5, <1>7, <1>8, <1>9, <1>11 DEF ListOK, Asks
<1>14. Seeks(s) /\ Reads(s, known)
  BY <1>2, <1>11 DEF Seeks, Reads
<1>15. ListOK(s, known)
  BY <1>12, <1>13, <1>14 DEF ListOK
<1>16. \A c \in cursors' : CursorOK(c, known)
  BY <1>1 DEF CatalogInv, Currents
<1>. QED  BY <1>1, <1>6, <1>15, <1>16, TaskStep

\* A step that ends a request and leaves of the registry at least the routes.
LEMMA EndStep ==
  ASSUME CatalogInv, NEW t \in Catalog!Tasks, task[t].kind \in Catalog!Kinds, NEW changed, NEW after,
         ListOK(after, known), Catalog!Notify(t, changed, after), dirty' = dirty \cup Catalog!Heard(t, changed),
         UNCHANGED <<strict, ver, known, cursors, avail, view, cut>>, DOMAIN routes' = Catalog!Kinds,
         \A k \in Catalog!Kinds : Catalog!RoutesOf(k) \subseteq Catalog!RoutesOf(k)',
         \A k \in Catalog!Kinds : \A r \in Catalog!RoutesOf(k)' : EntryOK(k, r, known)
  PROVE  CatalogInv'
<1>1. Versions'
  BY DEF CatalogInv, Versions
<1>2. /\ task' \in [Catalog!Tasks -> Lists] /\ \A s \in Catalog!Tasks : ListOK(task'[s], known')
      /\ pending' = pending \ {Catalog!GroupOf(task[t].kind)}
  <2>1. known' = known
    OBVIOUS
  <2>. QED  BY <2>1, NotifyStep
<1>3. CatalogTypes'
  BY <1>2 DEF CatalogInv, CatalogTypes
<1>4. Currents'
  BY <1>2 DEF CatalogInv, Currents
<1>5. ASSUME NEW k \in Catalog!Kinds PROVE SettledInv(k)'
  <2>1. SettledInv(k)
    BY DEF CatalogInv
  <2>2. Catalog!Settled(k)' => Catalog!Settled(k)
    <3>1. Catalog!Heard(t, changed) \subseteq dirty' /\ dirty \subseteq dirty'
      OBVIOUS
    <3>2. k \notin dirty' /\ Catalog!GroupOf(k) \notin pending' => Catalog!GroupOf(k) \notin pending
      BY <1>2, <3>1, HeardStep
    <3>. QED  BY <3>1, <3>2 DEF Catalog!Settled
  <2>. QED  BY <2>1, <2>2, StaysSettled
<1>. QED  BY <1>1, <1>3, <1>4, <1>5 DEF CatalogInv

\* An aborted request leaves nothing.
LEMMA CancelInv ==
  ASSUME CatalogInv, NEW t \in Catalog!Tasks, Catalog!Cancel(t)
  PROVE  CatalogInv'
<1>1. task[t].kind \in Catalog!Kinds
  BY OpenKind DEF Catalog!Cancel
<1>2. ListOK(Catalog!Done, known)
  BY NewLists, IdleList
<1>3. /\ Catalog!Notify(t, changes, Catalog!Done) /\ dirty' = dirty \cup Catalog!Heard(t, changes)
      /\ UNCHANGED <<strict, ver, known, cursors, avail, view, cut>> /\ routes' = routes
  BY DEF Catalog!Cancel, Catalog!world
<1>4. \A k \in Catalog!Kinds : Catalog!RoutesOf(k)' = Catalog!RoutesOf(k)
  BY <1>3 DEF Catalog!RoutesOf
<1>5. DOMAIN routes' = Catalog!Kinds /\ \A k \in Catalog!Kinds : \A r \in Catalog!RoutesOf(k) : EntryOK(k, r, known)
  BY <1>3 DEF CatalogInv, CatalogTypes, Currents
<1>. QED  BY <1>1, <1>2, <1>3, <1>4, <1>5, EndStep

\* The upstream of a route.
LEMMA RouteOf ==
  ASSUME CatalogInv, NEW k \in Catalog!Kinds, NEW r \in Catalog!Reachable(k)
  PROVE  r.of \in Upstreams
<1>1. PICK j \in Catalog!Kinds : r \in Catalog!RoutesOf(j)
  BY DEF Catalog!Reachable, Catalog!Kinds
<1>. QED  BY <1>1 DEF CatalogInv, Currents, EntryOK, Entries

\* A read keeps the invariant: the route it takes is there.
LEMMA ReadInv ==
  ASSUME CatalogInv, NEW t \in Catalog!Tasks, NEW g \in Catalog!Groups, Catalog!Read(t, g)
  PROVE  CatalogInv'
<1>1. UNCHANGED <<strict, ver, known, routes, cursors, avail, pending, view, dirty, cut>>
  BY DEF Catalog!Read, Catalog!world, Catalog!client, Catalog!registry
<1>2. \A c \in cursors' : CursorOK(c, known)
  BY <1>1 DEF CatalogInv, Currents
<1>3. ASSUME NEW r \in Catalog!Reachable(g), task' = [task EXCEPT ![t] = Catalog!Bound(g, r.of)] PROVE CatalogInv'
  <2>1. ListOK(Catalog!Bound(g, r.of), known)
    BY KindsAndGroups, RouteOf, BoundOK
  <2>. QED  BY <1>1, <1>2, <1>3, <2>1, TaskStep
<1>4. CASE task' = [task EXCEPT ![t] = Catalog!Listing("read", g, Catalog!FirstPages, 1, FALSE)]
  <2>1. ListOK(Catalog!Listing("read", g, Catalog!FirstPages, 1, FALSE), known)
    BY ListingOK, FirstPagesType, KindsAndGroups
  <2>. QED  BY <1>1, <1>2, <1>4, <2>1, TaskStep
<1>. QED  BY <1>3, <1>4 DEF Catalog!Read

\* A read that has listed first keeps the invariant.
LEMMA FoundInv ==
  ASSUME CatalogInv, NEW t \in Catalog!Tasks, Catalog!Found(t)
  PROVE  CatalogInv'
<1>1. task[t].kind \in Catalog!Kinds /\ task[t].kind \in Catalog!Groups
  BY OpenKind, KindsAndGroups DEF Catalog!Found
<1>2. UNCHANGED <<strict, ver, known, routes, cursors, avail, view, cut>>
  BY DEF Catalog!Found, Catalog!world, Catalog!client, Catalog!registry
<1>3. \A c \in cursors' : CursorOK(c, known)
  BY <1>2 DEF CatalogInv, Currents
<1>4. ASSUME NEW r \in Catalog!Reachable(task[t].kind), task' = [task EXCEPT ![t] = Catalog!Bound(task[t].kind, r.of)],
             UNCHANGED <<pending, dirty>>
      PROVE  CatalogInv'
  <2>1. ListOK(Catalog!Bound(task[t].kind, r.of), known)
    BY <1>1, RouteOf, BoundOK
  <2>. QED  BY <1>2, <1>3, <1>4, <2>1, TaskStep
<1>5. CASE Catalog!Notify(t, changes, Catalog!Done) /\ dirty' = dirty \cup Catalog!Heard(t, changes)
  <2>1. ListOK(Catalog!Done, known)
    BY NewLists, IdleList
  <2>2. \A k \in Catalog!Kinds : Catalog!RoutesOf(k)' = Catalog!RoutesOf(k)
    BY <1>2 DEF Catalog!RoutesOf
  <2>3. DOMAIN routes' = Catalog!Kinds /\ \A k \in Catalog!Kinds : \A r \in Catalog!RoutesOf(k) : EntryOK(k, r, known)
    BY <1>2 DEF CatalogInv, CatalogTypes, Currents
  <2>. QED  BY <1>1, <1>2, <1>5, <2>1, <2>2, <2>3, EndStep
<1>. QED  BY <1>4, <1>5 DEF Catalog!Found, Catalog!registry, Catalog!client

\* The answer of a read, with the links it registers, keeps the invariant.
LEMMA FinishInv ==
  ASSUME CatalogInv, NEW t \in Catalog!Tasks, Catalog!Finish(t)
  PROVE  CatalogInv'
<1>. DEFINE u == task[t].of
            e == [of |-> u, page |-> 0, ver |-> task[t].ver]
<1>1. task[t].kind \in Catalog!Kinds /\ task[t].pc = "reading" /\ ListOK(task[t], known)
  BY OpenKind DEF Catalog!Finish
<1>2. ListOK(Catalog!Done, known)
  BY NewLists, IdleList
<1>3. /\ Catalog!Notify(t, changes, Catalog!Done) /\ dirty' = dirty \cup Catalog!Heard(t, changes)
      /\ UNCHANGED <<strict, ver, known, cursors, avail, view, cut>>
  BY DEF Catalog!Finish, Catalog!world
<1>4. DOMAIN routes = Catalog!Kinds /\ \A k \in Catalog!Kinds : \A r \in Catalog!RoutesOf(k) : EntryOK(k, r, known)
  BY DEF CatalogInv, CatalogTypes, Currents
<1>5. CASE UNCHANGED routes
  <2>1. \A k \in Catalog!Kinds : Catalog!RoutesOf(k)' = Catalog!RoutesOf(k)
    BY <1>5 DEF Catalog!RoutesOf
  <2>. QED  BY <1>1, <1>2, <1>3, <1>4, <1>5, <2>1, EndStep
<1>6. CASE Catalog!MayLink(t) /\ routes' = [routes EXCEPT !["resources"] = Catalog!RoutesOf("resources") \cup {e}]
  <2>1. EntryOK("resources", e, known)
    <3>1. u \in Upstreams /\ task[t].ver \in 0..MaxVer /\ task[t].ver >= known[<<"resources", u>>]
      BY <1>1, <1>6 DEF ListOK, Reads, Lists, Catalog!MayLink
    <3>2. e \in Entries /\ e.of = u /\ e.ver = task[t].ver
      BY <3>1, Zeros DEF Entries
    <3>3. Catalog!GroupOf("resources") = "resources"
      BY DEF Catalog!GroupOf
    <3>. QED  BY <3>1, <3>2, <3>3 DEF EntryOK
  <2>. HIDE DEF e
  <2>2. "resources" \in Catalog!Kinds
    BY DEF Catalog!Kinds
  <2>3. \A k \in Catalog!Kinds : routes'[k] = IF k = "resources" THEN Catalog!RoutesOf("resources") \cup {e} ELSE routes[k]
    BY <1>4, <1>6
  <2>4. Catalog!RoutesOf("resources") \cup {e} \in SUBSET Entries
    BY <1>4, <2>1, <2>2 DEF EntryOK
  <2>5. Catalog!RoutesOf("resources") \cup {e} # None
    BY <2>4, ServerAssumption DEF Entries
  <2>6. \A k \in Catalog!Kinds :
          Catalog!RoutesOf(k)' = IF k = "resources" THEN Catalog!RoutesOf("resources") \cup {e} ELSE Catalog!RoutesOf(k)
    BY <2>3, <2>5 DEF Catalog!RoutesOf
  <2>7. \A k \in Catalog!Kinds : Catalog!RoutesOf(k) \subseteq Catalog!RoutesOf(k)'
    BY <2>6
  <2>8. \A k \in Catalog!Kinds : \A r \in Catalog!RoutesOf(k)' : EntryOK(k, r, known)
    BY <1>4, <2>1, <2>6
  <2>9. DOMAIN routes' = Catalog!Kinds
    BY <1>4, <1>6
  <2>. QED  BY <1>1, <1>2, <1>3, <2>7, <2>8, <2>9, EndStep
<1>. QED  BY <1>5, <1>6 DEF Catalog!Finish

\* A catalogue that changes leaves what is known as it was.
LEMMA ChangeInv ==
  ASSUME CatalogInv, NEW x \in Catalog!Groups \X Upstreams, Catalog!Change(x)
  PROVE  CatalogInv'
<1>1. UNCHANGED <<strict, known, routes, cursors, avail, pending, task, view, dirty, cut>>
  BY DEF Catalog!Change, Catalog!registry, Catalog!client
<1>2. Versions'
  <2>1. ver \in [Catalog!Groups \X Upstreams -> 0..MaxVer] /\ ver[x] < MaxVer /\ ver' = [ver EXCEPT ![x] = @ + 1]
    BY DEF CatalogInv, Versions, Catalog!Change
  <2>2. ver[x] + 1 \in 0..MaxVer
    BY <2>1, ServerAssumption
  <2>3. ver' \in [Catalog!Groups \X Upstreams -> 0..MaxVer]
    BY <2>1, <2>2
  <2>4. \A y \in Catalog!Groups \X Upstreams : ver'[y] >= known[y]
    BY <2>1 DEF CatalogInv, Versions
  <2>. QED  BY <1>1, <2>3, <2>4 DEF CatalogInv, Versions
<1>3. CatalogTypes'
  BY <1>1 DEF CatalogInv, CatalogTypes
<1>4. \A k \in Catalog!Kinds : Catalog!RoutesOf(k)' = Catalog!RoutesOf(k)
  BY <1>1 DEF Catalog!RoutesOf
<1>5. Currents'
  BY <1>1, <1>4 DEF CatalogInv, Currents
<1>6. ASSUME NEW k \in Catalog!Kinds PROVE SettledInv(k)'
  <2>1. SettledInv(k) /\ (Catalog!Settled(k)' => Catalog!Settled(k))
    BY <1>1 DEF CatalogInv, Catalog!Settled
  <2>. QED  BY <1>1, <1>4, <2>1, StaysSettled
<1>. QED  BY <1>2, <1>3, <1>5, <1>6 DEF CatalogInv

\* A tool snapshot matters to later losses only.
LEMMA LoadToolsInv ==
  ASSUME CatalogInv, Catalog!LoadTools
  PROVE  CatalogInv'
<1>1. UNCHANGED <<strict, ver, known, routes, cursors, avail, pending, task, view, dirty, cut>>
  BY DEF Catalog!LoadTools, Catalog!registry, Catalog!client
<1>2. \A k \in Catalog!Kinds : Catalog!RoutesOf(k)' = Catalog!RoutesOf(k)
  BY <1>1 DEF Catalog!RoutesOf
<1>3. \A k \in Catalog!Kinds : SettledInv(k)'
  BY <1>1, <1>2 DEF CatalogInv, SettledInv, Catalog!Settled
<1>. QED  BY <1>1, <1>2, <1>3 DEF CatalogInv, Versions, CatalogTypes, Currents

\* The requests after an invalidation of some kinds, of which those under way are perhaps told.
LEMMA StaleTasks ==
  ASSUME CatalogInv, NEW kinds \in SUBSET Catalog!Kinds, DOMAIN task' = Catalog!Tasks,
         \A x \in Catalog!Groups \X Upstreams : known'[x] = known[x] \/ Catalog!KindsOf(x[1]) \subseteq kinds,
         \A t \in Catalog!Tasks : task'[t] \in {Catalog!Stale(kinds)[t], [Catalog!Stale(kinds)[t] EXCEPT !.told = TRUE]}
  PROVE  \A t \in Catalog!Tasks : ListOK(task'[t], known') /\ task'[t] \in Lists
<1>. SUFFICES ASSUME NEW t \in Catalog!Tasks PROVE ListOK(task'[t], known')
  BY DEF ListOK
<1>1. ListOK(task[t], known)
  BY DEF CatalogInv, Currents
<1>2. ListOK(Catalog!Stale(kinds)[t], known')
  <2>1. CASE t \in Catalog!Open
    <3>1. Catalog!Stale(kinds)[t] = [task[t] EXCEPT !.lost = @ \cup kinds]
      BY <2>1 DEF Catalog!Stale
    <3>. QED  BY <1>1, <3>1, StaleList, SMTT(30)
  <2>2. CASE t \notin Catalog!Open
    <3>1. Catalog!Stale(kinds)[t] = task[t] /\ task[t].pc \in {"new", "done"} /\ task[t] \in Lists
      BY <1>1, <2>2 DEF Catalog!Stale, Catalog!Open, ListOK
    <3>. QED  BY <3>1, IdleList
  <2>. QED  BY <2>1, <2>2
<1>3. ListOK([Catalog!Stale(kinds)[t] EXCEPT !.told = TRUE], known')
  BY <1>2, ToldList
<1>. QED  BY <1>2, <1>3

\* What is left after an invalidation of some kinds.
LEMMA InvalidateStep ==
  ASSUME CatalogInv, NEW kinds \in SUBSET Catalog!Kinds, Catalog!Invalidate(kinds),
         \A x \in Catalog!Groups \X Upstreams : known'[x] = known[x] \/ Catalog!KindsOf(x[1]) \subseteq kinds
  PROVE  /\ DOMAIN routes' = Catalog!Kinds
         /\ \A k \in Catalog!Kinds : Catalog!RoutesOf(k)' = IF k \in kinds THEN {} ELSE Catalog!RoutesOf(k)
         /\ \A k \in Catalog!Kinds : \A r \in Catalog!RoutesOf(k)' : EntryOK(k, r, known')
         /\ \A c \in cursors' : CursorOK(c, known')
<1>1. DOMAIN routes' = Catalog!Kinds
  BY DEF Catalog!Invalidate
<1>2. \A k \in Catalog!Kinds : routes'[k] = IF k \in kinds THEN None ELSE routes[k]
  BY DEF Catalog!Invalidate
<1>3. \A k \in Catalog!Kinds : Catalog!RoutesOf(k)' = IF k \in kinds THEN {} ELSE Catalog!RoutesOf(k)
  BY <1>2 DEF Catalog!RoutesOf
<1>4. \A k \in Catalog!Kinds, u \in Upstreams :
        k \notin kinds => known'[<<Catalog!GroupOf(k), u>>] = known[<<Catalog!GroupOf(k), u>>]
  <2>. SUFFICES ASSUME NEW k \in Catalog!Kinds, NEW u \in Upstreams, k \notin kinds
                PROVE  known'[<<Catalog!GroupOf(k), u>>] = known[<<Catalog!GroupOf(k), u>>]
    OBVIOUS
  <2>1. <<Catalog!GroupOf(k), u>> \in Catalog!Groups \X Upstreams /\ k \in Catalog!KindsOf(Catalog!GroupOf(k))
    BY KindsAndGroups
  <2>. QED  BY <2>1
<1>5. ASSUME NEW k \in Catalog!Kinds, NEW r \in Catalog!RoutesOf(k)' PROVE EntryOK(k, r, known')
  <2>1. k \notin kinds /\ r \in Catalog!RoutesOf(k)
    BY <1>3, <1>5
  <2>2. EntryOK(k, r, known)
    BY <2>1 DEF CatalogInv, Currents
  <2>3. r.of \in Upstreams
    BY <2>2 DEF EntryOK, Entries
  <2>. QED  BY <1>4, <2>1, <2>2, <2>3 DEF EntryOK
<1>6. ASSUME NEW c \in cursors, c.kind \notin kinds PROVE CursorOK(c, known')
  <2>1. CursorOK(c, known)
    BY DEF CatalogInv, Currents
  <2>2. c.kind \in Catalog!Kinds /\ DOMAIN c.pages \subseteq Upstreams
    BY <2>1 DEF CursorOK, PageMaps
  <2>3. \A u \in DOMAIN c.pages : c.ver[u] >= known'[<<Catalog!GroupOf(c.kind), u>>]
    BY <1>4, <1>6, <2>1, <2>2 DEF CursorOK
  <2>. QED  BY <2>1, <2>3 DEF CursorOK
<1>7. \A c \in cursors' : CursorOK(c, known')
  <2>1. \A c \in {d \in cursors : d.kind \notin kinds} : CursorOK(c, known')
    BY <1>6
  <2>. QED  BY <2>1, RankedOK DEF Catalog!Invalidate, Catalog!Without
<1>. QED  BY <1>1, <1>3, <1>5, <1>7

\* A list_changed notification keeps the invariant: it makes the epochs of its kinds newer.
LEMMA NoticeInv ==
  ASSUME CatalogInv, NEW x \in Catalog!Groups \X Upstreams, Catalog!Notice(x)
  PROVE  CatalogInv'
<1>. DEFINE kinds == Catalog!KindsOf(x[1])
<1>1. /\ UNCHANGED <<strict, ver, avail, pending, view, cut>> /\ dirty' = dirty \cup kinds
      /\ known' = [known EXCEPT ![x] = ver[x]] /\ Catalog!Invalidate(kinds)
  BY DEF Catalog!Notice
<1>2. kinds \in SUBSET Catalog!Kinds
  BY DEF Catalog!KindsOf
<1>3. Versions'
  BY <1>1 DEF CatalogInv, Versions
<1>4. \A y \in Catalog!Groups \X Upstreams : known'[y] = known[y] \/ Catalog!KindsOf(y[1]) \subseteq kinds
  BY <1>1 DEF CatalogInv, Versions
<1>5. /\ DOMAIN task' = Catalog!Tasks
      /\ \A t \in Catalog!Tasks : task'[t] \in {Catalog!Stale(kinds)[t], [Catalog!Stale(kinds)[t] EXCEPT !.told = TRUE]}
  BY DEF Catalog!Notice
<1>. HIDE DEF kinds
<1>6. \A t \in Catalog!Tasks : ListOK(task'[t], known') /\ task'[t] \in Lists
  BY <1>2, <1>4, <1>5, StaleTasks
<1>7. task' \in [Catalog!Tasks -> Lists]
  <2>1. task' = [t \in Catalog!Tasks |-> task'[t]]
    BY DEF Catalog!Notice
  <2>. QED  BY <1>6, <2>1
<1>8. /\ DOMAIN routes' = Catalog!Kinds
      /\ \A k \in Catalog!Kinds : Catalog!RoutesOf(k)' = IF k \in kinds THEN {} ELSE Catalog!RoutesOf(k)
      /\ \A k \in Catalog!Kinds : \A r \in Catalog!RoutesOf(k)' : EntryOK(k, r, known')
      /\ \A c \in cursors' : CursorOK(c, known')
  BY <1>1, <1>2, <1>4, InvalidateStep
<1>9. CatalogTypes'
  BY <1>1, <1>7, <1>8 DEF CatalogInv, CatalogTypes
<1>10. Currents'
  BY <1>6, <1>8 DEF Currents
<1>11. ASSUME NEW k \in Catalog!Kinds PROVE SettledInv(k)'
  <2>1. CASE k \in kinds
    BY <1>1, <2>1 DEF SettledInv, Catalog!Settled
  <2>2. CASE k \notin kinds
    <3>1. SettledInv(k) /\ (Catalog!Settled(k)' => Catalog!Settled(k))
      BY <1>1 DEF CatalogInv, Catalog!Settled
    <3>2. Catalog!RoutesOf(k) \subseteq Catalog!RoutesOf(k)'
      BY <1>8, <2>2
    <3>. QED  BY <1>1, <3>1, <3>2, StaysSettled
  <2>. QED  BY <2>1, <2>2
<1>. QED  BY <1>3, <1>9, <1>10, <1>11 DEF CatalogInv

\* What an invalidation of everything leaves.
LEMMA AllStep ==
  ASSUME CatalogInv, Catalog!InvalidateAll, strict' = strict, view' = view, DOMAIN task' = Catalog!Tasks,
         task' = [t \in Catalog!Tasks |-> task'[t]],
         \A t \in Catalog!Tasks :
           task'[t] \in {Catalog!Stale(Catalog!Kinds)[t], [Catalog!Stale(Catalog!Kinds)[t] EXCEPT !.told = TRUE]}
  PROVE  CatalogTypes' /\ Currents'
<1>1. \A x \in Catalog!Groups \X Upstreams : Catalog!KindsOf(x[1]) \subseteq Catalog!Kinds
  BY DEF Catalog!KindsOf
<1>2. \A t \in Catalog!Tasks : ListOK(task'[t], known') /\ task'[t] \in Lists
  BY <1>1, StaleTasks
<1>3. /\ DOMAIN routes' = Catalog!Kinds
      /\ \A k \in Catalog!Kinds : \A r \in Catalog!RoutesOf(k)' : EntryOK(k, r, known')
      /\ \A c \in cursors' : CursorOK(c, known')
  <2>1. Catalog!Invalidate(Catalog!Kinds)
    BY DEF Catalog!InvalidateAll
  <2>. QED  BY <1>1, <2>1, InvalidateStep
<1>4. avail' \in [Catalog!Kinds -> [Upstreams -> BOOLEAN \cup {None}]]
  BY DEF Catalog!InvalidateAll
<1>5. task' \in [Catalog!Tasks -> Lists]
  BY <1>2
<1>. QED  BY <1>2, <1>3, <1>4, <1>5 DEF CatalogInv, CatalogTypes, Currents

\* A restart keeps the invariant: everything is invalidated.
LEMMA RestartedInv ==
  ASSUME CatalogInv, Catalog!Restarted
  PROVE  CatalogInv'
<1>1. /\ UNCHANGED <<strict, pending, view, cut>> /\ dirty' = Catalog!Kinds /\ known' = ver' /\ Catalog!InvalidateAll
      /\ ver' \in {ver, [x \in DOMAIN ver |-> IF ver[x] < MaxVer THEN ver[x] + 1 ELSE ver[x]]}
  BY DEF Catalog!Restarted
<1>2. Versions'
  <2>1. ver \in [Catalog!Groups \X Upstreams -> 0..MaxVer]
    BY DEF CatalogInv, Versions
  <2>2. \A x \in DOMAIN ver : (IF ver[x] < MaxVer THEN ver[x] + 1 ELSE ver[x]) \in 0..MaxVer
    BY <2>1, ServerAssumption
  <2>3. ver' \in [Catalog!Groups \X Upstreams -> 0..MaxVer]
    BY <1>1, <2>1, <2>2
  <2>. QED  BY <1>1, <2>3 DEF Versions
<1>3. task' = [t \in Catalog!Tasks |-> task'[t]] /\ DOMAIN task' = Catalog!Tasks
  BY DEF Catalog!Restarted
<1>4. ASSUME NEW t \in Catalog!Tasks
      PROVE  task'[t] \in {Catalog!Stale(Catalog!Kinds)[t], [Catalog!Stale(Catalog!Kinds)[t] EXCEPT !.told = TRUE]}
  BY DEF Catalog!Restarted, Catalog!Stale
<1>5. CatalogTypes' /\ Currents'
  BY <1>1, <1>3, <1>4, AllStep
<1>6. \A k \in Catalog!Kinds : SettledInv(k)'
  BY <1>1 DEF SettledInv, Catalog!Settled
<1>. QED  BY <1>2, <1>5, <1>6 DEF CatalogInv

\* What the client was shown and loses its routes is announced, if there was anything.
LEMMA LoseInv ==
  ASSUME CatalogInv, NEW v \in Upstreams, Catalog!Lose(v)
  PROVE  CatalogInv'
<1>1. UNCHANGED <<strict, view, dirty, cut>>
  BY DEF Catalog!Lose, Catalog!client
<1>2. ver' \in [Catalog!Groups \X Upstreams -> 0..MaxVer]
      /\ \A x \in Catalog!Groups \X Upstreams : ver'[x] >= ver[x]
  <2>1. ver \in [Catalog!Groups \X Upstreams -> 0..MaxVer]
    BY DEF CatalogInv, Versions
  <2>2. PICK gs \in SUBSET Catalog!Groups :
          ver' = [x \in DOMAIN ver |-> IF x[2] = v /\ x[1] \in gs /\ ver[x] < MaxVer THEN ver[x] + 1 ELSE ver[x]]
    BY DEF Catalog!Lose
  <2>3. \A x \in DOMAIN ver :
          /\ (IF x[2] = v /\ x[1] \in gs /\ ver[x] < MaxVer THEN ver[x] + 1 ELSE ver[x]) \in 0..MaxVer
          /\ (IF x[2] = v /\ x[1] \in gs /\ ver[x] < MaxVer THEN ver[x] + 1 ELSE ver[x]) >= ver[x]
    BY <2>1, ServerAssumption
  <2>. QED  BY <2>1, <2>2, <2>3
<1>3. known \in [Catalog!Groups \X Upstreams -> 0..MaxVer] /\ \A x \in Catalog!Groups \X Upstreams : ver'[x] >= known[x]
  <2>1. \A x \in Catalog!Groups \X Upstreams : ver[x] \in 0..MaxVer /\ known[x] \in 0..MaxVer /\ ver[x] >= known[x] /\ ver'[x] \in 0..MaxVer
    BY <1>2 DEF CatalogInv, Versions
  <2>2. \A x \in Catalog!Groups \X Upstreams : ver'[x] >= known[x]
    BY <1>2, <2>1
  <2>. QED  BY <2>2 DEF CatalogInv, Versions
<1>4. CASE tools
  <2>1. /\ Catalog!InvalidateAll /\ pending' = Catalog!Announced /\ task' = Catalog!Stale(Catalog!Kinds)
        /\ known' = [x \in DOMAIN known |-> IF x[2] = v THEN ver'[x] ELSE known[x]]
    BY <1>4 DEF Catalog!Lose
  <2>2. Versions'
    BY <1>2, <1>3, <2>1 DEF Versions
  <2>3. task' = [t \in Catalog!Tasks |-> task'[t]] /\ DOMAIN task' = Catalog!Tasks
    BY <2>1 DEF Catalog!Stale
  <2>4. CatalogTypes' /\ Currents'
    BY <1>1, <2>1, <2>3, AllStep
  <2>5. ASSUME NEW k \in Catalog!Kinds, Catalog!Settled(k)' PROVE Upstreams = {} /\ view[k] = {}
    <3>1. Catalog!Settled(k) /\ Catalog!GroupOf(k) \notin Catalog!Announced
      BY <1>1, <2>1, <2>5 DEF Catalog!Settled, Catalog!Announced
    <3>2. routes[k] = None
      BY <3>1, KindsAndGroups DEF Catalog!Announced
    <3>3. Catalog!RoutesOf(k) = {}
      BY <3>2 DEF Catalog!RoutesOf
    <3>4. \A u \in Upstreams : u \notin view[k]
      BY <3>1, <3>3 DEF CatalogInv, SettledInv
    <3>5. view[k] \in SUBSET Upstreams
      BY <3>1 DEF CatalogInv, CatalogTypes, Catalog!Settled
    <3>6. view[k] = {}
      BY <3>4, <3>5
    <3>. QED  BY <3>1, <3>6 DEF CatalogInv, SettledInv
  <2>6. \A k \in Catalog!Kinds : SettledInv(k)'
    BY <1>1, <2>5 DEF SettledInv
  <2>. QED  BY <2>2, <2>4, <2>6 DEF CatalogInv
<1>5. CASE ~tools
  <2>1. UNCHANGED <<known, routes, cursors, avail, pending, task>>
    BY <1>5 DEF Catalog!Lose, Catalog!registry
  <2>2. Versions'
    BY <1>2, <1>3, <2>1 DEF Versions
  <2>3. \A k \in Catalog!Kinds : Catalog!RoutesOf(k)' = Catalog!RoutesOf(k)
    BY <2>1 DEF Catalog!RoutesOf
  <2>4. \A k \in Catalog!Kinds : SettledInv(k)'
    BY <1>1, <2>1, <2>3 DEF CatalogInv, SettledInv, Catalog!Settled
  <2>5. CatalogTypes' /\ Currents'
    BY <1>1, <2>1, <2>3 DEF CatalogInv, CatalogTypes, Currents
  <2>. QED  BY <2>2, <2>4, <2>5 DEF CatalogInv
<1>. QED  BY <1>4, <1>5

\* What a list that has all its pages brings.
LEMMA AllAnswered ==
  ASSUME CatalogInv, NEW t \in Catalog!Tasks, task[t].pc = "listing", Catalog!Unanswered(t) = {}
  PROVE  /\ task[t].kind \in Catalog!Kinds /\ (task[t].op # "list" => task[t].kind \in Catalog!Groups)
         /\ task[t].op \in {None, "list", "read"}
         /\ DOMAIN task[t].got = DOMAIN task[t].pages /\ DOMAIN task[t].got \subseteq Upstreams
         /\ \A u \in DOMAIN task[t].got : task[t].got[u] \in Gots /\ task[t].pages[u] \in Nat
         /\ Catalog!EpochIsCurrent(t) => \A u \in DOMAIN task[t].got :
              task[t].got[u].ok => task[t].got[u].ver >= known[<<Catalog!GroupOf(task[t].kind), u>>]
         /\ task[t].pages = Catalog!FirstPages => DOMAIN task[t].got = Upstreams
<1>. DEFINE r == task[t]
<1>1. r \in Lists /\ Asks(r, known)
  BY OpenKind DEF ListOK
<1>2. /\ r.kind \in (IF r.op = "list" THEN Catalog!Kinds ELSE Catalog!Groups)
      /\ r.pages \in PageMaps /\ r.got \in GotMaps /\ DOMAIN r.got = DOMAIN r.pages
  BY <1>1 DEF Asks
<1>3. r.op \in {None, "list", "read"}
  BY <1>1 DEF Lists
<1>4. \A u \in DOMAIN r.got : r.got[u] # None
  BY DEF Catalog!Unanswered
<1>5. DOMAIN r.got \subseteq Upstreams /\ \A u \in DOMAIN r.got : r.got[u] \in Gots
  BY <1>2, <1>4 DEF GotMaps
<1>6. \A u \in DOMAIN r.got : r.pages[u] \in Nat
  BY <1>2 DEF PageMaps
<1>7. Catalog!EpochIsCurrent(t) => \A u \in DOMAIN r.got :
              r.got[u].ok => r.got[u].ver >= known[<<Catalog!GroupOf(r.kind), u>>]
  BY <1>1, <1>4 DEF Asks, Catalog!EpochIsCurrent
<1>8. r.pages = Catalog!FirstPages => DOMAIN r.got = Upstreams
  BY <1>2, FirstPagesType
<1>. QED  BY <1>2, <1>3, <1>5, <1>6, <1>7, <1>8, KindsAndGroups

\* The routes that the pages of a list leave are of what is known.
LEMMA MergedOK ==
  ASSUME CatalogInv, NEW t \in Catalog!Tasks, task[t].pc = "listing", Catalog!Unanswered(t) = {}, Catalog!EpochIsCurrent(t)
  PROVE  /\ \A r \in Catalog!Merged(t) : EntryOK(task[t].kind, r, known)
         /\ Catalog!Merged(t) # None
<1>. DEFINE k == task[t].kind
            kept == {r \in Catalog!RoutesOf(k) : r.of \in Catalog!Ok(t) \/ r.of \notin DOMAIN task[t].got}
<1>1. k \in Catalog!Kinds /\ DOMAIN task[t].got \subseteq Upstreams
      /\ \A u \in DOMAIN task[t].got : task[t].got[u].ok => task[t].got[u].ver >= known[<<Catalog!GroupOf(k), u>>]
  BY AllAnswered
<1>2. \A r \in kept : EntryOK(k, r, known)
  BY <1>1 DEF CatalogInv, Currents
<1>3. ASSUME NEW r \in Catalog!Merged(t) PROVE EntryOK(k, r, known)
  <2>1. CASE r \in kept
    BY <1>2, <2>1
  <2>2. CASE r \notin kept
    <3>1. r \in [of : Catalog!Ok(t), page : 1..Pages, ver : 0..MaxVer] /\ r.ver = task[t].got[r.of].ver
      BY <1>3, <2>2 DEF Catalog!Merged
    <3>2. r.of \in DOMAIN task[t].got /\ task[t].got[r.of].ok
      BY <3>1 DEF Catalog!Ok
    <3>3. r \in Entries
      BY <1>1, <3>1, <3>2, ServerAssumption DEF Entries
    <3>. QED  BY <1>1, <3>1, <3>2, <3>3 DEF EntryOK
  <2>. QED  BY <2>1, <2>2
<1>4. Catalog!Merged(t) \in SUBSET Entries
  BY <1>3 DEF EntryOK
<1>. QED  BY <1>3, <1>4, ServerAssumption DEF Entries

\* So is the cursor of a list that has further pages.
LEMMA StoredOK ==
  ASSUME CatalogInv, NEW t \in Catalog!Tasks, task[t].pc = "listing", Catalog!Unanswered(t) = {}, Catalog!EpochIsCurrent(t)
  PROVE  \A c \in Catalog!Stored(t) : CursorOK(c, known)
<1>. DEFINE k == task[t].kind
            F == Catalog!Further(t)
            pages == [u \in F |-> task[t].pages[u] + 1]
            vers == [u \in F |-> task[t].got[u].ver]
            next == [kind |-> k, pages |-> pages, ver |-> vers, turn |-> MaxCursors + 1]
            kept == {c \in cursors : Catalog!Cardinality(cursors) < MaxCursors \/ \E d \in cursors : d.turn < c.turn}
<1>1. /\ k \in Catalog!Kinds /\ DOMAIN task[t].got \subseteq Upstreams
      /\ \A u \in DOMAIN task[t].got : task[t].pages[u] \in Nat
      /\ \A u \in DOMAIN task[t].got : task[t].got[u].ok => task[t].got[u].ver >= known[<<Catalog!GroupOf(k), u>>]
  BY AllAnswered
<1>2. F \subseteq DOMAIN task[t].got /\ \A u \in F : task[t].got[u].ok
  BY DEF Catalog!Further, Catalog!Ok
<1>3. F \in SUBSET Upstreams /\ \A u \in F : task[t].pages[u] + 1 \in Nat
  BY <1>1, <1>2
<1>4. pages \in [F -> Nat]
  BY <1>3
<1>5. pages \in PageMaps /\ DOMAIN pages = F /\ DOMAIN vers = F
  BY <1>3, <1>4 DEF PageMaps
<1>6. \A u \in F : vers[u] >= known[<<Catalog!GroupOf(k), u>>]
  BY <1>1, <1>2
<1>7. next.kind = k /\ next.pages = pages /\ next.ver = vers /\ next.turn = MaxCursors + 1
  OBVIOUS
<1>8. Catalog!Stored(t) = IF F = {} THEN cursors ELSE Catalog!Ranked(kept \cup {next})
  BY DEF Catalog!Stored
<1>9. next \in [kind : {k}, pages : {pages}, ver : {vers}, turn : {MaxCursors + 1}]
  OBVIOUS
<1>. HIDE DEF F, pages, vers, next
<1>10. CursorOK(next, known)
  BY <1>1, <1>5, <1>6, <1>7, <1>9 DEF CursorOK
<1>11. \A c \in cursors : CursorOK(c, known)
  BY DEF CatalogInv, Currents
<1>12. \A c \in kept \cup {next} : CursorOK(c, known)
  BY <1>10, <1>11
<1>. HIDE DEF kept
<1>. QED  BY <1>8, <1>11, <1>12, RankedOK

\* What was known of every upstream and has not changed is what the list brought.
LEMMA NotFlipped ==
  ASSUME CatalogInv, NEW t \in Catalog!Tasks, task[t].pc = "listing", Catalog!Unanswered(t) = {},
         ~Catalog!Flipped(t), \A u \in Upstreams : avail[task[t].kind][u] \in BOOLEAN
  PROVE  /\ \A u \in DOMAIN task[t].got : avail[task[t].kind][u] = task[t].got[u].ok
         /\ Catalog!Availability(t) = avail[task[t].kind]
<1>. DEFINE k == task[t].kind
<1>1. DOMAIN task[t].got \subseteq Upstreams /\ k \in Catalog!Kinds
  BY AllAnswered
<1>2. ASSUME NEW u \in DOMAIN task[t].got PROVE avail[k][u] = task[t].got[u].ok
  <2>1. avail[k][u] # None
    BY <1>1, ServerAssumption
  <2>. QED  BY <2>1 DEF Catalog!Flipped
<1>3. avail[k] \in [Upstreams -> BOOLEAN \cup {None}]
  BY <1>1 DEF CatalogInv, CatalogTypes
<1>4. Catalog!Availability(t) = avail[k]
  BY <1>1, <1>2, <1>3 DEF Catalog!Availability
<1>. QED  BY <1>2, <1>4

\* The requests, and what is pending, when a list has all its pages.
LEMMA ListedTasks ==
  ASSUME CatalogInv, NEW t \in Catalog!Tasks, Catalog!Listed(t)
  PROVE  /\ UNCHANGED <<strict, ver, known>>
         /\ task[t].pc = "listing" /\ Catalog!Unanswered(t) = {}
         /\ task' \in [Catalog!Tasks -> Lists] /\ \A s \in Catalog!Tasks : ListOK(task'[s], known')
         /\ \A k \in Catalog!Kinds : k \notin dirty' /\ Catalog!GroupOf(k) \notin pending' => Catalog!GroupOf(k) \notin pending
<1>. DEFINE k == task[t].kind
            changed == IF Catalog!EpochIsCurrent(t) THEN Catalog!Flags(t) ELSE changes
            fine == Catalog!EpochIsCurrent(t) /\ ~Catalog!Failed(t)
            again == ~Catalog!EpochIsCurrent(t) /\ task[t].op = "read" /\ task[t].round = 1
            after == IF fine /\ task[t].op = "read" THEN Catalog!Located(k) ELSE Catalog!Done
<1>1. /\ UNCHANGED <<strict, ver, known>> /\ task[t].pc = "listing" /\ Catalog!Unanswered(t) = {}
      /\ again => task' = [task EXCEPT ![t] = Catalog!Listing("read", k, Catalog!FirstPages, 2, FALSE)] /\ pending' = pending
      /\ ~again => Catalog!Notify(t, changed, after)
      /\ ~again => Catalog!Heard(t, changed) \subseteq dirty'
  BY DEF Catalog!Listed, Catalog!world
<1>. HIDE DEF changed, fine
<1>2. k \in Catalog!Kinds /\ (task[t].op # "list" => k \in Catalog!Groups)
  BY <1>1, AllAnswered
<1>3. CASE again
  <2>1. ListOK(Catalog!Listing("read", k, Catalog!FirstPages, 2, FALSE), known)
    BY <1>2, <1>3, ListingOK, FirstPagesType
  <2>2. task \in [Catalog!Tasks -> Lists] /\ \A s \in Catalog!Tasks : ListOK(task[s], known)
    BY DEF CatalogInv, CatalogTypes, Currents
  <2>3. Catalog!Listing("read", k, Catalog!FirstPages, 2, FALSE) \in Lists
    BY <2>1 DEF ListOK
  <2>4. \A s \in Catalog!Tasks : ListOK(task'[s], known')
    BY <1>1, <1>3, <2>1, <2>2
  <2>5. task' \in [Catalog!Tasks -> Lists]
    BY <1>1, <1>3, <2>2, <2>3
  <2>. QED  BY <1>1, <1>3, <2>4, <2>5
<1>4. CASE ~again
  <2>1. ListOK(after, known)
    <3>1. ListOK(Catalog!Done, known)
      BY NewLists, IdleList
    <3>2. task[t].op = "read" => ListOK(Catalog!Located(k), known)
      BY <1>2, NewLists
    <3>. QED  BY <3>1, <3>2
  <2>2. Catalog!Notify(t, changed, after) /\ Catalog!Heard(t, changed) \subseteq dirty' /\ known' = known
    BY <1>1, <1>4
  <2>. HIDE DEF after, again
  <2>3. /\ task' \in [Catalog!Tasks -> Lists] /\ \A s \in Catalog!Tasks : ListOK(task'[s], known')
        /\ pending' = pending \ {Catalog!GroupOf(k)}
    BY <2>1, <2>2, NotifyStep
  <2>4. \A j \in Catalog!Kinds : j \notin dirty' /\ Catalog!GroupOf(j) \notin pending' => Catalog!GroupOf(j) \notin pending
    BY <1>2, <2>2, <2>3, HeardStep
  <2>. QED  BY <1>1, <2>3, <2>4
<1>. QED  BY <1>3, <1>4

\* A flip that a list brings is told.
LEMMA FlipIsTold ==
  ASSUME CatalogInv, NEW t \in Catalog!Tasks, Catalog!Listed(t), Catalog!EpochIsCurrent(t), Catalog!Flipped(t)
  PROVE  task[t].kind \in dirty'
<1>1. task[t].kind \in Catalog!Kinds
  BY AllAnswered DEF Catalog!Listed
<1>2. task[t].kind \in Catalog!Flags(t) /\ Catalog!Heard(t, Catalog!Flags(t)) \subseteq dirty'
  BY DEF Catalog!Listed, Catalog!Flags
<1>. QED  BY <1>1, <1>2, KindsAndGroups DEF Catalog!Heard, Catalog!Due

\* What the client is shown is what is available, and the list has made its routes.
LEMMA ShownSettled ==
  ASSUME CatalogInv, NEW t \in Catalog!Tasks, NEW k \in Catalog!Kinds, k = task[t].kind, task[t].pc = "listing", Catalog!Unanswered(t) = {},
         Catalog!EpochIsCurrent(t), ~Catalog!Failed(t), task[t].pages = Catalog!FirstPages, strict' = strict,
         view'[k] = Catalog!Ok(t), avail'[k] = Catalog!Availability(t),
         Catalog!RoutesOf(k)' = Catalog!Merged(t)
  PROVE  SettledInv(k)'
<1>. DEFINE got == task[t].got
<1>1. DOMAIN got = Upstreams /\ \A u \in Upstreams : got[u] \in Gots
  BY AllAnswered
<1>2. \A u \in Upstreams : got[u].ok \in BOOLEAN /\ got[u].ver \in 0..MaxVer
  BY <1>1 DEF Gots
<1>3. Catalog!Ok(t) = {u \in Upstreams : got[u].ok}
  BY <1>1 DEF Catalog!Ok
<1>4. \A u \in Upstreams : Catalog!Availability(t)[u] = got[u].ok
  BY <1>1 DEF Catalog!Availability
<1>5. (Catalog!Ok(t) = {} => Upstreams = {}) /\ (strict => Catalog!Ok(t) = Upstreams)
  BY <1>1 DEF Catalog!Failed
<1>6. ASSUME NEW u \in Catalog!Ok(t) PROVE \E r \in Catalog!Merged(t) : r.of = u /\ r.page = 1
  <2>. DEFINE kept == {r \in Catalog!RoutesOf(k) : r.of \in Catalog!Ok(t) \/ r.of \notin DOMAIN got}
              e == [of |-> u, page |-> 1, ver |-> got[u].ver]
  <2>1. CASE \E s \in kept : s.of = u /\ s.page = 1
    BY <2>1 DEF Catalog!Merged
  <2>2. CASE ~\E s \in kept : s.of = u /\ s.page = 1
    <3>1. u \in Upstreams /\ got[u].ver \in 0..MaxVer /\ 1 \in 1..Pages
      BY <1>2, <1>3, ServerAssumption
    <3>2. e \in [of : Catalog!Ok(t), page : 1..Pages, ver : 0..MaxVer]
      BY <3>1
    <3>3. task[t].pages[u] = 1
      BY <3>1 DEF Catalog!FirstPages
    <3>4. e.of = u /\ e.page = 1 /\ e.ver = got[u].ver
      OBVIOUS
    <3>. HIDE DEF e
    <3>5. e \in Catalog!Merged(t)
      BY <2>2, <3>2, <3>3, <3>4 DEF Catalog!Merged
    <3>. QED  BY <3>4, <3>5
  <2>. QED  BY <2>1, <2>2
<1>7. \A u \in Upstreams :
        /\ avail'[k][u] \in BOOLEAN
        /\ u \in view'[k] <=> avail'[k][u]
        /\ u \in view'[k] => \E r \in Catalog!RoutesOf(k)' : r.of = u /\ r.page = 1
  BY <1>2, <1>3, <1>4, <1>6
<1>. QED  BY <1>5, <1>7 DEF SettledInv

\* A list that is not shown leaves a settled client what it was shown, or tells it, or cuts the list off.
LEMMA UnshownSettled ==
  ASSUME CatalogInv, NEW t \in Catalog!Tasks, NEW k \in Catalog!Kinds, k = task[t].kind, task[t].pc = "listing", Catalog!Unanswered(t) = {},
         Catalog!EpochIsCurrent(t), ~Catalog!Flipped(t), Catalog!Settled(k),
         Catalog!Failed(t) => task[t].pages = Catalog!FirstPages, strict' = strict,
         view'[k] = view[k], avail'[k] = Catalog!Availability(t),
         ~Catalog!Failed(t) => Catalog!RoutesOf(k)' = Catalog!Merged(t)
  PROVE  SettledInv(k)'
<1>. DEFINE got == task[t].got
<1>1. k \in Catalog!Kinds /\ DOMAIN got \subseteq Upstreams /\ (task[t].pages = Catalog!FirstPages => DOMAIN got = Upstreams)
  BY AllAnswered
<1>2. /\ view[k] = {} => Upstreams = {}
      /\ strict => view[k] = Upstreams
      /\ \A u \in Upstreams :
           /\ avail[k][u] \in BOOLEAN
           /\ u \in view[k] <=> avail[k][u]
           /\ u \in view[k] => \E r \in Catalog!RoutesOf(k) : r.of = u /\ r.page = 1
  BY <1>1 DEF CatalogInv, SettledInv
<1>3. (\A u \in DOMAIN got : avail[k][u] = got[u].ok) /\ Catalog!Availability(t) = avail[k]
  BY <1>2, NotFlipped
<1>4. view[k] \in SUBSET Upstreams
  BY <1>1 DEF CatalogInv, CatalogTypes, Catalog!Settled
<1>5. ~Catalog!Failed(t)
  <2>. SUFFICES ASSUME Catalog!Failed(t) PROVE FALSE
    OBVIOUS
  <2>1. DOMAIN got = Upstreams
    BY <1>1
  <2>2. Catalog!Ok(t) = {u \in Upstreams : u \in view[k]}
    BY <1>2, <1>3, <2>1 DEF Catalog!Ok
  <2>3. Catalog!Ok(t) = view[k]
    BY <1>4, <2>2
  <2>. QED  BY <1>2, <2>1, <2>3 DEF Catalog!Failed
<1>6. ASSUME NEW u \in Upstreams, u \in view[k] PROVE \E r \in Catalog!RoutesOf(k)' : r.of = u /\ r.page = 1
  <2>1. PICK r \in Catalog!RoutesOf(k) : r.of = u /\ r.page = 1
    BY <1>2, <1>6
  <2>2. u \in DOMAIN got => u \in Catalog!Ok(t)
    BY <1>2, <1>3, <1>6 DEF Catalog!Ok
  <2>3. r \in Catalog!Merged(t)
    BY <2>1, <2>2 DEF Catalog!Merged
  <2>. QED  BY <1>5, <2>1, <2>3
<1>7. avail'[k] = avail[k]
  BY <1>3
<1>. QED  BY <1>2, <1>6, <1>7 DEF SettledInv

\* The end of a listing keeps the invariant: it stores for the epoch it began in, or not at all.
LEMMA ListedInv ==
  ASSUME CatalogInv, NEW t \in Catalog!Tasks, Catalog!Listed(t)
  PROVE  CatalogInv'
<1>0. PICK k \in Catalog!Kinds : k = task[t].kind
  BY OpenKind DEF Catalog!Listed
<1>. DEFINE fine == Catalog!EpochIsCurrent(t) /\ ~Catalog!Failed(t)
            shown == fine /\ task[t].op = "list" /\ task[t].pages = Catalog!FirstPages
<1>1. /\ UNCHANGED <<strict, ver, known>>
      /\ task[t].pc = "listing" /\ Catalog!Unanswered(t) = {}
      /\ task' \in [Catalog!Tasks -> Lists] /\ \A s \in Catalog!Tasks : ListOK(task'[s], known')
      /\ \A j \in Catalog!Kinds : j \notin dirty' /\ Catalog!GroupOf(j) \notin pending' => Catalog!GroupOf(j) \notin pending
  BY ListedTasks
<1>2. k \in Catalog!Kinds /\ DOMAIN task[t].got \subseteq Upstreams
      /\ \A u \in DOMAIN task[t].got : task[t].got[u] \in Gots
  BY <1>0, <1>1, AllAnswered
<1>3. /\ view' = IF shown THEN [view EXCEPT ![k] = Catalog!Ok(t)] ELSE view
      /\ cut' = IF shown THEN cut \ {k}
                ELSE IF Catalog!EpochIsCurrent(t) /\ Catalog!Failed(t) /\ task[t].pages # Catalog!FirstPages
                     THEN cut \cup {k} ELSE cut
      /\ (IF shown THEN dirty \ {k} ELSE dirty) \subseteq dirty'
  BY <1>0 DEF Catalog!Listed
<1>4. /\ ~Catalog!EpochIsCurrent(t) => UNCHANGED <<routes, cursors, avail>>
      /\ Catalog!EpochIsCurrent(t) =>
           /\ avail' = [avail EXCEPT ![k] = Catalog!Availability(t)]
           /\ routes' = [routes EXCEPT ![k] = IF Catalog!Failed(t) THEN None ELSE Catalog!Merged(t)]
           /\ cursors' = IF Catalog!Failed(t) THEN Catalog!Without({k}) ELSE Catalog!Stored(t)
  BY <1>0 DEF Catalog!Listed
<1>5. DOMAIN routes = Catalog!Kinds /\ avail \in [Catalog!Kinds -> [Upstreams -> BOOLEAN \cup {None}]]
      /\ view \in [Catalog!Kinds -> (SUBSET Upstreams) \cup {None}] /\ strict \in BOOLEAN
  BY DEF CatalogInv, CatalogTypes
<1>. HIDE DEF shown, fine
<1>6. \A j \in Catalog!Kinds \ {k} : routes'[j] = routes[j] /\ avail'[j] = avail[j] /\ view'[j] = view[j]
  BY <1>2, <1>3, <1>4, <1>5
<1>7. \A j \in Catalog!Kinds \ {k} : Catalog!RoutesOf(j)' = Catalog!RoutesOf(j)
  BY <1>6 DEF Catalog!RoutesOf
<1>8. Catalog!EpochIsCurrent(t) =>
        avail'[k] = Catalog!Availability(t) /\ Catalog!RoutesOf(k)' = IF Catalog!Failed(t) THEN {} ELSE Catalog!Merged(t)
  <2>. SUFFICES ASSUME Catalog!EpochIsCurrent(t)
                PROVE  avail'[k] = Catalog!Availability(t)
                       /\ Catalog!RoutesOf(k)' = IF Catalog!Failed(t) THEN {} ELSE Catalog!Merged(t)
    OBVIOUS
  <2>1. avail'[k] = Catalog!Availability(t) /\ routes'[k] = IF Catalog!Failed(t) THEN None ELSE Catalog!Merged(t)
    BY <1>2, <1>4, <1>5
  <2>2. Catalog!Merged(t) # None
    BY <1>1, MergedOK
  <2>. QED  BY <2>1, <2>2 DEF Catalog!RoutesOf
<1>9. ~Catalog!EpochIsCurrent(t) => \A j \in Catalog!Kinds : Catalog!RoutesOf(j)' = Catalog!RoutesOf(j)
  BY <1>4 DEF Catalog!RoutesOf
<1>10. Versions'
  BY <1>1 DEF CatalogInv, Versions
<1>11. CatalogTypes'
  <2>1. DOMAIN routes' = Catalog!Kinds
    BY <1>4, <1>5
  <2>2. Catalog!Availability(t) \in [Upstreams -> BOOLEAN \cup {None}]
    <3>1. \A u \in DOMAIN task[t].got : task[t].got[u].ok \in BOOLEAN
      BY <1>2 DEF Gots
    <3>2. \A u \in Upstreams : avail[k][u] \in BOOLEAN \cup {None}
      BY <1>2, <1>5
    <3>. QED  BY <1>0, <3>1, <3>2 DEF Catalog!Availability
  <2>3. avail' \in [Catalog!Kinds -> [Upstreams -> BOOLEAN \cup {None}]]
    BY <1>2, <1>4, <1>5, <2>2
  <2>4. Catalog!Ok(t) \in SUBSET Upstreams
    BY <1>2 DEF Catalog!Ok
  <2>5. view' \in [Catalog!Kinds -> (SUBSET Upstreams) \cup {None}]
    BY <1>2, <1>3, <1>5, <2>4
  <2>. QED  BY <1>1, <1>5, <2>1, <2>3, <2>5 DEF CatalogTypes
<1>12. Currents'
  <2>1. (\A j \in Catalog!Kinds : \A r \in Catalog!RoutesOf(j) : EntryOK(j, r, known)) /\ \A c \in cursors : CursorOK(c, known)
    BY DEF CatalogInv, Currents
  <2>2. \A j \in Catalog!Kinds : \A r \in Catalog!RoutesOf(j)' : EntryOK(j, r, known')
    <3>1. ASSUME NEW j \in Catalog!Kinds, j # k, NEW r \in Catalog!RoutesOf(j)' PROVE EntryOK(j, r, known')
      BY <1>1, <1>7, <2>1, <3>1
    <3>2. ASSUME NEW r \in Catalog!RoutesOf(k)' PROVE EntryOK(k, r, known')
      <4>1. CASE Catalog!EpochIsCurrent(t)
        BY <1>0, <1>1, <1>8, <3>2, <4>1, MergedOK
      <4>2. CASE ~Catalog!EpochIsCurrent(t)
        BY <1>1, <1>2, <1>9, <2>1, <3>2, <4>2
      <4>. QED  BY <4>1, <4>2
    <3>. QED  BY <3>1, <3>2
  <2>3. \A c \in cursors' : CursorOK(c, known')
    <3>1. CASE Catalog!EpochIsCurrent(t) /\ Catalog!Failed(t)
      <4>1. \A c \in {d \in cursors : d.kind \notin {k}} : CursorOK(c, known)
        BY <2>1
      <4>2. \A c \in Catalog!Without({k}) : CursorOK(c, known)
        BY <4>1, RankedOK DEF Catalog!Without
      <4>. QED  BY <1>1, <1>4, <3>1, <4>2
    <3>2. CASE Catalog!EpochIsCurrent(t) /\ ~Catalog!Failed(t)
      BY <1>1, <1>4, <3>2, StoredOK
    <3>3. CASE ~Catalog!EpochIsCurrent(t)
      BY <1>1, <1>4, <2>1, <3>3
    <3>. QED  BY <3>1, <3>2, <3>3
  <2>. QED  BY <1>1, <2>2, <2>3 DEF Currents
<1>13. ASSUME NEW j \in Catalog!Kinds, j # k PROVE SettledInv(j)'
  <2>1. SettledInv(j)
    BY DEF CatalogInv
  <2>2. Catalog!Settled(j)' => Catalog!Settled(j)
    BY <1>1, <1>3, <1>6, <1>13 DEF Catalog!Settled
  <2>. QED  BY <1>1, <1>6, <1>7, <1>13, <2>1, <2>2, StaysSettled
<1>14. SettledInv(k)'
  <2>1. CASE shown
    <3>1. view'[k] = Catalog!Ok(t)
      BY <1>2, <1>3, <1>5, <2>1
    <3>2. Catalog!EpochIsCurrent(t) /\ ~Catalog!Failed(t) /\ task[t].pages = Catalog!FirstPages
      BY <2>1 DEF shown, fine
    <3>. QED  BY <1>0, <1>1, <1>8, <3>1, <3>2, ShownSettled
  <2>2. CASE ~shown
    <3>. SUFFICES ASSUME Catalog!Settled(k)' PROVE SettledInv(k)'
      BY DEF SettledInv
    <3>1. view'[k] = view[k] /\ cut \subseteq cut' /\ dirty \subseteq dirty'
      BY <1>3, <2>2
    <3>2. Catalog!Settled(k) /\ k \notin dirty' /\ k \notin cut'
      BY <1>1, <1>2, <3>1 DEF Catalog!Settled
    <3>3. CASE ~Catalog!EpochIsCurrent(t)
      <4>1. SettledInv(k) /\ avail'[k] = avail[k] /\ Catalog!RoutesOf(k) \subseteq Catalog!RoutesOf(k)'
        BY <1>2, <1>4, <1>9, <3>3 DEF CatalogInv
      <4>. QED  BY <1>1, <1>2, <3>1, <3>2, <4>1, StaysSettled
    <3>4. CASE Catalog!EpochIsCurrent(t)
      <4>1. ~Catalog!Flipped(t)
        BY <1>0, <3>2, <3>4, FlipIsTold
      <4>2. Catalog!Failed(t) => task[t].pages = Catalog!FirstPages
        BY <1>3, <2>2, <3>2, <3>4
      <4>. QED  BY <1>1, <1>8, <3>1, <3>2, <3>4, <4>1, <4>2, <1>0, UnshownSettled
    <3>. QED  BY <3>3, <3>4
  <2>. QED  BY <2>1, <2>2
<1>. QED  BY <1>10, <1>11, <1>12, <1>13, <1>14 DEF CatalogInv

\* Every step of the catalogue keeps the invariant.
LEMMA CatalogNext ==
  ASSUME CatalogInv, Catalog!Next
  PROVE  CatalogInv'
BY ListInv, ReadInv, AnswerInv, ListedInv, FoundInv, FinishInv, CancelInv, ChangeInv, NoticeInv, LoseInv,
   LoadToolsInv, RestartedInv DEF Catalog!Next

\* A step of another part leaves the catalogue as it is.
LEMMA CatalogStutter ==
  ASSUME CatalogInv, UNCHANGED <<strict, ver, task, known, view, dirty, routes, cursors, avail, pending, cut>>
  PROVE  CatalogInv'
<1>1. \A k \in Catalog!Kinds : Catalog!RoutesOf(k)' = Catalog!RoutesOf(k)
  BY DEF Catalog!RoutesOf
<1>2. \A k \in Catalog!Kinds : SettledInv(k)'
  BY <1>1 DEF CatalogInv, SettledInv, Catalog!Settled
<1>. QED  BY <1>1, <1>2 DEF CatalogInv, Versions, CatalogTypes, Currents

\* Whatever is invalidated, lost or changed while requests are in flight, no route or cursor outlives it,
\* what the client was shown leads somewhere unless it was told, and no flip of an upstream is kept from it.
THEOREM CatalogStaysCurrent == ServerSpec => []CatalogIsCurrent
<1>. DEFINE Inv == part = "catalog" => CatalogInv
<1>1. ServerInit => Inv
  BY CatalogInit DEF ServerInit
<1>2. Inv /\ [ServerNext]_all => Inv'
  <2>. SUFFICES ASSUME Inv, [ServerNext]_all PROVE Inv'
    OBVIOUS
  <2>1. CASE ListResources
    <3>1. part = "catalog" /\ part' = part /\ Catalog!Next
      BY <2>1 DEF ListResources, Catalog!MCNext
    <3>. QED  BY <3>1, CatalogNext
  <2>2. CASE Request \/ ListTools \/ Subscribe \/ VerifyIdentity \/ Rule
    BY <2>2 DEF Request, ListTools, Subscribe, VerifyIdentity, Rule
  <2>3. CASE UNCHANGED all
    BY <2>3, CatalogStutter DEF all, lists, catalogVars
  <2>. QED  BY <2>1, <2>2, <2>3 DEF ServerNext
<1>3. Inv => CatalogIsCurrent
  <2>. SUFFICES ASSUME CatalogInv, part = "catalog" PROVE CatalogIsCurrent
    BY DEF CatalogIsCurrent
  <2>1. Catalog!NothingFromBefore
    BY DEF CatalogInv, Currents, EntryOK, CursorOK, Catalog!NothingFromBefore
  <2>2. Catalog!ShownIsReachable
    <3>1. \A k \in Catalog!Kinds : Catalog!Settled(k) => view[k] \in SUBSET Upstreams
      BY DEF CatalogInv, CatalogTypes, Catalog!Settled
    <3>. QED  BY <3>1 DEF CatalogInv, SettledInv, Catalog!ShownIsReachable
  <2>3. Catalog!ClientIsTold
    BY DEF CatalogInv, SettledInv, Catalog!ClientIsTold
  <2>. QED  BY <2>1, <2>2, <2>3 DEF CatalogIsCurrent
<1>. QED  BY <1>1, <1>2, <1>3, PTL DEF ServerSpec, all

-----------------------------------------------------------------------------
(* Decisions.                                                              *)

Requests ==
  [environment : Profiles \cup {None}, markers : SUBSET Profiles, rules : SUBSET Profiles,
   bindings : SUBSET Profiles, plugins : SUBSET Profiles, fallback : {"activeProfile", "default", "block", "ask"},
   active : Profiles, selected : Rulings!Selections, tool : Rulings!Tools, policy : Rulings!Policies,
   mustRule : BOOLEAN, mustSelect : BOOLEAN, identityMode : {None, "explicit", "confirmed"}]

DecisionInv == request \in Requests /\ verdict = Rulings!Decide(request)

\* Cardinality is the same in the instance.
LEMMA RulingsCardinality == \A S : Rulings!Cardinality(S) = Cardinality(S)
BY DEF Rulings!Cardinality, Cardinality

\* The plain request is one of the requests.
LEMMA PlainRequest == Rulings!Plain \in Requests /\ Rulings!Plain.tool = Rulings!Delete
<1>1. Rulings!Delete \in Rulings!Tools
  BY DEF Rulings!Delete, Rulings!Tools, Rulings!Risks, Rulings!Hints
<1>2. None \in Rulings!Policies /\ "none" \in Rulings!Selections
  BY DEF Rulings!Policies, Rulings!Selections
<1>3. Default \in Profiles
  BY ServerAssumption
<1>. QED  BY <1>1, <1>2, <1>3 DEF Rulings!Plain, Requests

\* A request is decided from nothing.
LEMMA AskInv ==
  ASSUME DecisionInv, Rulings!Next
  PROVE  DecisionInv'
<1>. DEFINE plain == Rulings!Plain
<1>1. plain \in Requests /\ plain.tool = Rulings!Delete
  BY PlainRequest
<1>. HIDE DEF plain
<1>2. verdict' = Rulings!Decide(request')
  BY DEF Rulings!Next, Rulings!Ask
<1>3. CASE request' \in Rulings!Routings
  <2>1. Rulings!Delete \in Rulings!Tools /\ None \in Rulings!Policies /\ {Default} \in SUBSET Profiles
        /\ {"none", "selected"} \subseteq Rulings!Selections
    BY <1>1, ServerAssumption DEF Requests, Rulings!Policies, Rulings!Selections
  <2>2. request' \in Requests
    BY <1>3, <2>1 DEF Rulings!Routings, Requests
  <2>. QED  BY <1>2, <2>2 DEF DecisionInv
<1>4. ASSUME NEW t \in Rulings!Tools, NEW p \in Rulings!Policies, request' = [plain EXCEPT !.tool = t, !.policy = p]
      PROVE  DecisionInv'
  <2>. DEFINE x == [plain EXCEPT !.tool = t]
  <2>1. x \in Requests
    BY <1>1 DEF Requests
  <2>2. request' = [x EXCEPT !.policy = p]
    BY <1>4
  <2>. HIDE DEF x
  <2>3. request' \in Requests
    BY <2>1, <2>2 DEF Requests
  <2>. QED  BY <1>2, <2>3 DEF DecisionInv
<1>5. ASSUME NEW s \in Rulings!Selections, NEW i \in {None, "explicit", "confirmed"}, NEW e \in Profiles,
             NEW n \in SUBSET Rulings!Risks,
             request' = [plain EXCEPT !.environment = e, !.selected = s, !.identityMode = i, !.tool.name = n]
      PROVE  DecisionInv'
  <2>. DEFINE t == [plain.tool EXCEPT !.name = n]
              x == [plain EXCEPT !.environment = e]
              y == [x EXCEPT !.selected = s]
              z == [y EXCEPT !.identityMode = i]
  <2>1. t \in Rulings!Tools
    BY <1>1 DEF Requests, Rulings!Tools, Rulings!Delete
  <2>2. x \in Requests /\ x.tool = plain.tool
    BY <1>1 DEF Requests
  <2>3. request' = [z EXCEPT !.tool.name = n]
    BY <1>5
  <2>. HIDE DEF x
  <2>4. y \in Requests /\ y.tool = plain.tool
    BY <2>2 DEF Requests
  <2>. HIDE DEF y
  <2>5. z \in Requests /\ z.tool = plain.tool
    BY <2>4 DEF Requests
  <2>. HIDE DEF z
  <2>6. request' = [z EXCEPT !.tool = t]
    BY <2>3, <2>5
  <2>. HIDE DEF t
  <2>7. request' \in Requests
    BY <2>1, <2>5, <2>6 DEF Requests
  <2>. QED  BY <1>2, <2>7 DEF DecisionInv
<1>. QED  BY <1>3, <1>4, <1>5 DEF Rulings!Next, Rulings!Ask, plain

\* What a band of the precedence can say.
Sayings(by) ==
  {Rulings!Undecided, Rulings!Stop("ROUTING_AMBIGUOUS")} \cup {Rulings!Route(q, by) : q \in Profiles}
Strengths == [hint |-> 3, rule |-> 2, matcher |-> 1]

\* A route is read as it was written.
LEMMA RouteFields ==
  ASSUME NEW q, NEW by
  PROVE  /\ Rulings!Route(q, by).profile = q /\ Rulings!Route(q, by).by = by
         /\ Rulings!Stop(by).profile = None /\ Rulings!Stop(by).by = by
         /\ by # "undecided" => Rulings!Route(q, by) # Rulings!Undecided /\ Rulings!Stop(by) # Rulings!Undecided
         /\ Rulings!Undecided.profile = None /\ Rulings!Undecided.by = "undecided"
BY DEF Rulings!Route, Rulings!Stop, Rulings!Undecided

\* A band decides for a profile it names, stops, or passes on.
LEMMA BandSays ==
  ASSUME NEW named \in SUBSET Profiles, NEW by
  PROVE  /\ named = {} => Rulings!Band(named, by) = Rulings!Undecided
         /\ \A q \in Profiles : named = {q} => Rulings!Band(named, by) = Rulings!Route(q, by)
         /\ named # {} /\ (\A q \in Profiles : named # {q}) => Rulings!Band(named, by) = Rulings!Stop("ROUTING_AMBIGUOUS")
<1>1. IsFiniteSet(named) /\ Cardinality(named) \in Nat
  BY ServerAssumption, FS_Subset, FS_CardinalityType
<1>2. Rulings!Cardinality(named) = Cardinality(named)
  BY RulingsCardinality
<1>3. ASSUME NEW q \in Profiles, named = {q} PROVE Rulings!Band(named, by) = Rulings!Route(q, by)
  <2>1. Cardinality(named) = 1
    BY <1>3, FS_Singleton
  <2>2. (CHOOSE p \in named : TRUE) = q
    BY <1>3
  <2>3. ~(Rulings!Cardinality(named) > 1) /\ named # {}
    BY <1>2, <1>3, <2>1
  <2>. QED  BY <2>2, <2>3 DEF Rulings!Band
<1>4. ASSUME named # {}, \A q \in Profiles : named # {q} PROVE Rulings!Band(named, by) = Rulings!Stop("ROUTING_AMBIGUOUS")
  <2>1. Cardinality(named) # 0
    BY <1>1, <1>4, FS_EmptySet
  <2>2. Cardinality(named) # 1
    <3>1. ASSUME Cardinality(named) = 1 PROVE FALSE
      <4>1. PICK x : named = {x}
        BY <1>1, <3>1, FS_Singleton
      <4>. QED  BY <1>4, <4>1
    <3>. QED  BY <3>1
  <2>3. Rulings!Cardinality(named) > 1
    BY <1>1, <1>2, <2>1, <2>2
  <2>. QED  BY <1>4, <2>3 DEF Rulings!Band
<1>. QED  BY <1>3, <1>4 DEF Rulings!Band

\* One more voice in a band: it names that profile, stays as it is, or is ambiguous.
LEMMA BandMore ==
  ASSUME NEW named \in SUBSET Profiles, NEW p \in Profiles, NEW by, by # "undecided"
  PROVE  /\ Rulings!Band(named, by) \in Sayings(by) /\ Rulings!Band(named \cup {p}, by) \in Sayings(by)
         /\ Rulings!Band(named \cup {p}, by) # Rulings!Undecided
         /\ Rulings!Band(named, by) = Rulings!Undecided =>
              Rulings!Band(named \cup {p}, by) = Rulings!Route(p, by)
         /\ Rulings!Band(named, by) # Rulings!Undecided =>
              Rulings!Band(named \cup {p}, by) \in {Rulings!Band(named, by), Rulings!Stop("ROUTING_AMBIGUOUS")}
<1>1. CASE named = {}
  <2>1. named \cup {p} = {p}
    BY <1>1
  <2>2. Rulings!Band({p}, by) = Rulings!Route(p, by) /\ Rulings!Band(named, by) = Rulings!Undecided
    BY <1>1, BandSays
  <2>. QED  BY <2>1, <2>2, RouteFields DEF Sayings
<1>2. ASSUME NEW q \in Profiles, named = {q}
      PROVE  /\ Rulings!Band(named, by) = Rulings!Route(q, by)
             /\ Rulings!Band(named \cup {p}, by) \in {Rulings!Route(q, by), Rulings!Stop("ROUTING_AMBIGUOUS")}
  <2>1. Rulings!Band(named, by) = Rulings!Route(q, by)
    BY <1>2, BandSays
  <2>2. CASE p = q
    <3>1. named \cup {p} = named
      BY <1>2, <2>2
    <3>. QED  BY <2>1, <3>1
  <2>3. CASE p # q
    <3>1. named \cup {p} \in SUBSET Profiles /\ named \cup {p} # {} /\ \A x \in Profiles : named \cup {p} # {x}
      BY <1>2, <2>3
    <3>. QED  BY <2>1, <3>1, BandSays
  <2>. QED  BY <2>2, <2>3
<1>3. CASE named # {} /\ \A q \in Profiles : named # {q}
  <2>1. named \cup {p} \in SUBSET Profiles /\ named \cup {p} # {} /\ \A x \in Profiles : named \cup {p} # {x}
    BY <1>3
  <2>2. Rulings!Band(named, by) = Rulings!Stop("ROUTING_AMBIGUOUS")
        /\ Rulings!Band(named \cup {p}, by) = Rulings!Stop("ROUTING_AMBIGUOUS")
    BY <1>3, <2>1, BandSays
  <2>. QED  BY <2>2, RouteFields DEF Sayings
<1>4. ASSUME NEW q \in Profiles, named = {q} PROVE /\ Rulings!Band(named, by) \in Sayings(by)
                                                  /\ Rulings!Band(named \cup {p}, by) \in Sayings(by)
                                                  /\ Rulings!Band(named \cup {p}, by) # Rulings!Undecided
                                                  /\ Rulings!Band(named, by) # Rulings!Undecided
  <2>1. /\ Rulings!Band(named, by) = Rulings!Route(q, by)
        /\ Rulings!Band(named \cup {p}, by) \in {Rulings!Route(q, by), Rulings!Stop("ROUTING_AMBIGUOUS")}
    BY <1>2, <1>4
  <2>2. Rulings!Route(q, by) # Rulings!Undecided /\ Rulings!Stop("ROUTING_AMBIGUOUS") # Rulings!Undecided
    BY RouteFields
  <2>. QED  BY <2>1, <2>2 DEF Sayings
<1>. QED  BY <1>1, <1>2, <1>3, <1>4

\* A route may become another one by one more voice for a profile: it stays, it stops, or the voice is stronger.
Follows(after, before, p) ==
  \/ after.profile \in {None, before.profile}
  \/ after.profile = p /\ Rulings!Strength(after) > Rulings!Strength(before)

\* What a request is resolved to, band by band.
LEMMA ResolveBands ==
  ASSUME NEW r \in Requests
  PROVE  LET e == Rulings!Band({r.environment} \ {None}, "hint")
             m == Rulings!Band(r.markers, "hint")
             u == Rulings!Band(r.rules, "rule")
             b == Rulings!Band(r.bindings \cup r.plugins, "matcher")
         IN  /\ Rulings!Resolve(r) = IF e # Rulings!Undecided THEN e
                                     ELSE IF m # Rulings!Undecided THEN m
                                     ELSE IF u # Rulings!Undecided THEN u
                                     ELSE IF b # Rulings!Undecided THEN b
                                     ELSE Rulings!Fallback(r)
             /\ e \in Sayings("hint") /\ m \in Sayings("hint") /\ u \in Sayings("rule") /\ b \in Sayings("matcher")
             /\ Rulings!Strength(Rulings!Fallback(r)) = 0
             /\ Rulings!Fallback(r).by \notin {"allow", "confirm", "rule"}
<1>. DEFINE e == Rulings!Band({r.environment} \ {None}, "hint")
            m == Rulings!Band(r.markers, "hint")
            u == Rulings!Band(r.rules, "rule")
            b == Rulings!Band(r.bindings \cup r.plugins, "matcher")
<1>1. {r.environment} \ {None} \in SUBSET Profiles /\ r.markers \in SUBSET Profiles /\ r.rules \in SUBSET Profiles
      /\ r.bindings \cup r.plugins \in SUBSET Profiles
  BY DEF Requests
<1>2. Default \in Profiles
  BY ServerAssumption
<1>3. e \in Sayings("hint") /\ m \in Sayings("hint") /\ u \in Sayings("rule") /\ b \in Sayings("matcher")
  BY <1>1, <1>2, BandMore
<1>4. Rulings!Strength(Rulings!Fallback(r)) = 0 /\ Rulings!Fallback(r).by \notin {"allow", "confirm", "rule"}
  BY DEF Rulings!Fallback, Rulings!Route, Rulings!Stop, Rulings!Strength
<1>5. Rulings!Resolve(r) = IF e # Rulings!Undecided THEN e
                           ELSE IF m # Rulings!Undecided THEN m
                           ELSE IF u # Rulings!Undecided THEN u
                           ELSE IF b # Rulings!Undecided THEN b
                           ELSE Rulings!Fallback(r)
  <2>. HIDE DEF e, m, u, b
  <2>1. Rulings!Resolve(r) = Rulings!OrElse(Rulings!OrElse(e, Rulings!OrElse(m, u)), Rulings!OrElse(b, Rulings!Fallback(r)))
    BY DEF Rulings!Resolve, Rulings!PreMatcher, e, m, u, b
  <2>. QED  BY <2>1 DEF Rulings!OrElse
<1>. QED  BY <1>3, <1>4, <1>5

\* What a band says when one more voice names p in it.
More(x, y, by, p) ==
  /\ y # Rulings!Undecided
  /\ x = Rulings!Undecided => y = Rulings!Route(p, by)
  /\ x # Rulings!Undecided => y \in {x, Rulings!Stop("ROUTING_AMBIGUOUS")}
FirstOf(e, m, u, b, f) ==
  IF e # Rulings!Undecided THEN e
  ELSE IF m # Rulings!Undecided THEN m
  ELSE IF u # Rulings!Undecided THEN u
  ELSE IF b # Rulings!Undecided THEN b
  ELSE f

\* What a band says has the strength of that band.
LEMMA SayingStrength ==
  /\ \A x \in Sayings("rule") : Rulings!Strength(x) \in 0..2
  /\ \A x \in Sayings("matcher") : Rulings!Strength(x) \in 0..1
  /\ \A p : /\ Rulings!Strength(Rulings!Route(p, "hint")) = 3 /\ Rulings!Strength(Rulings!Route(p, "rule")) = 2
            /\ Rulings!Strength(Rulings!Route(p, "matcher")) = 1 /\ Rulings!Route(p, "hint").profile = p
            /\ Rulings!Route(p, "rule").profile = p /\ Rulings!Route(p, "matcher").profile = p
  /\ Rulings!Stop("ROUTING_AMBIGUOUS").profile = None
BY DEF Sayings, Rulings!Undecided, Rulings!Route, Rulings!Stop, Rulings!Strength

\* The first band that decides is the one resolved.
LEMMA Precedence ==
  ASSUME NEW p, NEW e, NEW m, NEW u \in Sayings("rule"), NEW b \in Sayings("matcher"), NEW f, Rulings!Strength(f) = 0
  PROVE  /\ \A y : More(m, y, "hint", p) => Follows(FirstOf(e, y, u, b, f), FirstOf(e, m, u, b, f), p)
         /\ \A y : More(u, y, "rule", p) => Follows(FirstOf(e, m, y, b, f), FirstOf(e, m, u, b, f), p)
         /\ \A y : More(b, y, "matcher", p) => Follows(FirstOf(e, m, u, y, f), FirstOf(e, m, u, b, f), p)
<1>1. Rulings!Strength(u) \in 0..2 /\ Rulings!Strength(b) \in 0..1
  BY SayingStrength
<1>2. ASSUME NEW y, More(m, y, "hint", p) PROVE Follows(FirstOf(e, y, u, b, f), FirstOf(e, m, u, b, f), p)
  BY <1>1, <1>2, SayingStrength DEF More, FirstOf, Follows
<1>3. ASSUME NEW y, More(u, y, "rule", p) PROVE Follows(FirstOf(e, m, y, b, f), FirstOf(e, m, u, b, f), p)
  BY <1>1, <1>3, SayingStrength DEF More, FirstOf, Follows
<1>4. ASSUME NEW y, More(b, y, "matcher", p) PROVE Follows(FirstOf(e, m, u, y, f), FirstOf(e, m, u, b, f), p)
  BY <1>1, <1>4, SayingStrength DEF More, FirstOf, Follows
<1>. QED  BY <1>2, <1>3, <1>4

\* One more hint, rule, binding or answer of a plugin for p.
LEMMA OneMoreVoice ==
  ASSUME NEW r \in Requests, NEW p \in Profiles
  PROVE  \A s \in {[r EXCEPT !.markers = @ \cup {p}], [r EXCEPT !.rules = @ \cup {p}],
                   [r EXCEPT !.bindings = @ \cup {p}], [r EXCEPT !.plugins = @ \cup {p}]} :
           Follows(Rulings!Resolve(s), Rulings!Resolve(r), p)
<1>. DEFINE e == Rulings!Band({r.environment} \ {None}, "hint")
            m(q) == Rulings!Band(q.markers, "hint")
            u(q) == Rulings!Band(q.rules, "rule")
            b(q) == Rulings!Band(q.bindings \cup q.plugins, "matcher")
            f == Rulings!Fallback(r)
<1>1. ASSUME NEW q \in Requests, q.environment = r.environment, q.fallback = r.fallback, q.active = r.active
      PROVE  /\ Rulings!Resolve(q) = FirstOf(e, m(q), u(q), b(q), f)
             /\ u(q) \in Sayings("rule") /\ b(q) \in Sayings("matcher") /\ Rulings!Strength(f) = 0
  <2>1. Rulings!Fallback(q) = f
    BY <1>1 DEF Rulings!Fallback
  <2>. QED  BY <1>1, <2>1, ResolveBands DEF FirstOf
<1>2. r.markers \in SUBSET Profiles /\ r.rules \in SUBSET Profiles /\ r.bindings \cup r.plugins \in SUBSET Profiles
  BY DEF Requests
<1>3. More(m(r), Rulings!Band(r.markers \cup {p}, "hint"), "hint", p)
  BY <1>2, BandMore DEF More
<1>4. More(u(r), Rulings!Band(r.rules \cup {p}, "rule"), "rule", p)
  BY <1>2, BandMore DEF More
<1>5. More(b(r), Rulings!Band((r.bindings \cup r.plugins) \cup {p}, "matcher"), "matcher", p)
  BY <1>2, BandMore DEF More
<1>6. Rulings!Resolve(r) = FirstOf(e, m(r), u(r), b(r), f)
      /\ u(r) \in Sayings("rule") /\ b(r) \in Sayings("matcher") /\ Rulings!Strength(f) = 0
  BY <1>1
<1>7. ASSUME NEW s, s = [r EXCEPT !.markers = @ \cup {p}] PROVE Follows(Rulings!Resolve(s), Rulings!Resolve(r), p)
  <2>1. /\ s \in Requests /\ s.environment = r.environment /\ s.fallback = r.fallback /\ s.active = r.active
        /\ s.markers = r.markers \cup {p} /\ s.rules = r.rules /\ s.bindings = r.bindings /\ s.plugins = r.plugins
    BY <1>7 DEF Requests
  <2>2. Rulings!Resolve(s) = FirstOf(e, m(s), u(s), b(s), f)
    BY <1>1, <2>1
  <2>3. m(s) = Rulings!Band(r.markers \cup {p}, "hint") /\ u(s) = u(r) /\ b(s) = b(r)
    BY <2>1
  <2>. HIDE DEF e, m, u, b, f
  <2>. QED  BY <1>3, <1>6, <2>2, <2>3, Precedence
<1>8. ASSUME NEW s, s = [r EXCEPT !.rules = @ \cup {p}] PROVE Follows(Rulings!Resolve(s), Rulings!Resolve(r), p)
  <2>1. /\ s \in Requests /\ s.environment = r.environment /\ s.fallback = r.fallback /\ s.active = r.active
        /\ s.rules = r.rules \cup {p} /\ s.markers = r.markers /\ s.bindings = r.bindings /\ s.plugins = r.plugins
    BY <1>8 DEF Requests
  <2>2. Rulings!Resolve(s) = FirstOf(e, m(s), u(s), b(s), f)
    BY <1>1, <2>1
  <2>3. u(s) = Rulings!Band(r.rules \cup {p}, "rule") /\ m(s) = m(r) /\ b(s) = b(r)
    BY <2>1
  <2>. HIDE DEF e, m, u, b, f
  <2>. QED  BY <1>4, <1>6, <2>2, <2>3, Precedence
<1>9. ASSUME NEW s, s \in {[r EXCEPT !.bindings = @ \cup {p}], [r EXCEPT !.plugins = @ \cup {p}]}
      PROVE  Follows(Rulings!Resolve(s), Rulings!Resolve(r), p)
  <2>1. /\ s \in Requests /\ s.environment = r.environment /\ s.fallback = r.fallback /\ s.active = r.active
        /\ s.rules = r.rules /\ s.markers = r.markers /\ s.bindings \cup s.plugins = (r.bindings \cup r.plugins) \cup {p}
    <3>1. CASE s = [r EXCEPT !.bindings = @ \cup {p}]
      BY <3>1 DEF Requests
    <3>2. CASE s = [r EXCEPT !.plugins = @ \cup {p}]
      BY <3>2 DEF Requests
    <3>. QED  BY <1>9, <3>1, <3>2
  <2>2. Rulings!Resolve(s) = FirstOf(e, m(s), u(s), b(s), f)
    BY <1>1, <2>1
  <2>3. b(s) = Rulings!Band((r.bindings \cup r.plugins) \cup {p}, "matcher") /\ m(s) = m(r) /\ u(s) = u(r)
    BY <2>1
  <2>. HIDE DEF e, m, u, b, f
  <2>. QED  BY <1>5, <1>6, <2>2, <2>3, Precedence
<1>. QED  BY <1>7, <1>8, <1>9

\* An upstream that is not trusted says nothing of the risk of its tools.
LEMMA HintsIgnored ==
  ASSUME NEW t \in Rulings!Tools, ~t.trusted, NEW ro \in Rulings!Hints, NEW de \in Rulings!Hints
  PROVE  Rulings!Classify([t EXCEPT !.readOnly = ro, !.destructive = de]) = Rulings!Classify(t)
<1>. DEFINE x == [t EXCEPT !.readOnly = ro]
            y == [x EXCEPT !.destructive = de]
<1>1. /\ x \in Rulings!Tools /\ x.name = t.name /\ x.override = t.override /\ x.safeRead = t.safeRead
      /\ x.command = t.command /\ x.trusted = t.trusted /\ x.unknownRisk = t.unknownRisk
  BY DEF Rulings!Tools
<1>2. [t EXCEPT !.readOnly = ro, !.destructive = de] = y
  OBVIOUS
<1>. HIDE DEF x
<1>3. /\ y.name = t.name /\ y.override = t.override /\ y.safeRead = t.safeRead
      /\ y.command = t.command /\ y.trusted = t.trusted /\ y.unknownRisk = t.unknownRisk
  BY <1>1 DEF Rulings!Tools
<1>. HIDE DEF y
<1>4. ~Rulings!Trusted(y) /\ ~Rulings!Trusted(t) /\ Rulings!Named(y) = Rulings!Named(t)
  BY <1>3 DEF Rulings!Trusted, Rulings!Named
<1>5. Rulings!Classify(y) = Rulings!Classify(t)
  BY <1>3, <1>4 DEF Rulings!Classify
<1>. QED  BY <1>2, <1>5

\* What passes was routed, is not denied, and was selected where it must be.
LEMMA OrderedPasses ==
  ASSUME DecisionInv, Rulings!Passes
  PROVE  LET route == Rulings!Resolve(request) IN
         /\ verdict.route = route /\ verdict.risk = Rulings!Classify(request.tool).risk
         /\ route.profile # None \/ route.by \in {"allow", "confirm"}
         /\ route.profile # None => ~Rulings!Enforce(request, route, verdict.risk)
         /\ route.profile # None /\ Rulings!NeedsSelection(request, verdict.risk) => Rulings!Explicit(request, route.profile)
<1>. DEFINE route == Rulings!Resolve(request)
            risk == Rulings!Classify(request.tool).risk
<1>1. verdict = Rulings!Decide(request)
  BY DEF DecisionInv
<1>2. verdict.route = route /\ verdict.risk = risk
  BY <1>1 DEF Rulings!Decide
<1>3. verdict.outcome = 
        IF route.profile = None THEN route.by
        ELSE IF Rulings!Enforce(request, route, risk) THEN "POLICY_BLOCKED"
        ELSE IF Rulings!NeedsSelection(request, risk) /\ ~Rulings!Explicit(request, route.profile) THEN "SELECTION_REQUIRED"
        ELSE IF Rulings!NeedsConfirmation(request, risk) /\ request.selected \notin {"confirmed", "locked"}
             THEN "CONFIRMATION_REQUIRED"
        ELSE Rulings!Evaluate(request, risk)
  BY <1>1 DEF Rulings!Decide
<1>. HIDE DEF route, risk
<1>. QED  BY <1>2, <1>3 DEF Rulings!Passes, route, risk

\* A route has a profile or a reason to stop, and a rule's route is the profile of all rules.
LEMMA RoutedBy ==
  ASSUME NEW r \in Requests
  PROVE  /\ Rulings!Resolve(r).by \in {"allow", "confirm"} => Rulings!Resolve(r).profile # None
         /\ Rulings!Resolve(r).by = "rule" => r.rules = {Rulings!Resolve(r).profile}
<1>. DEFINE e == Rulings!Band({r.environment} \ {None}, "hint")
            m == Rulings!Band(r.markers, "hint")
            u == Rulings!Band(r.rules, "rule")
            b == Rulings!Band(r.bindings \cup r.plugins, "matcher")
            f == Rulings!Fallback(r)
<1>1. /\ Rulings!Resolve(r) \in {e, m, u, b, f} /\ f.by \notin {"allow", "confirm", "rule"}
      /\ e \in Sayings("hint") /\ m \in Sayings("hint") /\ u \in Sayings("rule") /\ b \in Sayings("matcher")
  BY ResolveBands
<1>2. u.by = "rule" => r.rules = {u.profile}
  <2>1. r.rules \in SUBSET Profiles
    BY DEF Requests
  <2>2. /\ r.rules = {} => u = Rulings!Undecided
        /\ \A q \in Profiles : r.rules = {q} => u = Rulings!Route(q, "rule")
        /\ r.rules # {} /\ (\A q \in Profiles : r.rules # {q}) => u = Rulings!Stop("ROUTING_AMBIGUOUS")
    BY <2>1, BandSays
  <2>. HIDE DEF u
  <2>3. Rulings!Undecided.by # "rule" /\ Rulings!Stop("ROUTING_AMBIGUOUS").by # "rule"
    BY DEF Rulings!Undecided, Rulings!Stop
  <2>4. \A q : Rulings!Route(q, "rule").profile = q
    BY DEF Rulings!Route
  <2>. QED  BY <2>2, <2>3, <2>4
<1>. HIDE DEF e, m, u, b, f
<1>3. /\ e.by \notin {"allow", "confirm", "rule"} /\ m.by \notin {"allow", "confirm", "rule"}
      /\ b.by \notin {"allow", "confirm", "rule"} /\ u.by \notin {"allow", "confirm"}
  BY <1>1 DEF Sayings, Rulings!Undecided, Rulings!Stop, Rulings!Route
<1>. QED  BY <1>1, <1>2, <1>3

\* More evidence never diverts an operation to another account, an upstream that is not trusted does not
\* lower the risk of its tools, and a destructive operation passes only as it was ordered.
THEOREM DecisionsStaySafe == ServerSpec => []DecisionsAreSafe
<1>. DEFINE Inv == part = "decisions" => DecisionInv
<1>1. ServerInit => Inv
  BY PlainRequest DEF ServerInit, DecisionInv, Rulings!Init
<1>2. Inv /\ [ServerNext]_all => Inv'
  <2>. SUFFICES ASSUME Inv, [ServerNext]_all PROVE Inv'
    OBVIOUS
  <2>1. CASE Rule
    BY <2>1, AskInv DEF Rule
  <2>2. CASE Request \/ ListTools \/ ListResources \/ Subscribe \/ VerifyIdentity
    BY <2>2 DEF Request, ListTools, ListResources, Subscribe, VerifyIdentity
  <2>3. CASE UNCHANGED all
    BY <2>3 DEF all, decisionVars, DecisionInv
  <2>. QED  BY <2>1, <2>2, <2>3 DEF ServerNext
<1>3. Inv => DecisionsAreSafe
  <2>. SUFFICES ASSUME DecisionInv PROVE Rulings!DecisionsAreSafe
    BY DEF DecisionsAreSafe
  <2>1. request \in Requests /\ verdict.route = Rulings!Resolve(request)
    BY DEF DecisionInv, Rulings!Decide
  <2>2. Rulings!EvidenceNeverDiverts
    <3>. SUFFICES ASSUME NEW p \in Profiles,
                         NEW r \in {[request EXCEPT !.markers = @ \cup {p}], [request EXCEPT !.rules = @ \cup {p}],
                                   [request EXCEPT !.bindings = @ \cup {p}], [request EXCEPT !.plugins = @ \cup {p}]}
                  PROVE  Follows(Rulings!Resolve(r), verdict.route, p)
      BY Zenon DEF Rulings!EvidenceNeverDiverts, Follows
    <3>1. Follows(Rulings!Resolve(r), Rulings!Resolve(request), p)
      BY <2>1, OneMoreVoice
    <3>. QED  BY <2>1, <3>1
  <2>3. Rulings!HintsAreNotAuthority
    <3>1. request.tool \in Rulings!Tools
      BY <2>1 DEF Requests
    <3>. QED  BY <3>1, HintsIgnored DEF Rulings!HintsAreNotAuthority
  <2>4. Rulings!DestructiveIsOrdered
    <3>. DEFINE route == Rulings!Resolve(request)
    <3>. SUFFICES ASSUME Rulings!Passes
                  PROVE  /\ verdict.risk = "destructive" /\ request.mustRule => request.rules = {verdict.route.profile}
                         /\ verdict.risk = "destructive" /\ request.mustSelect =>
                              request.selected # "none" /\ verdict.route.profile = request.active
                         /\ request.policy \notin {None, Undefined} => verdict.risk \notin request.policy.denyRisk
      BY DEF Rulings!DestructiveIsOrdered
    <3>1. /\ verdict.route = route
          /\ route.profile # None \/ route.by \in {"allow", "confirm"}
          /\ route.profile # None => ~Rulings!Enforce(request, route, verdict.risk)
          /\ route.profile # None /\ Rulings!NeedsSelection(request, verdict.risk) => Rulings!Explicit(request, route.profile)
      BY OrderedPasses
    <3>2. route.profile # None
      BY <2>1, <3>1, RoutedBy
    <3>3. ~Rulings!Enforce(request, route, verdict.risk)
      BY <3>1, <3>2
    <3>4. verdict.risk = "destructive" /\ request.mustRule => request.rules = {route.profile}
      BY <2>1, <3>3, RoutedBy DEF Rulings!Enforce
    <3>5. verdict.risk = "destructive" /\ request.mustSelect => request.selected # "none" /\ route.profile = request.active
      BY <3>1, <3>2 DEF Rulings!NeedsSelection, Rulings!Explicit
    <3>6. request.policy \notin {None, Undefined} => verdict.risk \notin request.policy.denyRisk
      <4>. SUFFICES ASSUME request.policy \notin {None, Undefined}, verdict.risk \in request.policy.denyRisk PROVE FALSE
        OBVIOUS
      <4>1. Rulings!Denies(request.policy, verdict.risk)
        BY DEF Rulings!Denies
      <4>2. Rulings!Evaluate(request, verdict.risk) = "deny"
        BY <4>1 DEF Rulings!Evaluate
      <4>. QED  BY <3>3, <4>2 DEF Rulings!Enforce
    <3>. QED  BY <3>1, <3>4, <3>5, <3>6
  <2>. QED  BY <2>2, <2>3, <2>4 DEF Rulings!DecisionsAreSafe
<1>. QED  BY <1>1, <1>2, <1>3, PTL DEF ServerSpec, all

-----------------------------------------------------------------------------
(* Tools.                                                                  *)

Requested(r) ==
  [kind : {r.kind}, pc : {r.pc}, p : {r.p}, same : {r.same}, prev : {r.prev}, snap : {r.snap},
   tracked : {r.tracked}, disc : {r.disc}, rounds : {r.rounds}]
Discovered(e) == [p : {e.p}, live : {e.live}, asked : {e.asked}, got : {e.got}]

\* A list that counts as running waits, has its snapshot or sends; a request waits for a discovery of its profile.
RequestOK(r, discs) ==
  /\ r \in Requested(r) /\ r.tracked \in BOOLEAN /\ r.rounds \in Nat
  /\ r.pc \in {"waiting", "got", "sending"} => r.p \in Profiles
  /\ r.tracked => r.pc \in {"waiting", "got", "sending"} /\ r.kind \in {"list", "tools"}
  /\ r.disc \in Tools!Slots => r.pc = "waiting" /\ discs[r.disc].p = r.p

\* A live discovery brings what is not older than the last change taken into account, unless a list will drop it.
DiscoveryOK(e, marked, since) ==
  /\ e \in Discovered(e) /\ e.live \in BOOLEAN
  /\ e.p = None => ~e.live /\ e.asked = {}
  /\ e.p # None =>
       e.p \in Profiles /\ {e.p} \X Upstreams \subseteq DOMAIN e.got /\ e.asked \subseteq DOMAIN e.got \cap (Profiles \X Upstreams)
  /\ e.live /\ e.p \notin marked =>
       \A u \in Upstreams : e.got[<<e.p, u>>] # None => e.got[<<e.p, u>>] >= since[<<e.p, u>>]
\* So does a snapshot.
SnapshotOK(s, p, marked, since) ==
  s # None /\ p \notin marked => \A u \in Upstreams : s[u] # None => s[u] >= since[<<p, u>>]

ToolTypes ==
  /\ DOMAIN task = Tools!Tasks /\ DOMAIN disc = Tools!Slots /\ DOMAIN snap = Profiles
  /\ ver \in [Profiles \X Upstreams -> 0..MaxVer] /\ known \in [Profiles \X Upstreams -> 0..MaxVer]
  /\ \A x \in Profiles \X Upstreams : ver[x] >= known[x]
  /\ deferred \subseteq Profiles /\ restarting \subseteq Profiles /\ active \in Profiles /\ events \in Nat
  /\ switching # None => switching.to \in Profiles

Finished == {t \in Tools!Tasks : task[t].pc = "done"}
\* A list that waits for a discovery that was invalidated will start over.
Lost(r, discs) == IF r.tracked /\ r.disc \in Tools!Slots /\ ~discs[r.disc].live THEN 1 ELSE 0
NoiseInv ==
  \A t \in Tools!Tasks :
    task[t].rounds + Cardinality(restarting) + Lost(task[t], disc) <= events + Cardinality(Finished)

ToolInv ==
  /\ ToolTypes
  /\ \A t \in Tools!Tasks : RequestOK(task[t], disc)
  /\ \A d \in Tools!Slots : DiscoveryOK(disc[d], deferred, known)
  /\ \A p \in Profiles : SnapshotOK(snap[p], p, deferred, known)
  /\ Tools!MarkerHasOwner
  /\ NoiseInv

\* Cardinality is the same in the instance.
LEMMA ToolsCardinality == \A S : Tools!Cardinality(S) = Cardinality(S)
BY DEF Tools!Cardinality, Cardinality

\* None is neither a slot nor a profile.
LEMMA NoSlot == None \notin Tools!Slots /\ None \notin Profiles
BY ServerAssumption DEF Tools!Slots

\* The requests that ended can be counted.
LEMMA FinishedCount == IsFiniteSet(Finished) /\ Cardinality(Finished) \in Nat
<1>1. IsFiniteSet(Tools!Tasks)
  BY ServerAssumption, FS_Interval DEF Tools!Tasks
<1>2. Finished \subseteq Tools!Tasks
  BY DEF Finished
<1>. QED  BY <1>1, <1>2, FS_Subset, FS_CardinalityType

\* Requests that have ended stay ended, and there are finitely many.
LEMMA MoreFinished ==
  ASSUME Finished \subseteq Finished'
  PROVE  /\ Cardinality(Finished) \in Nat /\ Cardinality(Finished') \in Nat
         /\ Cardinality(Finished) <= Cardinality(Finished')
         /\ Finished # Finished' => Cardinality(Finished) + 1 <= Cardinality(Finished')
<1>1. IsFiniteSet(Tools!Tasks)
  BY ServerAssumption, FS_Interval DEF Tools!Tasks
<1>2. Finished \subseteq Tools!Tasks /\ Finished' \subseteq Tools!Tasks
  BY DEF Finished
<1>3. IsFiniteSet(Finished')
  BY <1>1, <1>2, FS_Subset
<1>4. /\ IsFiniteSet(Finished) /\ Cardinality(Finished) <= Cardinality(Finished')
      /\ Cardinality(Finished) = Cardinality(Finished') => Finished = Finished'
  BY <1>3, FS_Subset
<1>5. Cardinality(Finished) \in Nat /\ Cardinality(Finished') \in Nat
  BY <1>3, <1>4, FS_CardinalityType
<1>. QED  BY <1>4, <1>5

\* One more request that starts over is one more in the count.
LEMMA RestartingCount ==
  ASSUME NEW S \in SUBSET Profiles, NEW p \in Profiles
  PROVE  /\ Cardinality(S) \in Nat
         /\ p \notin S => Cardinality(S \cup {p}) = Cardinality(S) + 1
         /\ p \in S => Cardinality(S \ {p}) + 1 = Cardinality(S)
<1>1. IsFiniteSet(S) /\ IsFiniteSet(S \ {p})
  BY ServerAssumption, FS_Subset
<1>2. Cardinality(S) \in Nat /\ Cardinality(S \ {p}) \in Nat
  BY <1>1, FS_CardinalityType
<1>3. p \notin S => Cardinality(S \cup {p}) = Cardinality(S) + 1
  BY <1>1, FS_AddElement
<1>4. p \in S => Cardinality((S \ {p}) \cup {p}) = Cardinality(S \ {p}) + 1 /\ (S \ {p}) \cup {p} = S
  BY <1>1, FS_AddElement
<1>. QED  BY <1>2, <1>3, <1>4

\* Discoveries: free, fresh, dead, or as they were while less is asked of them.
LEMMA FreeOK ==
  ASSUME NEW marked, NEW since
  PROVE  DiscoveryOK(Tools!Free, marked, since) /\ Tools!Free.p = None /\ ~Tools!Free.live
BY DEF Tools!Free, DiscoveryOK, Discovered

\* A discovery that begins is well formed.
LEMMA FreshOK ==
  ASSUME NEW p \in Profiles, NEW marked, NEW since
  PROVE  DiscoveryOK(Tools!Fresh(p), marked, since) /\ Tools!Fresh(p).p = p /\ Tools!Fresh(p).live
<1>. DEFINE e == Tools!Fresh(p)
            asked == Tools!Asked(p)
<1>1. {p} \X Upstreams \subseteq asked /\ asked \subseteq Profiles \X Upstreams
  BY DEF Tools!Asked
<1>2. e.p = p /\ e.live = TRUE /\ e.asked = asked /\ e.got = [x \in asked |-> None] /\ e \in Discovered(e)
  BY DEF Tools!Fresh, Discovered
<1>. HIDE DEF e, asked
<1>3. \A u \in Upstreams : e.got[<<p, u>>] = None
  BY <1>1, <1>2
<1>4. DOMAIN e.got = asked /\ p # None
  BY <1>2, NoSlot
<1>5. DiscoveryOK(e, marked, since)
  BY <1>1, <1>2, <1>3, <1>4 DEF DiscoveryOK
<1>. QED  BY <1>2, <1>5 DEF e

\* A discovery nobody may publish any more has nothing to keep.
LEMMA DeadOK ==
  ASSUME NEW marked, NEW since, NEW e, DiscoveryOK(e, marked, since), NEW marked2, NEW since2
  PROVE  /\ DiscoveryOK([e EXCEPT !.live = FALSE], marked2, since2)
         /\ [e EXCEPT !.live = FALSE].p = e.p /\ ~[e EXCEPT !.live = FALSE].live
<1>. DEFINE dead == [e EXCEPT !.live = FALSE]
<1>1. /\ dead.p = e.p /\ dead.live = FALSE /\ dead.asked = e.asked /\ dead.got = e.got
      /\ dead \in Discovered(dead)
  BY DEF DiscoveryOK, Discovered
<1>. HIDE DEF dead
<1>2. DiscoveryOK(dead, marked2, since2)
  BY <1>1 DEF DiscoveryOK
<1>. QED  BY <1>1, <1>2 DEF dead

\* A discovery stays well formed while no change it must have seen is new.
LEMMA DiscoveryKept ==
  ASSUME NEW marked, NEW since, NEW e, DiscoveryOK(e, marked, since), NEW marked2, NEW since2,
         e.live => e.p \in marked2 \/ (e.p \notin marked /\ \A u \in Upstreams : since2[<<e.p, u>>] = since[<<e.p, u>>])
  PROVE  DiscoveryOK(e, marked2, since2)
<1>1. ASSUME e.live, e.p \notin marked2, NEW u \in Upstreams, e.got[<<e.p, u>>] # None
      PROVE  e.got[<<e.p, u>>] >= since2[<<e.p, u>>]
  BY <1>1 DEF DiscoveryOK
<1>. QED  BY <1>1 DEF DiscoveryOK

\* A request stays well formed while its discovery stays the profile's.
LEMMA RequestKept ==
  ASSUME NEW r, NEW discs, RequestOK(r, discs), NEW discs2,
         r.disc \in Tools!Slots => discs2[r.disc].p = discs[r.disc].p
  PROVE  RequestOK(r, discs2)
BY DEF RequestOK

\* A step of the world: requests go on, discoveries of the profiles ps die, snapshots go, marks change.
LEMMA WorldStep ==
  ASSUME ToolInv, NEW ps \in SUBSET Profiles,
         DOMAIN task' = Tools!Tasks,
         \A t \in Tools!Tasks :
           /\ RequestOK(task'[t], disc) /\ task'[t].disc = task[t].disc /\ task'[t].rounds = task[t].rounds
           /\ task'[t].tracked = task[t].tracked /\ task'[t].p = task[t].p
           /\ task[t].pc = "done" => task'[t].pc = "done",
         DOMAIN disc' = Tools!Slots,
         \A d \in Tools!Slots : disc'[d] = IF disc[d].p \in ps THEN [disc[d] EXCEPT !.live = FALSE] ELSE disc[d],
         DOMAIN snap' = Profiles,
         \A p \in Profiles : snap'[p] = snap[p] \/ snap'[p] = None,
         \A p \in ps : snap'[p] = None,
         ver' \in [Profiles \X Upstreams -> 0..MaxVer], known' \in [Profiles \X Upstreams -> 0..MaxVer],
         \A x \in Profiles \X Upstreams : ver'[x] >= known'[x],
         \A p \in Profiles :
           \/ p \in ps \/ p \in deferred'
           \/ snap'[p] = None /\ Tools!Pending(p) = {}
           \/ p \notin deferred /\ \A u \in Upstreams : known'[<<p, u>>] = known[<<p, u>>],
         deferred' \subseteq Profiles, \A p \in deferred' : Tools!ActiveLists(p) # {},
         restarting' \subseteq Profiles, active' \in Profiles, events' \in Nat,
         switching' # None => switching'.to \in Profiles,
         events + Cardinality(restarting') <= events' + Cardinality(restarting),
         \/ events + Cardinality(restarting') + 1 <= events' + Cardinality(restarting)
         \/ \A t \in Tools!Tasks :
              task[t].tracked /\ task[t].disc \in Tools!Slots => task[t].p \notin ps \/ ~disc[task[t].disc].live
  PROVE  ToolInv'
<1>1. \A t \in Tools!Tasks : RequestOK(task[t], disc)
  BY DEF ToolInv
<1>2. \A d \in Tools!Slots : DiscoveryOK(disc[d], deferred, known)
  BY DEF ToolInv
<1>3. ToolTypes'
  BY DEF ToolTypes
<1>4. ASSUME NEW d \in Tools!Slots
      PROVE  /\ DiscoveryOK(disc'[d], deferred', known') /\ disc'[d].p = disc[d].p
             /\ disc[d].p \notin ps => disc'[d].live = disc[d].live
  <2>1. CASE disc[d].p \in ps
    <3>1. disc'[d] = [disc[d] EXCEPT !.live = FALSE] /\ DiscoveryOK(disc[d], deferred, known)
      BY <1>2, <2>1
    <3>2. DiscoveryOK([disc[d] EXCEPT !.live = FALSE], deferred', known') /\ [disc[d] EXCEPT !.live = FALSE].p = disc[d].p
      BY <3>1, DeadOK
    <3>. QED  BY <2>1, <3>1, <3>2
  <2>2. CASE disc[d].p \notin ps
    <3>1. disc'[d] = disc[d]
      BY <2>2
    <3>2. ASSUME disc[d].live
          PROVE  \/ disc[d].p \in deferred'
                 \/ disc[d].p \notin deferred /\ \A u \in Upstreams : known'[<<disc[d].p, u>>] = known[<<disc[d].p, u>>]
      <4>1. disc[d].p \in Profiles
        BY <1>2, <3>2 DEF DiscoveryOK
      <4>2. d \in Tools!Pending(disc[d].p)
        BY <3>2 DEF Tools!Pending
      <4>. QED  BY <2>2, <4>1, <4>2
    <3>. QED  BY <1>2, <3>1, <3>2, DiscoveryKept
  <2>. QED  BY <2>1, <2>2
<1>5. ASSUME NEW t \in Tools!Tasks PROVE RequestOK(task'[t], disc')
  BY <1>4, RequestKept
<1>6. ASSUME NEW p \in Profiles PROVE SnapshotOK(snap'[p], p, deferred', known')
  <2>1. SnapshotOK(snap[p], p, deferred, known)
    BY DEF ToolInv
  <2>2. CASE snap'[p] = None
    BY <2>2 DEF SnapshotOK
  <2>3. CASE snap'[p] # None
    <3>1. snap'[p] = snap[p] /\ p \notin ps
      BY <2>3
    <3>2. p \in deferred' \/ (p \notin deferred /\ \A u \in Upstreams : known'[<<p, u>>] = known[<<p, u>>])
      BY <2>3, <3>1
    <3>. QED  BY <2>1, <3>1, <3>2 DEF SnapshotOK
  <2>. QED  BY <2>2, <2>3
<1>7. Tools!MarkerHasOwner'
  <2>1. \A p : Tools!ActiveLists(p)' = Tools!ActiveLists(p)
    BY DEF Tools!ActiveLists
  <2>. QED  BY <2>1 DEF Tools!MarkerHasOwner
<1>8. NoiseInv'
  <2>1. Finished \subseteq Finished'
    BY DEF Finished
  <2>2. /\ Cardinality(Finished) \in Nat /\ Cardinality(Finished') \in Nat
        /\ Cardinality(Finished) <= Cardinality(Finished')
    BY <2>1, MoreFinished
  <2>3. Cardinality(restarting) \in Nat /\ Cardinality(restarting') \in Nat /\ events \in Nat /\ events' \in Nat
    BY RestartingCount DEF ToolInv, ToolTypes
  <2>4. ASSUME NEW t \in Tools!Tasks
        PROVE  task'[t].rounds + Cardinality(restarting') + Lost(task'[t], disc') <= events' + Cardinality(Finished')
    <3>1. task[t].rounds + Cardinality(restarting) + Lost(task[t], disc) <= events + Cardinality(Finished)
          /\ task[t].rounds \in Nat /\ task'[t].rounds = task[t].rounds
      BY <1>1 DEF ToolInv, NoiseInv, RequestOK
    <3>2. Lost(task[t], disc) \in {0, 1} /\ Lost(task'[t], disc') \in {0, 1}
      BY DEF Lost
    <3>3. CASE Lost(task'[t], disc') = Lost(task[t], disc) \/ Lost(task'[t], disc') = 0
      BY <2>2, <2>3, <3>1, <3>2, <3>3
    <3>4. CASE Lost(task'[t], disc') = 1 /\ Lost(task[t], disc) = 0
      <4>1. task[t].tracked /\ task[t].disc \in Tools!Slots /\ disc[task[t].disc].live /\ ~disc'[task[t].disc].live
        BY <3>4 DEF Lost
      <4>2. disc[task[t].disc].p \in ps /\ disc[task[t].disc].p = task[t].p
        BY <1>1, <1>4, <4>1 DEF RequestOK
      <4>3. events + Cardinality(restarting') + 1 <= events' + Cardinality(restarting)
        BY <4>1, <4>2
      <4>. QED  BY <2>2, <2>3, <3>1, <3>2, <3>4, <4>3
    <3>. QED  BY <3>2, <3>3, <3>4
  <2>. QED  BY <2>4 DEF NoiseInv
<1>. QED  BY <1>3, <1>4, <1>5, <1>6, <1>7, <1>8 DEF ToolInv

\* A step in which the requests ts leave, and with the last list of a profile goes its mark.
LEMMA LeaveStep ==
  ASSUME ToolInv, NEW ts \in SUBSET Tools!Tasks, NEW gone \in SUBSET Profiles,
         UNCHANGED <<ver, known, active, restarting, switching>>,
         DOMAIN task' = Tools!Tasks, \A t \in Tools!Tasks \ ts : task'[t] = task[t],
         \A t \in ts : /\ RequestOK(task'[t], disc) /\ ~task'[t].tracked /\ task'[t].disc \notin Tools!Slots
                       /\ task'[t].rounds <= task[t].rounds /\ task[t].pc # "done",
         DOMAIN disc' = Tools!Slots,
         \A d \in Tools!Slots :
           \/ disc'[d] = Tools!Free /\ \A t \in Tools!Tasks \ ts : task[t].disc # d
           \/ disc'[d] = IF disc[d].p \in gone THEN [disc[d] EXCEPT !.live = FALSE] ELSE disc[d],
         DOMAIN snap' = Profiles, \A p \in Profiles : snap'[p] = IF p \in gone THEN None ELSE snap[p],
         deferred' = deferred \ gone, \A p \in deferred \ gone : \E t \in Tools!ActiveLists(p) : t \notin ts,
         events' \in Nat, events <= events',
         \/ \A p \in gone : Tools!ActiveLists(p) \subseteq ts
         \/ \E t \in ts : task'[t].pc = "done"
  PROVE  ToolInv'
<1>1. \A t \in Tools!Tasks : RequestOK(task[t], disc)
  BY DEF ToolInv
<1>2. \A d \in Tools!Slots : DiscoveryOK(disc[d], deferred, known)
  BY DEF ToolInv
<1>3. ToolTypes'
  BY DEF ToolInv, ToolTypes
<1>4. ASSUME NEW d \in Tools!Slots
      PROVE  /\ DiscoveryOK(disc'[d], deferred', known')
             /\ (\E t \in Tools!Tasks \ ts : task[t].disc = d) =>
                  disc'[d].p = disc[d].p /\ (disc[d].p \notin gone => disc'[d].live = disc[d].live)
  <2>1. CASE disc'[d] = Tools!Free /\ \A t \in Tools!Tasks \ ts : task[t].disc # d
    BY <2>1, FreeOK
  <2>2. CASE disc[d].p \in gone /\ disc'[d] = [disc[d] EXCEPT !.live = FALSE]
    <3>1. DiscoveryOK(disc[d], deferred, known)
      BY <1>2
    <3>2. disc[d].p \in gone
      BY <2>2
    <3>3. disc'[d] = [disc[d] EXCEPT !.live = FALSE]
      BY <2>2
    <3>4. DiscoveryOK(disc'[d], deferred', known') /\ disc'[d].p = disc[d].p
      BY <3>1, <3>3, DeadOK
    <3>. QED  BY <3>2, <3>4
  <2>3. CASE disc[d].p \notin gone /\ disc'[d] = disc[d]
    BY <1>2, <2>3, DiscoveryKept
  <2>. QED  BY <2>1, <2>2, <2>3
<1>5. ASSUME NEW t \in Tools!Tasks PROVE RequestOK(task'[t], disc')
  <2>1. CASE t \in ts
    BY <2>1, RequestKept
  <2>2. CASE t \notin ts
    <3>1. task'[t] = task[t] /\ RequestOK(task[t], disc)
      BY <1>1, <2>2
    <3>2. task[t].disc \in Tools!Slots => disc'[task[t].disc].p = disc[task[t].disc].p
      BY <1>4, <2>2
    <3>. QED  BY <3>1, <3>2, RequestKept
  <2>. QED  BY <2>1, <2>2
<1>6. ASSUME NEW p \in Profiles PROVE SnapshotOK(snap'[p], p, deferred', known')
  BY DEF ToolInv, SnapshotOK
<1>7. Tools!MarkerHasOwner'
  BY DEF Tools!MarkerHasOwner, Tools!ActiveLists
<1>8. NoiseInv'
  <2>1. Finished \subseteq Finished'
    BY DEF Finished
  <2>2. /\ Cardinality(Finished) \in Nat /\ Cardinality(Finished') \in Nat
        /\ Cardinality(Finished) <= Cardinality(Finished')
        /\ Finished # Finished' => Cardinality(Finished) + 1 <= Cardinality(Finished')
    BY <2>1, MoreFinished
  <2>3. Cardinality(restarting) \in Nat /\ events \in Nat /\ events' \in Nat /\ restarting' = restarting
    BY RestartingCount DEF ToolInv, ToolTypes
  <2>4. ASSUME NEW t \in Tools!Tasks
        PROVE  task'[t].rounds + Cardinality(restarting') + Lost(task'[t], disc') <= events' + Cardinality(Finished')
    <3>1. task[t].rounds + Cardinality(restarting) + Lost(task[t], disc) <= events + Cardinality(Finished)
          /\ task[t].rounds \in Nat /\ task'[t].rounds \in Nat /\ task'[t].rounds <= task[t].rounds
      BY <1>1, <1>5 DEF ToolInv, NoiseInv, RequestOK
    <3>2. Lost(task[t], disc) \in {0, 1} /\ Lost(task'[t], disc') \in {0, 1}
      BY DEF Lost
    <3>3. CASE Lost(task'[t], disc') = Lost(task[t], disc) \/ Lost(task'[t], disc') = 0
      BY <2>2, <2>3, <3>1, <3>2, <3>3
    <3>4. CASE Lost(task'[t], disc') = 1 /\ Lost(task[t], disc) = 0
      <4>1. t \notin ts
        BY <3>4 DEF Lost
      <4>2. /\ task'[t] = task[t] /\ task[t].tracked /\ task[t].disc \in Tools!Slots
            /\ disc[task[t].disc].live /\ ~disc'[task[t].disc].live
        BY <3>4, <4>1 DEF Lost
      <4>3. disc[task[t].disc].p \in gone /\ disc[task[t].disc].p = task[t].p
        BY <1>1, <1>4, <4>1, <4>2 DEF RequestOK
      <4>4. t \in Tools!ActiveLists(task[t].p)
        BY <4>2 DEF Tools!ActiveLists
      <4>5. PICK s \in ts : task'[s].pc = "done"
        BY <4>1, <4>3, <4>4
      <4>6. s \in Finished' /\ s \notin Finished
        BY <4>5 DEF Finished
      <4>. QED  BY <2>2, <2>3, <3>1, <3>2, <3>4, <4>6
    <3>. QED  BY <3>2, <3>3, <3>4
  <2>. QED  BY <2>4 DEF NoiseInv
<1>. QED  BY <1>3, <1>4, <1>5, <1>6, <1>7, <1>8 DEF ToolInv

\* A step in which nothing is invalidated: what is served is current, and whoever starts over had lost its discovery.
LEMMA ServeStep ==
  ASSUME ToolInv, UNCHANGED <<ver, known, deferred, active, restarting, switching>>,
         events' \in Nat, events <= events',
         DOMAIN task' = Tools!Tasks, DOMAIN disc' = Tools!Slots, DOMAIN snap' = Profiles,
         \A t \in Tools!Tasks :
           /\ RequestOK(task'[t], disc')
           /\ task[t].tracked => task'[t].tracked /\ task'[t].p = task[t].p
           /\ task[t].pc = "done" => task'[t].pc = "done"
           /\ task'[t].rounds + Lost(task'[t], disc') <= task[t].rounds + Lost(task[t], disc),
         \A d \in Tools!Slots : DiscoveryOK(disc'[d], deferred, known),
         \A p \in Profiles : SnapshotOK(snap'[p], p, deferred, known)
  PROVE  ToolInv'
<1>1. ToolTypes'
  BY DEF ToolInv, ToolTypes
<1>2. Tools!MarkerHasOwner'
  BY DEF ToolInv, Tools!MarkerHasOwner, Tools!ActiveLists
<1>3. NoiseInv'
  <2>1. Finished \subseteq Finished'
    BY DEF Finished
  <2>2. /\ Cardinality(Finished) \in Nat /\ Cardinality(Finished') \in Nat
        /\ Cardinality(Finished) <= Cardinality(Finished')
    BY <2>1, MoreFinished
  <2>3. Cardinality(restarting) \in Nat /\ events \in Nat
    BY RestartingCount DEF ToolInv, ToolTypes
  <2>4. ASSUME NEW t \in Tools!Tasks
        PROVE  task'[t].rounds + Cardinality(restarting') + Lost(task'[t], disc') <= events' + Cardinality(Finished')
    <3>1. /\ task[t].rounds + Cardinality(restarting) + Lost(task[t], disc) <= events + Cardinality(Finished)
          /\ task[t].rounds \in Nat /\ task'[t].rounds \in Nat
      BY DEF ToolInv, NoiseInv, RequestOK
    <3>2. Lost(task[t], disc) \in {0, 1} /\ Lost(task'[t], disc') \in {0, 1}
      BY DEF Lost
    <3>3. task'[t].rounds + Lost(task'[t], disc') <= task[t].rounds + Lost(task[t], disc)
      OBVIOUS
    <3>. QED  BY <2>2, <2>3, <3>1, <3>2, <3>3
  <2>. QED  BY <2>4 DEF NoiseInv
<1>4. (\A d \in Tools!Slots : DiscoveryOK(disc[d], deferred, known))'
  OBVIOUS
<1>5. (\A p \in Profiles : SnapshotOK(snap[p], p, deferred, known))'
  OBVIOUS
<1>6. (\A t \in Tools!Tasks : RequestOK(task[t], disc))'
  OBVIOUS
<1>. QED  BY <1>1, <1>2, <1>3, <1>4, <1>5, <1>6 DEF ToolInv

\* get, for a request that does not count as running yet.
LEMMA GetStep ==
  ASSUME ToolInv, NEW t \in Tools!Tasks, NEW r, Tools!Get(t, r),
         UNCHANGED <<ver, known, deferred, active, restarting, switching, snap, events>>,
         ~task[t].tracked, task[t].pc # "done",
         r \in Requested(r), r.p \in Profiles, r.tracked \in BOOLEAN, r.rounds = task[t].rounds,
         r.disc \notin Tools!Slots, r.tracked => r.kind \in {"list", "tools"}
  PROVE  ToolInv'
<1>. USE NoSlot
<1>1. /\ \A s \in Tools!Tasks : RequestOK(task[s], disc)
      /\ \A d \in Tools!Slots : DiscoveryOK(disc[d], deferred, known)
      /\ \A p \in Profiles : SnapshotOK(snap[p], p, deferred, known)
  BY DEF ToolInv
<1>2. DOMAIN task = Tools!Tasks /\ DOMAIN disc = Tools!Slots /\ DOMAIN snap = Profiles /\ events \in Nat
  BY DEF ToolInv, ToolTypes
<1>3. task[t].rounds \in Nat /\ Lost(task[t], disc) = 0
  BY <1>1 DEF RequestOK, Lost
<1>4. CASE Tools!Cached(r.p)
  <2>. DEFINE q == [r EXCEPT !.pc = "got", !.snap = snap[r.p]]
  <2>1. task' = [task EXCEPT ![t] = q] /\ disc' = disc
    BY <1>4 DEF Tools!Get
  <2>2. /\ q \in Requested(q) /\ q.pc = "got" /\ q.p = r.p /\ q.tracked = r.tracked /\ q.disc = r.disc /\ q.kind = r.kind
        /\ q.rounds = task[t].rounds
    BY DEF Requested
  <2>. HIDE DEF q
  <2>3. RequestOK(q, disc') /\ Lost(q, disc') = 0
    BY <1>3, <2>2 DEF RequestOK, Lost
  <2>4. \A s \in Tools!Tasks : task'[s] = IF s = t THEN q ELSE task[s]
    BY <1>2, <2>1
  <2>5. \A s \in Tools!Tasks :
           /\ RequestOK(task'[s], disc')
           /\ task[s].tracked => task'[s].tracked /\ task'[s].p = task[s].p
           /\ task[s].pc = "done" => task'[s].pc = "done"
           /\ task'[s].rounds + Lost(task'[s], disc') <= task[s].rounds + Lost(task[s], disc)
    <3>1. \A s \in Tools!Tasks : task[s].rounds \in Nat /\ Lost(task[s], disc) \in {0, 1}
      BY <1>1 DEF RequestOK, Lost
    <3>. QED  BY <1>1, <1>3, <2>1, <2>2, <2>3, <2>4, <3>1
  <2>6. DOMAIN task' = Tools!Tasks
    BY <1>2, <2>1
  <2>. QED  BY <1>1, <1>2, <2>1, <2>5, <2>6, ServeStep
<1>5. CASE ~Tools!Cached(r.p)
  <2>1. PICK d \in Tools!Slots :
          /\ \/ d \in Tools!Pending(r.p) /\ disc' = disc
             \/ disc[d] = Tools!Free /\ disc' = [disc EXCEPT ![d] = Tools!Fresh(r.p)]
          /\ task' = [task EXCEPT ![t] = [r EXCEPT !.pc = "waiting", !.disc = d]]
    BY <1>5 DEF Tools!Get
  <2>. DEFINE q == [r EXCEPT !.pc = "waiting", !.disc = d]
  <2>2. /\ q \in Requested(q) /\ q.pc = "waiting" /\ q.p = r.p /\ q.tracked = r.tracked /\ q.disc = d /\ q.kind = r.kind
        /\ q.rounds = task[t].rounds
    BY DEF Requested
  <2>3. task' = [task EXCEPT ![t] = q]
    BY <2>1
  <2>. HIDE DEF q
  <2>4. \A e \in Tools!Slots : DiscoveryOK(disc'[e], deferred, known)
    BY <1>1, <1>2, <2>1, FreshOK
  <2>5. disc'[d].p = r.p /\ disc'[d].live
    BY <1>2, <2>1, FreshOK DEF Tools!Pending
  <2>6. ASSUME NEW s \in Tools!Tasks
        PROVE  RequestOK(task[s], disc') /\ Lost(task[s], disc') <= Lost(task[s], disc)
    <3>1. CASE disc' = disc
      BY <1>1, <3>1 DEF Lost
    <3>2. CASE disc[d] = Tools!Free /\ disc' = [disc EXCEPT ![d] = Tools!Fresh(r.p)]
      <4>1. task[s].disc # d
        BY <1>1, <3>2, FreeOK DEF RequestOK
      <4>2. task[s].disc \in Tools!Slots => disc'[task[s].disc] = disc[task[s].disc]
        BY <1>2, <3>2, <4>1
      <4>3. RequestOK(task[s], disc')
        BY <1>1, <4>2, RequestKept
      <4>. QED  BY <4>2, <4>3 DEF Lost
    <3>. QED  BY <2>1, <3>1, <3>2
  <2>7. RequestOK(q, disc') /\ Lost(q, disc') = 0
    BY <1>3, <2>2, <2>5 DEF RequestOK, Lost
  <2>8. \A s \in Tools!Tasks : task'[s] = IF s = t THEN q ELSE task[s]
    BY <1>2, <2>3
  <2>9. \A s \in Tools!Tasks :
           /\ RequestOK(task'[s], disc')
           /\ task[s].tracked => task'[s].tracked /\ task'[s].p = task[s].p
           /\ task[s].pc = "done" => task'[s].pc = "done"
           /\ task'[s].rounds + Lost(task'[s], disc') <= task[s].rounds + Lost(task[s], disc)
    <3>1. \A s \in Tools!Tasks : task[s].rounds \in Nat /\ Lost(task[s], disc) \in {0, 1} /\ Lost(task[s], disc') \in {0, 1}
      BY <1>1 DEF RequestOK, Lost
    <3>. QED  BY <1>3, <2>2, <2>6, <2>7, <2>8, <3>1
  <2>10. DOMAIN task' = Tools!Tasks /\ DOMAIN disc' = Tools!Slots
    BY <1>2, <2>1
  <2>. QED  BY <1>1, <1>2, <2>4, <2>9, <2>10, ServeStep
<1>. QED  BY <1>4, <1>5

\* A request that begins or joins a discovery keeps the invariant.
LEMMA StartOnInv ==
  ASSUME ToolInv, NEW t \in Tools!Tasks, NEW kind \in {"list", "tools", "call"}, NEW p \in Profiles,
         Tools!StartOn(t, kind, p),
         UNCHANGED <<ver, known, deferred, active, restarting, switching, snap, events>>,
         task[t].pc \in {"new", "again"}
  PROVE  ToolInv'
<1>. DEFINE r == [kind |-> kind, pc |-> "new", p |-> p, same |-> TRUE,
                  prev |-> IF kind = "tools" THEN None ELSE IF snap[p] # None THEN snap[p] ELSE invalidated[p],
                  snap |-> None, tracked |-> kind # "call" /\ ~Tools!Cached(p), disc |-> None, rounds |-> task[t].rounds]
<1>1. Tools!Get(t, r)
  BY DEF Tools!StartOn
<1>2. r \in Requested(r)
  BY DEF Requested
<1>3. r.p \in Profiles
  OBVIOUS
<1>4. r.tracked = (kind # "call" /\ ~Tools!Cached(p)) /\ r.kind = kind
  OBVIOUS
<1>5. r.rounds = task[t].rounds /\ r.disc \notin Tools!Slots
  BY NoSlot
<1>6. ~task[t].tracked
  BY DEF ToolInv, RequestOK
<1>. HIDE DEF r
<1>. QED  BY <1>1, <1>2, <1>3, <1>4, <1>5, <1>6, GetStep

\* A request that ended has nothing to keep.
LEMMA DoneOK ==
  ASSUME NEW discs
  PROVE  /\ RequestOK(Tools!Done, discs) /\ ~Tools!Done.tracked /\ Tools!Done.disc \notin Tools!Slots
         /\ Tools!Done.rounds = 0 /\ Tools!Done.pc = "done"
BY NoSlot DEF Tools!Done, Tools!Idle, RequestOK, Requested

\* One request leaves, and takes the mark of its profile with it if it is a list.
LEMMA ConsumeStep ==
  ASSUME ToolInv, NEW t \in Tools!Tasks, NEW q, task' = [task EXCEPT ![t] = q],
         RequestOK(q, disc), ~q.tracked, q.disc \notin Tools!Slots, q.rounds <= task[t].rounds, task[t].pc # "done",
         UNCHANGED <<ver, known, active, restarting, switching, events>>,
         \/ /\ task[t].p \in Profiles /\ Tools!Consume(task[t].p)
            /\ task[t].p \in deferred => q.pc = "done"
         \/ ~task[t].tracked /\ UNCHANGED <<deferred, snap, disc>>
  PROVE  ToolInv'
<1>1. /\ DOMAIN task = Tools!Tasks /\ DOMAIN disc = Tools!Slots /\ DOMAIN snap = Profiles /\ events \in Nat
      /\ deferred \subseteq Profiles /\ Tools!MarkerHasOwner
  BY DEF ToolInv, ToolTypes
<1>2. /\ DOMAIN task' = Tools!Tasks /\ task'[t] = q
      /\ \A s \in Tools!Tasks \ {t} : task'[s] = task[s]
  BY <1>1
<1>3. CASE /\ task[t].p \in Profiles /\ Tools!Consume(task[t].p) /\ task[t].p \in deferred /\ q.pc = "done"
  <2>. DEFINE p == task[t].p
              gone == {p}
              ts == {t}
  <2>1. /\ deferred' = deferred \ {p}
        /\ snap' = [x \in Profiles |-> IF x \in {p} THEN None ELSE snap[x]]
        /\ disc' = [d \in Tools!Slots |-> IF disc[d].p \in {p} THEN [disc[d] EXCEPT !.live = FALSE] ELSE disc[d]]
    BY <1>3 DEF Tools!Consume, Tools!Invalidate, Tools!InvalidateAll
  <2>2. /\ DOMAIN disc' = Tools!Slots /\ DOMAIN snap' = Profiles /\ deferred' = deferred \ gone
        /\ \A d \in Tools!Slots : disc'[d] = IF disc[d].p \in gone THEN [disc[d] EXCEPT !.live = FALSE] ELSE disc[d]
        /\ \A x \in Profiles : snap'[x] = IF x \in gone THEN None ELSE snap[x]
    BY <2>1
  <2>3. \A x \in deferred \ gone : \E s \in Tools!ActiveLists(x) : s \notin ts
    BY <1>1 DEF Tools!MarkerHasOwner, Tools!ActiveLists
  <2>4. \A s \in ts : /\ RequestOK(task'[s], disc) /\ ~task'[s].tracked /\ task'[s].disc \notin Tools!Slots
                      /\ task'[s].rounds <= task[s].rounds /\ task[s].pc # "done"
    BY <1>2
  <2>5. \E s \in ts : task'[s].pc = "done"
    BY <1>2, <1>3
  <2>6. gone \in SUBSET Profiles /\ ts \in SUBSET Tools!Tasks
    BY <1>3
  <2>7. \A s \in Tools!Tasks \ ts : task'[s] = task[s]
    BY <1>2
  <2>8. events' \in Nat /\ events <= events'
    BY <1>1
  <2>. HIDE DEF gone, ts
  <2>. QED  BY <1>2, <2>2, <2>3, <2>4, <2>5, <2>6, <2>7, <2>8, LeaveStep
<1>4. CASE UNCHANGED <<deferred, snap, disc>> /\ (task[t].p \notin deferred \/ ~task[t].tracked)
  <2>. DEFINE gone == {}
              ts == {t}
  <2>2. /\ DOMAIN disc' = Tools!Slots /\ DOMAIN snap' = Profiles /\ deferred' = deferred \ gone
        /\ \A d \in Tools!Slots : disc'[d] = IF disc[d].p \in gone THEN [disc[d] EXCEPT !.live = FALSE] ELSE disc[d]
        /\ \A x \in Profiles : snap'[x] = IF x \in gone THEN None ELSE snap[x]
    BY <1>1, <1>4
  <2>3. \A x \in deferred \ gone : \E s \in Tools!ActiveLists(x) : s \notin ts
    BY <1>1, <1>4 DEF Tools!MarkerHasOwner, Tools!ActiveLists
  <2>4. \A s \in ts : /\ RequestOK(task'[s], disc) /\ ~task'[s].tracked /\ task'[s].disc \notin Tools!Slots
                      /\ task'[s].rounds <= task[s].rounds /\ task[s].pc # "done"
    BY <1>2
  <2>5. \A x \in gone : Tools!ActiveLists(x) \subseteq ts
    OBVIOUS
  <2>6. gone \in SUBSET Profiles /\ ts \in SUBSET Tools!Tasks
    OBVIOUS
  <2>7. \A s \in Tools!Tasks \ ts : task'[s] = task[s]
    BY <1>2
  <2>8. events' \in Nat /\ events <= events'
    BY <1>1
  <2>. HIDE DEF gone, ts
  <2>. QED  BY <1>2, <2>2, <2>3, <2>4, <2>5, <2>6, <2>7, <2>8, LeaveStep
<1>5. Tools!Consume(task[t].p) /\ task[t].p \notin deferred => UNCHANGED <<deferred, snap, disc>>
  BY DEF Tools!Consume
<1>. QED  BY <1>3, <1>4, <1>5

\* The requests ts of a profile end without an answer or start over: GiveUp.
LEMMA EndTasks ==
  ASSUME ToolInv, NEW p \in Profiles, NEW ts \in SUBSET Tools!Tasks, NEW left,
         UNCHANGED <<ver, known, active, restarting, switching>>, events' \in Nat, events <= events',
         DOMAIN task' = Tools!Tasks, \A t \in Tools!Tasks \ ts : task'[t] = task[t],
         \A t \in ts : /\ RequestOK(task'[t], disc) /\ ~task'[t].tracked /\ task'[t].disc \notin Tools!Slots
                       /\ task'[t].rounds <= task[t].rounds /\ task[t].pc # "done" /\ task[t].p = p,
         DOMAIN left = Tools!Slots,
         \A d \in Tools!Slots :
           left[d] = disc[d] \/ (left[d] = Tools!Free /\ \A t \in Tools!Tasks \ ts : task[t].disc # d),
         Tools!GiveUp(ts, p),
         disc' = IF Tools!GaveUp(ts, p) THEN Tools!InvalidateAll({p}, left) ELSE left
  PROVE  ToolInv'
<1>1. /\ DOMAIN task = Tools!Tasks /\ DOMAIN disc = Tools!Slots /\ DOMAIN snap = Profiles
      /\ deferred \subseteq Profiles /\ Tools!MarkerHasOwner
  BY DEF ToolInv, ToolTypes
<1>2. CASE Tools!GaveUp(ts, p)
  <2>. DEFINE gone == {p}
  <2>1. /\ deferred' = deferred \ {p} /\ snap' = [snap EXCEPT ![p] = None]
        /\ disc' = [d \in Tools!Slots |-> IF left[d].p \in {p} THEN [left[d] EXCEPT !.live = FALSE] ELSE left[d]]
        /\ Tools!ActiveLists(p) \subseteq ts
    BY <1>2 DEF Tools!GiveUp, Tools!GaveUp, Tools!InvalidateAll
  <2>2. \A d \in Tools!Slots :
           \/ disc'[d] = Tools!Free /\ \A t \in Tools!Tasks \ ts : task[t].disc # d
           \/ disc'[d] = IF disc[d].p \in gone THEN [disc[d] EXCEPT !.live = FALSE] ELSE disc[d]
    <3>1. Tools!Free.p # p
      BY NoSlot, FreeOK
    <3>2. ASSUME NEW d \in Tools!Slots, left[d] = Tools!Free PROVE disc'[d] = Tools!Free
      BY <2>1, <3>1, <3>2
    <3>3. ASSUME NEW d \in Tools!Slots, left[d] = disc[d]
          PROVE  disc'[d] = IF disc[d].p \in gone THEN [disc[d] EXCEPT !.live = FALSE] ELSE disc[d]
      BY <2>1, <3>3
    <3>. QED  BY <3>2, <3>3
  <2>3. \A x \in deferred \ gone : \E s \in Tools!ActiveLists(x) : s \notin ts
    BY <1>1 DEF Tools!MarkerHasOwner, Tools!ActiveLists
  <2>4. \A x \in gone : Tools!ActiveLists(x) \subseteq ts
    BY <2>1
  <2>5. /\ gone \in SUBSET Profiles /\ deferred' = deferred \ gone /\ DOMAIN disc' = Tools!Slots /\ DOMAIN snap' = Profiles
        /\ \A x \in Profiles : snap'[x] = IF x \in gone THEN None ELSE snap[x]
    BY <1>1, <2>1
  <2>6. \A s \in ts : /\ RequestOK(task'[s], disc) /\ ~task'[s].tracked /\ task'[s].disc \notin Tools!Slots
                      /\ task'[s].rounds <= task[s].rounds /\ task[s].pc # "done"
    OBVIOUS
  <2>. HIDE DEF gone
  <2>. QED  BY <2>2, <2>3, <2>4, <2>5, <2>6, LeaveStep
<1>3. CASE ~Tools!GaveUp(ts, p)
  <2>. DEFINE gone == {}
  <2>1. UNCHANGED <<deferred, snap>> /\ disc' = left
    BY <1>3 DEF Tools!GiveUp, Tools!GaveUp
  <2>2. \A d \in Tools!Slots :
           \/ disc'[d] = Tools!Free /\ \A t \in Tools!Tasks \ ts : task[t].disc # d
           \/ disc'[d] = IF disc[d].p \in gone THEN [disc[d] EXCEPT !.live = FALSE] ELSE disc[d]
    BY <2>1
  <2>3. \A x \in deferred \ gone : \E s \in Tools!ActiveLists(x) : s \notin ts
    <3>1. ASSUME NEW x \in deferred PROVE \E s \in Tools!ActiveLists(x) : s \notin ts
      <4>1. PICK s \in Tools!ActiveLists(x) : TRUE
        BY <1>1 DEF Tools!MarkerHasOwner
      <4>2. s \in ts => x = p /\ task[s].tracked
        BY <4>1 DEF Tools!ActiveLists
      <4>3. x = p /\ task[s].tracked /\ s \in ts => ~(Tools!ActiveLists(p) \subseteq ts)
        BY <1>3, <3>1 DEF Tools!GaveUp
      <4>. QED  BY <4>1, <4>2, <4>3
    <3>. QED  BY <3>1
  <2>4. \A x \in gone : Tools!ActiveLists(x) \subseteq ts
    OBVIOUS
  <2>5. /\ gone \in SUBSET Profiles /\ deferred' = deferred \ gone /\ DOMAIN disc' = Tools!Slots /\ DOMAIN snap' = Profiles
        /\ \A x \in Profiles : snap'[x] = IF x \in gone THEN None ELSE snap[x]
    BY <1>1, <2>1
  <2>6. \A s \in ts : /\ RequestOK(task'[s], disc) /\ ~task'[s].tracked /\ task'[s].disc \notin Tools!Slots
                      /\ task'[s].rounds <= task[s].rounds /\ task[s].pc # "done"
    OBVIOUS
  <2>. HIDE DEF gone
  <2>. QED  BY <2>2, <2>3, <2>4, <2>5, <2>6, LeaveStep
<1>. QED  BY <1>2, <1>3

\* A call is bound to its target's profile and asks for its tools.
LEMMA ToolRouteInv ==
  ASSUME ToolInv, NEW t \in Tools!Tasks, NEW p \in Profiles, Tools!Route(t, p)
  PROVE  ToolInv'
<1>1. /\ task[t].pc = "routing" /\ UNCHANGED <<ver, known, deferred, active, restarting, switching, snap, events>>
  BY DEF Tools!Route, Tools!world
<1>2. RequestOK(task[t], disc) /\ task[t].rounds \in Nat /\ ~task[t].tracked /\ task[t].disc \notin Tools!Slots
  BY <1>1 DEF ToolInv, RequestOK
<1>3. CASE Tools!Get(t, [task[t] EXCEPT !.p = p])
  <2>. DEFINE r == [task[t] EXCEPT !.p = p]
  <2>1. /\ r \in Requested(r) /\ r.p = p /\ r.tracked = task[t].tracked /\ r.rounds = task[t].rounds
        /\ r.disc = task[t].disc /\ r.kind = task[t].kind
    BY <1>2 DEF RequestOK, Requested
  <2>2. Tools!Get(t, r)
    BY <1>3
  <2>. HIDE DEF r
  <2>3. r.p \in Profiles /\ r.tracked \in BOOLEAN /\ r.disc \notin Tools!Slots /\ (r.tracked => r.kind \in {"list", "tools"})
    BY <1>2, <2>1 DEF RequestOK
  <2>. QED  BY <1>1, <1>2, <2>1, <2>2, <2>3, GetStep
<1>4. CASE task' = [task EXCEPT ![t] = Tools!Done] /\ UNCHANGED disc
  <2>1. Tools!Done.rounds <= task[t].rounds
    BY <1>2, DoneOK
  <2>. QED  BY <1>1, <1>2, <1>4, <2>1, DoneOK, ConsumeStep
<1>. QED  BY <1>3, <1>4 DEF Tools!Route

\* A check of the cache keeps the invariant.
LEMMA ToolCheckInv ==
  ASSUME ToolInv, NEW t \in Tools!Tasks, Tools!Check(t)
  PROVE  ToolInv'
<1>1. /\ task[t].pc = "got" /\ Tools!Consume(task[t].p)
      /\ UNCHANGED <<ver, known, active, restarting, switching, events>>
  BY DEF Tools!Check, Tools!world
<1>2. task[t].p \in Profiles /\ task[t].rounds \in Nat
  BY <1>1 DEF ToolInv, RequestOK
<1>. DEFINE routed == [Tools!Idle EXCEPT !.kind = "target", !.pc = "routing", !.snap = task[t].snap]
<1>3. /\ RequestOK(routed, disc) /\ ~routed.tracked /\ routed.disc \notin Tools!Slots /\ routed.rounds = 0
  BY NoSlot DEF Tools!Idle, RequestOK, Requested
<1>4. \/ task' = [task EXCEPT ![t] = Tools!Done]
      \/ task' = [task EXCEPT ![t] = routed] /\ task[t].p \notin deferred
  BY DEF Tools!Check
<1>. HIDE DEF routed
<1>5. CASE task' = [task EXCEPT ![t] = Tools!Done]
  <2>1. Tools!Done.rounds <= task[t].rounds
    BY <1>2, DoneOK
  <2>. QED  BY <1>1, <1>2, <1>5, <2>1, DoneOK, ConsumeStep
<1>6. CASE task' = [task EXCEPT ![t] = routed] /\ task[t].p \notin deferred
  <2>1. routed.rounds <= task[t].rounds
    BY <1>2, <1>3
  <2>. QED  BY <1>1, <1>2, <1>3, <1>6, <2>1, ConsumeStep
<1>. QED  BY <1>4, <1>5, <1>6

\* Once the call is sent its change notice is no longer the request's to make.
LEMMA ToolSentInv ==
  ASSUME ToolInv, NEW t \in Tools!Tasks, Tools!Sent(t)
  PROVE  ToolInv'
<1>1. /\ task[t].pc = "sending" /\ task' = [task EXCEPT ![t] = Tools!Done]
      /\ UNCHANGED <<ver, known, active, restarting, switching, events>>
  BY DEF Tools!Sent, Tools!world
<1>2. task[t].p \in Profiles /\ task[t].rounds \in Nat
  BY <1>1 DEF ToolInv, RequestOK
<1>3. Tools!Consume(task[t].p) \/ (~task[t].tracked /\ UNCHANGED <<deferred, snap, disc>>)
  BY DEF Tools!Sent
<1>4. Tools!Done.rounds <= task[t].rounds
  BY <1>2, DoneOK
<1>. QED  BY <1>1, <1>2, <1>3, <1>4, DoneOK, ConsumeStep

\* A caller that has its discovery's answer goes on, or starts over because it changed.
LEMMA ToolHeardInv ==
  ASSUME ToolInv, NEW t \in Tools!Tasks, Tools!Heard(t)
  PROVE  ToolInv'
<1>. DEFINE again == [task[t] EXCEPT !.pc = "again", !.tracked = FALSE, !.snap = None]
            sending == [task[t] EXCEPT !.pc = "sending"]
<1>1. /\ task[t].pc = "got" /\ UNCHANGED <<ver, known, active, restarting, switching, events>>
  BY DEF Tools!Heard, Tools!world
<1>2. /\ task[t].p \in Profiles /\ task[t].rounds \in Nat /\ task[t].disc \notin Tools!Slots
      /\ task[t] \in Requested(task[t]) /\ RequestOK(task[t], disc)
  BY <1>1 DEF ToolInv, RequestOK
<1>3. /\ DOMAIN task = Tools!Tasks /\ DOMAIN disc = Tools!Slots /\ DOMAIN snap = Profiles /\ events \in Nat
  BY DEF ToolInv, ToolTypes
<1>4. \/ /\ task' = [task EXCEPT ![t] = again] /\ Tools!GiveUp({t}, task[t].p)
         /\ disc' = IF Tools!GaveUp({t}, task[t].p) THEN Tools!InvalidateAll({task[t].p}, disc) ELSE disc
      \/ task' = [task EXCEPT ![t] = sending] /\ UNCHANGED <<snap, disc, deferred>>
      \/ /\ task' = [task EXCEPT ![t] = Tools!Done]
         /\ Tools!Consume(task[t].p) \/ (~task[t].tracked /\ UNCHANGED <<deferred, snap, disc>>)
  BY Zenon DEF Tools!Heard
<1>5. /\ RequestOK(again, disc) /\ ~again.tracked /\ again.disc = task[t].disc /\ again.rounds = task[t].rounds
  BY <1>2 DEF RequestOK, Requested
<1>6. /\ RequestOK(sending, disc) /\ sending.tracked = task[t].tracked /\ sending.disc = task[t].disc
      /\ sending.rounds = task[t].rounds /\ sending.p = task[t].p
  BY <1>1, <1>2 DEF RequestOK, Requested
<1>. HIDE DEF again, sending
<1>7. CASE /\ task' = [task EXCEPT ![t] = again] /\ Tools!GiveUp({t}, task[t].p)
           /\ disc' = IF Tools!GaveUp({t}, task[t].p) THEN Tools!InvalidateAll({task[t].p}, disc) ELSE disc
  <2>. DEFINE ts == {t}
  <2>1. /\ DOMAIN task' = Tools!Tasks /\ \A s \in Tools!Tasks \ ts : task'[s] = task[s]
    BY <1>3, <1>7
  <2>2. \A s \in ts : /\ RequestOK(task'[s], disc) /\ ~task'[s].tracked /\ task'[s].disc \notin Tools!Slots
                      /\ task'[s].rounds <= task[s].rounds /\ task[s].pc # "done" /\ task[s].p = task[t].p
    BY <1>1, <1>2, <1>3, <1>5, <1>7
  <2>3. \A d \in Tools!Slots :
          disc[d] = disc[d] \/ (disc[d] = Tools!Free /\ \A s \in Tools!Tasks \ ts : task[s].disc # d)
    OBVIOUS
  <2>4. ts \in SUBSET Tools!Tasks
    OBVIOUS
  <2>5. /\ Tools!GiveUp(ts, task[t].p)
        /\ disc' = IF Tools!GaveUp(ts, task[t].p) THEN Tools!InvalidateAll({task[t].p}, disc) ELSE disc
    BY <1>7
  <2>6. events' \in Nat /\ events <= events'
    BY <1>1, <1>3
  <2>. HIDE DEF ts
  <2>. QED  BY <1>1, <1>2, <1>3, <2>1, <2>2, <2>3, <2>4, <2>5, <2>6, EndTasks
<1>8. CASE task' = [task EXCEPT ![t] = sending] /\ UNCHANGED <<snap, disc, deferred>>
  <2>1. \A s \in Tools!Tasks : task'[s] = IF s = t THEN sending ELSE task[s]
    BY <1>3, <1>8
  <2>2. \A s \in Tools!Tasks :
           /\ RequestOK(task'[s], disc')
           /\ task[s].tracked => task'[s].tracked /\ task'[s].p = task[s].p
           /\ task[s].pc = "done" => task'[s].pc = "done"
           /\ task'[s].rounds + Lost(task'[s], disc') <= task[s].rounds + Lost(task[s], disc)
    <3>1. \A s \in Tools!Tasks : /\ RequestOK(task[s], disc) /\ task[s].rounds \in Nat
                                 /\ Lost(task[s], disc) \in {0, 1} /\ Lost(task'[s], disc') = Lost(task[s], disc)
      BY <1>6, <1>8, <2>1 DEF ToolInv, RequestOK, Lost
    <3>. QED  BY <1>1, <1>6, <1>8, <2>1, <3>1
  <2>3. /\ \A d \in Tools!Slots : DiscoveryOK(disc'[d], deferred, known)
        /\ \A p \in Profiles : SnapshotOK(snap'[p], p, deferred, known)
    BY <1>8 DEF ToolInv
  <2>4. /\ DOMAIN task' = Tools!Tasks /\ DOMAIN disc' = Tools!Slots /\ DOMAIN snap' = Profiles
        /\ events' \in Nat /\ events <= events'
    BY <1>1, <1>3, <1>8
  <2>. QED  BY <1>1, <1>8, <2>2, <2>3, <2>4, ServeStep
<1>9. CASE /\ task' = [task EXCEPT ![t] = Tools!Done]
           /\ Tools!Consume(task[t].p) \/ (~task[t].tracked /\ UNCHANGED <<deferred, snap, disc>>)
  <2>1. Tools!Done.rounds <= task[t].rounds
    BY <1>2, DoneOK
  <2>. QED  BY <1>1, <1>2, <1>9, <2>1, DoneOK, ConsumeStep
<1>. QED  BY <1>4, <1>7, <1>8, <1>9

\* An abort keeps the invariant: the others that wait keep their discovery.
LEMMA ToolCancelInv ==
  ASSUME ToolInv, NEW t \in Tools!Tasks, Tools!Cancel(t)
  PROVE  ToolInv'
<1>. DEFINE p == task[t].p
            ts == {t}
            left == IF Tools!Consumers(task[t].disc) = {t} THEN [disc EXCEPT ![task[t].disc] = Tools!Free] ELSE disc
<1>1. /\ task[t].pc = "waiting" /\ task' = [task EXCEPT ![t] = Tools!Done] /\ Tools!GiveUp(ts, p)
      /\ UNCHANGED <<ver, known, active, restarting, switching>> /\ events' = events + 1
      /\ disc' = IF Tools!GaveUp(ts, p) THEN Tools!InvalidateAll({p}, left) ELSE left
  BY DEF Tools!Cancel, Tools!Event
<1>2. p \in Profiles /\ task[t].rounds \in Nat
  BY <1>1 DEF ToolInv, RequestOK
<1>3. DOMAIN task = Tools!Tasks /\ DOMAIN disc = Tools!Slots /\ events \in Nat
  BY DEF ToolInv, ToolTypes
<1>4. DOMAIN task' = Tools!Tasks /\ \A s \in Tools!Tasks \ ts : task'[s] = task[s]
  BY <1>1, <1>3
<1>5. \A s \in ts : /\ RequestOK(task'[s], disc) /\ ~task'[s].tracked /\ task'[s].disc \notin Tools!Slots
                    /\ task'[s].rounds <= task[s].rounds /\ task[s].pc # "done" /\ task[s].p = p
  BY <1>1, <1>2, <1>3, DoneOK
<1>6. DOMAIN left = Tools!Slots
  BY <1>3
<1>7. ASSUME NEW d \in Tools!Slots
      PROVE  left[d] = disc[d] \/ (left[d] = Tools!Free /\ \A s \in Tools!Tasks \ ts : task[s].disc # d)
  <2>1. CASE Tools!Consumers(task[t].disc) = {t} /\ d = task[t].disc
    BY <1>3, <2>1 DEF Tools!Consumers
  <2>2. CASE ~(Tools!Consumers(task[t].disc) = {t} /\ d = task[t].disc)
    BY <1>3, <2>2
  <2>. QED  BY <2>1, <2>2
<1>8. events' \in Nat /\ events <= events'
  BY <1>1, <1>3
<1>9. ts \in SUBSET Tools!Tasks
  OBVIOUS
<1>. HIDE DEF ts, left, p
<1>. QED  BY <1>1, <1>2, <1>4, <1>5, <1>6, <1>7, <1>8, <1>9, EndTasks

\* An upstream's tools, or its failure, keep the invariant.
LEMMA ToolAnswerInv ==
  ASSUME ToolInv, NEW d \in Tools!Slots, NEW x \in Profiles \X Upstreams, Tools!Answer(d, x)
  PROVE  ToolInv'
<1>1. /\ x \in disc[d].asked /\ UNCHANGED <<ver, known, active, restarting, switching, deferred, task, snap>>
      /\ events' = events \/ events' = events + 1
  BY DEF Tools!Answer, Tools!Event
<1>2. /\ \A t \in Tools!Tasks : RequestOK(task[t], disc)
      /\ \A e \in Tools!Slots : DiscoveryOK(disc[e], deferred, known)
      /\ \A p \in Profiles : SnapshotOK(snap[p], p, deferred, known)
  BY DEF ToolInv
<1>3. /\ DOMAIN task = Tools!Tasks /\ DOMAIN disc = Tools!Slots /\ DOMAIN snap = Profiles /\ events \in Nat
      /\ \A y \in Profiles \X Upstreams : ver[y] >= known[y]
  BY DEF ToolInv, ToolTypes
<1>. DEFINE e == disc[d]
            got == [e.got EXCEPT ![x] = ver[x]]
            asked == e.asked \ {x}
<1>4. /\ \/ disc' = [disc EXCEPT ![d].got[x] = ver[x], ![d].asked = @ \ {x}]
         \/ disc' = [disc EXCEPT ![d].asked = @ \ {x}]
  BY DEF Tools!Answer
<1>5. PICK f : disc' = [disc EXCEPT ![d] = f] /\ f \in Discovered(f) /\ f.p = e.p /\ f.live = e.live /\ f.asked = asked
               /\ f.got \in {got, e.got}
  <2>1. e \in Discovered(e)
    BY <1>2 DEF DiscoveryOK
  <2>2. CASE disc' = [disc EXCEPT ![d].got[x] = ver[x], ![d].asked = @ \ {x}]
    <3>. DEFINE f == [e EXCEPT !.got = got, !.asked = asked]
    <3>1. disc' = [disc EXCEPT ![d] = f]
      BY <1>3, <2>2
    <3>2. f \in Discovered(f) /\ f.p = e.p /\ f.live = e.live /\ f.asked = asked /\ f.got = got
      BY <2>1 DEF Discovered
    <3>. QED  BY <3>1, <3>2
  <2>3. CASE disc' = [disc EXCEPT ![d].asked = @ \ {x}]
    <3>. DEFINE f == [e EXCEPT !.asked = asked]
    <3>1. disc' = [disc EXCEPT ![d] = f]
      BY <1>3, <2>3
    <3>2. f \in Discovered(f) /\ f.p = e.p /\ f.live = e.live /\ f.asked = asked /\ f.got = e.got
      BY <2>1 DEF Discovered
    <3>. QED  BY <3>1, <3>2
  <2>. QED  BY <1>4, <2>2, <2>3
<1>6. DiscoveryOK(f, deferred, known)
  <2>1. DiscoveryOK(e, deferred, known) /\ e.p # None
    BY <1>1, <1>2 DEF DiscoveryOK
  <2>2. /\ DOMAIN f.got = DOMAIN e.got /\ x \in DOMAIN e.got
        /\ \A y \in DOMAIN e.got : f.got[y] = e.got[y] \/ (y = x /\ f.got[y] = ver[x])
    <3>1. x \in DOMAIN e.got
      BY <1>1, <2>1 DEF DiscoveryOK
    <3>. QED  BY <1>5, <3>1
  <2>. HIDE DEF e, got, asked
  <2>3. ASSUME f.live, f.p \notin deferred, NEW u \in Upstreams, f.got[<<f.p, u>>] # None
        PROVE  f.got[<<f.p, u>>] >= known[<<f.p, u>>]
    <3>1. <<f.p, u>> \in DOMAIN e.got /\ (e.got[<<f.p, u>>] # None => e.got[<<f.p, u>>] >= known[<<f.p, u>>])
      BY <1>5, <2>1, <2>3 DEF DiscoveryOK
    <3>. QED  BY <1>3, <2>2, <2>3, <3>1
  <2>4. f.asked \subseteq e.asked /\ f.p = e.p /\ f.live = e.live /\ f \in Discovered(f)
    BY <1>5 DEF asked
  <2>. QED  BY <2>1, <2>2, <2>3, <2>4 DEF DiscoveryOK
<1>. HIDE DEF e, got, asked
<1>7. \A c \in Tools!Slots : disc'[c].p = disc[c].p /\ disc'[c].live = disc[c].live /\ DiscoveryOK(disc'[c], deferred, known)
  BY <1>2, <1>3, <1>5, <1>6 DEF e
<1>8. \A t \in Tools!Tasks :
           /\ RequestOK(task'[t], disc')
           /\ task[t].tracked => task'[t].tracked /\ task'[t].p = task[t].p
           /\ task[t].pc = "done" => task'[t].pc = "done"
           /\ task'[t].rounds + Lost(task'[t], disc') <= task[t].rounds + Lost(task[t], disc)
  <2>1. \A t \in Tools!Tasks : /\ RequestOK(task[t], disc') /\ task[t].rounds \in Nat
                               /\ Lost(task[t], disc) \in {0, 1} /\ Lost(task'[t], disc') = Lost(task[t], disc)
    BY <1>1, <1>2, <1>7, RequestKept DEF RequestOK, Lost
  <2>. QED  BY <1>1, <2>1
<1>9. /\ DOMAIN task' = Tools!Tasks /\ DOMAIN disc' = Tools!Slots /\ DOMAIN snap' = Profiles
      /\ events' \in Nat /\ events <= events' /\ \A p \in Profiles : SnapshotOK(snap'[p], p, deferred, known)
  BY <1>1, <1>2, <1>3, <1>5
<1>. QED  BY <1>1, <1>7, <1>8, <1>9, ServeStep

\* A discovery fails: those who wait for it get its error.
LEMMA ToolFailInv ==
  ASSUME ToolInv, NEW d \in Tools!Slots, disc[d].p # None,
         task' = [t \in Tools!Tasks |-> IF t \in Tools!Consumers(d) THEN Tools!Done ELSE task[t]],
         Tools!GiveUp(Tools!Consumers(d), disc[d].p),
         disc' = IF Tools!GaveUp(Tools!Consumers(d), disc[d].p)
                 THEN Tools!InvalidateAll({disc[d].p}, [disc EXCEPT ![d] = Tools!Free]) ELSE [disc EXCEPT ![d] = Tools!Free],
         UNCHANGED <<ver, known, active, restarting, switching, events>>
  PROVE  ToolInv'
<1>. DEFINE p == disc[d].p
            ts == Tools!Consumers(d)
            left == [disc EXCEPT ![d] = Tools!Free]
<1>1. p \in Profiles
  BY DEF ToolInv, DiscoveryOK
<1>2. DOMAIN disc = Tools!Slots /\ events \in Nat
  BY DEF ToolInv, ToolTypes
<1>3. ts \in SUBSET Tools!Tasks /\ \A t \in Tools!Tasks : t \in ts <=> task[t].disc = d
  BY DEF Tools!Consumers
<1>4. \A t \in ts : task[t].p = p /\ task[t].pc = "waiting" /\ task[t].rounds \in Nat
  BY <1>3 DEF ToolInv, RequestOK
<1>5. /\ DOMAIN left = Tools!Slots
      /\ \A c \in Tools!Slots :
           left[c] = disc[c] \/ (left[c] = Tools!Free /\ \A t \in Tools!Tasks \ ts : task[t].disc # c)
  BY <1>2, <1>3
<1>. HIDE DEF ts, left
<1>6. \A t \in ts : /\ RequestOK(task'[t], disc) /\ ~task'[t].tracked /\ task'[t].disc \notin Tools!Slots
                    /\ task'[t].rounds <= task[t].rounds /\ task[t].pc # "done" /\ task[t].p = p
  <2>1. \A t \in ts : task'[t] = Tools!Done
    BY <1>3 DEF ts
  <2>. QED  BY <1>4, <2>1, DoneOK
<1>7. DOMAIN task' = Tools!Tasks /\ \A t \in Tools!Tasks \ ts : task'[t] = task[t]
  BY DEF ts
<1>8. Tools!GiveUp(ts, p) /\ disc' = IF Tools!GaveUp(ts, p) THEN Tools!InvalidateAll({p}, left) ELSE left
  BY DEF ts, left
<1>9. events' \in Nat /\ events <= events'
  BY <1>2
<1>. HIDE DEF p
<1>. QED  BY <1>1, <1>3, <1>5, <1>6, <1>7, <1>8, <1>9, EndTasks, ZenonT(30)

\* A live discovery ends well: its result is cached and served.
LEMMA ToolPublishInv ==
  ASSUME ToolInv, NEW d \in Tools!Slots, Tools!Settle(d), Tools!Outcome(d) # None, disc[d].live
  PROVE  ToolInv'
<1>. DEFINE p == disc[d].p
            found == Tools!Outcome(d)
<1>0. /\ p # None /\ disc' = [disc EXCEPT ![d] = Tools!Free] /\ Tools!Publish(d)
      /\ task' = [t \in Tools!Tasks |->
           IF t \in Tools!Consumers(d) THEN [task[t] EXCEPT !.pc = "got", !.disc = None, !.snap = found] ELSE task[t]]
      /\ UNCHANGED <<ver, known, deferred, active, restarting, switching, events>>
  BY DEF Tools!Settle, Tools!world
<1>1. /\ \A t \in Tools!Tasks : RequestOK(task[t], disc)
      /\ \A e \in Tools!Slots : DiscoveryOK(disc[e], deferred, known)
      /\ \A q \in Profiles : SnapshotOK(snap[q], q, deferred, known)
  BY DEF ToolInv
<1>2. /\ DOMAIN task = Tools!Tasks /\ DOMAIN disc = Tools!Slots /\ DOMAIN snap = Profiles /\ events \in Nat
  BY DEF ToolInv, ToolTypes
<1>3. p \in Profiles /\ snap' = [snap EXCEPT ![p] = found]
  BY <1>0, <1>1 DEF DiscoveryOK, Tools!Publish
<1>4. SnapshotOK(found, p, deferred, known)
  <2>1. found = [u \in Upstreams |-> disc[d].got[<<p, u>>]]
    BY DEF Tools!Outcome
  <2>. HIDE DEF found
  <2>. QED  BY <1>1, <2>1 DEF SnapshotOK, DiscoveryOK
<1>5. \A t \in Tools!Tasks : t \in Tools!Consumers(d) <=> task[t].disc = d
  BY DEF Tools!Consumers
<1>. HIDE DEF found
<1>6. ASSUME NEW t \in Tools!Tasks
      PROVE  /\ RequestOK(task'[t], disc')
             /\ task[t].tracked => task'[t].tracked /\ task'[t].p = task[t].p
             /\ task[t].pc = "done" => task'[t].pc = "done"
             /\ task'[t].rounds + Lost(task'[t], disc') <= task[t].rounds + Lost(task[t], disc)
  <2>1. task[t].rounds \in Nat /\ Lost(task[t], disc) \in {0, 1} /\ task[t] \in Requested(task[t]) /\ RequestOK(task[t], disc)
    BY <1>1 DEF RequestOK, Lost
  <2>2. CASE task[t].disc = d
    <3>. DEFINE q == [task[t] EXCEPT !.pc = "got", !.disc = None, !.snap = found]
    <3>1. task'[t] = q
      BY <1>0, <1>5, <2>2
    <3>2. /\ q \in Requested(q) /\ q.pc = "got" /\ q.disc = None /\ q.p = task[t].p /\ q.tracked = task[t].tracked
          /\ q.kind = task[t].kind /\ q.rounds = task[t].rounds
      BY <2>1 DEF Requested
    <3>. HIDE DEF q
    <3>3. task[t].pc = "waiting"
      BY <2>1, <2>2 DEF RequestOK
    <3>4. RequestOK(q, disc') /\ Lost(q, disc') = 0
      BY <2>1, <3>2, <3>3, NoSlot DEF RequestOK, Lost
    <3>. QED  BY <2>1, <3>1, <3>2, <3>3, <3>4
  <2>3. CASE task[t].disc # d
    <3>1. task'[t] = task[t] /\ (task[t].disc \in Tools!Slots => disc'[task[t].disc] = disc[task[t].disc])
      BY <1>0, <1>2, <1>5, <2>3
    <3>2. RequestOK(task'[t], disc') /\ Lost(task'[t], disc') = Lost(task[t], disc)
      BY <2>1, <3>1, RequestKept DEF Lost
    <3>. QED  BY <2>1, <3>1, <3>2
  <2>. QED  BY <2>2, <2>3
<1>7. \A e \in Tools!Slots : DiscoveryOK(disc'[e], deferred, known)
  BY <1>0, <1>1, <1>2, FreeOK
<1>8. \A q \in Profiles : SnapshotOK(snap'[q], q, deferred, known)
  BY <1>1, <1>2, <1>3, <1>4
<1>9. DOMAIN task' = Tools!Tasks /\ DOMAIN disc' = Tools!Slots /\ DOMAIN snap' = Profiles /\ events' \in Nat /\ events <= events'
  <2>1. DOMAIN task' = Tools!Tasks
    BY <1>0
  <2>2. DOMAIN disc' = Tools!Slots /\ DOMAIN snap' = Profiles
    BY <1>0, <1>2, <1>3
  <2>3. events' \in Nat /\ events <= events'
    <3>1. events' = events
      BY <1>0
    <3>2. events \in Nat
      BY <1>2
    <3>. QED  BY <3>1, <3>2
  <2>. QED  BY <2>1, <2>2, <2>3
<1>10. \A t \in Tools!Tasks :
           /\ RequestOK(task'[t], disc')
           /\ task[t].tracked => task'[t].tracked /\ task'[t].p = task[t].p
           /\ task[t].pc = "done" => task'[t].pc = "done"
           /\ task'[t].rounds + Lost(task'[t], disc') <= task[t].rounds + Lost(task[t], disc)
  BY <1>6
<1>11. UNCHANGED <<ver, known, deferred, active, restarting, switching>>
  BY <1>0
<1>. QED  BY <1>7, <1>8, <1>9, <1>10, <1>11, ServeStep

\* An invalidated discovery ends: those who wait take what is cached by now, or ask again.
LEMMA ToolStaleInv ==
  ASSUME ToolInv, NEW d \in Tools!Slots, Tools!Settle(d), Tools!Outcome(d) # None, ~disc[d].live
  PROVE  ToolInv'
<1>. DEFINE p == disc[d].p
            again == IF Tools!Pending(p) = {} THEN d ELSE CHOOSE e \in Tools!Pending(p) : TRUE
<1>1. /\ p # None /\ UNCHANGED <<ver, known, deferred, active, restarting, switching, events, snap>>
      /\ disc' = IF Tools!Cached(p) \/ Tools!Consumers(d) = {} \/ again # d THEN [disc EXCEPT ![d] = Tools!Free]
                 ELSE [disc EXCEPT ![d] = Tools!Fresh(p)]
      /\ task' = [t \in Tools!Tasks |->
           IF t \notin Tools!Consumers(d) THEN task[t]
           ELSE IF Tools!Cached(p) THEN [task[t] EXCEPT !.pc = "got", !.disc = None, !.snap = snap[p]]
           ELSE [task[t] EXCEPT !.disc = again, !.rounds = IF task[t].tracked THEN @ + 1 ELSE 0]]
  BY DEF Tools!Settle, Tools!world, Tools!Publish
<1>2. /\ \A t \in Tools!Tasks : RequestOK(task[t], disc)
      /\ \A e \in Tools!Slots : DiscoveryOK(disc[e], deferred, known)
      /\ \A q \in Profiles : SnapshotOK(snap[q], q, deferred, known)
  BY DEF ToolInv
<1>3. /\ DOMAIN task = Tools!Tasks /\ DOMAIN disc = Tools!Slots /\ DOMAIN snap = Profiles /\ events \in Nat
  BY DEF ToolInv, ToolTypes
<1>4. p \in Profiles
  BY <1>1, <1>2 DEF DiscoveryOK
<1>5. \A t \in Tools!Tasks : t \in Tools!Consumers(d) <=> task[t].disc = d
  BY DEF Tools!Consumers
<1>6. again \in Tools!Slots /\ (again # d => disc[again].p = p /\ disc[again].live)
  BY DEF Tools!Pending
<1>. HIDE DEF again
<1>7. \A e \in Tools!Slots \ {d} : disc'[e] = disc[e]
  BY <1>1, <1>3, ZenonT(30)
<1>8. disc'[d] \in {Tools!Free, Tools!Fresh(p)}
  BY <1>1, <1>3
<1>9. \A e \in Tools!Slots : DiscoveryOK(disc'[e], deferred, known)
  <2>1. DiscoveryOK(disc'[d], deferred, known)
    BY <1>4, <1>8, FreeOK, FreshOK
  <2>. QED  BY <1>2, <1>7, <2>1
<1>10. ~Tools!Cached(p) /\ Tools!Consumers(d) # {} => disc'[again].p = p /\ disc'[again].live
  <2>1. CASE again = d
    BY <1>1, <1>3, <1>4, <2>1, FreshOK
  <2>2. CASE again # d
    BY <1>6, <1>7, <2>2
  <2>. QED  BY <2>1, <2>2
<1>11. ASSUME NEW t \in Tools!Tasks
       PROVE  /\ RequestOK(task'[t], disc')
              /\ task[t].tracked => task'[t].tracked /\ task'[t].p = task[t].p
              /\ task[t].pc = "done" => task'[t].pc = "done"
              /\ task'[t].rounds + Lost(task'[t], disc') <= task[t].rounds + Lost(task[t], disc)
  <2>1. task[t].rounds \in Nat /\ Lost(task[t], disc) \in {0, 1} /\ task[t] \in Requested(task[t]) /\ RequestOK(task[t], disc)
    BY <1>2 DEF RequestOK, Lost
  <2>2. CASE task[t].disc # d
    <3>1. task'[t] = task[t] /\ (task[t].disc \in Tools!Slots => disc'[task[t].disc] = disc[task[t].disc])
      BY <1>1, <1>5, <1>7, <2>2
    <3>2. RequestOK(task'[t], disc') /\ Lost(task'[t], disc') = Lost(task[t], disc)
      BY <2>1, <3>1, RequestKept DEF Lost
    <3>. QED  BY <2>1, <3>1, <3>2
  <2>3. CASE task[t].disc = d
    <3>1. /\ task[t].pc = "waiting" /\ task[t].p = p /\ task[t].tracked \in BOOLEAN /\ task[t].disc \in Tools!Slots
          /\ task[t].tracked => task[t].kind \in {"list", "tools"}
      BY <2>1, <2>3 DEF RequestOK
    <3>2. Lost(task[t], disc) = IF task[t].tracked THEN 1 ELSE 0
      BY <2>3, <3>1 DEF Lost
    <3>3. CASE Tools!Cached(p)
      <4>. DEFINE r == [task[t] EXCEPT !.pc = "got", !.disc = None, !.snap = snap[p]]
      <4>1. task'[t] = r
        BY <1>1, <1>5, <2>3, <3>3
      <4>2. /\ r \in Requested(r) /\ r.pc = "got" /\ r.disc = None /\ r.p = task[t].p /\ r.tracked = task[t].tracked
            /\ r.kind = task[t].kind /\ r.rounds = task[t].rounds
        BY <2>1 DEF Requested
      <4>. HIDE DEF r
      <4>3. RequestOK(r, disc') /\ Lost(r, disc') = 0
        BY <1>4, <2>1, <3>1, <4>2, NoSlot DEF RequestOK, Lost
      <4>. QED  BY <2>1, <3>1, <4>1, <4>2, <4>3
    <3>4. CASE ~Tools!Cached(p)
      <4>. DEFINE rounds == IF task[t].tracked THEN task[t].rounds + 1 ELSE 0
                  r == [task[t] EXCEPT !.disc = again, !.rounds = rounds]
      <4>1. task'[t] = r
        BY <1>1, <1>5, <2>3, <3>4
      <4>2. /\ r \in Requested(r) /\ r.pc = "waiting" /\ r.disc = again /\ r.p = task[t].p /\ r.tracked = task[t].tracked
            /\ r.kind = task[t].kind /\ r.rounds = rounds
        BY <2>1, <3>1 DEF Requested
      <4>. HIDE DEF r
      <4>3. disc'[again].p = p /\ disc'[again].live
        BY <1>5, <1>10, <2>3, <3>4
      <4>4. rounds \in Nat
        BY <2>1
      <4>5. RequestOK(r, disc') /\ Lost(r, disc') = 0
        BY <1>4, <1>6, <3>1, <4>2, <4>3, <4>4 DEF RequestOK, Lost
      <4>6. rounds + 0 <= task[t].rounds + Lost(task[t], disc)
        BY <2>1, <3>2
      <4>. QED  BY <3>1, <4>1, <4>2, <4>5, <4>6
    <3>. QED  BY <3>3, <3>4
  <2>. QED  BY <2>2, <2>3
<1>12. \A t \in Tools!Tasks :
           /\ RequestOK(task'[t], disc')
           /\ task[t].tracked => task'[t].tracked /\ task'[t].p = task[t].p
           /\ task[t].pc = "done" => task'[t].pc = "done"
           /\ task'[t].rounds + Lost(task'[t], disc') <= task[t].rounds + Lost(task[t], disc)
  BY <1>11
<1>13. /\ DOMAIN task' = Tools!Tasks /\ DOMAIN snap' = Profiles /\ events' \in Nat /\ events <= events'
       /\ \A q \in Profiles : SnapshotOK(snap'[q], q, deferred, known)
  <2>1. DOMAIN task' = Tools!Tasks
    BY <1>1, ZenonT(30)
  <2>2. snap' = snap /\ events' = events
    BY <1>1, ZenonT(30)
  <2>. QED  BY <1>2, <1>3, <2>1, <2>2
<1>14. DOMAIN disc' = Tools!Slots
  BY <1>1, <1>3, ZenonT(30)
<1>15. UNCHANGED <<ver, known, deferred, active, restarting, switching>>
  BY <1>1
<1>. QED  BY <1>9, <1>12, <1>13, <1>14, <1>15, ServeStep

\* The end of a discovery keeps the invariant: it is stored for its own epoch, or not at all.
LEMMA ToolSettleInv ==
  ASSUME ToolInv, NEW d \in Tools!Slots, Tools!Settle(d)
  PROVE  ToolInv'
<1>1. CASE Tools!Outcome(d) # None /\ disc[d].live
  BY <1>1, ToolPublishInv
<1>2. CASE Tools!Outcome(d) # None /\ ~disc[d].live
  BY <1>2, ToolStaleInv
<1>3. CASE Tools!Outcome(d) = None
  BY <1>3, ToolFailInv DEF Tools!Settle, Tools!world
<1>. QED  BY <1>1, <1>2, <1>3

\* WorldStep where no request moves and the discoveries and snapshots of ps are invalidated, or of nobody.
LEMMA LosesStep ==
  ASSUME ToolInv, NEW ps \in SUBSET Profiles, UNCHANGED task,
         Tools!Invalidate(ps) \/ (ps = {} /\ UNCHANGED <<snap, disc>>),
         ver' \in [Profiles \X Upstreams -> 0..MaxVer], known' \in [Profiles \X Upstreams -> 0..MaxVer],
         \A x \in Profiles \X Upstreams : ver'[x] >= known'[x],
         \A p \in Profiles :
           \/ p \in ps \/ p \in deferred'
           \/ snap[p] = None /\ Tools!Pending(p) = {}
           \/ p \notin deferred /\ \A u \in Upstreams : known'[<<p, u>>] = known[<<p, u>>],
         deferred' \subseteq Profiles, \A p \in deferred' : Tools!ActiveLists(p) # {},
         restarting' \subseteq Profiles, active' \in Profiles, events' \in Nat,
         switching' # None => switching'.to \in Profiles,
         events + Cardinality(restarting') <= events' + Cardinality(restarting),
         \/ events + Cardinality(restarting') + 1 <= events' + Cardinality(restarting)
         \/ \A t \in Tools!Tasks :
              task[t].tracked /\ task[t].disc \in Tools!Slots => task[t].p \notin ps \/ ~disc[task[t].disc].live
  PROVE  ToolInv'
<1>1. /\ DOMAIN task' = Tools!Tasks
      /\ \A t \in Tools!Tasks :
           /\ RequestOK(task'[t], disc) /\ task'[t].disc = task[t].disc /\ task'[t].rounds = task[t].rounds
           /\ task'[t].tracked = task[t].tracked /\ task'[t].p = task[t].p
           /\ task[t].pc = "done" => task'[t].pc = "done"
  BY DEF ToolInv, ToolTypes
<1>2. DOMAIN disc = Tools!Slots /\ DOMAIN snap = Profiles
  BY DEF ToolInv, ToolTypes
<1>3. /\ DOMAIN disc' = Tools!Slots /\ DOMAIN snap' = Profiles
      /\ \A d \in Tools!Slots : disc'[d] = IF disc[d].p \in ps THEN [disc[d] EXCEPT !.live = FALSE] ELSE disc[d]
      /\ \A p \in Profiles : snap'[p] = IF p \in ps THEN None ELSE snap[p]
  <2>1. CASE Tools!Invalidate(ps)
    BY <2>1 DEF Tools!Invalidate, Tools!InvalidateAll
  <2>2. CASE ps = {} /\ UNCHANGED <<snap, disc>>
    BY <1>2, <2>2
  <2>. QED  BY <2>1, <2>2
<1>4. \A p \in Profiles :
        \/ p \in ps \/ p \in deferred'
        \/ snap'[p] = None /\ Tools!Pending(p) = {}
        \/ p \notin deferred /\ \A u \in Upstreams : known'[<<p, u>>] = known[<<p, u>>]
  BY <1>3
<1>5. /\ \A p \in Profiles : snap'[p] = snap[p] \/ snap'[p] = None
      /\ \A p \in ps : snap'[p] = None
  BY <1>3
<1>. QED  BY <1>1, <1>3, <1>4, <1>5, WorldStep

\* What else an action may leave as it was.
LEMMA WorldTypes ==
  ASSUME ToolInv
  PROVE  /\ ver \in [Profiles \X Upstreams -> 0..MaxVer] /\ known \in [Profiles \X Upstreams -> 0..MaxVer]
         /\ \A x \in Profiles \X Upstreams : ver[x] >= known[x]
         /\ deferred \subseteq Profiles /\ \A p \in deferred : Tools!ActiveLists(p) # {}
         /\ restarting \subseteq Profiles /\ active \in Profiles /\ events \in Nat
         /\ Cardinality(restarting) \in Nat
         /\ switching # None => switching.to \in Profiles
BY RestartingCount DEF ToolInv, ToolTypes, Tools!MarkerHasOwner

\* A change makes an upstream newer, up to the bound.
LEMMA NewerOK ==
  ASSUME ToolInv, NEW x \in Profiles \X Upstreams
  PROVE  Tools!Newer(x) \in 0..MaxVer /\ Tools!Newer(x) >= ver[x] /\ ver[x] \in 0..MaxVer
<1>1. ver[x] \in 0..MaxVer
  BY WorldTypes
<1>. QED  BY <1>1, ServerAssumption DEF Tools!Newer

\* A list_changed notification keeps the invariant, taken at once or put off.
LEMMA ToolNoticeInv ==
  ASSUME ToolInv, NEW x \in Profiles \X Upstreams, Tools!Notice(x)
  PROVE  ToolInv'
<1>. USE WorldTypes
<1>. DEFINE p == x[1]
<1>1. /\ Tools!Defer(p) /\ UNCHANGED <<active, ver, task, restarting, switching, events>>
      /\ known' = IF Tools!Pending(p) # {} /\ Tools!ActiveLists(p) = {} /\ snap[p] = None THEN known
                  ELSE [known EXCEPT ![x] = ver[x]]
  BY DEF Tools!Notice
<1>2. p \in Profiles /\ x = <<p, x[2]>> /\ x[2] \in Upstreams
  OBVIOUS
<1>3. /\ known' \in [Profiles \X Upstreams -> 0..MaxVer]
      /\ \A y \in Profiles \X Upstreams : ver'[y] >= known'[y]
      /\ \A q \in Profiles \ {p}, u \in Upstreams : known'[<<q, u>>] = known[<<q, u>>]
  <2>1. ver[x] \in 0..MaxVer
    OBVIOUS
  <2>2. known' = known \/ known' = [known EXCEPT ![x] = ver[x]]
    BY <1>1
  <2>3. \A y \in Profiles \X Upstreams : ver[y] \in Int /\ known[y] \in Int /\ ver[y] >= known[y]
    OBVIOUS
  <2>4. known' \in [Profiles \X Upstreams -> 0..MaxVer]
    BY <2>1, <2>2
  <2>5. \A y \in Profiles \X Upstreams : ver'[y] >= known'[y]
    BY <1>1, <2>1, <2>2, <2>3
  <2>6. \A q \in Profiles \ {p}, u \in Upstreams : known'[<<q, u>>] = known[<<q, u>>]
    BY <2>2
  <2>. QED  BY <2>4, <2>5, <2>6
<1>4. /\ ver' \in [Profiles \X Upstreams -> 0..MaxVer] /\ restarting' \subseteq Profiles /\ active' \in Profiles
      /\ events' \in Nat /\ (switching' # None => switching'.to \in Profiles)
      /\ events + Cardinality(restarting') <= events' + Cardinality(restarting)
  BY <1>1
<1>. HIDE DEF p
<1>5. CASE Tools!Pending(p) # {} /\ Tools!ActiveLists(p) # {}
  <2>. DEFINE ps == {}
  <2>1. deferred' = deferred \cup {p} /\ UNCHANGED <<snap, disc>>
    BY <1>1, <1>5 DEF Tools!Defer, Tools!Keep
  <2>2. deferred' \subseteq Profiles /\ \A q \in deferred' : Tools!ActiveLists(q) # {}
    BY <1>2, <1>5, <2>1
  <2>3. \A q \in Profiles :
          \/ q \in ps \/ q \in deferred'
          \/ snap[q] = None /\ Tools!Pending(q) = {}
          \/ q \notin deferred /\ \A u \in Upstreams : known'[<<q, u>>] = known[<<q, u>>]
    BY <1>3, <2>1
  <2>4. \A t \in Tools!Tasks :
          task[t].tracked /\ task[t].disc \in Tools!Slots => task[t].p \notin ps \/ ~disc[task[t].disc].live
    OBVIOUS
  <2>5. ps \in SUBSET Profiles /\ (Tools!Invalidate(ps) \/ (ps = {} /\ UNCHANGED <<snap, disc>>)) /\ UNCHANGED task
    BY <1>1, <2>1
  <2>. HIDE DEF ps
  <2>. QED  BY ONLY ToolInv, <1>3, <1>4, <2>2, <2>3, <2>4, <2>5, LosesStep
<1>6. CASE ~(Tools!Pending(p) # {} /\ Tools!ActiveLists(p) # {}) /\ snap[p] # None
  <2>. DEFINE ps == {p}
  <2>1. deferred' = deferred \ {p} /\ Tools!Invalidate(ps)
    BY <1>1, <1>6 DEF Tools!Defer
  <2>2. deferred' \subseteq Profiles /\ \A q \in deferred' : Tools!ActiveLists(q) # {}
    BY <2>1
  <2>3. \A q \in Profiles :
          \/ q \in ps \/ q \in deferred'
          \/ snap[q] = None /\ Tools!Pending(q) = {}
          \/ q \notin deferred /\ \A u \in Upstreams : known'[<<q, u>>] = known[<<q, u>>]
    BY <1>3, <2>1
  <2>4. ASSUME NEW t \in Tools!Tasks, task[t].tracked, task[t].disc \in Tools!Slots, task[t].p \in ps,
               disc[task[t].disc].live
        PROVE  FALSE
    <3>1. t \in Tools!ActiveLists(p)
      BY <2>4 DEF Tools!ActiveLists
    <3>2. disc[task[t].disc].p = p
      BY <2>4 DEF ToolInv, RequestOK
    <3>3. task[t].disc \in Tools!Pending(p)
      BY <2>4, <3>2 DEF Tools!Pending
    <3>. QED  BY <1>6, <3>1, <3>3
  <2>5. ps \in SUBSET Profiles /\ (Tools!Invalidate(ps) \/ (ps = {} /\ UNCHANGED <<snap, disc>>)) /\ UNCHANGED task
    BY <1>1, <1>2, <2>1
  <2>. HIDE DEF ps
  <2>6. \A t \in Tools!Tasks :
          task[t].tracked /\ task[t].disc \in Tools!Slots => task[t].p \notin ps \/ ~disc[task[t].disc].live
    BY <2>4
  <2>. QED  BY ONLY ToolInv, <1>3, <1>4, <2>2, <2>3, <2>5, <2>6, LosesStep
<1>7. CASE ~(Tools!Pending(p) # {} /\ Tools!ActiveLists(p) # {}) /\ snap[p] = None
  <2>. DEFINE ps == {}
  <2>1. deferred' = deferred \ {p} /\ UNCHANGED <<snap, disc>>
    BY <1>1, <1>7 DEF Tools!Defer, Tools!Keep
  <2>2. deferred' \subseteq Profiles /\ \A q \in deferred' : Tools!ActiveLists(q) # {}
    BY <2>1
  <2>3. \A q \in Profiles :
          \/ q \in ps \/ q \in deferred'
          \/ snap[q] = None /\ Tools!Pending(q) = {}
          \/ q \notin deferred /\ \A u \in Upstreams : known'[<<q, u>>] = known[<<q, u>>]
    <3>1. CASE Tools!Pending(p) = {}
      BY <1>3, <1>7, <2>1, <3>1
    <3>2. CASE Tools!Pending(p) # {}
      <4>1. Tools!ActiveLists(p) = {} /\ known' = known
        BY <1>1, <1>7, <3>2
      <4>2. p \notin deferred
        BY <4>1
      <4>. QED  BY <2>1, <4>1, <4>2
    <3>. QED  BY <3>1, <3>2
  <2>4. \A t \in Tools!Tasks :
          task[t].tracked /\ task[t].disc \in Tools!Slots => task[t].p \notin ps \/ ~disc[task[t].disc].live
    OBVIOUS
  <2>5. ps \in SUBSET Profiles /\ (Tools!Invalidate(ps) \/ (ps = {} /\ UNCHANGED <<snap, disc>>)) /\ UNCHANGED task
    BY <1>1, <2>1
  <2>. HIDE DEF ps
  <2>. QED  BY ONLY ToolInv, <1>3, <1>4, <2>2, <2>3, <2>4, <2>5, LosesStep
<1>. QED  BY <1>5, <1>6, <1>7

\* A lost upstream keeps the invariant.
LEMMA ToolFailedInv ==
  ASSUME ToolInv, NEW x \in Profiles \X Upstreams, Tools!Fail(x)
  PROVE  ToolInv'
<1>. DEFINE some == IF strict THEN Profiles ELSE {x[1]}
<1>1. /\ UNCHANGED <<active, task, deferred, restarting, switching>> /\ events' = events + 1
      /\ ver' \in {ver, [ver EXCEPT ![x] = Tools!Newer(x)]}
      /\ \/ Tools!Invalidate(some) /\ known' = [y \in DOMAIN known |-> IF y = x THEN ver'[x] ELSE known[y]]
         \/ UNCHANGED <<snap, disc, known>>
  BY DEF Tools!Fail, Tools!Event, Tools!Lose
<1>2. some \in SUBSET Profiles /\ x[1] \in some
  OBVIOUS
<1>. HIDE DEF some
<1>3. /\ ver' \in [Profiles \X Upstreams -> 0..MaxVer]
      /\ \A y \in Profiles \X Upstreams : ver'[y] \in 0..MaxVer /\ ver'[y] >= ver[y] /\ ver[y] \in 0..MaxVer
  BY <1>1, WorldTypes, NewerOK
<1>4. /\ \A y \in Profiles \X Upstreams : ver[y] >= known[y] /\ known[y] \in 0..MaxVer
      /\ known \in [Profiles \X Upstreams -> 0..MaxVer] /\ DOMAIN known = Profiles \X Upstreams
  BY WorldTypes
<1>5. /\ deferred' \subseteq Profiles /\ \A p \in deferred' : Tools!ActiveLists(p) # {}
      /\ restarting' \subseteq Profiles /\ active' \in Profiles /\ events' \in Nat
      /\ switching' # None => switching'.to \in Profiles
      /\ events + Cardinality(restarting') <= events' + Cardinality(restarting)
      /\ events + Cardinality(restarting') + 1 <= events' + Cardinality(restarting)
  BY <1>1, WorldTypes
<1>6. CASE Tools!Invalidate(some) /\ known' = [y \in DOMAIN known |-> IF y = x THEN ver'[x] ELSE known[y]]
  <2>1. /\ known' \in [Profiles \X Upstreams -> 0..MaxVer]
        /\ \A y \in Profiles \X Upstreams : ver'[y] >= known'[y]
    BY <1>3, <1>4, <1>6
  <2>2. ASSUME NEW p \in Profiles \ some, NEW u \in Upstreams
        PROVE  known'[<<p, u>>] = known[<<p, u>>]
    <3>1. <<p, u>> # x /\ <<p, u>> \in Profiles \X Upstreams
      BY <1>2
    <3>. QED  BY <1>4, <1>6, <3>1
  <2>3. \A p \in Profiles :
          \/ p \in some \/ p \in deferred'
          \/ snap[p] = None /\ Tools!Pending(p) = {}
          \/ p \notin deferred /\ \A u \in Upstreams : known'[<<p, u>>] = known[<<p, u>>]
    BY <1>1, <2>2
  <2>4. Tools!Invalidate(some) /\ UNCHANGED task
    BY <1>1, <1>6
  <2>. QED  BY ONLY ToolInv, <1>2, <1>3, <1>5, <2>1, <2>3, <2>4, LosesStep
<1>7. CASE UNCHANGED <<snap, disc, known>>
  <2>. DEFINE ps == {}
  <2>1. /\ known' \in [Profiles \X Upstreams -> 0..MaxVer]
        /\ \A y \in Profiles \X Upstreams : ver'[y] >= known'[y]
    BY <1>3, <1>4, <1>7
  <2>3. \A p \in Profiles :
          \/ p \in ps \/ p \in deferred'
          \/ snap[p] = None /\ Tools!Pending(p) = {}
          \/ p \notin deferred /\ \A u \in Upstreams : known'[<<p, u>>] = known[<<p, u>>]
    BY <1>1, <1>7
  <2>4. ps \in SUBSET Profiles /\ (ps = {} /\ UNCHANGED <<snap, disc>>) /\ UNCHANGED task
    BY <1>1, <1>7
  <2>. HIDE DEF ps
  <2>. QED  BY ONLY ToolInv, <1>3, <1>5, <2>1, <2>3, <2>4, LosesStep
<1>. QED  BY <1>1, <1>6, <1>7

\* A restart keeps the invariant.
LEMMA ToolRestartedInv ==
  ASSUME ToolInv, NEW p \in Profiles, Tools!Restarted(p)
  PROVE  ToolInv'
<1>1. /\ UNCHANGED <<active, task, deferred, switching, events>> /\ p \in restarting /\ restarting' = restarting \ {p}
      /\ known' = [x \in DOMAIN known |-> IF x[1] = p THEN ver'[x] ELSE known[x]]
      /\ Tools!Invalidate({p})
  BY DEF Tools!Restarted
<1>2. PICK xs : ver' = [x \in DOMAIN ver |-> IF x \in xs THEN Tools!Newer(x) ELSE ver[x]]
  BY DEF Tools!Restarted
<1>3. /\ ver' \in [Profiles \X Upstreams -> 0..MaxVer]
      /\ \A y \in Profiles \X Upstreams : ver'[y] \in 0..MaxVer /\ ver'[y] >= ver[y] /\ ver[y] \in 0..MaxVer
  BY <1>2, WorldTypes, NewerOK
<1>4. /\ \A y \in Profiles \X Upstreams : ver[y] >= known[y] /\ known[y] \in 0..MaxVer
      /\ known \in [Profiles \X Upstreams -> 0..MaxVer] /\ DOMAIN known = Profiles \X Upstreams
  BY WorldTypes
<1>5. /\ known' \in [Profiles \X Upstreams -> 0..MaxVer]
      /\ \A y \in Profiles \X Upstreams : ver'[y] >= known'[y]
      /\ \A q \in Profiles, u \in Upstreams : q # p => known'[<<q, u>>] = known[<<q, u>>]
  BY <1>1, <1>3, <1>4
<1>6. /\ deferred' \subseteq Profiles /\ \A q \in deferred' : Tools!ActiveLists(q) # {}
      /\ restarting' \subseteq Profiles /\ active' \in Profiles /\ events' \in Nat
      /\ switching' # None => switching'.to \in Profiles
  BY <1>1, WorldTypes
<1>7. /\ events + Cardinality(restarting') <= events' + Cardinality(restarting)
      /\ events + Cardinality(restarting') + 1 <= events' + Cardinality(restarting)
  <2>1. Cardinality(restarting) \in Nat /\ Cardinality(restarting \ {p}) + 1 = Cardinality(restarting) /\ events \in Nat
    BY <1>1, WorldTypes, RestartingCount
  <2>2. restarting \ {p} \in SUBSET Profiles
    BY WorldTypes
  <2>3. Cardinality(restarting \ {p}) \in Nat
    BY <2>2, RestartingCount
  <2>. QED  BY <1>1, <2>1, <2>3
<1>. DEFINE ps == {p}
<1>8. \A q \in Profiles :
        \/ q \in ps \/ q \in deferred'
        \/ snap[q] = None /\ Tools!Pending(q) = {}
        \/ q \notin deferred /\ \A u \in Upstreams : known'[<<q, u>>] = known[<<q, u>>]
  BY <1>1, <1>5
<1>9. ps \in SUBSET Profiles /\ Tools!Invalidate(ps) /\ UNCHANGED task
  BY <1>1
<1>. HIDE DEF ps
<1>. QED  BY ONLY ToolInv, <1>3, <1>5, <1>6, <1>7, <1>8, <1>9, LosesStep

\* The rest of the world: nothing that was taken into account changes.
LEMMA OtherEvents ==
  ASSUME ToolInv, UNCHANGED <<snap, disc, known, deferred, task>>,
         ver' \in [Profiles \X Upstreams -> 0..MaxVer], \A x \in Profiles \X Upstreams : ver'[x] >= known[x],
         restarting' \subseteq Profiles, active' \in Profiles, events' \in Nat,
         switching' # None => switching'.to \in Profiles,
         events + Cardinality(restarting') <= events' + Cardinality(restarting)
  PROVE  ToolInv'
<1>. DEFINE ps == {}
<1>1. /\ known' \in [Profiles \X Upstreams -> 0..MaxVer]
      /\ deferred' \subseteq Profiles /\ \A q \in deferred' : Tools!ActiveLists(q) # {}
  BY WorldTypes
<1>2. \A q \in Profiles :
        \/ q \in ps \/ q \in deferred'
        \/ snap[q] = None /\ Tools!Pending(q) = {}
        \/ q \notin deferred /\ \A u \in Upstreams : known'[<<q, u>>] = known[<<q, u>>]
  OBVIOUS
<1>3. \A t \in Tools!Tasks :
        task[t].tracked /\ task[t].disc \in Tools!Slots => task[t].p \notin ps \/ ~disc[task[t].disc].live
  OBVIOUS
<1>4. ps \in SUBSET Profiles /\ (ps = {} /\ UNCHANGED <<snap, disc>>)
  OBVIOUS
<1>5. \A x \in Profiles \X Upstreams : ver'[x] >= known'[x]
  OBVIOUS
<1>. HIDE DEF ps
<1>. QED  BY <1>1, <1>2, <1>3, <1>4, <1>5, LosesStep

\* What the upstreams do by themselves keeps the invariant.
LEMMA ToolWorldInv ==
  ASSUME ToolInv,
         \/ \E x \in Profiles \X Upstreams : Tools!Change(x)
         \/ \E p \in Profiles : Tools!Restart(p) \/ Tools!Switch(p)
         \/ Tools!Announce
  PROVE  ToolInv'
<1>1. ASSUME NEW x \in Profiles \X Upstreams, Tools!Change(x) PROVE ToolInv'
  <2>1. /\ UNCHANGED <<snap, disc, known, deferred, task, restarting, active, events, switching>>
        /\ ver[x] < MaxVer /\ ver' = [ver EXCEPT ![x] = @ + 1]
    BY <1>1 DEF Tools!Change
  <2>2. \A y \in Profiles \X Upstreams : ver[y] \in 0..MaxVer /\ known[y] \in 0..MaxVer /\ ver[y] >= known[y]
    BY WorldTypes
  <2>3. ver[x] + 1 \in 0..MaxVer
    BY <2>1, <2>2, ServerAssumption
  <2>4. ver' \in [Profiles \X Upstreams -> 0..MaxVer]
    BY <2>1, <2>3, WorldTypes
  <2>5. \A y \in Profiles \X Upstreams : ver'[y] >= known[y]
    BY <2>1, <2>2, WorldTypes
  <2>6. /\ restarting' \subseteq Profiles /\ active' \in Profiles /\ events' \in Nat
        /\ switching' # None => switching'.to \in Profiles
        /\ events + Cardinality(restarting') <= events' + Cardinality(restarting)
    BY <2>1, WorldTypes
  <2>. QED  BY <2>1, <2>4, <2>5, <2>6, OtherEvents
<1>2. ASSUME NEW p \in Profiles, Tools!Restart(p) PROVE ToolInv'
  <2>1. /\ UNCHANGED <<snap, disc, known, deferred, task, ver, active, switching>>
        /\ p \notin restarting /\ restarting' = restarting \cup {p} /\ events' = events + 1
    BY <1>2 DEF Tools!Restart, Tools!Event
  <2>2. Cardinality(restarting') = Cardinality(restarting) + 1
    BY <2>1, WorldTypes, RestartingCount
  <2>3. /\ restarting' \subseteq Profiles /\ active' \in Profiles /\ events' \in Nat
        /\ switching' # None => switching'.to \in Profiles
        /\ ver' \in [Profiles \X Upstreams -> 0..MaxVer] /\ \A y \in Profiles \X Upstreams : ver'[y] >= known[y]
    BY <2>1, WorldTypes
  <2>4. events + Cardinality(restarting') <= events' + Cardinality(restarting)
    BY <2>1, <2>2, WorldTypes
  <2>. QED  BY <2>1, <2>3, <2>4, OtherEvents
<1>3. ASSUME NEW p \in Profiles, Tools!Switch(p) PROVE ToolInv'
  <2>1. /\ UNCHANGED <<snap, disc, known, deferred, task, ver, active, restarting>>
        /\ switching' = [before |-> snap[active], from |-> active, to |-> p] /\ events' = events + 1
    BY <1>3 DEF Tools!Switch, Tools!Event
  <2>2. switching'.to \in Profiles
    BY <2>1
  <2>3. /\ restarting' \subseteq Profiles /\ active' \in Profiles /\ events' \in Nat
        /\ ver' \in [Profiles \X Upstreams -> 0..MaxVer] /\ \A y \in Profiles \X Upstreams : ver'[y] >= known[y]
        /\ events + Cardinality(restarting') <= events' + Cardinality(restarting)
    BY <2>1, WorldTypes
  <2>4. UNCHANGED <<snap, disc, known, deferred, task>>
    BY <2>1
  <2>. QED  BY <2>2, <2>3, <2>4, OtherEvents
<1>4. ASSUME Tools!Announce PROVE ToolInv'
  <2>1. UNCHANGED <<snap, disc, known, deferred, task, ver, active, restarting, events>> /\ switching' = None
    BY <1>4 DEF Tools!Announce
  <2>. QED  BY <2>1, WorldTypes, OtherEvents
<1>. QED  BY <1>1, <1>2, <1>3, <1>4

\* A switch keeps the invariant.
LEMMA ToolSwitchedInv ==
  ASSUME ToolInv, Tools!Switched
  PROVE  ToolInv'
<1>1. /\ UNCHANGED <<snap, disc, known, deferred, ver, restarting, events, switching>>
      /\ switching # None /\ active' = switching.to
      /\ task' = [t \in Tools!Tasks |->
                    IF task[t].pc \in {"new", "done"} THEN task[t] ELSE [task[t] EXCEPT !.same = FALSE]]
  BY DEF Tools!Switched
<1>2. ASSUME NEW t \in Tools!Tasks
      PROVE  /\ RequestOK(task'[t], disc) /\ task'[t].disc = task[t].disc /\ task'[t].rounds = task[t].rounds
             /\ task'[t].tracked = task[t].tracked /\ task'[t].p = task[t].p
             /\ task[t].pc = "done" => task'[t].pc = "done"
  <2>1. RequestOK(task[t], disc)
    BY DEF ToolInv
  <2>. DEFINE r == [task[t] EXCEPT !.same = FALSE]
  <2>2. /\ r \in Requested(r) /\ r.pc = task[t].pc /\ r.disc = task[t].disc /\ r.p = task[t].p
        /\ r.tracked = task[t].tracked /\ r.kind = task[t].kind /\ r.rounds = task[t].rounds
    BY <2>1 DEF RequestOK, Requested
  <2>3. task'[t] = task[t] \/ task'[t] = r
    BY <1>1
  <2>. HIDE DEF r
  <2>4. RequestOK(r, disc)
    BY <2>1, <2>2 DEF RequestOK
  <2>. QED  BY <2>1, <2>2, <2>3, <2>4
<1>. DEFINE ps == {}
<1>3. DOMAIN task' = Tools!Tasks
  BY <1>1
<1>4. DOMAIN disc = Tools!Slots /\ DOMAIN snap = Profiles
  BY DEF ToolInv, ToolTypes
<1>5. /\ DOMAIN disc' = Tools!Slots /\ DOMAIN snap' = Profiles
      /\ \A d \in Tools!Slots : disc'[d] = IF disc[d].p \in ps THEN [disc[d] EXCEPT !.live = FALSE] ELSE disc[d]
      /\ \A p \in Profiles : snap'[p] = snap[p] \/ snap'[p] = None
      /\ \A p \in ps : snap'[p] = None
  <2>1. disc' = disc /\ snap' = snap
    BY <1>1
  <2>. QED  BY <1>4, <2>1
<1>6. /\ ver' \in [Profiles \X Upstreams -> 0..MaxVer] /\ known' \in [Profiles \X Upstreams -> 0..MaxVer]
      /\ \A x \in Profiles \X Upstreams : ver'[x] >= known'[x]
      /\ deferred' \subseteq Profiles /\ \A q \in deferred' : Tools!ActiveLists(q) # {}
      /\ restarting' \subseteq Profiles /\ active' \in Profiles /\ events' \in Nat
      /\ switching' # None => switching'.to \in Profiles
      /\ events + Cardinality(restarting') <= events' + Cardinality(restarting)
  <2>1. UNCHANGED <<ver, known, deferred, restarting, events, switching>> /\ switching # None /\ active' = switching.to
    BY <1>1
  <2>. QED  BY <2>1, WorldTypes
<1>7. \A q \in Profiles :
        \/ q \in ps \/ q \in deferred'
        \/ snap'[q] = None /\ Tools!Pending(q) = {}
        \/ q \notin deferred /\ \A u \in Upstreams : known'[<<q, u>>] = known[<<q, u>>]
  <2>1. UNCHANGED <<known, deferred>>
    BY <1>1
  <2>. QED  BY <2>1
<1>8. \A t \in Tools!Tasks :
        task[t].tracked /\ task[t].disc \in Tools!Slots => task[t].p \notin ps \/ ~disc[task[t].disc].live
  OBVIOUS
<1>9. ps \in SUBSET Profiles
  OBVIOUS
<1>. HIDE DEF ps
<1>10. \A t \in Tools!Tasks :
         /\ RequestOK(task'[t], disc) /\ task'[t].disc = task[t].disc /\ task'[t].rounds = task[t].rounds
         /\ task'[t].tracked = task[t].tracked /\ task'[t].p = task[t].p
         /\ task[t].pc = "done" => task'[t].pc = "done"
  BY <1>2
<1>. QED  BY <1>3, <1>5, <1>6, <1>7, <1>8, <1>9, <1>10, WorldStep

\* Every step of the tools keeps the invariant.
LEMMA ToolStep ==
  ASSUME ToolInv, Tools!Next
  PROVE  ToolInv'
<1>1. ASSUME NEW d \in Tools!Slots, Tools!Settle(d) \/ \E x \in Profiles \X Upstreams : Tools!Answer(d, x)
      PROVE  ToolInv'
  BY <1>1, ToolSettleInv, ToolAnswerInv
<1>2. ASSUME NEW t \in Tools!Tasks, Tools!Check(t) \/ Tools!Heard(t) \/ Tools!Sent(t) \/ Tools!Cancel(t)
      PROVE  ToolInv'
  BY <1>2, ToolCheckInv, ToolHeardInv, ToolSentInv, ToolCancelInv
<1>3. ASSUME NEW t \in Tools!Tasks, Tools!Again(t) PROVE ToolInv'
  <2>1. /\ Tools!StartOn(t, "list", active) /\ task[t].pc = "again"
        /\ UNCHANGED <<ver, known, deferred, active, restarting, switching, snap, events>>
    BY <1>3 DEF Tools!Again, Tools!world
  <2>. QED  BY <2>1, WorldTypes, StartOnInv
<1>4. ASSUME NEW t \in Tools!Tasks, NEW kind \in {"list", "tools", "call"}, NEW p \in Profiles, Tools!Begin(t, kind, p)
      PROVE  ToolInv'
  <2>1. /\ Tools!StartOn(t, kind, p) /\ task[t].pc = "new"
        /\ UNCHANGED <<ver, known, deferred, active, restarting, switching, snap, events>>
    BY <1>4 DEF Tools!Begin, Tools!world
  <2>. QED  BY <2>1, StartOnInv
<1>5. ASSUME NEW t \in Tools!Tasks, NEW p \in Profiles, Tools!Route(t, p) PROVE ToolInv'
  BY <1>5, ToolRouteInv
<1>6. ASSUME NEW x \in Profiles \X Upstreams, Tools!Notice(x) \/ Tools!Fail(x) PROVE ToolInv'
  BY <1>6, ToolNoticeInv, ToolFailedInv
<1>7. ASSUME NEW p \in Profiles, Tools!Restarted(p) PROVE ToolInv'
  BY <1>7, ToolRestartedInv
<1>8. ASSUME Tools!Switched PROVE ToolInv'
  BY <1>8, ToolSwitchedInv
<1>9. ASSUME \/ \E x \in Profiles \X Upstreams : Tools!Change(x)
             \/ \E p \in Profiles : Tools!Restart(p) \/ Tools!Switch(p)
             \/ Tools!Announce
      PROVE  ToolInv'
  BY <1>9, ToolWorldInv
<1>. QED  BY <1>1, <1>2, <1>3, <1>4, <1>5, <1>6, <1>7, <1>8, <1>9 DEF Tools!Next

\* The tools begin well.
LEMMA ToolsInit ==
  ASSUME Tools!Init
  PROVE  ToolInv
<1>1. /\ DOMAIN task = Tools!Tasks /\ DOMAIN disc = Tools!Slots /\ DOMAIN snap = Profiles
      /\ ver = [x \in Profiles \X Upstreams |-> 0] /\ known = [x \in Profiles \X Upstreams |-> 0]
      /\ deferred = {} /\ restarting = {} /\ active \in Profiles /\ events = 0 /\ switching = None
      /\ \A t \in Tools!Tasks : task[t] = Tools!Idle
      /\ \A d \in Tools!Slots : disc[d] = Tools!Free
      /\ \A p \in Profiles : snap[p] = None
  BY DEF Tools!Init
<1>2. ToolTypes
  <2>1. 0 \in 0..MaxVer
    BY ServerAssumption
  <2>. QED  BY <1>1, <2>1 DEF ToolTypes
<1>3. \A t \in Tools!Tasks : RequestOK(task[t], disc) /\ task[t].rounds = 0 /\ ~task[t].tracked
  <2>1. RequestOK(Tools!Idle, disc) /\ Tools!Idle.rounds = 0 /\ ~Tools!Idle.tracked
    BY NoSlot DEF Tools!Idle, RequestOK, Requested
  <2>. QED  BY <1>1, <2>1
<1>4. \A d \in Tools!Slots : DiscoveryOK(disc[d], deferred, known)
  BY <1>1, FreeOK
<1>5. (\A p \in Profiles : SnapshotOK(snap[p], p, deferred, known)) /\ Tools!MarkerHasOwner
  BY <1>1 DEF SnapshotOK, Tools!MarkerHasOwner
<1>6. NoiseInv
  <2>1. Cardinality(restarting) = 0
    BY <1>1, FS_EmptySet
  <2>3. Cardinality(Finished) \in Nat
    BY FinishedCount
  <2>4. \A t \in Tools!Tasks : Lost(task[t], disc) = 0
    BY <1>3 DEF Lost
  <2>. QED  BY <1>1, <1>3, <2>1, <2>3, <2>4 DEF NoiseInv
<1>. QED  BY <1>2, <1>3, <1>4, <1>5, <1>6 DEF ToolInv

\* What is cached of a profile's tools is no older than the last change that was taken into account, a change
\* that was put off is some list's to apply, and a list starts over only when something else has happened:
\* for all profiles, upstreams and requests (tool-registry.ts, handleUpstreamListChanged).
THEOREM ToolsStayCurrent == ServerSpec => []ToolsAreCurrent
<1>. DEFINE Inv == part = "tools" => ToolInv
<1>1. ServerInit => Inv
  BY ToolsInit DEF ServerInit, Tools!MCInit
<1>2. Inv /\ [ServerNext]_all => Inv'
  <2>. SUFFICES ASSUME Inv, [ServerNext]_all PROVE Inv'
    OBVIOUS
  <2>1. CASE ListTools
    BY <2>1, ToolStep DEF ListTools, Tools!MCNext
  <2>2. CASE Request \/ ListResources \/ Subscribe \/ VerifyIdentity \/ Rule
    BY <2>2 DEF Request, ListResources, Subscribe, VerifyIdentity, Rule
  <2>3. CASE UNCHANGED all
    <3>1. part' = part
      BY <2>3 DEF all
    <3>2. UNCHANGED <<ver, known, deferred, active, restarting, switching, snap, events, task, disc>>
      BY <2>3 DEF all, lists, toolVars
    <3>3. ToolInv => ToolInv'
      <4>. SUFFICES ASSUME ToolInv PROVE ToolInv'
        OBVIOUS
      <4>1. /\ ver' \in [Profiles \X Upstreams -> 0..MaxVer] /\ \A x \in Profiles \X Upstreams : ver'[x] >= known[x]
            /\ restarting' \subseteq Profiles /\ active' \in Profiles /\ events' \in Nat
            /\ switching' # None => switching'.to \in Profiles
            /\ events + Cardinality(restarting') <= events' + Cardinality(restarting)
        BY <3>2, WorldTypes
      <4>. QED  BY <3>2, <4>1, OtherEvents
    <3>. QED  BY <3>1, <3>3
  <2>. QED  BY <2>1, <2>2, <2>3 DEF ServerNext
<1>3. Inv => ToolsAreCurrent
  <2>. SUFFICES ASSUME ToolInv PROVE Tools!CacheIsFresh /\ Tools!MarkerHasOwner /\ Tools!NoiseIsServed
    BY DEF ToolsAreCurrent
  <2>1. Tools!CacheIsFresh /\ Tools!MarkerHasOwner
    BY DEF ToolInv, SnapshotOK, Tools!CacheIsFresh
  <2>2. ASSUME NEW t \in Tools!Tasks PROVE task[t].rounds <= events + Cardinality(Finished)
    <3>1. /\ task[t].rounds + Cardinality(restarting) + Lost(task[t], disc) <= events + Cardinality(Finished)
          /\ task[t].rounds \in Nat /\ Lost(task[t], disc) \in {0, 1}
      BY DEF ToolInv, NoiseInv, RequestOK, Lost
    <3>3. Cardinality(Finished) \in Nat /\ Cardinality(restarting) \in Nat /\ events \in Nat
      BY FinishedCount, WorldTypes
    <3>. QED  BY <3>1, <3>3
  <2>3. Tools!NoiseIsServed
    BY <2>2, ToolsCardinality DEF Tools!NoiseIsServed, Finished
  <2>. QED  BY <2>1, <2>3
<1>. QED  BY <1>1, <1>2, <1>3, PTL DEF ServerSpec, all

-----------------------------------------------------------------------------
(* The resource subscriptions.  The order of requests on the wire decides  *)
(* what the upstream will be subscribed to (WillBeOn); only the head of    *)
(* the queue of a URI sends any, so at each phase of it the server knows   *)
(* what that will be.                                                      *)

WireRequests == [by : Subscriptions!Ops, what : {"subscribe", "unsubscribe", "cleanup"}, uri : Uris]
Msgs == [by : 0..NumOps, what : {"subscribe", "unsubscribe", "cleanup", "updated"}, uri : Uris]
Steppings == {"none", "queued", "routing", "asked", "flushing", "cleaning", "done"}
Transitions ==
  [kind : {None, "subscribe", "unsubscribe", "cleanup"}, pc : Steppings, uri : Uris \cup {None}, of : Subscriptions!Ops \cup {None},
   session : Nat, stale : BOOLEAN, pending : {0, 1}, active : BOOLEAN]

\* The types; notifications have no transition.
SubTypes ==
  /\ sub \in [Uris -> Subscriptions!Ops \cup {None}] /\ queue \in [Uris -> Seq(Subscriptions!Ops)] /\ op \in [Subscriptions!Ops -> Transitions]
  /\ leases \in SUBSET Subscriptions!Ops /\ sweep \in {None} \cup SUBSET Subscriptions!Ops /\ session \in Nat
  /\ wire \in Seq(WireRequests) /\ back \in Seq(Msgs) /\ on \in SUBSET Uris /\ news \in SUBSET on
  /\ \A i \in 1..Len(back) : back[i].what = "updated" => back[i].by = 0

\* What the upstream will have subscribed to when it has performed everything on the wire.
Settles(w, s, u) ==
  \/ \E i \in 1..Len(w) : w[i].uri = u /\ w[i].what = "subscribe" /\ \A j \in 1..Len(w) : j > i => w[j].uri # u
  \/ u \in s /\ \A i \in 1..Len(w) : w[i].uri # u
Clears(w, u) == \E i \in 1..Len(w) : w[i].uri = u /\ w[i].what # "subscribe"
Tells(b, u) == \E i \in 1..Len(b) : b[i].uri = u /\ b[i].what = "updated"
WillBeOn(u) == Settles(wire, on, u)

\* Asked for and not over; asked for and at the upstream.
Live(o) == op[o].pc \notin {"none", "done"}
HasAsked(o, kind, u) == op[o].uri = u /\ op[o].pc = "asked" /\ op[o].kind = kind

\* The queue of a URI has its live transitions, each once, and only the first one runs.
QueueInv(u) ==
  /\ \A i, j \in 1..Len(queue[u]) : queue[u][i] = queue[u][j] => i = j
  /\ \A i \in 1..Len(queue[u]) :
       Live(queue[u][i]) /\ op[queue[u][i]].uri = u /\ (i > 1 => op[queue[u][i]].pc = "queued")
  /\ \A o \in Subscriptions!Ops : op[o].uri = u /\ Live(o) => \E i \in 1..Len(queue[u]) : queue[u][i] = o

\* What each phase has established; and while o asks or cleans up, what the upstream will make of it.
PhaseOf(o, u) ==
  /\ op[o].pc # "none" /\ op[o].kind # None
  /\ op[o].active => op[o].kind = "subscribe" /\ op[o].pc \in {"flushing", "done"}
  /\ op[o].pc = "flushing" => op[o].active
  /\ op[o].of # None => op[op[o].of].uri = u
  /\ op[o].kind = "cleanup" => op[o].pc \in {"queued", "cleaning", "done"} /\ op[o].of # None
  /\ op[o].pc = "routing" /\ op[o].kind = "subscribe" => sub[u] = None
  /\ op[o].pc \in {"routing", "asked"} /\ op[o].kind = "unsubscribe" => op[o].of # None /\ sub[u] \in {op[o].of, None}
  /\ op[o].pc = "asked" /\ op[o].kind = "subscribe" =>
       sub[u] \in {o, None} /\ (op[o].stale => sub[u] = None) /\ (op[o].session # session => ~WillBeOn(u))
  /\ op[o].pc = "asked" /\ op[o].kind = "unsubscribe" => ~WillBeOn(u) /\ (op[o].session # session => sub[u] = None)
  /\ op[o].pc = "cleaning" => op[o].of # None /\ sub[u] = None /\ ~WillBeOn(u)
  /\ op[o].session <= session
PhaseInv(u) == \A o \in Subscriptions!Ops : op[o].uri = u => PhaseOf(o, u)

\* A subscription is of the live session and is where its transition is; the upstream will be subscribed just when
\* the server is, but for the request that is at the upstream now.
SubInv(u) ==
  /\ sub[u] # None =>
       /\ op[sub[u]].uri = u /\ op[sub[u]].kind = "subscribe" /\ op[sub[u]].session = session
       /\ \/ op[sub[u]].pc = "asked" /\ ~op[sub[u]].active
          \/ op[sub[u]].pc \in {"flushing", "done"} /\ op[sub[u]].active /\ sub[u] \in leases
       /\ WillBeOn(u) \/ \E o \in Subscriptions!Ops : HasAsked(o, "unsubscribe", u)
  /\ sub[u] = None /\ WillBeOn(u) => \E o \in Subscriptions!Ops : HasAsked(o, "subscribe", u)

\* Who has a lease is subscribed, or is being cleaned up.
LeaseInv(u) ==
  \A o \in leases : op[o].uri = u =>
    op[o].active /\ (sub[u] = o \/ \E c \in Subscriptions!Ops : op[c].uri = u /\ op[c].pc = "cleaning" /\ op[c].of = o)

\* A subscription from before a switch has its cleanup in the queue, and the switch waits for it.
StaleInv(u) ==
  sub[u] # None /\ op[sub[u]].active /\ op[sub[u]].stale =>
    sweep # None /\ \E c \in sweep : op[c].uri = u /\ op[c].pc = "queued" /\ op[c].kind = "cleanup" /\ op[c].of = sub[u]

\* What a subscriber has not heard is on its way, or counted, or an unsubscribe is ahead of it.
NewsInv(u) ==
  sub[u] # None =>
    /\ op[sub[u]].pc = "done" => op[sub[u]].pending = 0
    /\ u \in news => Tells(back, u) \/ Clears(wire, u) \/ op[sub[u]].pending > 0

UriInv(u) == QueueInv(u) /\ PhaseInv(u) /\ SubInv(u) /\ LeaseInv(u) /\ StaleInv(u) /\ NewsInv(u)
SubscriptionInv ==
  /\ SubTypes
  /\ \A o \in Subscriptions!Ops : op[o].uri \in Uris \/ (op[o].pc = "none" /\ o \notin leases)
  /\ \A u \in Uris : UriInv(u)

\* What one more request on the wire makes of it.
LEMMA Sending ==
  ASSUME NEW w \in Seq(WireRequests), NEW m \in WireRequests, NEW s, NEW u
  PROVE  /\ Append(w, m) \in Seq(WireRequests)
         /\ m.uri # u => (Settles(Append(w, m), s, u) <=> Settles(w, s, u))
         /\ m.uri = u => (Settles(Append(w, m), s, u) <=> m.what = "subscribe")
         /\ Clears(w, u) => Clears(Append(w, m), u)
         /\ m.uri = u /\ m.what # "subscribe" => Clears(Append(w, m), u)
<1>. DEFINE n == Len(w)
            x == Append(w, m)
<1>1. /\ n \in Nat /\ Len(x) = n + 1 /\ x[n+1] = m /\ x \in Seq(WireRequests)
      /\ \A i \in 1..n : x[i] = w[i]
      /\ \A i \in 1..(n+1) : i \in 1..n \/ i = n + 1
      /\ \A i \in 1..n : i \in 1..(n+1) /\ n + 1 > i /\ ~(i > n + 1)
      /\ n + 1 \in 1..(n+1)
  OBVIOUS
<1>2. Len(w) = n
  OBVIOUS
<1>. HIDE DEF n, x
<1>3. Clears(w, u) => Clears(x, u)
  BY <1>1, <1>2 DEF Clears
<1>4. m.uri = u /\ m.what # "subscribe" => Clears(x, u)
  BY <1>1 DEF Clears
<1>5. ASSUME m.uri = u PROVE Settles(x, s, u) <=> m.what = "subscribe"
  <2>1. m.what = "subscribe" => Settles(x, s, u)
    <3>1. \A j \in 1..(n+1) : ~(j > n + 1)
      BY <1>1
    <3>. QED  BY <1>1, <1>5, <3>1 DEF Settles
  <2>2. Settles(x, s, u) => m.what = "subscribe"
    <3>1. ASSUME NEW i \in 1..(n+1), x[i].what = "subscribe", \A j \in 1..(n+1) : j > i => x[j].uri # u
          PROVE  m.what = "subscribe"
      BY <1>1, <1>5, <3>1
    <3>2. ~(\A i \in 1..(n+1) : x[i].uri # u)
      BY <1>1, <1>5
    <3>. QED  BY <1>1, <3>1, <3>2 DEF Settles
  <2>. QED  BY <2>1, <2>2
<1>6. ASSUME m.uri # u PROVE Settles(x, s, u) <=> Settles(w, s, u)
  <2>1. ASSUME NEW i \in 1..n, \A j \in 1..n : j > i => w[j].uri # u PROVE \A j \in 1..(n+1) : j > i => x[j].uri # u
    BY <1>1, <1>6, <2>1
  <2>2. ASSUME NEW i \in 1..(n+1), x[i].uri = u, \A j \in 1..(n+1) : j > i => x[j].uri # u
        PROVE  i \in 1..n /\ \A j \in 1..n : j > i => w[j].uri # u
    BY <1>1, <1>6, <2>2
  <2>3. (\A i \in 1..(n+1) : x[i].uri # u) <=> (\A i \in 1..n : w[i].uri # u)
    BY <1>1, <1>6
  <2>4. Settles(w, s, u) => Settles(x, s, u)
    BY <1>1, <1>2, <2>1, <2>3, SMTT(30) DEF Settles
  <2>5. Settles(x, s, u) => Settles(w, s, u)
    BY <1>1, <1>2, <2>2, <2>3 DEF Settles
  <2>. QED  BY <2>4, <2>5
<1>. QED  BY <1>1, <1>3, <1>4, <1>5, <1>6 DEF x

\* The upstream performs the first of them.
LEMMA FirstPerformed ==
  ASSUME NEW w \in Seq(WireRequests), w # <<>>, NEW s, NEW t, NEW u,
         t = IF Head(w).what = "subscribe" THEN s \cup {Head(w).uri} ELSE s \ {Head(w).uri}
  PROVE  /\ Tail(w) \in Seq(WireRequests)
         /\ Settles(Tail(w), t, u) <=> Settles(w, s, u)
         /\ Clears(w, u) => Clears(Tail(w), u) \/ (Head(w).uri = u /\ Head(w).what # "subscribe")
<1>. DEFINE n == Len(w)
            x == Tail(w)
            m == Head(w)
<1>1. /\ n \in Nat /\ n >= 1 /\ Len(x) = n - 1 /\ w[1] = m /\ x \in Seq(WireRequests)
      /\ \A i \in 1..(n-1) : x[i] = w[i+1] /\ i + 1 \in 1..n /\ i + 1 > 1
      /\ \A i \in 1..n : i = 1 \/ (i - 1 \in 1..(n-1) /\ (i - 1) + 1 = i /\ x[i-1] = w[i])
      /\ 1 \in 1..n /\ n = Len(w)
  BY HeadTailProperties
<1>. HIDE DEF n, x, m
<1>2. Clears(w, u) => Clears(x, u) \/ (m.uri = u /\ m.what # "subscribe")
  BY <1>1 DEF Clears
<1>3. ASSUME NEW i \in 1..(n-1), \A j \in 1..(n-1) : j > i => x[j].uri # u
      PROVE  \A j \in 1..n : j > i + 1 => w[j].uri # u
  <2>1. ASSUME NEW j \in 1..n, j > i + 1 PROVE w[j].uri # u
    <3>1. j - 1 \in 1..(n-1) /\ j - 1 > i /\ x[j-1] = w[j]
      BY <1>1, <2>1
    <3>. QED  BY <1>3, <3>1
  <2>. QED  BY <2>1
<1>4. ASSUME NEW i \in 1..n, i # 1, \A j \in 1..n : j > i => w[j].uri # u
      PROVE  i - 1 \in 1..(n-1) /\ x[i-1] = w[i] /\ \A j \in 1..(n-1) : j > i - 1 => x[j].uri # u
  <2>1. ASSUME NEW j \in 1..(n-1), j > i - 1 PROVE x[j].uri # u
    <3>1. j + 1 \in 1..n /\ j + 1 > i /\ x[j] = w[j+1]
      BY <1>1, <2>1
    <3>. QED  BY <1>4, <3>1
  <2>. QED  BY <1>1, <1>4, <2>1
<1>5. Settles(x, t, u) => Settles(w, s, u)
  <2>1. ASSUME NEW i \in 1..(n-1), x[i].uri = u, x[i].what = "subscribe", \A j \in 1..(n-1) : j > i => x[j].uri # u
        PROVE  Settles(w, s, u)
    <3>1. i + 1 \in 1..n /\ w[i+1] = x[i] /\ \A j \in 1..n : j > i + 1 => w[j].uri # u
      BY <1>1, <1>3, <2>1
    <3>. QED  BY <1>1, <2>1, <3>1 DEF Settles
  <2>2. ASSUME u \in t, \A i \in 1..(n-1) : x[i].uri # u PROVE Settles(w, s, u)
    <3>1. \A j \in 1..n : j > 1 => w[j].uri # u
      <4>1. ASSUME NEW j \in 1..n, j > 1 PROVE w[j].uri # u
        <5>1. j - 1 \in 1..(n-1) /\ x[j-1] = w[j]
          BY <1>1, <4>1
        <5>. QED  BY <2>2, <5>1
      <4>. QED  BY <4>1
    <3>2. CASE m.uri = u
      <4>1. m.what = "subscribe"
        BY <2>2, <3>2 DEF m
      <4>. QED  BY <1>1, <3>1, <3>2, <4>1 DEF Settles
    <3>3. CASE m.uri # u
      <4>1. u \in s
        BY <2>2, <3>3 DEF m
      <4>2. \A i \in 1..n : w[i].uri # u
        BY <1>1, <3>1, <3>3
      <4>. QED  BY <1>1, <4>1, <4>2 DEF Settles
    <3>. QED  BY <3>2, <3>3
  <2>. QED  BY <1>1, <2>1, <2>2 DEF Settles
<1>6. Settles(w, s, u) => Settles(x, t, u)
  <2>1. ASSUME NEW i \in 1..n, w[i].uri = u, w[i].what = "subscribe", \A j \in 1..n : j > i => w[j].uri # u
        PROVE  Settles(x, t, u)
    <3>1. CASE i = 1
      <4>1. u \in t
        BY <1>1, <2>1, <3>1 DEF m
      <4>2. \A j \in 1..(n-1) : x[j].uri # u
        BY <1>1, <2>1, <3>1
      <4>. QED  BY <1>1, <4>1, <4>2 DEF Settles
    <3>2. CASE i # 1
      <4>1. i - 1 \in 1..(n-1) /\ x[i-1] = w[i] /\ \A j \in 1..(n-1) : j > i - 1 => x[j].uri # u
        BY <1>4, <2>1, <3>2
      <4>2. x[i-1].uri = u /\ x[i-1].what = "subscribe"
        BY <2>1, <4>1
      <4>. QED  BY <1>1, <4>1, <4>2 DEF Settles
    <3>. QED  BY <3>1, <3>2
  <2>2. ASSUME u \in s, \A i \in 1..n : w[i].uri # u PROVE Settles(x, t, u)
    <3>1. u \in t
      BY <1>1, <2>2 DEF m
    <3>2. \A j \in 1..(n-1) : x[j].uri # u
      BY <1>1, <2>2
    <3>. QED  BY <1>1, <3>1, <3>2 DEF Settles
  <2>. QED  BY <1>1, <2>1, <2>2 DEF Settles
<1>. QED  BY <1>1, <1>2, <1>5, <1>6 DEF x, m

\* A notification that overtakes the last answer.
LEMMA Inserting ==
  ASSUME NEW b \in Seq(Msgs), NEW m \in Msgs, NEW k \in {Len(b), Len(b) + 1} \ {0}
  PROVE  /\ Subscriptions!PutAt(b, k, m) \in Seq(Msgs)
         /\ \A i \in 1..Len(b) : \E j \in 1..Len(Subscriptions!PutAt(b, k, m)) : Subscriptions!PutAt(b, k, m)[j] = b[i]
         /\ \E j \in 1..Len(Subscriptions!PutAt(b, k, m)) : Subscriptions!PutAt(b, k, m)[j] = m
         /\ \A j \in 1..Len(Subscriptions!PutAt(b, k, m)) :
              Subscriptions!PutAt(b, k, m)[j] = m \/ \E i \in 1..Len(b) : Subscriptions!PutAt(b, k, m)[j] = b[i]
<1>. DEFINE n == Len(b)
            before == SubSeq(b, 1, k-1)
            after == SubSeq(b, k, n)
            y == before \o <<m>>
            x == y \o after
<1>1. n \in Nat /\ k \in 1..(n+1) /\ k - 1 \in 0..n /\ k \in Nat
  OBVIOUS
<1>2. before \in Seq(Msgs) /\ Len(before) = k - 1 /\ \A i \in 1..(k-1) : before[i] = b[i]
  BY <1>1, SubSeqProperties
<1>3. after \in Seq(Msgs) /\ Len(after) = n + 1 - k /\ \A i \in 1..(n+1-k) : after[i] = b[k+i-1]
  <2>1. k <= n \/ k = n + 1
    BY <1>1
  <2>. QED  BY <1>1, <2>1, SubSeqProperties
<1>4. Subscriptions!PutAt(b, k, m) = x
  BY DEF Subscriptions!PutAt
<1>. HIDE DEF before, after, n
<1>0. y \in Seq(Msgs) /\ Len(y) = k /\ y[k] = m /\ \A i \in 1..(k-1) : y[i] = b[i]
  BY <1>1, <1>2
<1>. HIDE DEF y
<1>5. x \in Seq(Msgs) /\ Len(x) = n + 1
  <2>1. x \in Seq(Msgs) /\ Len(x) = Len(y) + Len(after)
    BY <1>0, <1>3, ConcatProperties
  <2>. QED  BY <1>0, <1>1, <1>3, <2>1
<1>6. /\ \A i \in 1..(k-1) : x[i] = b[i]
      /\ x[k] = m
      /\ \A i \in (k+1)..(n+1) : x[i] = b[i-1]
  <2>1. \A i \in 1..(k-1) : x[i] = b[i]
    BY <1>0, <1>1, <1>3
  <2>2. x[k] = m
    BY <1>0, <1>1, <1>3
  <2>3. ASSUME NEW i \in (k+1)..(n+1) PROVE x[i] = b[i-1]
    <3>1. i - k \in 1..(n+1-k) /\ x[i] = after[i-k]
      BY <1>0, <1>1, <1>3
    <3>2. after[i-k] = b[k + (i-k) - 1] /\ k + (i-k) - 1 = i - 1
      BY <1>1, <1>3, <3>1
    <3>. QED  BY <3>1, <3>2
  <2>. QED  BY <2>1, <2>2, <2>3
<1>. HIDE DEF x
<1>7. ASSUME NEW i \in 1..n PROVE \E j \in 1..(n+1) : x[j] = b[i]
  <2>1. CASE i <= k - 1
    <3>1. i \in 1..(k-1) /\ i \in 1..(n+1)
      BY <1>1, <2>1
    <3>. QED  BY <1>6, <3>1
  <2>2. CASE i > k - 1
    <3>1. i + 1 \in (k+1)..(n+1) /\ (i+1)-1 = i /\ i + 1 \in 1..(n+1)
      BY <1>1, <2>2
    <3>. QED  BY <1>6, <3>1
  <2>. QED  BY <1>1, <2>1, <2>2
<1>8. ASSUME NEW j \in 1..(n+1) PROVE x[j] = m \/ \E i \in 1..n : x[j] = b[i]
  <2>1. j \in 1..(k-1) \/ j = k \/ j \in (k+1)..(n+1)
    BY <1>1
  <2>2. j \in 1..(k-1) => j \in 1..n
    BY <1>1
  <2>3. j \in (k+1)..(n+1) => j - 1 \in 1..n
    BY <1>1
  <2>. QED  BY <1>6, <2>1, <2>2, <2>3
<1>. QED  BY <1>1, <1>4, <1>5, <1>6, <1>7, <1>8 DEF n

-----------------------------------------------------------------------------
(* What a step leaves alone.                                               *)

Alike(o) ==
  /\ op'[o].kind = op[o].kind /\ op'[o].pc = op[o].pc /\ op'[o].uri = op[o].uri /\ op'[o].of = op[o].of
  /\ op'[o].session = op[o].session /\ op'[o].stale = op[o].stale /\ op'[o].active = op[o].active
SameFor(v) ==
  /\ queue'[v] = queue[v] /\ sub'[v] = sub[v] /\ session' = session /\ sweep' = sweep
  /\ \A o \in Subscriptions!Ops : op[o].uri = v \/ op'[o].uri = v => Alike(o)
  /\ \A o \in Subscriptions!Ops : op[o].uri = v => (o \in leases' <=> o \in leases)
  /\ WillBeOn(v)' <=> WillBeOn(v)
HeardFor(v) ==
  v \in news' => Tells(back, v)' \/ (v \in news /\ (Tells(back, v) => Tells(back, v)') /\ (Clears(wire, v) => Clears(wire, v)'))

\* Nothing is lost of what a subscriber has to hear.
LEMMA NewsStays ==
  ASSUME NEW v, NewsInv(v), sub'[v] = sub[v], sub[v] # None => op'[sub[v]] = op[sub[v]], HeardFor(v)
  PROVE  NewsInv(v)'
BY DEF NewsInv, HeardFor

\* A step at another URI.
LEMMA OthersStay ==
  ASSUME SubTypes, SubTypes', NEW v \in Uris, UriInv(v), SameFor(v), NewsInv(v)'
  PROVE  UriInv(v)'
<1>1. \A o \in Subscriptions!Ops : op[o].uri = v <=> op'[o].uri = v
  BY DEF SameFor, Alike
<1>2. \A o \in Subscriptions!Ops : op[o].uri = v => Alike(o)
  BY DEF SameFor
<1>3. sub[v] # None => sub[v] \in Subscriptions!Ops /\ op[sub[v]].uri = v
  BY DEF UriInv, SubInv, SubTypes
<1>4. \A o \in Subscriptions!Ops : op[o].of # None => op[o].of \in Subscriptions!Ops
  BY DEF SubTypes, Transitions
<1>5. queue[v] \in Seq(Subscriptions!Ops)
  BY DEF SubTypes
<1>6. QueueInv(v)'
  <2>1. \A i \in 1..Len(queue[v]) : queue[v][i] \in Subscriptions!Ops
    BY <1>5
  <2>. QED  BY <1>1, <1>2, <2>1 DEF UriInv, QueueInv, SameFor, Live, Alike
<1>7. PhaseInv(v)'
  <2>1. ASSUME NEW o \in Subscriptions!Ops, op'[o].uri = v PROVE PhaseOf(o, v)'
    <3>1. PhaseOf(o, v) /\ Alike(o)
      BY <1>1, <1>2, <2>1 DEF UriInv, PhaseInv
    <3>2. op[o].of # None => op'[op[o].of].uri = v
      BY <1>1, <1>4, <3>1 DEF PhaseOf
    <3>. QED  BY <3>1, <3>2 DEF PhaseOf, SameFor, Alike
  <2>. QED  BY <2>1 DEF PhaseInv
<1>8. SubInv(v)'
  <2>1. \A kind : \A o \in Subscriptions!Ops : HasAsked(o, kind, v) <=> HasAsked(o, kind, v)'
    BY <1>1, <1>2 DEF HasAsked, Alike
  <2>. QED  BY <1>2, <1>3, <2>1 DEF UriInv, SubInv, SameFor, Alike
<1>9. LeaseInv(v)'
  <2>1. \A o \in leases' : o \in Subscriptions!Ops
    BY DEF SubTypes
  <2>. QED  BY <1>1, <1>2, <2>1 DEF UriInv, LeaseInv, SameFor, Alike
<1>10. StaleInv(v)'
  <2>1. sweep # None => \A c \in sweep : c \in Subscriptions!Ops
    BY DEF SubTypes
  <2>. QED  BY <1>2, <1>3, <2>1 DEF UriInv, StaleInv, SameFor, Alike
<1>. QED  BY <1>6, <1>7, <1>8, <1>9, <1>10 DEF UriInv

\* What the first message from the upstream was about.
LEMMA Taking ==
  ASSUME SubTypes, back # <<>>
  PROVE  /\ Head(back) \in Msgs /\ Tail(back) \in Seq(Msgs)
         /\ Head(back).what = "updated" => Head(back).by = 0
         /\ \A i \in 1..Len(Tail(back)) : Tail(back)[i].what = "updated" => Tail(back)[i].by = 0
         /\ \A v : Tells(back, v) => Tells(Tail(back), v) \/ (Head(back).what = "updated" /\ Head(back).uri = v)
<1>. DEFINE n == Len(back)
            x == Tail(back)
<1>1. /\ n \in Nat /\ n >= 1 /\ Len(x) = n - 1 /\ back[1] = Head(back) /\ Head(back) \in Msgs /\ x \in Seq(Msgs)
      /\ \A i \in 1..(n-1) : x[i] = back[i+1] /\ i + 1 \in 1..n
      /\ \A i \in 1..n : i = 1 \/ (i - 1 \in 1..(n-1) /\ x[i-1] = back[i])
      /\ 1 \in 1..n /\ n = Len(back)
  BY HeadTailProperties DEF SubTypes
<1>2. \A i \in 1..n : back[i].what = "updated" => back[i].by = 0
  BY DEF SubTypes
<1>. HIDE DEF n, x
<1>3. \A v : Tells(back, v) => Tells(x, v) \/ (Head(back).what = "updated" /\ Head(back).uri = v)
  BY <1>1 DEF Tells
<1>. QED  BY <1>1, <1>2, <1>3 DEF x

\* A step of one transition, with what it sends and takes, is no matter to other URIs.
LEMMA OneTransition ==
  ASSUME SubscriptionInv, SubTypes', NEW o \in Subscriptions!Ops, op[o].uri \in Uris, UriInv(op[o].uri)', op'[o].uri = op[o].uri,
         \A p \in Subscriptions!Ops \ {o} : op'[p] = op[p],
         \A v \in Uris \ {op[o].uri} : queue'[v] = queue[v] /\ sub'[v] = sub[v] /\ (v \in news' => v \in news),
         \A p \in Subscriptions!Ops : op[p].uri # op[o].uri => (p \in leases' <=> p \in leases),
         leases' \subseteq leases \cup {o},
         UNCHANGED <<session, sweep, on>>,
         wire' = wire \/ \E m \in WireRequests : m.uri = op[o].uri /\ wire' = Append(wire, m),
         back' = back \/ (back # <<>> /\ Head(back).by = o /\ back' = Tail(back))
  PROVE  SubscriptionInv'
<1>. DEFINE u == op[o].uri
<1>0. SubTypes
  BY DEF SubscriptionInv
<1>1. \A p \in Subscriptions!Ops : op'[p].uri \in Uris \/ (op'[p].pc = "none" /\ p \notin leases')
  BY DEF SubscriptionInv
<1>2. ASSUME NEW v \in Uris \ {u} PROVE UriInv(v)'
  <2>1. (WillBeOn(v)' <=> WillBeOn(v)) /\ (Clears(wire, v) => Clears(wire, v)')
    <3>1. CASE wire' = wire
      BY <3>1 DEF WillBeOn
    <3>2. CASE \E m \in WireRequests : m.uri = u /\ wire' = Append(wire, m)
      <4>1. PICK m \in WireRequests : m.uri = u /\ wire' = Append(wire, m)
        BY <3>2
      <4>2. wire \in Seq(WireRequests) /\ m.uri # v
        BY <1>0, <1>2, <4>1 DEF SubTypes
      <4>. QED  BY <4>1, <4>2, Sending DEF WillBeOn
    <3>. QED  BY <3>1, <3>2
  <2>2. Tells(back, v) => Tells(back, v)'
    <3>1. CASE back' = back
      BY <3>1
    <3>2. CASE back # <<>> /\ Head(back).by = o /\ back' = Tail(back)
      <4>1. Head(back).what # "updated"
        BY <1>0, <3>2, Taking, ServerAssumption DEF Subscriptions!Ops
      <4>. QED  BY <1>0, <3>2, <4>1, Taking
    <3>. QED  BY <3>1, <3>2
  <2>3. SameFor(v) /\ HeardFor(v) /\ UriInv(v)
    BY <1>2, <2>1, <2>2 DEF SameFor, HeardFor, SubscriptionInv, Alike
  <2>4. sub[v] # None => op'[sub[v]] = op[sub[v]]
    BY <1>0, <1>2, <2>3 DEF UriInv, SubInv, SubTypes
  <2>5. NewsInv(v)'
    BY <1>2, <2>3, <2>4, NewsStays DEF UriInv
  <2>. QED  BY <1>0, <1>2, <2>3, <2>5, OthersStay
<1>. QED  BY <1>1, <1>2 DEF SubscriptionInv

-----------------------------------------------------------------------------
(* One transition at the head of its queue.                                *)

\* The others of its URI wait, or are over.
LEMMA AtHead ==
  ASSUME SubscriptionInv, NEW o \in Subscriptions!Ops, Live(o), Head(queue[op[o].uri]) = o
  PROVE  /\ op[o].uri \in Uris /\ queue[op[o].uri] \in Seq(Subscriptions!Ops) /\ queue[op[o].uri] # <<>>
         /\ \A p \in Subscriptions!Ops \ {o} : op[p].uri = op[o].uri => op[p].pc \in {"queued", "done"}
<1>. DEFINE u == op[o].uri
            q == queue[u]
<1>1. u \in Uris /\ UriInv(u) /\ q \in Seq(Subscriptions!Ops)
  BY DEF SubscriptionInv, Live, SubTypes
<1>2. PICK i \in 1..Len(q) : q[i] = o
  BY <1>1 DEF UriInv, QueueInv
<1>3. q # <<>> /\ Len(q) \in Nat /\ 1 \in 1..Len(q) /\ q[1] = o
  BY <1>1, <1>2
<1>4. ASSUME NEW p \in Subscriptions!Ops \ {o}, op[p].uri = u PROVE op[p].pc \in {"queued", "done"}
  <2>1. CASE Live(p)
    <3>1. PICK j \in 1..Len(q) : q[j] = p
      BY <1>1, <1>4, <2>1 DEF UriInv, QueueInv
    <3>2. j # 1 /\ j > 1
      BY <1>3, <1>4, <3>1
    <3>3. \A k \in 1..Len(q) : k > 1 => op[q[k]].pc = "queued"
      BY <1>1 DEF UriInv, QueueInv
    <3>. QED  BY <3>1, <3>2, <3>3
  <2>2. CASE ~Live(p)
    BY <1>1, <1>4, <2>2 DEF UriInv, PhaseInv, PhaseOf, Live
  <2>. QED  BY <2>1, <2>2
<1>. QED  BY <1>1, <1>3, <1>4

\* It goes on, and stays where it is.
LEMMA QueueStays ==
  ASSUME NEW u \in Uris, NEW o \in Subscriptions!Ops, queue[u] \in Seq(Subscriptions!Ops), QueueInv(u), op[o].uri = u, Live(o), Head(queue[u]) = o,
         queue'[u] = queue[u], op'[o].uri = u, op'[o].pc \in {"routing", "asked", "flushing", "cleaning"},
         \A p \in Subscriptions!Ops \ {o} : op'[p] = op[p]
  PROVE  QueueInv(u)'
<1>. DEFINE q == queue[u]
<1>1. Len(q) \in Nat /\ (\A i \in 1..Len(q) : q[i] \in Subscriptions!Ops) /\ (Len(q) >= 1 => q[1] = o)
  OBVIOUS
<1>2. \A i, j \in 1..Len(q) : q[i] = q[j] => i = j
  BY DEF QueueInv
<1>. HIDE DEF q
<1>3. \A i \in 1..Len(q) : i > 1 => q[i] # o
  BY <1>1, <1>2
<1>4. ASSUME NEW i \in 1..Len(q)
      PROVE  /\ op'[q[i]].pc \notin {"none", "done"} /\ op'[q[i]].uri = u
             /\ i > 1 => op'[q[i]].pc = "queued"
  <2>1. Live(q[i]) /\ op[q[i]].uri = u /\ (i > 1 => op[q[i]].pc = "queued")
    BY DEF QueueInv, q
  <2>. QED  BY <1>1, <1>3, <2>1 DEF Live
<1>5. ASSUME NEW p \in Subscriptions!Ops, op'[p].uri = u, Live(p)' PROVE \E i \in 1..Len(q) : q[i] = p
  <2>1. op[p].uri = u /\ Live(p)
    BY <1>5 DEF Live
  <2>. QED  BY <2>1 DEF QueueInv, q
<1>. QED  BY <1>2, <1>4, <1>5 DEF QueueInv, q, Live

\* It is over, and the next one is at the head.
LEMMA QueueMoves ==
  ASSUME NEW u \in Uris, NEW o \in Subscriptions!Ops, queue[u] \in Seq(Subscriptions!Ops), QueueInv(u), op[o].uri = u, Live(o), Head(queue[u]) = o,
         queue[u] # <<>>, queue'[u] = Tail(queue[u]), op'[o].uri = u, op'[o].pc = "done",
         \A p \in Subscriptions!Ops \ {o} : op'[p] = op[p]
  PROVE  QueueInv(u)'
<1>. DEFINE q == queue[u]
            x == Tail(q)
            n == Len(q)
<1>1. /\ n \in Nat /\ n >= 1 /\ (\A i \in 1..n : q[i] \in Subscriptions!Ops) /\ q[1] = o /\ 1 \in 1..n
      /\ Len(x) = n - 1 /\ \A i \in 1..(n-1) : x[i] = q[i+1] /\ i + 1 \in 1..n
      /\ \A i \in 1..n : i = 1 \/ (i - 1 \in 1..(n-1) /\ x[i-1] = q[i])
  BY HeadTailProperties
<1>2. /\ \A i, j \in 1..n : q[i] = q[j] => i = j
      /\ \A i \in 1..n : Live(q[i]) /\ op[q[i]].uri = u /\ (i > 1 => op[q[i]].pc = "queued")
      /\ \A p \in Subscriptions!Ops : op[p].uri = u /\ Live(p) => \E i \in 1..n : q[i] = p
  BY DEF QueueInv
<1>3. queue'[u] = x
  OBVIOUS
<1>. HIDE DEF q, x, n
<1>4. \A i, j \in 1..(n-1) : x[i] = x[j] => i = j
  <2>1. ASSUME NEW i \in 1..(n-1), NEW j \in 1..(n-1), x[i] = x[j] PROVE i = j
    <3>1. i + 1 = j + 1
      BY <1>1, <1>2, <2>1
    <3>. QED  BY <3>1
  <2>. QED  BY <2>1
<1>5. ASSUME NEW i \in 1..(n-1)
      PROVE  op'[x[i]].uri = u /\ op'[x[i]].pc = "queued"
  <2>1. x[i] = q[i+1] /\ i + 1 \in 1..n /\ i + 1 > 1 /\ i + 1 # 1
    BY <1>1
  <2>2. x[i] # o /\ x[i] \in Subscriptions!Ops
    BY <1>1, <1>2, <2>1
  <2>3. op[x[i]].uri = u /\ op[x[i]].pc = "queued"
    BY <1>2, <2>1
  <2>4. op'[x[i]] = op[x[i]]
    BY <2>2
  <2>. QED  BY <2>3, <2>4
<1>6. ASSUME NEW p \in Subscriptions!Ops, op'[p].uri = u, Live(p)' PROVE \E i \in 1..(n-1) : x[i] = p
  <2>1. p # o
    BY <1>6 DEF Live
  <2>2. PICK i \in 1..n : q[i] = p
    BY <1>2, <1>6, <2>1 DEF Live
  <2>3. i # 1
    BY <1>1, <2>1, <2>2
  <2>. QED  BY <1>1, <2>2, <2>3
<1>7. Len(queue'[u]) = n - 1
  BY <1>1, <1>3
<1>8. \A i, j \in 1..Len(queue'[u]) : queue'[u][i] = queue'[u][j] => i = j
  BY <1>3, <1>4, <1>7
<1>9. \A i \in 1..Len(queue'[u]) :
        Live(queue[u][i])' /\ op'[queue'[u][i]].uri = u /\ (i > 1 => op'[queue'[u][i]].pc = "queued")
  BY <1>3, <1>5, <1>7 DEF Live
<1>10. \A p \in Subscriptions!Ops : op'[p].uri = u /\ Live(p)' => \E i \in 1..Len(queue'[u]) : queue'[u][i] = p
  BY <1>3, <1>6, <1>7
<1>. QED  BY <1>8, <1>9, <1>10 DEF QueueInv


\* Among finitely many places there is a last one.
LEMMA Latest ==
  ASSUME NEW n \in Nat, NEW S \in SUBSET (0..n), S # {}
  PROVE  \E m \in S : \A k \in S : k <= m
<1>. DEFINE T == {k \in 0..n : n - k \in S}
<1>1. T \subseteq Nat /\ T # {}
  <2>1. PICK k \in S : k \in 0..n
    OBVIOUS
  <2>2. n - k \in 0..n /\ n - (n - k) = k
    BY <2>1
  <2>3. n - (n - k) \in S
    BY <2>1, <2>2
  <2>4. n - k \in T
    BY <2>2, <2>3
  <2>5. T \subseteq Nat
    OBVIOUS
  <2>. QED  BY <2>4, <2>5
<1>2. PICK x \in T : \A y \in T : <<y, x>> \notin OpToRel(<, Nat)
  BY <1>1, NatLessThanWellFounded, WFMin
<1>3. \A y \in T : ~(y < x)
  BY <1>1, <1>2 DEF OpToRel
<1>4. ASSUME NEW k \in S PROVE k <= n - x
  <2>1. n - k \in 0..n /\ n - (n - k) = k
    OBVIOUS
  <2>2. n - (n - k) \in S
    BY <2>1
  <2>3. n - k \in T
    BY <2>1, <2>2
  <2>4. x \in 0..n /\ ~(n - k < x)
    BY <1>3, <2>3
  <2>. QED  BY <2>1, <2>4
<1>5. x \in 0..n /\ n - x \in S
  OBVIOUS
<1>. HIDE DEF T
<1>. QED  BY <1>4, <1>5

\* Who is subscribed, and will not be, is about to be unsubscribed.
LEMMA NotForLong ==
  ASSUME NEW w \in Seq(WireRequests), NEW s, NEW u \in s, ~Settles(w, s, u)
  PROVE  Clears(w, u)
<1>. DEFINE n == Len(w)
            S == {i \in 1..n : w[i].uri = u}
<1>1. n \in Nat /\ S \in SUBSET (0..n) /\ \A i \in S : i \in 1..n /\ w[i].uri = u
  OBVIOUS
<1>2. S # {}
  BY DEF Settles
<1>3. PICK m \in S : \A k \in S : k <= m
  <2>. HIDE DEF n, S
  <2>. QED  BY <1>1, <1>2, Latest
<1>4. \A j \in 1..n : j > m => w[j].uri # u
  <2>1. ASSUME NEW j \in 1..n, j > m, w[j].uri = u PROVE FALSE
    <3>1. j <= m
      BY <1>3, <2>1
    <3>. QED  BY <1>1, <1>3, <2>1, <3>1
  <2>. QED  BY <2>1
<1>5. w[m].what # "subscribe"
  BY <1>1, <1>3, <1>4 DEF Settles
<1>. QED  BY <1>1, <1>3, <1>5 DEF Clears

\* What is at rest when o runs.
LEMMA WhileRunning ==
  ASSUME SubscriptionInv, NEW o \in Subscriptions!Ops, Live(o), Head(queue[op[o].uri]) = o
  PROVE  LET u == op[o].uri IN
         /\ u \in Uris /\ queue[u] \in Seq(Subscriptions!Ops) /\ queue[u] # <<>> /\ SubTypes /\ UriInv(u)
         /\ \A p \in Subscriptions!Ops \ {o} : op[p].uri = u => op[p].pc \in {"queued", "done"}
         /\ sub[u] # None /\ sub[u] # o => op[sub[u]].pc = "done" /\ op[sub[u]].active /\ sub[u] \in leases
         /\ sub[u] = o => op[o].kind = "subscribe" /\ op[o].pc \in {"asked", "flushing"}
         /\ op[o].pc \notin {"asked"} => (sub[u] # None <=> WillBeOn(u))
         /\ \A p \in leases : op[p].uri = u => sub[u] = p \/ (op[o].pc = "cleaning" /\ op[o].of = p)
<1>. DEFINE u == op[o].uri
<1>1. /\ u \in Uris /\ queue[u] \in Seq(Subscriptions!Ops) /\ queue[u] # <<>>
      /\ \A p \in Subscriptions!Ops \ {o} : op[p].uri = u => op[p].pc \in {"queued", "done"}
  BY AtHead
<1>2. SubTypes /\ UriInv(u)
  BY <1>1 DEF SubscriptionInv
<1>3. sub[u] # None => sub[u] \in Subscriptions!Ops
  BY <1>1, <1>2 DEF SubTypes
<1>4. sub[u] # None /\ sub[u] # o => op[sub[u]].pc = "done" /\ op[sub[u]].active /\ sub[u] \in leases
  BY <1>1, <1>2, <1>3 DEF UriInv, SubInv
<1>5. sub[u] = o => op[o].kind = "subscribe" /\ op[o].pc \in {"asked", "flushing"}
  <2>1. o # None
    BY ServerAssumption DEF Subscriptions!Ops
  <2>. QED  BY <1>2, <2>1 DEF UriInv, SubInv, Live
<1>6. op[o].pc \notin {"asked"} => (sub[u] # None <=> WillBeOn(u))
  BY <1>1, <1>2, <1>3 DEF UriInv, SubInv, HasAsked
<1>7. \A p \in leases : op[p].uri = u => sub[u] = p \/ (op[o].pc = "cleaning" /\ op[o].of = p)
  BY <1>1, <1>2 DEF UriInv, LeaseInv
<1>. QED  BY <1>1, <1>2, <1>4, <1>5, <1>6, <1>7

\* The transition is over.
LEMMA OverStep ==
  ASSUME SubscriptionInv, NEW o \in Subscriptions!Ops, Live(o), Head(queue[op[o].uri]) = o, NEW u, u = op[o].uri,
         op' = [op EXCEPT ![o] = Subscriptions!Over(o)] \/ op' = [op EXCEPT ![o] = [Subscriptions!Over(o) EXCEPT !.pending = 0]],
         queue' = Subscriptions!Ahead(o),
         sub' = sub \/ sub' = [sub EXCEPT ![u] = None],
         leases' \subseteq leases, \A p \in leases : op[p].uri # u => p \in leases',
         \A p \in leases' : op[p].uri = u => sub'[u] = p,
         sub'[u] # None => sub'[u] \in leases' /\ WillBeOn(u),
         sub'[u] = None => ~WillBeOn(u),
         sub'[u] = o => op[o].pc = "flushing" /\ op'[o].pending = 0 /\ (u \in news' => op[o].pending = 0),
         op[o].pc = "queued" /\ op[o].kind = "cleanup" => op[o].of # sub'[u],
         news' \subseteq news,
         UNCHANGED <<session, sweep, on, wire>>,
         back' = back \/ (back # <<>> /\ Head(back).by = o /\ back' = Tail(back))
  PROVE  SubscriptionInv'
<1>1. /\ u \in Uris /\ queue[u] \in Seq(Subscriptions!Ops) /\ queue[u] # <<>> /\ SubTypes /\ UriInv(u)
      /\ \A p \in Subscriptions!Ops \ {o} : op[p].uri = u => op[p].pc \in {"queued", "done"}
      /\ sub[u] # None /\ sub[u] # o => op[sub[u]].pc = "done" /\ op[sub[u]].active /\ sub[u] \in leases
      /\ sub[u] = o => op[o].kind = "subscribe" /\ op[o].pc \in {"asked", "flushing"}
  BY WhileRunning
<1>2. op[o] \in Transitions /\ o # None /\ op \in [Subscriptions!Ops -> Transitions] /\ sub \in [Uris -> Subscriptions!Ops \cup {None}]
  BY <1>1, ServerAssumption DEF SubTypes, Subscriptions!Ops
<1>3. /\ op'[o].kind = op[o].kind /\ op'[o].pc = "done" /\ op'[o].uri = u /\ op'[o].of = op[o].of
      /\ op'[o].session = op[o].session /\ op'[o].stale = op[o].stale /\ op'[o].active = op[o].active
      /\ \A p \in Subscriptions!Ops \ {o} : op'[p] = op[p]
  <2>1. CASE op' = [op EXCEPT ![o] = Subscriptions!Over(o)]
    BY <1>2, <2>1 DEF Subscriptions!Over, Transitions
  <2>2. CASE op' = [op EXCEPT ![o] = [Subscriptions!Over(o) EXCEPT !.pending = 0]]
    BY <1>2, <2>2 DEF Subscriptions!Over, Transitions
  <2>. QED  BY <2>1, <2>2
<1>4. op' \in [Subscriptions!Ops -> Transitions]
  <2>1. Subscriptions!Over(o) \in Transitions /\ [Subscriptions!Over(o) EXCEPT !.pending = 0] \in Transitions
    BY <1>2 DEF Subscriptions!Over, Transitions, Steppings
  <2>. QED  BY <1>2, <2>1
<1>5. queue' \in [Uris -> Seq(Subscriptions!Ops)] /\ queue'[u] = Tail(queue[u]) /\ \A v \in Uris \ {u} : queue'[v] = queue[v]
  <2>1. Tail(queue[u]) \in Seq(Subscriptions!Ops)
    BY <1>1, HeadTailProperties
  <2>. QED  BY <1>1, <2>1 DEF SubTypes, Subscriptions!Ahead
<1>6. /\ sub' \in [Uris -> Subscriptions!Ops \cup {None}] /\ sub'[u] \in {sub[u], None}
      /\ \A v \in Uris \ {u} : sub'[v] = sub[v]
  BY <1>1, <1>2
<1>7. /\ back' \in Seq(Msgs) /\ \A i \in 1..Len(back') : back'[i].what = "updated" => back'[i].by = 0
      /\ Tells(back, u) => Tells(back, u)'
  <2>1. CASE back' = back
    BY <1>1, <2>1 DEF SubTypes
  <2>2. CASE back # <<>> /\ Head(back).by = o /\ back' = Tail(back)
    <3>1. Head(back).what # "updated"
      BY <1>1, <2>2, Taking, ServerAssumption DEF Subscriptions!Ops
    <3>. QED  BY <1>1, <2>2, <3>1, Taking
  <2>. QED  BY <2>1, <2>2
<1>8. SubTypes'
  BY <1>1, <1>4, <1>5, <1>6, <1>7 DEF SubTypes
<1>9. WillBeOn(u)' <=> WillBeOn(u)
  BY DEF WillBeOn
<1>10. sub[u] # None => sub[u] \in Subscriptions!Ops /\ op[sub[u]].uri = u /\ op[sub[u]].kind = "subscribe" /\ op[sub[u]].session = session
  BY <1>1, <1>2 DEF UriInv, SubInv
<1>11. QueueInv(u)'
  BY <1>1, <1>3, <1>5, QueueMoves, ZenonT(30) DEF UriInv
<1>12. PhaseInv(u)'
  <2>1. ASSUME NEW p \in Subscriptions!Ops, op'[p].uri = u PROVE PhaseOf(p, u)'
    <3>1. PhaseOf(p, u) /\ (op[p].of # None => op[p].of \in Subscriptions!Ops /\ op'[op[p].of].uri = u)
      <4>1. op[p].uri = u /\ PhaseOf(p, u)
        BY <1>1, <1>3, <2>1 DEF UriInv, PhaseInv
      <4>2. op[p].of # None => op[p].of \in Subscriptions!Ops
        BY <1>2 DEF Transitions
      <4>. QED  BY <1>3, <4>1, <4>2 DEF PhaseOf
    <3>2. CASE p = o
      BY <1>3, <3>1, <3>2 DEF PhaseOf
    <3>3. CASE p # o
      <4>1. op'[p] = op[p] /\ op[p].pc \in {"queued", "done"}
        BY <1>1, <1>3, <2>1, <3>3
      <4>. QED  BY <3>1, <4>1 DEF PhaseOf
    <3>. QED  BY <3>2, <3>3
  <2>. QED  BY <2>1 DEF PhaseInv
<1>13. SubInv(u)'
  <2>1. ASSUME sub'[u] # None PROVE SubInv(u)'
    <3>1. sub'[u] = sub[u]
      BY <1>6, <2>1
    <3>2. CASE sub[u] = o
      <4>0. op[o].pc = "flushing"
        BY <3>1, <3>2
      <4>1. op[o].active
        BY <1>1, <2>1, <3>1, <3>2, <4>0 DEF UriInv, SubInv
      <4>. QED  BY <1>3, <1>9, <1>10, <2>1, <3>1, <3>2, <4>1, ZenonT(30) DEF SubInv
    <3>3. CASE sub[u] # o
      <4>1. sub[u] \in Subscriptions!Ops \ {o} /\ op'[sub[u]] = op[sub[u]]
        BY <1>3, <1>10, <2>1, <3>1, <3>3
      <4>. QED  BY <1>1, <1>9, <1>10, <2>1, <3>1, <3>3, <4>1 DEF SubInv
    <3>. QED  BY <3>2, <3>3
  <2>2. ASSUME sub'[u] = None PROVE SubInv(u)'
    BY <1>9, <2>2 DEF SubInv
  <2>. QED  BY <2>1, <2>2
<1>14. LeaseInv(u)'
  <2>1. ASSUME NEW p \in leases', op'[p].uri = u PROVE op'[p].active /\ sub'[u] = p
    <3>1. p \in Subscriptions!Ops /\ p \in leases /\ op[p].uri = u
      BY <1>1, <1>3, <2>1 DEF SubTypes
    <3>2. op[p].active
      BY <1>1, <3>1 DEF UriInv, LeaseInv
    <3>. QED  BY <1>3, <3>1, <3>2
  <2>. QED  BY <2>1 DEF LeaseInv
<1>15. StaleInv(u)'
  <2>1. ASSUME sub'[u] # None, op'[sub'[u]].active, op'[sub'[u]].stale
        PROVE  sweep # None /\ \E c \in sweep : op'[c].uri = u /\ op'[c].pc = "queued" /\ op'[c].kind = "cleanup" /\ op'[c].of = sub'[u]
    <3>1. sub'[u] = sub[u] /\ sub[u] \in Subscriptions!Ops /\ op[sub[u]].active /\ op[sub[u]].stale
      BY <1>3, <1>6, <1>10, <2>1
    <3>2. sweep # None
      BY <1>1, <2>1, <3>1 DEF UriInv, StaleInv
    <3>3. PICK c \in sweep : op[c].uri = u /\ op[c].pc = "queued" /\ op[c].kind = "cleanup" /\ op[c].of = sub[u]
      BY <1>1, <2>1, <3>1 DEF UriInv, StaleInv
    <3>4. c \in Subscriptions!Ops /\ c # o
      BY <1>1, <3>1, <3>2, <3>3 DEF SubTypes
    <3>5. op'[c] = op[c]
      BY <1>3, <3>4
    <3>. QED  BY <3>1, <3>2, <3>3, <3>5
  <2>. QED  BY <2>1 DEF StaleInv
<1>16. NewsInv(u)'
  <2>1. ASSUME sub'[u] # None
        PROVE  /\ op'[sub'[u]].pc = "done" => op'[sub'[u]].pending = 0
               /\ u \in news' => Tells(back, u)' \/ Clears(wire, u)' \/ op'[sub'[u]].pending > 0
    <3>1. sub'[u] = sub[u]
      BY <1>6, <2>1
    <3>2. /\ op[sub[u]].pc = "done" => op[sub[u]].pending = 0
          /\ u \in news' => Tells(back, u)' \/ Clears(wire, u)' \/ op[sub[u]].pending > 0
      BY <1>1, <1>7, <2>1, <3>1 DEF UriInv, NewsInv
    <3>3. CASE sub[u] = o
      <4>1. ~(0 > 0)
        OBVIOUS
      <4>. QED  BY <3>1, <3>2, <3>3, <4>1
    <3>4. CASE sub[u] # o
      <4>1. op'[sub[u]] = op[sub[u]]
        BY <1>3, <1>10, <2>1, <3>1, <3>4
      <4>. QED  BY <3>1, <3>2, <4>1
    <3>. QED  BY <3>3, <3>4
  <2>. QED  BY <2>1 DEF NewsInv
<1>17. UriInv(u)'
  BY <1>11, <1>12, <1>13, <1>14, <1>15, <1>16 DEF UriInv
<1>. QED  BY <1>1, <1>3, <1>5, <1>6, <1>8, <1>17, OneTransition

\* The transition goes on to clean up what s has, or may have, at the upstream.
LEMMA CleanStep ==
  ASSUME SubscriptionInv, NEW o \in Subscriptions!Ops, Live(o), Head(queue[op[o].uri]) = o, NEW u, u = op[o].uri,
         op[o].pc \in {"routing", "asked", "queued"}, NEW s \in Subscriptions!Ops, op[s].uri = u, Subscriptions!Cleanup(o, s),
         queue' = queue, leases' = leases, news' = news,
         sub' = sub \/ sub' = [sub EXCEPT ![u] = None], sub'[u] = None,
         \A p \in leases : op[p].uri = u => p = s,
         op[s].session # session => ~WillBeOn(u),
         UNCHANGED <<session, sweep, on>>,
         back' = back \/ (back # <<>> /\ Head(back).by = o /\ back' = Tail(back))
  PROVE  SubscriptionInv'
<1>1. /\ u \in Uris /\ queue[u] \in Seq(Subscriptions!Ops) /\ queue[u] # <<>> /\ SubTypes /\ UriInv(u)
      /\ \A p \in Subscriptions!Ops \ {o} : op[p].uri = u => op[p].pc \in {"queued", "done"}
  BY WhileRunning
<1>2. op[o] \in Transitions /\ s # None /\ op \in [Subscriptions!Ops -> Transitions] /\ sub \in [Uris -> Subscriptions!Ops \cup {None}]
  BY <1>1, ServerAssumption DEF SubTypes, Subscriptions!Ops
<1>3. op' = [op EXCEPT ![o].pc = "cleaning", ![o].of = s]
  BY DEF Subscriptions!Cleanup
<1>4. /\ op'[o].kind = op[o].kind /\ op'[o].pc = "cleaning" /\ op'[o].uri = u /\ op'[o].of = s
      /\ op'[o].session = op[o].session /\ op'[o].active = op[o].active
      /\ \A p \in Subscriptions!Ops \ {o} : op'[p] = op[p]
  BY <1>2, <1>3 DEF Transitions
<1>5. op' \in [Subscriptions!Ops -> Transitions]
  BY <1>2, <1>3 DEF Transitions, Steppings
<1>6. /\ sub' \in [Uris -> Subscriptions!Ops \cup {None}] /\ \A v \in Uris \ {u} : sub'[v] = sub[v]
  BY <1>1, <1>2
<1>7. back' \in Seq(Msgs) /\ \A i \in 1..Len(back') : back'[i].what = "updated" => back'[i].by = 0
  <2>1. CASE back' = back
    BY <1>1, <2>1 DEF SubTypes
  <2>2. CASE back # <<>> /\ Head(back).by = o /\ back' = Tail(back)
    BY <1>1, <2>2, Taking
  <2>. QED  BY <2>1, <2>2
<1>. DEFINE m == [by |-> o, what |-> "cleanup", uri |-> u]
<1>8. m \in WireRequests /\ m.uri = u /\ m.what = "cleanup" /\ wire \in Seq(WireRequests)
  BY <1>1 DEF WireRequests, SubTypes
<1>9. wire' = wire \/ wire' = Append(wire, m)
  BY DEF Subscriptions!Cleanup, Subscriptions!Send
<1>10. ~WillBeOn(u)' /\ wire' \in Seq(WireRequests)
  <2>1. CASE op[s].session = session
    <3>1. wire' = Append(wire, m)
      BY <2>1 DEF Subscriptions!Cleanup, Subscriptions!Send
    <3>. HIDE DEF m
    <3>. QED  BY <1>8, <3>1, Sending DEF WillBeOn
  <2>2. CASE op[s].session # session
    <3>1. wire' = wire
      BY <2>2 DEF Subscriptions!Cleanup, Subscriptions!Send
    <3>. QED  BY <1>8, <2>2, <3>1 DEF WillBeOn
  <2>. QED  BY <2>1, <2>2
<1>. HIDE DEF m
<1>11. SubTypes'
  BY <1>1, <1>5, <1>6, <1>7, <1>10 DEF SubTypes
<1>12. QueueInv(u)'
  BY <1>1, <1>4, QueueStays DEF UriInv
<1>13. PhaseInv(u)'
  <2>1. ASSUME NEW p \in Subscriptions!Ops, op'[p].uri = u PROVE PhaseOf(p, u)'
    <3>1. op[p].uri = u /\ PhaseOf(p, u)
      BY <1>1, <1>4, <2>1 DEF UriInv, PhaseInv
    <3>2. CASE p = o
      <4>1. op'[s].uri = u
        BY <1>4
      <4>. QED  BY <1>2, <1>4, <1>10, <3>1, <3>2, <4>1 DEF PhaseOf
    <3>3. CASE p # o
      <4>1. op'[p] = op[p] /\ op[p].pc \in {"queued", "done"}
        BY <1>1, <1>4, <3>1, <3>3
      <4>2. op[p].of # None => op[p].of \in Subscriptions!Ops
        BY <1>2 DEF Transitions
      <4>3. op[p].of # None => op'[op[p].of].uri = u
        BY <1>4, <3>1, <4>2 DEF PhaseOf
      <4>. QED  BY <3>1, <4>1, <4>3 DEF PhaseOf
    <3>. QED  BY <3>2, <3>3
  <2>. QED  BY <2>1 DEF PhaseInv
<1>14. SubInv(u)'
  BY <1>10 DEF SubInv
<1>15. LeaseInv(u)'
  <2>1. ASSUME NEW p \in leases', op'[p].uri = u
        PROVE  op'[p].active /\ op'[o].uri = u /\ op'[o].pc = "cleaning" /\ op'[o].of = p
    <3>0. p \in Subscriptions!Ops /\ p \in leases
      BY <1>1, <2>1 DEF SubTypes
    <3>1. p \in Subscriptions!Ops /\ p \in leases /\ op[p].uri = u /\ p = s
      BY <1>4, <2>1, <3>0
    <3>2. op[p].active
      BY <1>1, <3>1 DEF UriInv, LeaseInv
    <3>. QED  BY <1>4, <3>1, <3>2
  <2>. QED  BY <2>1 DEF LeaseInv
<1>16. StaleInv(u)' /\ NewsInv(u)'
  BY DEF StaleInv, NewsInv
<1>17. UriInv(u)'
  BY <1>12, <1>13, <1>14, <1>15, <1>16 DEF UriInv
<1>18. wire' = wire \/ \E x \in WireRequests : x.uri = u /\ wire' = Append(wire, x)
  BY <1>8, <1>9
<1>. QED  BY <1>1, <1>4, <1>6, <1>11, <1>17, <1>18, OneTransition

\* The transition goes on, and what it has to do with its subscription is in order.
LEMMA GoesOn ==
  ASSUME SubscriptionInv, NEW o \in Subscriptions!Ops, Live(o), Head(queue[op[o].uri]) = o, NEW u, u = op[o].uri, op[o].kind # "cleanup",
         NEW r \in Transitions, op' = [op EXCEPT ![o] = r], r.uri = u, r.pc \in {"routing", "asked", "flushing"},
         queue' = queue, news' = news, sub' = sub \/ sub' = [sub EXCEPT ![u] = o],
         leases \subseteq leases', leases' \subseteq leases \cup {o},
         UNCHANGED <<session, sweep, on>>,
         wire' = wire \/ \E m \in WireRequests : m.uri = op[o].uri /\ wire' = Append(wire, m),
         back' = back \/ (back # <<>> /\ Head(back).by = o /\ back' = Tail(back)),
         sub'[u] = o => ~r.stale, sub'[u] # o => sub' = sub,
         PhaseOf(o, u)', SubInv(u)', LeaseInv(u)', NewsInv(u)'
  PROVE  SubscriptionInv'
<1>1. /\ u \in Uris /\ queue[u] \in Seq(Subscriptions!Ops) /\ queue[u] # <<>> /\ SubTypes /\ UriInv(u)
      /\ \A p \in Subscriptions!Ops \ {o} : op[p].uri = u => op[p].pc \in {"queued", "done"}
  BY WhileRunning
<1>2. op[o] \in Transitions /\ o # None /\ op \in [Subscriptions!Ops -> Transitions] /\ sub \in [Uris -> Subscriptions!Ops \cup {None}]
  BY <1>1, ServerAssumption DEF SubTypes, Subscriptions!Ops
<1>3. op'[o] = r /\ (\A p \in Subscriptions!Ops \ {o} : op'[p] = op[p]) /\ op' \in [Subscriptions!Ops -> Transitions]
  BY <1>2
<1>4. sub' \in [Uris -> Subscriptions!Ops \cup {None}] /\ \A v \in Uris \ {u} : sub'[v] = sub[v]
  BY <1>1, <1>2
<1>5. back' \in Seq(Msgs) /\ \A i \in 1..Len(back') : back'[i].what = "updated" => back'[i].by = 0
  <2>1. CASE back' = back
    BY <1>1, <2>1 DEF SubTypes
  <2>2. CASE back # <<>> /\ Head(back).by = o /\ back' = Tail(back)
    BY <1>1, <2>2, Taking
  <2>. QED  BY <2>1, <2>2
<1>6. wire' \in Seq(WireRequests)
  <2>1. wire \in Seq(WireRequests)
    BY <1>1 DEF SubTypes
  <2>2. \A m \in WireRequests : Append(wire, m) \in Seq(WireRequests)
    BY <2>1
  <2>. QED  BY <2>1, <2>2
<1>7. SubTypes'
  BY <1>1, <1>3, <1>4, <1>5, <1>6 DEF SubTypes
<1>8. QueueInv(u)'
  BY <1>1, <1>3, QueueStays DEF UriInv
<1>9. PhaseInv(u)'
  <2>1. ASSUME NEW p \in Subscriptions!Ops \ {o}, op'[p].uri = u PROVE PhaseOf(p, u)'
    <3>1. op[p].uri = u /\ PhaseOf(p, u)
      BY <1>1, <1>3, <2>1 DEF UriInv, PhaseInv
    <3>2. op'[p] = op[p] /\ op[p].pc \in {"queued", "done"}
      BY <1>1, <1>3, <2>1, <3>1
    <3>3. op[p].of # None => op[p].of \in Subscriptions!Ops
      BY <1>2 DEF Transitions
    <3>4. op[p].of # None => op'[op[p].of].uri = u
      BY <1>3, <3>1, <3>3 DEF PhaseOf
    <3>. QED  BY <3>1, <3>2, <3>4 DEF PhaseOf
  <2>. QED  BY <2>1 DEF PhaseInv
<1>10. StaleInv(u)'
  <2>1. ASSUME sub'[u] # None, op'[sub'[u]].active, op'[sub'[u]].stale
        PROVE  sweep # None /\ \E c \in sweep : op'[c].uri = u /\ op'[c].pc = "queued" /\ op'[c].kind = "cleanup" /\ op'[c].of = sub'[u]
    <3>1. sub'[u] = sub[u] /\ sub[u] \in Subscriptions!Ops /\ sub[u] # o /\ op'[sub[u]] = op[sub[u]]
      BY <1>1, <1>2, <1>3, <1>4, <2>1
    <3>2. sweep # None
      BY <1>1, <2>1, <3>1 DEF UriInv, StaleInv
    <3>3. PICK c \in sweep : op[c].uri = u /\ op[c].pc = "queued" /\ op[c].kind = "cleanup" /\ op[c].of = sub[u]
      BY <1>1, <2>1, <3>1 DEF UriInv, StaleInv
    <3>4. c \in Subscriptions!Ops /\ c # o
      BY <1>1, <3>2, <3>3 DEF SubTypes
    <3>5. op'[c] = op[c]
      BY <1>3, <3>4
    <3>. QED  BY <3>1, <3>2, <3>3, <3>5
  <2>. QED  BY <2>1 DEF StaleInv
<1>11. UriInv(u)'
  BY <1>8, <1>9, <1>10 DEF UriInv
<1>12. \A p \in Subscriptions!Ops : op[p].uri # op[o].uri => (p \in leases' <=> p \in leases)
  OBVIOUS
<1>13. op'[o].uri = op[o].uri /\ UriInv(op[o].uri)' /\ op[o].uri \in Uris
  BY <1>1, <1>3, <1>11
<1>14. \A v \in Uris \ {op[o].uri} : queue'[v] = queue[v] /\ sub'[v] = sub[v] /\ (v \in news' => v \in news)
  BY <1>4
<1>. QED  BY <1>3, <1>7, <1>12, <1>13, <1>14, OneTransition

\* What a transition that runs may count on, besides.
LEMMA InHand ==
  ASSUME SubscriptionInv, NEW o \in Subscriptions!Ops, NEW pc, Subscriptions!Running(o, pc), pc \notin {"none", "done"}
  PROVE  LET u == op[o].uri IN
         /\ Live(o) /\ Head(queue[u]) = o /\ op[o].pc = pc /\ o # None /\ op[o] \in Transitions
         /\ op \in [Subscriptions!Ops -> Transitions] /\ sub[u] \in Subscriptions!Ops \cup {None} /\ sub \in [Uris -> Subscriptions!Ops \cup {None}] /\ leases \subseteq Subscriptions!Ops
         /\ wire \in Seq(WireRequests) /\ back \in Seq(Msgs) /\ session \in Nat
         /\ PhaseOf(o, u) /\ NewsInv(u) /\ SubInv(u) /\ LeaseInv(u) /\ StaleInv(u) /\ u \in Uris
         /\ \A p \in leases : op[p].uri = u => op[p].active
         /\ sub[u] # None => op[sub[u]].uri = u
<1>. DEFINE u == op[o].uri
<1>1. Live(o) /\ Head(queue[u]) = o /\ op[o].pc = pc
  BY DEF Subscriptions!Running, Live
<1>2. u \in Uris /\ SubTypes /\ UriInv(u)
  BY <1>1, WhileRunning
<1>3. o # None /\ op[o] \in Transitions /\ op \in [Subscriptions!Ops -> Transitions] /\ sub[u] \in Subscriptions!Ops \cup {None} /\ leases \subseteq Subscriptions!Ops
      /\ wire \in Seq(WireRequests) /\ back \in Seq(Msgs) /\ session \in Nat /\ sub \in [Uris -> Subscriptions!Ops \cup {None}]
  BY <1>2, ServerAssumption DEF SubTypes, Subscriptions!Ops
<1>4. PhaseOf(o, u) /\ NewsInv(u) /\ SubInv(u) /\ LeaseInv(u) /\ StaleInv(u)
  BY <1>2 DEF UriInv, PhaseInv
<1>5. \A p \in leases : op[p].uri = u => op[p].active
  BY <1>4 DEF LeaseInv
<1>6. sub[u] # None => op[sub[u]].uri = u
  BY <1>4 DEF SubInv
<1>. QED  BY <1>1, <1>2, <1>3, <1>4, <1>5, <1>6

\* It finds nothing to do, or is refused.
LEMMA JustEnds ==
  ASSUME SubscriptionInv, NEW o \in Subscriptions!Ops, NEW pc \in {"queued", "routing"}, Subscriptions!Running(o, pc), Subscriptions!End(o),
         op[o].kind = "cleanup" => op[o].of # sub[op[o].uri],
         UNCHANGED <<sub, leases, sweep, session, wire, back, on, news>>
  PROVE  SubscriptionInv'
<1>0. PICK u, s : u = op[o].uri /\ s = sub[u]
  OBVIOUS
<1>1. Live(o) /\ Head(queue[u]) = o /\ op[o].pc = pc
  BY <1>0, InHand
<1>2. /\ s # None /\ s # o => op[s].pc = "done" /\ op[s].active /\ s \in leases
      /\ s = o => op[o].pc \in {"asked", "flushing"}
      /\ op[o].pc # "asked" => (s # None <=> WillBeOn(u))
      /\ \A p \in leases : op[p].uri = u => s = p \/ (op[o].pc = "cleaning" /\ op[o].of = p)
  BY <1>0, <1>1, WhileRunning
<1>3. op' = [op EXCEPT ![o] = Subscriptions!Over(o)] /\ queue' = Subscriptions!Ahead(o)
  BY DEF Subscriptions!End
<1>4. /\ sub' = sub /\ leases' \subseteq leases /\ news' \subseteq news /\ back' = back /\ sub'[u] # o
      /\ \A p \in leases : op[p].uri # u => p \in leases'
      /\ \A p \in leases' : op[p].uri = u => sub'[u] = p
      /\ sub'[u] # None => sub'[u] \in leases' /\ WillBeOn(u)
      /\ sub'[u] = None => ~WillBeOn(u)
      /\ op[o].kind = "cleanup" => op[o].of # sub'[u]
  BY <1>0, <1>1, <1>2
<1>5. UNCHANGED <<session, sweep, on, wire>>
  OBVIOUS
<1>. QED  BY <1>0, <1>1, <1>3, <1>4, <1>5, OverStep

\* subscribeResourceOnce and unsubscribeResourceOnce begin.
LEMMA StartStep ==
  ASSUME SubscriptionInv, NEW o \in Subscriptions!Ops, Subscriptions!Start(o)
  PROVE  SubscriptionInv'
<1>0. PICK u, s : u = op[o].uri /\ s = sub[u]
  OBVIOUS
<1>1. Subscriptions!Running(o, "queued") /\ op[o].kind \in {"subscribe", "unsubscribe"}
      /\ UNCHANGED <<sub, leases, sweep, session, wire, back, on, news>>
  BY DEF Subscriptions!Start, Subscriptions!upstream
<1>2. /\ Live(o) /\ Head(queue[u]) = o /\ op[o].pc = "queued" /\ o # None /\ op[o] \in Transitions
      /\ op \in [Subscriptions!Ops -> Transitions] /\ s \in Subscriptions!Ops \cup {None} /\ leases \subseteq Subscriptions!Ops /\ session \in Nat
      /\ PhaseOf(o, u) /\ NewsInv(u) /\ SubInv(u) /\ LeaseInv(u) /\ u \in Uris
      /\ s # None => op[s].uri = u
  BY <1>0, <1>1, InHand
<1>3. /\ s # None /\ s # o => op[s].pc = "done" /\ op[s].active /\ s \in leases
      /\ s = o => op[o].pc \in {"asked", "flushing"}
      /\ s # None <=> WillBeOn(u)
      /\ \A p \in leases : op[p].uri = u => s = p
      /\ \A p \in Subscriptions!Ops \ {o} : op[p].uri = u => op[p].pc \in {"queued", "done"}
  BY <1>0, <1>2, WhileRunning
<1>4. s # o
  BY <1>2, <1>3
<1>5. CASE (op[o].kind = "subscribe") = (s # None)
  <2>1. Subscriptions!End(o) /\ op[o].kind # "cleanup"
    BY <1>0, <1>1, <1>5 DEF Subscriptions!Start
  <2>. QED  BY <1>1, <2>1, JustEnds
<1>6. CASE ~((op[o].kind = "subscribe") = (s # None))
  <2>. DEFINE r == [op[o] EXCEPT !.pc = "routing", !.of = s]
  <2>1. op' = [op EXCEPT ![o].pc = "routing", ![o].of = s] /\ queue' = queue
    BY <1>0, <1>6 DEF Subscriptions!Start
  <2>2. op' = [op EXCEPT ![o] = r]
    BY <2>1
  <2>3. /\ r \in Transitions /\ r.uri = u /\ r.pc = "routing" /\ r.of = s /\ r.kind = op[o].kind
        /\ r.active = op[o].active /\ r.session = op[o].session
    BY <1>0, <1>2 DEF Transitions, Steppings
  <2>. HIDE DEF r
  <2>4. op'[o] = r /\ \A p \in Subscriptions!Ops \ {o} : op'[p] = op[p]
    BY <1>2, <2>2
  <2>5. op[o].kind = "subscribe" => s = None
    BY <1>6
  <2>6. op[o].kind = "unsubscribe" => s # None
    BY <1>6
  <2>7. ~op[o].active
    BY <1>2 DEF PhaseOf
  <2>8. PhaseOf(o, u)'
    <3>1. s # None => op'[s].uri = u
      BY <1>2, <1>4, <2>4
    <3>. QED  BY <1>0, <1>1, <1>2, <2>3, <2>4, <2>5, <2>6, <2>7, <3>1 DEF PhaseOf
  <2>9. WillBeOn(u)' <=> WillBeOn(u)
    BY <1>1 DEF WillBeOn
  <2>10. s # None => op'[s] = op[s]
    BY <1>2, <1>4, <2>4
  <2>11. SubInv(u)'
    BY <1>0, <1>1, <1>2, <1>3, <1>4, <2>9, <2>10 DEF SubInv
  <2>12. LeaseInv(u)'
    <3>1. ASSUME NEW p \in leases', op'[p].uri = u PROVE op'[p].active /\ s = p
      <4>1. p \in Subscriptions!Ops /\ p \in leases
        BY <1>1, <1>2, <3>1
      <4>2. op[p].uri = u
        BY <1>0, <2>3, <2>4, <3>1, <4>1
      <4>3. op[p].active /\ s = p
        BY <1>2, <1>3, <4>1, <4>2 DEF LeaseInv
      <4>. QED  BY <2>3, <2>4, <4>1, <4>3
    <3>. QED  BY <1>0, <1>1, <3>1 DEF LeaseInv
  <2>13. NewsInv(u)'
    BY <1>0, <1>1, <1>2, <2>10 DEF NewsInv
  <2>14. op[o].kind # "cleanup"
    BY <1>1
  <2>. QED  BY <1>0, <1>1, <1>2, <1>4, <2>1, <2>2, <2>3, <2>8, <2>11, <2>12, <2>13, <2>14, GoesOn
<1>. QED  BY <1>5, <1>6

\* The pipeline refuses, or the client has cancelled.
LEMMA RefusedStep ==
  ASSUME SubscriptionInv, NEW o \in Subscriptions!Ops, Subscriptions!Refused(o)
  PROVE  SubscriptionInv'
<1>1. Subscriptions!Running(o, "routing") /\ Subscriptions!End(o) /\ UNCHANGED <<sub, leases, sweep, session, wire, back, on, news>>
  BY DEF Subscriptions!Refused, Subscriptions!upstream
<1>2. op[o].kind # "cleanup"
  BY <1>1, InHand DEF PhaseOf
<1>. QED  BY <1>1, <1>2, JustEnds

\* The upstream is asked: what it will be subscribed to follows the request.
LEMMA ExecuteStep ==
  ASSUME SubscriptionInv, NEW o \in Subscriptions!Ops, Subscriptions!Execute(o)
  PROVE  SubscriptionInv'
<1>0. PICK u, s : u = op[o].uri /\ s = sub[u]
  OBVIOUS
<1>1. Subscriptions!Running(o, "routing") /\ UNCHANGED <<leases, sweep, session, back, on, news>>
  BY DEF Subscriptions!Execute
<1>2. /\ Live(o) /\ Head(queue[u]) = o /\ op[o].pc = "routing" /\ o # None /\ op[o] \in Transitions
      /\ op \in [Subscriptions!Ops -> Transitions] /\ sub \in [Uris -> Subscriptions!Ops \cup {None}] /\ s \in Subscriptions!Ops \cup {None} /\ leases \subseteq Subscriptions!Ops
      /\ session \in Nat /\ PhaseOf(o, u) /\ NewsInv(u) /\ SubInv(u) /\ LeaseInv(u) /\ u \in Uris /\ wire \in Seq(WireRequests)
      /\ s # None => op[s].uri = u
  BY <1>0, <1>1, InHand
<1>3. /\ s # None /\ s # o => op[s].pc = "done" /\ op[s].active /\ s \in leases
      /\ s = o => op[o].pc \in {"asked", "flushing"}
      /\ s # None <=> WillBeOn(u)
      /\ \A p \in leases : op[p].uri = u => s = p
      /\ \A p \in Subscriptions!Ops \ {o} : op[p].uri = u => op[p].pc \in {"queued", "done"}
      /\ SubTypes
  BY <1>0, <1>2, WhileRunning
<1>4. s # o /\ op[o].kind \in {"subscribe", "unsubscribe"} /\ ~op[o].active
  BY <1>2, <1>3 DEF PhaseOf, Transitions
<1>5. CASE op[o].kind = "subscribe" /\ ~Subscriptions!EpochIsCurrent(o)
  <2>1. Subscriptions!End(o) /\ UNCHANGED <<sub, wire>> /\ op[o].kind # "cleanup"
    BY <1>4, <1>5 DEF Subscriptions!Execute
  <2>. QED  BY <1>1, <2>1, JustEnds
<1>6. CASE ~(op[o].kind = "subscribe" /\ ~Subscriptions!EpochIsCurrent(o))
  <2>. DEFINE r == [op[o] EXCEPT !.pc = "asked", !.session = session]
              m == [by |-> o, what |-> op[o].kind, uri |-> u]
  <2>1. /\ op' = [op EXCEPT ![o].pc = "asked", ![o].session = session] /\ queue' = queue
        /\ sub' = IF op[o].kind = "subscribe" THEN [sub EXCEPT ![u] = o] ELSE sub
        /\ wire' = Append(wire, m)
    BY <1>0, <1>6 DEF Subscriptions!Execute, Subscriptions!Send, Subscriptions!Request
  <2>2. op' = [op EXCEPT ![o] = r]
    BY <2>1
  <2>3. /\ r \in Transitions /\ r.uri = u /\ r.pc = "asked" /\ r.of = op[o].of /\ r.kind = op[o].kind
        /\ r.active = op[o].active /\ r.session = session /\ r.stale = op[o].stale
    BY <1>0, <1>2 DEF Transitions, Steppings
  <2>4. m \in WireRequests /\ m.uri = u /\ m.what = op[o].kind
    BY <1>2, <1>4 DEF WireRequests
  <2>. HIDE DEF r, m
  <2>5. op'[o] = r /\ \A p \in Subscriptions!Ops \ {o} : op'[p] = op[p]
    BY <1>2, <2>2
  <2>6. WillBeOn(u)' <=> op[o].kind = "subscribe"
    BY <1>1, <1>2, <2>1, <2>4, Sending DEF WillBeOn
  <2>7. Clears(wire, u) => Clears(wire, u)'
    BY <1>2, <2>1, <2>4, Sending
  <2>8. sub'[u] = IF op[o].kind = "subscribe" THEN o ELSE s
    BY <1>0, <1>2, <2>1
  <2>9. op[o].kind = "subscribe" => s = None /\ ~op[o].stale
    BY <1>0, <1>2, <1>6 DEF PhaseOf, Subscriptions!EpochIsCurrent
  <2>10. op[o].kind = "unsubscribe" => op[o].of # None /\ s \in {op[o].of, None}
    BY <1>0, <1>2 DEF PhaseOf
  <2>11. op[o].of # None => op'[op[o].of].uri = u
    <3>1. op[o].of # None => op[o].of \in Subscriptions!Ops /\ op[op[o].of].uri = u
      BY <1>2 DEF PhaseOf, Transitions
    <3>. QED  BY <2>3, <2>5, <3>1
  <2>12. PhaseOf(o, u)'
    BY <1>0, <1>1, <1>2, <1>4, <2>3, <2>5, <2>6, <2>8, <2>9, <2>10, <2>11 DEF PhaseOf
  <2>13. s # None => op'[s] = op[s]
    BY <1>2, <1>4, <2>5
  <2>14. SubInv(u)'
    <3>1. CASE op[o].kind = "subscribe"
      <4>1. sub'[u] = o
        BY <2>8, <3>1
      <4>. QED  BY <1>1, <1>2, <1>4, <2>3, <2>5, <2>6, <3>1, <4>1 DEF SubInv
    <3>2. CASE op[o].kind = "unsubscribe"
      <4>1. sub'[u] = s /\ ~WillBeOn(u)'
        BY <2>6, <2>8, <3>2
      <4>2. HasAsked(o, "unsubscribe", u)'
        BY <2>3, <2>5, <3>2 DEF HasAsked
      <4>. QED  BY <1>0, <1>1, <1>2, <1>3, <1>4, <2>13, <4>1, <4>2 DEF SubInv
    <3>. QED  BY <1>4, <3>1, <3>2
  <2>15. LeaseInv(u)'
    <3>1. ASSUME NEW p \in leases', op'[p].uri = u PROVE op'[p].active /\ sub'[u] = p
      <4>1. p \in Subscriptions!Ops /\ p \in leases
        BY <1>1, <1>2, <3>1
      <4>2. op[p].uri = u
        BY <1>0, <2>3, <2>5, <3>1, <4>1
      <4>3. op[p].active /\ s = p
        BY <1>2, <1>3, <4>1, <4>2 DEF LeaseInv
      <4>4. s # None
        BY <1>0, <4>1, <4>3, ServerAssumption DEF Subscriptions!Ops
      <4>. QED  BY <1>4, <2>5, <2>8, <2>9, <4>1, <4>3, <4>4
    <3>. QED  BY <1>1, <3>1 DEF LeaseInv
  <2>16. NewsInv(u)'
    <3>1. CASE op[o].kind = "subscribe"
      <4>1. u \in news => Clears(wire, u)
        <5>1. u \in news => u \in on
          BY <1>3 DEF SubTypes
        <5>2. ~WillBeOn(u)
          BY <1>3, <2>9, <3>1
        <5>. QED  BY <1>2, <5>1, <5>2, NotForLong DEF WillBeOn
      <4>2. sub'[u] = o /\ op'[o].pc = "asked"
        BY <2>3, <2>5, <2>8, <3>1
      <4>. QED  BY <1>1, <2>7, <4>1, <4>2 DEF NewsInv
    <3>2. CASE op[o].kind = "unsubscribe"
      <4>1. sub'[u] = s
        BY <2>8, <3>2
      <4>. QED  BY <1>0, <1>1, <1>2, <2>7, <2>13, <4>1 DEF NewsInv
    <3>. QED  BY <1>4, <3>1, <3>2
  <2>17. sub' = sub \/ sub' = [sub EXCEPT ![u] = o]
    BY <2>1
  <2>18. (sub'[u] = o => ~r.stale) /\ (sub'[u] # o => sub' = sub)
    BY <1>2, <1>4, <2>1, <2>3, <2>8, <2>9
  <2>19. wire' = wire \/ \E x \in WireRequests : x.uri = op[o].uri /\ wire' = Append(wire, x)
    BY <1>0, <2>1, <2>4
  <2>20. op[o].kind # "cleanup" /\ queue' = queue /\ leases \subseteq leases' /\ leases' \subseteq leases \cup {o}
         /\ UNCHANGED <<session, sweep, on>> /\ back' = back /\ news' = news
    BY <1>1, <1>4, <2>1
  <2>. QED  BY <1>0, <1>2, <2>2, <2>3, <2>12, <2>14, <2>15, <2>16, <2>17, <2>18, <2>19, <2>20, GoesOn
<1>. QED  BY <1>5, <1>6

\* The upstream has subscribed.
LEMMA SubscribedStep ==
  ASSUME SubscriptionInv, NEW o \in Subscriptions!Ops, Subscriptions!Subscribed(o)
  PROVE  SubscriptionInv'
<1>0. PICK u, s : u = op[o].uri /\ s = sub[u]
  OBVIOUS
<1>1. /\ Subscriptions!Running(o, "asked") /\ UNCHANGED <<sub, queue, sweep, session, on, news>> /\ op[o].kind = "subscribe"
      /\ back # <<>> /\ Head(back).by = o /\ back' = Tail(back)
  BY DEF Subscriptions!Subscribed, Subscriptions!Answered
<1>2. /\ Live(o) /\ Head(queue[u]) = o /\ op[o].pc = "asked" /\ o # None /\ op[o] \in Transitions
      /\ op \in [Subscriptions!Ops -> Transitions] /\ leases \subseteq Subscriptions!Ops
      /\ PhaseOf(o, u) /\ NewsInv(u) /\ SubInv(u) /\ LeaseInv(u) /\ u \in Uris
  BY <1>0, <1>1, InHand
<1>3. /\ \A p \in leases : op[p].uri = u => s = p
      /\ \A p \in Subscriptions!Ops \ {o} : op[p].uri = u => op[p].pc \in {"queued", "done"}
      /\ SubTypes
  BY <1>0, <1>2, WhileRunning
<1>4. s \in {o, None} /\ (op[o].stale => s = None) /\ (op[o].session # session => ~WillBeOn(u))
  BY <1>0, <1>1, <1>2 DEF PhaseOf
<1>5. CASE s # o
  <2>1. Subscriptions!Cleanup(o, o) /\ UNCHANGED leases
    BY <1>0, <1>5 DEF Subscriptions!Subscribed
  <2>2. \A p \in leases : op[p].uri = u => p = o
    BY <1>2, <1>3, <1>4, <1>5, ServerAssumption DEF Subscriptions!Ops
  <2>3. sub'[u] = None /\ sub' = sub
    BY <1>0, <1>1, <1>4, <1>5
  <2>4. UNCHANGED <<session, sweep, on>> /\ queue' = queue /\ leases' = leases /\ news' = news
    BY <1>1, <2>1
  <2>5. back' = back \/ (back # <<>> /\ Head(back).by = o /\ back' = Tail(back))
    BY <1>1
  <2>. QED  BY <1>0, <1>2, <1>4, <2>1, <2>2, <2>3, <2>4, <2>5, CleanStep
<1>6. CASE s = o
  <2>. DEFINE r == [op[o] EXCEPT !.pc = "flushing", !.active = TRUE]
  <2>1. leases' = leases \cup {o} /\ op' = [op EXCEPT ![o].pc = "flushing", ![o].active = TRUE] /\ UNCHANGED wire
    BY <1>0, <1>6 DEF Subscriptions!Subscribed
  <2>2. op' = [op EXCEPT ![o] = r]
    BY <2>1
  <2>3. /\ r \in Transitions /\ r.uri = u /\ r.pc = "flushing" /\ r.of = op[o].of /\ r.kind = "subscribe"
        /\ r.active = TRUE /\ r.session = op[o].session /\ r.stale = op[o].stale /\ r.pending = op[o].pending
    BY <1>0, <1>1, <1>2 DEF Transitions, Steppings
  <2>. HIDE DEF r
  <2>4. op'[o] = r /\ \A p \in Subscriptions!Ops \ {o} : op'[p] = op[p]
    BY <1>2, <2>2
  <2>5. op[o].of # None => op'[op[o].of].uri = u
    <3>1. op[o].of # None => op[o].of \in Subscriptions!Ops /\ op[op[o].of].uri = u
      BY <1>2 DEF PhaseOf, Transitions
    <3>. QED  BY <2>3, <2>4, <3>1
  <2>6. PhaseOf(o, u)'
    BY <1>1, <1>2, <2>3, <2>4, <2>5 DEF PhaseOf
  <2>7. WillBeOn(u)
    <3>1. \A p \in Subscriptions!Ops : ~HasAsked(p, "unsubscribe", u)
      BY <1>1, <1>3 DEF HasAsked
    <3>. QED  BY <1>0, <1>2, <1>6, <3>1 DEF SubInv
  <2>8. SubInv(u)'
    <3>1. WillBeOn(u)'
      BY <1>1, <2>1, <2>7 DEF WillBeOn
    <3>2. sub'[u] = o /\ op[o].session = session
      BY <1>0, <1>1, <1>2, <1>6 DEF SubInv
    <3>. QED  BY <1>1, <1>2, <2>1, <2>3, <2>4, <3>1, <3>2 DEF SubInv
  <2>9. LeaseInv(u)'
    <3>1. ASSUME NEW p \in leases', op'[p].uri = u PROVE op'[p].active /\ sub'[u] = p
      <4>1. p = o
        BY <1>2, <1>3, <1>6, <2>1, <2>4, <3>1
      <4>. QED  BY <1>0, <1>1, <1>6, <2>3, <2>4, <4>1
    <3>. QED  BY <3>1 DEF LeaseInv
  <2>10. NewsInv(u)'
    <3>1. Tells(back, u) => Tells(back, u)'
      <4>1. Head(back).what # "updated"
        BY <1>1, <1>3, Taking, ServerAssumption DEF Subscriptions!Ops
      <4>. QED  BY <1>1, <1>3, <4>1, Taking
    <3>2. sub'[u] = o /\ sub[u] = o /\ o # None /\ news' = news /\ wire' = wire
      BY <1>0, <1>1, <1>2, <1>6, <2>1
    <3>. QED  BY <1>2, <2>3, <2>4, <3>1, <3>2 DEF NewsInv
  <2>11. sub' = sub /\ (sub'[u] = o => ~r.stale) /\ leases \subseteq leases' /\ leases' \subseteq leases \cup {o}
         /\ queue' = queue /\ news' = news /\ wire' = wire /\ op[o].kind # "cleanup" /\ UNCHANGED <<session, sweep, on>>
    BY <1>1, <1>2, <1>4, <1>6, <2>1, <2>3
  <2>12. back' = back \/ (back # <<>> /\ Head(back).by = o /\ back' = Tail(back))
    BY <1>1
  <2>. QED  BY <1>0, <1>2, <2>2, <2>3, <2>6, <2>8, <2>9, <2>10, <2>11, <2>12, GoesOn
<1>. QED  BY <1>5, <1>6

\* The notifications that waited are out.
LEMMA FlushedStep ==
  ASSUME SubscriptionInv, NEW o \in Subscriptions!Ops, Subscriptions!Flushed(o)
  PROVE  SubscriptionInv'
<1>0. PICK u, s : u = op[o].uri /\ s = sub[u]
  OBVIOUS
<1>1. /\ Subscriptions!Running(o, "flushing") /\ UNCHANGED <<sub, leases, sweep, session, wire, back, on>>
      /\ op' = [op EXCEPT ![o] = [Subscriptions!Over(o) EXCEPT !.pending = 0]] /\ queue' = Subscriptions!Ahead(o)
      /\ news' = IF op[o].pending > 0 THEN news \ {u} ELSE news
  BY <1>0 DEF Subscriptions!Flushed, Subscriptions!Flush, Subscriptions!upstream
<1>2. /\ Live(o) /\ Head(queue[u]) = o /\ op[o].pc = "flushing" /\ o # None /\ op[o] \in Transitions
      /\ op \in [Subscriptions!Ops -> Transitions] /\ SubInv(u) /\ u \in Uris
  BY <1>0, <1>1, InHand
<1>3. /\ s # None /\ s # o => s \in leases
      /\ s # None <=> WillBeOn(u)
      /\ \A p \in leases : op[p].uri = u => s = p
  BY <1>0, <1>2, WhileRunning
<1>4. s = o => o \in leases
  BY <1>0, <1>2 DEF SubInv
<1>5. op'[o].pending = 0
  BY <1>1, <1>2 DEF Subscriptions!Over, Transitions
<1>6. u \in news' => op[o].pending = 0
  BY <1>1, <1>2 DEF Transitions
<1>7. /\ sub' = sub /\ leases' \subseteq leases /\ news' \subseteq news /\ back' = back
      /\ \A p \in leases : op[p].uri # u => p \in leases'
      /\ \A p \in leases' : op[p].uri = u => sub'[u] = p
      /\ sub'[u] # None => sub'[u] \in leases' /\ WillBeOn(u)
      /\ sub'[u] = None => ~WillBeOn(u)
  BY <1>0, <1>1, <1>3, <1>4
<1>8. UNCHANGED <<session, sweep, on, wire>>
  BY <1>1
<1>. QED  BY <1>0, <1>1, <1>2, <1>5, <1>6, <1>7, <1>8, OverStep

\* The subscribe is given up, and what may come of it is cleaned up.
LEMMA SubscribeFailsStep ==
  ASSUME SubscriptionInv, NEW o \in Subscriptions!Ops, Subscriptions!SubscribeFails(o)
  PROVE  SubscriptionInv'
<1>0. PICK u, s : u = op[o].uri /\ s = sub[u]
  OBVIOUS
<1>1. /\ Subscriptions!Running(o, "asked") /\ UNCHANGED <<queue, leases, sweep, session, back, on, news>> /\ op[o].kind = "subscribe"
      /\ sub' = [sub EXCEPT ![u] = IF @ = o THEN None ELSE @] /\ Subscriptions!Cleanup(o, o)
  BY <1>0 DEF Subscriptions!SubscribeFails, Subscriptions!Abandon
<1>2. /\ Live(o) /\ Head(queue[u]) = o /\ op[o].pc = "asked" /\ o # None
      /\ sub \in [Uris -> Subscriptions!Ops \cup {None}] /\ leases \subseteq Subscriptions!Ops /\ PhaseOf(o, u) /\ u \in Uris
  BY <1>0, <1>1, InHand
<1>3. s \in {o, None} /\ (op[o].session # session => ~WillBeOn(u))
  BY <1>0, <1>1, <1>2 DEF PhaseOf
<1>4. \A p \in leases : op[p].uri = u => s = p
  BY <1>0, <1>2, WhileRunning
<1>5. \A p \in leases : op[p].uri = u => p = o
  BY <1>2, <1>3, <1>4, ServerAssumption DEF Subscriptions!Ops
<1>6. sub'[u] = None /\ (sub' = sub \/ sub' = [sub EXCEPT ![u] = None])
  BY <1>0, <1>1, <1>2, <1>3
<1>7. UNCHANGED <<session, sweep, on>> /\ queue' = queue /\ leases' = leases /\ news' = news /\ back' = back
  BY <1>1
<1>8. Subscriptions!Cleanup(o, o) /\ op[o].pc \in {"asked", "queued"} /\ op[o].uri = u /\ Live(o) /\ Head(queue[op[o].uri]) = o
  BY <1>0, <1>1, <1>2
<1>. QED  BY <1>0, <1>3, <1>5, <1>6, <1>7, <1>8, CleanStep

\* It ends with nothing subscribed: its request has undone what there was.
LEMMA EndsWithNothing ==
  ASSUME SubscriptionInv, NEW o \in Subscriptions!Ops, NEW pc \in {"asked", "cleaning"}, Subscriptions!Running(o, pc), Subscriptions!End(o), NEW u, u = op[o].uri,
         sub' = sub \/ sub' = [sub EXCEPT ![u] = None], sub'[u] = None, ~WillBeOn(u),
         leases' = leases \/ (leases' = leases \ {op[o].of} /\ op[o].of # None),
         \A p \in leases : op[p].uri = u => p \notin leases',
         UNCHANGED <<session, sweep, wire, on, news>>,
         back' = back \/ (back # <<>> /\ Head(back).by = o /\ back' = Tail(back))
  PROVE  SubscriptionInv'
<1>1. /\ Live(o) /\ Head(queue[u]) = o /\ op[o].pc = pc /\ o # None /\ op[o] \in Transitions /\ PhaseOf(o, u)
  BY InHand
<1>2. op' = [op EXCEPT ![o] = Subscriptions!Over(o)] /\ queue' = Subscriptions!Ahead(o)
  BY DEF Subscriptions!End
<1>3. op[o].of # None => op[op[o].of].uri = u
  BY <1>1 DEF PhaseOf
<1>4. /\ leases' \subseteq leases /\ news' \subseteq news
      /\ \A p \in leases : op[p].uri # u => p \in leases'
      /\ \A p \in leases' : op[p].uri = u => sub'[u] = p
      /\ ~(op[o].pc = "queued") /\ sub'[u] # o
  BY <1>1, <1>3
<1>. QED  BY <1>1, <1>2, <1>4, OverStep

\* An unsubscribe is cancelled before the upstream was asked.
LEMMA NeverAskedStep ==
  ASSUME SubscriptionInv, NEW o \in Subscriptions!Ops, Subscriptions!UnsubscribeCancelled(o), Subscriptions!Running(o, "routing")
  PROVE  SubscriptionInv'
<1>0. PICK u, s : u = op[o].uri /\ s = sub[u]
  OBVIOUS
<1>1. UNCHANGED <<leases, sweep, session, back, on, news>> /\ op[o].kind = "unsubscribe"
  BY DEF Subscriptions!UnsubscribeCancelled
<1>2. /\ Live(o) /\ Head(queue[u]) = o /\ op[o].pc = "routing" /\ op[o] \in Transitions
      /\ sub \in [Uris -> Subscriptions!Ops \cup {None}] /\ PhaseOf(o, u) /\ SubInv(u) /\ u \in Uris
  BY <1>0, InHand
<1>3. op[o].of # None /\ s \in {op[o].of, None} /\ op[op[o].of].uri = u /\ op[o].of \in Subscriptions!Ops
  BY <1>0, <1>1, <1>2 DEF PhaseOf, Transitions
<1>4. CASE s = op[o].of
  <2>1. sub' = [sub EXCEPT ![u] = None] /\ Subscriptions!Cleanup(o, s) /\ queue' = queue
    BY <1>0, <1>4 DEF Subscriptions!UnsubscribeCancelled
  <2>2. \A p \in leases : op[p].uri = u => p = s
    BY <1>0, <1>2, WhileRunning
  <2>3. sub'[u] = None /\ op[s].session = session
    BY <1>0, <1>2, <1>3, <1>4, <2>1 DEF SubInv
  <2>4. UNCHANGED <<session, sweep, on>> /\ leases' = leases /\ news' = news /\ back' = back
    BY <1>1
  <2>5. op[o].pc \in {"routing", "asked", "queued"} /\ u = op[o].uri /\ Live(o) /\ Head(queue[op[o].uri]) = o
    BY <1>0, <1>2
  <2>6. s \in Subscriptions!Ops /\ op[s].uri = u /\ (op[s].session # session => ~WillBeOn(u))
    BY <1>3, <1>4, <2>3
  <2>. QED  BY <2>1, <2>2, <2>3, <2>4, <2>5, <2>6, CleanStep
<1>5. CASE s # op[o].of
  <2>1. Subscriptions!End(o) /\ sub' = sub /\ wire' = wire
    BY <1>0, <1>5 DEF Subscriptions!UnsubscribeCancelled
  <2>. QED  BY <1>1, <2>1, JustEnds
<1>. QED  BY <1>4, <1>5

\* An unsubscribe is answered, cancelled or overtaken by the end of the session.
LEMMA UnsubscribesStep ==
  ASSUME SubscriptionInv, NEW o \in Subscriptions!Ops,
         \/ Subscriptions!Unsubscribed(o) \/ Subscriptions!UnsubscribeFails(o)
         \/ Subscriptions!UnsubscribeCancelled(o) /\ Subscriptions!Running(o, "asked")
  PROVE  SubscriptionInv'
<1>0. PICK u, s : u = op[o].uri /\ s = sub[u]
  OBVIOUS
<1>1. Subscriptions!Running(o, "asked") /\ UNCHANGED <<sweep, session, on, news>> /\ op[o].kind = "unsubscribe"
  BY DEF Subscriptions!Unsubscribed, Subscriptions!UnsubscribeCancelled, Subscriptions!UnsubscribeFails, Subscriptions!upstream
<1>2. /\ Live(o) /\ Head(queue[u]) = o /\ op[o].pc = "asked" /\ o # None /\ op[o] \in Transitions
      /\ sub \in [Uris -> Subscriptions!Ops \cup {None}] /\ leases \subseteq Subscriptions!Ops /\ PhaseOf(o, u) /\ u \in Uris
  BY <1>0, <1>1, InHand
<1>3. op[o].of # None /\ s \in {op[o].of, None} /\ ~WillBeOn(u) /\ (op[o].session # session => s = None)
      /\ op[op[o].of].uri = u /\ op[o].of \in Subscriptions!Ops
  BY <1>0, <1>1, <1>2 DEF PhaseOf, Transitions
<1>4. \A p \in leases : op[p].uri = u => s = p /\ p # None
  <2>1. \A p \in leases : op[p].uri = u => s = p
    BY <1>0, <1>2, WhileRunning
  <2>. QED  BY <1>2, <2>1, ServerAssumption DEF Subscriptions!Ops
<1>5. CASE Subscriptions!Unsubscribed(o)
  <2>1. /\ sub' = [sub EXCEPT ![u] = None] /\ leases' = leases \ {op[o].of} /\ Subscriptions!End(o) /\ wire' = wire
        /\ back # <<>> /\ Head(back).by = o /\ back' = Tail(back)
    BY <1>0, <1>5 DEF Subscriptions!Unsubscribed, Subscriptions!Answered, Subscriptions!Release
  <2>2. sub'[u] = None /\ \A p \in leases : op[p].uri = u => p \notin leases'
    BY <1>2, <1>3, <1>4, <2>1
  <2>3. UNCHANGED <<session, sweep, wire, on, news>>
    BY <1>1, <2>1
  <2>. QED  BY <1>0, <1>1, <1>3, <2>1, <2>2, <2>3, EndsWithNothing
<1>6. CASE Subscriptions!UnsubscribeCancelled(o) /\ s = op[o].of
  <2>1. sub' = [sub EXCEPT ![u] = None] /\ Subscriptions!Cleanup(o, op[o].of) /\ UNCHANGED <<queue, leases, back>>
    BY <1>0, <1>6 DEF Subscriptions!UnsubscribeCancelled
  <2>2. sub'[u] = None /\ \A p \in leases : op[p].uri = u => p = op[o].of
    BY <1>2, <1>4, <1>6, <2>1
  <2>3. UNCHANGED <<session, sweep, on>> /\ queue' = queue /\ leases' = leases /\ news' = news /\ back' = back
    BY <1>1, <2>1
  <2>4. op[o].pc \in {"asked", "queued"} /\ op[o].uri = u /\ Live(o) /\ Head(queue[op[o].uri]) = o
    BY <1>0, <1>2
  <2>. QED  BY <1>3, <2>1, <2>2, <2>3, <2>4, CleanStep
<1>7. CASE Subscriptions!UnsubscribeFails(o) \/ (Subscriptions!UnsubscribeCancelled(o) /\ s # op[o].of)
  <2>1. s = None
    BY <1>3, <1>7 DEF Subscriptions!UnsubscribeFails
  <2>2. Subscriptions!End(o) /\ sub' = sub /\ leases' = leases /\ wire' = wire /\ back' = back
    BY <1>0, <1>7 DEF Subscriptions!UnsubscribeFails, Subscriptions!UnsubscribeCancelled, Subscriptions!upstream
  <2>3. sub'[u] = None /\ \A p \in leases : op[p].uri = u => p \notin leases'
    BY <1>0, <1>4, <2>1, <2>2
  <2>4. UNCHANGED <<session, sweep, wire, on, news>>
    BY <1>1, <2>2
  <2>. QED  BY <1>0, <1>1, <1>3, <2>2, <2>3, <2>4, EndsWithNothing
<1>. QED  BY <1>5, <1>6, <1>7

\* The cleanup of a sweep has its turn.
LEMMA SweepOneStep ==
  ASSUME SubscriptionInv, NEW o \in Subscriptions!Ops, Subscriptions!SweepOne(o)
  PROVE  SubscriptionInv'
<1>0. PICK u, s : u = op[o].uri /\ s = sub[u]
  OBVIOUS
<1>1. Subscriptions!Running(o, "queued") /\ UNCHANGED <<leases, sweep, session, back, on, news>> /\ op[o].kind = "cleanup"
  BY DEF Subscriptions!SweepOne
<1>2. /\ Live(o) /\ Head(queue[u]) = o /\ op[o].pc = "queued" /\ o # None /\ op[o] \in Transitions
      /\ sub \in [Uris -> Subscriptions!Ops \cup {None}] /\ leases \subseteq Subscriptions!Ops /\ PhaseOf(o, u) /\ SubInv(u) /\ u \in Uris
  BY <1>0, <1>1, InHand
<1>3. op[o].of # None /\ op[op[o].of].uri = u /\ op[o].of \in Subscriptions!Ops
  BY <1>1, <1>2 DEF PhaseOf, Transitions
<1>4. \A p \in leases : op[p].uri = u => s = p
  BY <1>0, <1>2, WhileRunning
<1>5. CASE s # op[o].of
  <2>1. Subscriptions!End(o) /\ UNCHANGED <<sub, wire>>
    BY <1>0, <1>5 DEF Subscriptions!SweepOne
  <2>. QED  BY <1>0, <1>1, <1>5, <2>1, JustEnds
<1>6. CASE s = op[o].of
  <2>1. sub' = [sub EXCEPT ![u] = None] /\ Subscriptions!Cleanup(o, op[o].of) /\ UNCHANGED queue
    BY <1>0, <1>6 DEF Subscriptions!SweepOne
  <2>2. sub'[u] = None /\ \A p \in leases : op[p].uri = u => p = op[o].of
    BY <1>2, <1>4, <1>6, <2>1
  <2>3. UNCHANGED <<session, sweep, on>> /\ queue' = queue /\ leases' = leases /\ news' = news /\ back' = back
    BY <1>1, <2>1
  <2>4. op[o].pc \in {"asked", "queued"} /\ op[o].uri = u /\ Live(o) /\ Head(queue[op[o].uri]) = o
    BY <1>0, <1>2
  <2>5. op[op[o].of].session = session
    BY <1>0, <1>2, <1>3, <1>6 DEF SubInv
  <2>. QED  BY <1>3, <2>1, <2>2, <2>3, <2>4, <2>5, CleanStep
<1>. QED  BY <1>5, <1>6

\* A cleanup is over, with the lease.
LEMMA CleanedUpStep ==
  ASSUME SubscriptionInv, NEW o \in Subscriptions!Ops, Subscriptions!CleanedUp(o)
  PROVE  SubscriptionInv'
<1>0. PICK u, s : u = op[o].uri /\ s = sub[u]
  OBVIOUS
<1>1. /\ Subscriptions!Running(o, "cleaning") /\ UNCHANGED <<sub, sweep, session, wire, on, news>> /\ Subscriptions!End(o) /\ leases' = leases \ {op[o].of}
      /\ back' = back \/ (back # <<>> /\ Head(back).by = o /\ back' = Tail(back))
  BY DEF Subscriptions!CleanedUp, Subscriptions!Answered, Subscriptions!Release
<1>2. Live(o) /\ Head(queue[u]) = o /\ op[o].pc = "cleaning" /\ leases \subseteq Subscriptions!Ops /\ PhaseOf(o, u)
  BY <1>0, <1>1, InHand
<1>3. op[o].of # None /\ s = None /\ ~WillBeOn(u)
  BY <1>0, <1>2 DEF PhaseOf
<1>4. \A p \in leases : op[p].uri = u => p \notin leases'
  <2>1. \A p \in leases : op[p].uri = u => s = p \/ op[o].of = p
    BY <1>0, <1>2, WhileRunning
  <2>. QED  BY <1>1, <1>2, <1>3, <2>1, ServerAssumption DEF Subscriptions!Ops
<1>5. sub' = sub /\ sub'[u] = None /\ UNCHANGED <<session, sweep, wire, on, news>>
  BY <1>0, <1>1, <1>3
<1>. QED  BY <1>0, <1>1, <1>3, <1>4, <1>5, EndsWithNothing

-----------------------------------------------------------------------------
(* The upstream and what it says.                                          *)

\* No transition moves.
LEMMA NobodyMoves ==
  ASSUME SubscriptionInv, SubTypes', UNCHANGED <<queue, sub, leases, session, sweep>>, \A o \in Subscriptions!Ops : Alike(o),
         \A v \in Uris : (WillBeOn(v)' <=> WillBeOn(v)) /\ NewsInv(v)'
  PROVE  SubscriptionInv'
<1>1. ASSUME NEW v \in Uris PROVE UriInv(v)'
  <2>1. SameFor(v) /\ NewsInv(v)'
    BY DEF SameFor
  <2>. QED  BY <2>1, OthersStay DEF SubscriptionInv
<1>2. ASSUME NEW o \in Subscriptions!Ops PROVE op'[o].uri \in Uris \/ (op'[o].pc = "none" /\ o \notin leases')
  BY DEF SubscriptionInv, Alike
<1>. QED  BY <1>1, <1>2 DEF SubscriptionInv

\* An answer nobody waits for.
LEMMA LateStep ==
  ASSUME SubscriptionInv, Subscriptions!Late
  PROVE  SubscriptionInv'
<1>1. /\ back # <<>> /\ Head(back).what # "updated" /\ back' = Tail(back)
      /\ UNCHANGED <<sub, queue, op, leases, sweep, session, wire, on, news>>
  BY DEF Subscriptions!Late
<1>2. SubTypes
  BY DEF SubscriptionInv
<1>3. SubTypes' /\ \A v : Tells(back, v) => Tells(back, v)'
  BY <1>1, <1>2, Taking DEF SubTypes
<1>4. ASSUME NEW v \in Uris PROVE (WillBeOn(v)' <=> WillBeOn(v)) /\ NewsInv(v)'
  <2>1. HeardFor(v)
    BY <1>1, <1>3 DEF HeardFor
  <2>2. NewsInv(v)'
    BY <1>1, <2>1, NewsStays DEF SubscriptionInv, UriInv
  <2>. QED  BY <1>1, <2>2 DEF WillBeOn
<1>. QED  BY <1>1, <1>3, <1>4, NobodyMoves DEF Alike

\* The upstream performs a request.
LEMMA UpstreamPerforms ==
  ASSUME SubscriptionInv, Subscriptions!Perform
  PROVE  SubscriptionInv'
<1>1. /\ wire # <<>> /\ wire' = Tail(wire) /\ UNCHANGED <<sub, queue, op, leases, sweep, session>>
      /\ on' = IF Head(wire).what = "subscribe" THEN on \cup {Head(wire).uri} ELSE on \ {Head(wire).uri}
      /\ news' = IF Head(wire).uri \in on /\ Head(wire).what = "subscribe" THEN news ELSE news \ {Head(wire).uri}
      /\ back' = Append(back, [by |-> Head(wire).by, what |-> Head(wire).what, uri |-> Head(wire).uri])
  BY DEF Subscriptions!Perform
<1>2. SubTypes
  BY DEF SubscriptionInv
<1>3. wire \in Seq(WireRequests) /\ Head(wire) \in WireRequests /\ back \in Seq(Msgs)
  BY <1>1, <1>2 DEF SubTypes
<1>4. Tail(wire) \in Seq(WireRequests) /\ \A v : (WillBeOn(v)' <=> WillBeOn(v))
      /\ (Clears(wire, v) => Clears(wire, v)' \/ (Head(wire).uri = v /\ Head(wire).what # "subscribe"))
  BY <1>1, <1>3, FirstPerformed DEF WillBeOn
<1>. DEFINE m == [by |-> Head(wire).by, what |-> Head(wire).what, uri |-> Head(wire).uri]
<1>5. m \in Msgs /\ m.what # "updated"
  BY <1>3 DEF WireRequests, Msgs, Subscriptions!Ops
<1>. HIDE DEF m
<1>6. back' = Append(back, m)
  BY <1>1 DEF m
<1>7. /\ back' \in Seq(Msgs) /\ Len(back') = Len(back) + 1 /\ back'[Len(back) + 1] = m /\ Len(back) \in Nat
      /\ \A i \in 1..Len(back) : back'[i] = back[i] /\ i \in 1..(Len(back) + 1)
      /\ \A i \in 1..(Len(back) + 1) : i \in 1..Len(back) \/ i = Len(back) + 1
  BY <1>3, <1>5, <1>6
<1>8. \A i \in 1..Len(back') : back'[i].what = "updated" => back'[i].by = 0
  BY <1>2, <1>5, <1>7 DEF SubTypes
<1>9. \A v : Tells(back, v) => Tells(back, v)'
  BY <1>7 DEF Tells
<1>10. on' \in SUBSET Uris /\ news' \in SUBSET on'
  BY <1>1, <1>2, <1>3 DEF SubTypes, WireRequests
<1>11. SubTypes'
  BY <1>1, <1>2, <1>4, <1>7, <1>8, <1>10 DEF SubTypes
<1>12. ASSUME NEW v \in Uris PROVE NewsInv(v)'
  <2>1. HeardFor(v)
    BY <1>1, <1>4, <1>9 DEF HeardFor
  <2>. QED  BY <1>1, <2>1, NewsStays DEF SubscriptionInv, UriInv
<1>. QED  BY <1>1, <1>4, <1>11, <1>12, NobodyMoves DEF Alike

\* A resource changes.
LEMMA ChangedStep ==
  ASSUME SubscriptionInv, NEW u \in Uris, Subscriptions!Changed(u)
  PROVE  SubscriptionInv'
<1>1. u \in on /\ news' = news \cup {u} /\ UNCHANGED <<sub, queue, op, leases, sweep, session, wire, on>>
  BY DEF Subscriptions!Changed
<1>. DEFINE m == [by |-> 0, what |-> "updated", uri |-> u]
<1>2. PICK k \in {Len(back), Len(back) + 1} \ {0} : back' = Subscriptions!PutAt(back, k, m)
  BY DEF Subscriptions!Changed
<1>3. SubTypes
  BY DEF SubscriptionInv
<1>4. m \in Msgs /\ m.what = "updated" /\ m.uri = u /\ m.by = 0 /\ back \in Seq(Msgs)
  BY <1>3, ServerAssumption DEF Msgs, SubTypes
<1>. HIDE DEF m
<1>5. /\ back' \in Seq(Msgs)
      /\ \A i \in 1..Len(back) : \E j \in 1..Len(back') : back'[j] = back[i]
      /\ \E j \in 1..Len(back') : back'[j] = m
      /\ \A j \in 1..Len(back') : back'[j] = m \/ \E i \in 1..Len(back) : back'[j] = back[i]
  <2>1. k \in {Len(back), Len(back) + 1} \ {0} /\ m \in Msgs /\ back \in Seq(Msgs)
    BY <1>2, <1>4
  <2>. DEFINE x == Subscriptions!PutAt(back, k, m)
  <2>2. /\ x \in Seq(Msgs)
        /\ \A i \in 1..Len(back) : \E j \in 1..Len(x) : x[j] = back[i]
        /\ \E j \in 1..Len(x) : x[j] = m
        /\ \A j \in 1..Len(x) : x[j] = m \/ \E i \in 1..Len(back) : x[j] = back[i]
    BY <2>1, Inserting, ZenonT(30)
  <2>3. back' = x
    BY <1>2
  <2>. HIDE DEF x
  <2>. QED  BY <2>2, <2>3
<1>6. \A j \in 1..Len(back') : back'[j].what = "updated" => back'[j].by = 0
  <2>1. ASSUME NEW j \in 1..Len(back'), back'[j].what = "updated" PROVE back'[j].by = 0
    <3>1. CASE back'[j] = m
      BY <1>4, <3>1
    <3>2. CASE \E i \in 1..Len(back) : back'[j] = back[i]
      <4>1. PICK i \in 1..Len(back) : back'[j] = back[i]
        BY <3>2
      <4>. QED  BY <1>3, <2>1, <4>1 DEF SubTypes
    <3>. QED  BY <1>5, <3>1, <3>2
  <2>. QED  BY <2>1
<1>7. (\A v : Tells(back, v) => Tells(back, v)') /\ Tells(back, u)'
  <2>1. Tells(back, u)'
    BY <1>4, <1>5 DEF Tells
  <2>2. ASSUME NEW v, Tells(back, v) PROVE Tells(back, v)'
    <3>1. PICK i \in 1..Len(back) : back[i].uri = v /\ back[i].what = "updated"
      BY <2>2 DEF Tells
    <3>2. PICK j \in 1..Len(back') : back'[j] = back[i]
      BY <1>5
    <3>. QED  BY <3>1, <3>2 DEF Tells
  <2>. QED  BY <2>1, <2>2
<1>8. SubTypes'
  BY <1>1, <1>3, <1>5, <1>6 DEF SubTypes
<1>9. ASSUME NEW v \in Uris PROVE (WillBeOn(v)' <=> WillBeOn(v)) /\ NewsInv(v)'
  <2>1. HeardFor(v)
    BY <1>1, <1>7 DEF HeardFor
  <2>2. NewsInv(v)'
    BY <1>1, <2>1, NewsStays DEF SubscriptionInv, UriInv
  <2>. QED  BY <1>1, <2>2 DEF WillBeOn
<1>. QED  BY <1>1, <1>8, <1>9, NobodyMoves DEF Alike

\* A notification arrives: sent on, or counted until the handshake is over.
LEMMA ForwardStep ==
  ASSUME SubscriptionInv, Subscriptions!Forward
  PROVE  SubscriptionInv'
<1>1. PICK u : u = Head(back).uri
  OBVIOUS
<1>2. /\ back # <<>> /\ Head(back).what = "updated" /\ back' = Tail(back)
      /\ op' = IF sub[u] # None /\ ~Subscriptions!Active(u) THEN [op EXCEPT ![sub[u]].pending = 1] ELSE op
      /\ news' = IF Subscriptions!Active(u) THEN news \ {u} ELSE news
      /\ UNCHANGED <<sub, queue, leases, sweep, session, wire, on>>
  BY <1>1 DEF Subscriptions!Forward
<1>3. SubTypes
  BY DEF SubscriptionInv
<1>4. /\ back' \in Seq(Msgs) /\ \A i \in 1..Len(back') : back'[i].what = "updated" => back'[i].by = 0
      /\ u \in Uris /\ \A v : v # u => (Tells(back, v) => Tells(back, v)')
  BY <1>1, <1>2, <1>3, Taking DEF Msgs
<1>5. op \in [Subscriptions!Ops -> Transitions] /\ sub[u] \in Subscriptions!Ops \cup {None} /\ sub \in [Uris -> Subscriptions!Ops \cup {None}]
  BY <1>3, <1>4 DEF SubTypes
<1>6. op' \in [Subscriptions!Ops -> Transitions] /\ \A o \in Subscriptions!Ops : Alike(o) /\ (op'[o] = op[o] \/ (o = sub[u] /\ ~Subscriptions!Active(u) /\ op'[o].pending = 1))
  <2>1. CASE sub[u] # None /\ ~Subscriptions!Active(u)
    <3>1. op' = [op EXCEPT ![sub[u]].pending = 1]
      BY <1>2, <2>1
    <3>2. sub[u] \in Subscriptions!Ops /\ op[sub[u]] \in Transitions
      BY <1>5, <2>1
    <3>3. op' \in [Subscriptions!Ops -> Transitions]
      BY <1>5, <3>1, <3>2 DEF Transitions
    <3>4. ASSUME NEW o \in Subscriptions!Ops PROVE Alike(o) /\ (op'[o] = op[o] \/ (o = sub[u] /\ op'[o].pending = 1))
      <4>1. CASE o = sub[u]
        BY <1>5, <3>1, <3>2, <4>1 DEF Transitions, Alike
      <4>2. CASE o # sub[u]
        BY <1>5, <3>1, <4>2 DEF Alike
      <4>. QED  BY <4>1, <4>2
    <3>. QED  BY <2>1, <3>3, <3>4
  <2>2. CASE ~(sub[u] # None /\ ~Subscriptions!Active(u))
    BY <1>2, <1>5, <2>2 DEF Alike
  <2>. QED  BY <2>1, <2>2
<1>7. SubTypes'
  BY <1>2, <1>3, <1>4, <1>6 DEF SubTypes
<1>8. ASSUME NEW v \in Uris PROVE NewsInv(v)'
  <2>1. NewsInv(v) /\ SubInv(v)
    BY DEF SubscriptionInv, UriInv
  <2>2. sub[v] # None => sub[v] \in Subscriptions!Ops /\ op[sub[v]].uri = v
    BY <1>5, <2>1 DEF SubInv
  <2>3. CASE v # u \/ Subscriptions!Active(u)
    <3>1. sub[v] # None => op'[sub[v]] = op[sub[v]]
      <4>1. ASSUME sub[v] # None, v # u PROVE sub[v] # sub[u]
        <5>1. sub[u] # None => op[sub[u]].uri = u
          BY <1>4 DEF SubscriptionInv, UriInv, SubInv
        <5>. QED  BY <2>2, <4>1, <5>1
      <4>. QED  BY <1>6, <2>2, <2>3, <4>1
    <3>2. HeardFor(v)
      BY <1>2, <1>4, <2>3 DEF HeardFor
    <3>. QED  BY <1>2, <2>1, <3>1, <3>2, NewsStays
  <2>4. CASE v = u /\ ~Subscriptions!Active(u)
    <3>1. ASSUME sub[u] # None PROVE op'[sub[u]].pc = "asked" /\ op'[sub[u]].pending = 1
      <4>1. op' = [op EXCEPT ![sub[u]].pending = 1] /\ sub[u] \in Subscriptions!Ops /\ op[sub[u]] \in Transitions
        BY <1>2, <1>5, <2>4, <3>1
      <4>2. ~op[sub[u]].active
        BY <2>4, <3>1 DEF Subscriptions!Active
      <4>3. op[sub[u]].pc = "asked"
        BY <2>1, <2>4, <3>1, <4>2 DEF SubInv
      <4>. QED  BY <1>5, <4>1, <4>3 DEF Transitions
    <3>2. sub'[u] = sub[u] /\ 1 > 0
      BY <1>2
    <3>. QED  BY <2>4, <3>1, <3>2 DEF NewsInv
  <2>. QED  BY <2>3, <2>4
<1>9. \A v \in Uris : WillBeOn(v)' <=> WillBeOn(v)
  BY <1>2 DEF WillBeOn
<1>10. \A o \in Subscriptions!Ops : Alike(o)
  BY <1>6
<1>. QED  BY <1>2, <1>7, <1>8, <1>9, <1>10, NobodyMoves

-----------------------------------------------------------------------------
(* Requests of the client, switches and the end of a session.              *)

\* A new transition waits behind the others.
LEMMA QueueGrows ==
  ASSUME NEW u \in Uris, NEW o \in Subscriptions!Ops, queue[u] \in Seq(Subscriptions!Ops), QueueInv(u), queue'[u] = Append(queue[u], o),
         op[o].pc = "none", op'[o].uri = u, op'[o].pc = "queued",
         \A p \in Subscriptions!Ops \ {o} : op[p].uri = u \/ op'[p].uri = u => op'[p].uri = op[p].uri /\ op'[p].pc = op[p].pc
  PROVE  QueueInv(u)'
<1>. DEFINE q == queue[u]
            n == Len(q)
            x == Append(q, o)
<1>1. /\ n \in Nat /\ n = Len(q) /\ Len(x) = n + 1 /\ x[n+1] = o /\ n + 1 \in 1..(n+1)
      /\ \A i \in 1..n : q[i] \in Subscriptions!Ops /\ x[i] = q[i] /\ i \in 1..(n+1)
      /\ \A i \in 1..(n+1) : i \in 1..n \/ i = n + 1
  OBVIOUS
<1>2. /\ \A i, j \in 1..n : q[i] = q[j] => i = j
      /\ \A i \in 1..n : op[q[i]].pc \notin {"none", "done"} /\ op[q[i]].uri = u /\ (i > 1 => op[q[i]].pc = "queued")
      /\ \A p \in Subscriptions!Ops : op[p].uri = u /\ op[p].pc \notin {"none", "done"} => \E i \in 1..n : q[i] = p
  BY DEF QueueInv, Live
<1>3. queue'[u] = x
  OBVIOUS
<1>. HIDE DEF q, n, x
<1>4. \A i \in 1..n : q[i] # o /\ op'[q[i]].uri = u /\ op'[q[i]].pc = op[q[i]].pc
  BY <1>1, <1>2
<1>5. \A i, j \in 1..(n+1) : x[i] = x[j] => i = j
  BY <1>1, <1>2, <1>4
<1>6. \A i \in 1..(n+1) : op'[x[i]].pc \notin {"none", "done"} /\ op'[x[i]].uri = u /\ (i > 1 => op'[x[i]].pc = "queued")
  BY <1>1, <1>2, <1>4
<1>7. ASSUME NEW p \in Subscriptions!Ops, op'[p].uri = u, op'[p].pc \notin {"none", "done"} PROVE \E i \in 1..(n+1) : x[i] = p
  <2>1. CASE p = o
    BY <1>1, <2>1
  <2>2. CASE p # o
    <3>1. PICK i \in 1..n : q[i] = p
      BY <1>2, <1>7, <2>2
    <3>. QED  BY <1>1, <3>1
  <2>. QED  BY <2>1, <2>2
<1>8. Len(queue'[u]) = n + 1
  BY <1>1, <1>3
<1>9. \A i, j \in 1..Len(queue'[u]) : queue'[u][i] = queue'[u][j] => i = j
  BY <1>3, <1>5, <1>8
<1>10. \A i \in 1..Len(queue'[u]) :
         Live(queue[u][i])' /\ op'[queue'[u][i]].uri = u /\ (i > 1 => op'[queue'[u][i]].pc = "queued")
  BY <1>3, <1>6, <1>8 DEF Live
<1>11. \A p \in Subscriptions!Ops : op'[p].uri = u /\ Live(p)' => \E i \in 1..Len(queue'[u]) : queue'[u][i] = p
  BY <1>3, <1>7, <1>8 DEF Live
<1>. QED  BY <1>9, <1>10, <1>11 DEF QueueInv

\* A transition that nobody has asked for is known to nobody.
LEMMA NotYet ==
  ASSUME SubscriptionInv, NEW o \in Subscriptions!Ops, op[o].pc = "none"
  PROVE  /\ op[o].uri \notin Uris /\ o \notin leases /\ \A v \in Uris : sub[v] # o
         /\ \A p \in Subscriptions!Ops : op[p].uri \in Uris => op[p].of # o
<1>1. op[o].uri \notin Uris /\ o \notin leases
  BY DEF SubscriptionInv, UriInv, PhaseInv, PhaseOf
<1>2. \A v \in Uris : sub[v] # o
  BY <1>1, ServerAssumption DEF SubscriptionInv, UriInv, SubInv, Subscriptions!Ops
<1>3. \A p \in Subscriptions!Ops : op[p].uri \in Uris => op[p].of # o
  BY <1>1, ServerAssumption DEF SubscriptionInv, UriInv, PhaseInv, PhaseOf, Subscriptions!Ops
<1>. QED  BY <1>1, <1>2, <1>3

\* The client asks: the new transition has a place that nothing refers to.
LEMMA AskStep ==
  ASSUME SubscriptionInv, NEW o \in Subscriptions!Ops, NEW kind \in {"subscribe", "unsubscribe"}, NEW u \in Uris, Subscriptions!Ask(o, kind, u)
  PROVE  SubscriptionInv'
<1>. DEFINE r == [Subscriptions!NoOp EXCEPT !.kind = kind, !.pc = "queued", !.uri = u]
<1>1. /\ op[o].pc = "none" /\ op' = [op EXCEPT ![o] = r] /\ queue' = [queue EXCEPT ![u] = Append(@, o)]
      /\ UNCHANGED <<sub, leases, sweep, session, wire, back, on, news>>
  BY DEF Subscriptions!Ask, Subscriptions!Fresh, Subscriptions!upstream
<1>2. SubTypes
  BY DEF SubscriptionInv
<1>3. /\ r.kind = kind /\ r.pc = "queued" /\ r.uri = u /\ r.of = None /\ r.session = 0 /\ ~r.active /\ r.pending = 0
      /\ r \in Transitions
  BY DEF Subscriptions!NoOp, Transitions, Steppings
<1>. HIDE DEF r
<1>4. /\ op[o].uri \notin Uris /\ o \notin leases /\ \A v \in Uris : sub[v] # o
      /\ \A p \in Subscriptions!Ops : op[p].uri \in Uris => op[p].of # o
  BY <1>1, NotYet
<1>5. op' \in [Subscriptions!Ops -> Transitions] /\ op'[o] = r /\ \A p \in Subscriptions!Ops \ {o} : op'[p] = op[p]
  BY <1>1, <1>2, <1>3 DEF SubTypes
<1>6. /\ queue' \in [Uris -> Seq(Subscriptions!Ops)] /\ queue'[u] = Append(queue[u], o) /\ queue[u] \in Seq(Subscriptions!Ops)
      /\ \A v \in Uris \ {u} : queue'[v] = queue[v]
  BY <1>1, <1>2 DEF SubTypes
<1>7. SubTypes'
  BY <1>1, <1>2, <1>5, <1>6 DEF SubTypes
<1>8. ASSUME NEW v \in Uris PROVE NewsInv(v)' /\ (WillBeOn(v)' <=> WillBeOn(v))
  <2>1. NewsInv(v)
    BY DEF SubscriptionInv, UriInv
  <2>2. sub[v] # None => op'[sub[v]] = op[sub[v]]
    BY <1>2, <1>4, <1>5 DEF SubTypes
  <2>3. HeardFor(v)
    BY <1>1 DEF HeardFor
  <2>4. NewsInv(v)'
    BY <1>1, <2>1, <2>2, <2>3, NewsStays
  <2>. QED  BY <1>1, <2>4 DEF WillBeOn
<1>9. ASSUME NEW v \in Uris \ {u} PROVE UriInv(v)'
  <2>1. SameFor(v)
    BY <1>1, <1>3, <1>4, <1>5, <1>6, <1>8, <1>9 DEF SameFor, Alike
  <2>. QED  BY <1>2, <1>7, <1>8, <1>9, <2>1, OthersStay DEF SubscriptionInv
<1>10. UriInv(u)
  BY DEF SubscriptionInv
<1>11. QueueInv(u)'
  BY <1>1, <1>3, <1>5, <1>6, <1>10, QueueGrows DEF UriInv
<1>12. PhaseInv(u)'
  <2>1. ASSUME NEW p \in Subscriptions!Ops, op'[p].uri = u PROVE PhaseOf(p, u)'
    <3>1. CASE p = o
      <4>1. kind # None /\ kind # "cleanup" /\ 0 <= session
        BY <1>2, ServerAssumption DEF SubTypes
      <4>. QED  BY <1>1, <1>3, <1>5, <3>1, <4>1 DEF PhaseOf
    <3>2. CASE p # o
      <4>1. op'[p] = op[p] /\ PhaseOf(p, u)
        BY <1>5, <1>10, <2>1, <3>2 DEF UriInv, PhaseInv
      <4>2. op[p].of # None => op'[op[p].of] = op[op[p].of]
        BY <1>2, <1>4, <1>5, <2>1, <4>1 DEF SubTypes, Transitions
      <4>. QED  BY <1>1, <1>8, <4>1, <4>2 DEF PhaseOf
    <3>. QED  BY <3>1, <3>2
  <2>. QED  BY <2>1 DEF PhaseInv
<1>13. \A p \in Subscriptions!Ops : p = o \/ op'[p] = op[p]
  BY <1>5
<1>14. sub[u] # None => sub[u] \in Subscriptions!Ops /\ op'[sub[u]] = op[sub[u]]
  BY <1>2, <1>4, <1>5 DEF SubTypes
<1>15. SubInv(u)'
  <2>1. \A what \in {"subscribe", "unsubscribe"} : \A p \in Subscriptions!Ops : HasAsked(p, what, u) => HasAsked(p, what, u)'
    BY <1>1, <1>13 DEF HasAsked
  <2>. QED  BY <1>1, <1>8, <1>10, <1>14, <2>1 DEF UriInv, SubInv
<1>16. LeaseInv(u)'
  <2>1. ASSUME NEW p \in leases', op'[p].uri = u
        PROVE  op'[p].active /\ (sub'[u] = p \/ \E c \in Subscriptions!Ops : op'[c].uri = u /\ op'[c].pc = "cleaning" /\ op'[c].of = p)
    <3>1. p \in leases /\ op'[p] = op[p] /\ op[p].uri = u
      BY <1>1, <1>2, <1>4, <1>13, <2>1 DEF SubTypes
    <3>2. op[p].active /\ (sub[u] = p \/ \E c \in Subscriptions!Ops : op[c].uri = u /\ op[c].pc = "cleaning" /\ op[c].of = p)
      BY <1>10, <3>1 DEF UriInv, LeaseInv
    <3>. QED  BY <1>1, <1>13, <3>1, <3>2
  <2>. QED  BY <2>1 DEF LeaseInv
<1>17. StaleInv(u)'
  <2>1. sweep # None => sweep \subseteq Subscriptions!Ops
    BY <1>2 DEF SubTypes
  <2>. QED  BY <1>1, <1>10, <1>13, <1>14, <2>1 DEF UriInv, StaleInv
<1>18. UriInv(u)'
  BY <1>8, <1>11, <1>12, <1>15, <1>16, <1>17 DEF UriInv
<1>19. ASSUME NEW p \in Subscriptions!Ops PROVE op'[p].uri \in Uris \/ (op'[p].pc = "none" /\ p \notin leases')
  BY <1>1, <1>3, <1>5, <1>13 DEF SubscriptionInv
<1>. QED  BY <1>7, <1>9, <1>18, <1>19 DEF SubscriptionInv

\* The switch has waited for all its transitions.
LEMMA SweptStep ==
  ASSUME SubscriptionInv, Subscriptions!Swept
  PROVE  SubscriptionInv'
<1>1. /\ sweep # None /\ (\A o \in sweep : op[o].pc = "done") /\ sweep' = None
      /\ UNCHANGED <<sub, queue, op, leases, session, wire, back, on, news>>
  BY DEF Subscriptions!Swept, Subscriptions!upstream
<1>2. SubTypes'
  BY <1>1 DEF SubscriptionInv, SubTypes
<1>3. ASSUME NEW v \in Uris PROVE UriInv(v)'
  <2>1. UriInv(v)
    BY DEF SubscriptionInv
  <2>2. QueueInv(v)' /\ SubInv(v)' /\ LeaseInv(v)' /\ NewsInv(v)'
    BY <1>1, <2>1 DEF UriInv, QueueInv, SubInv, LeaseInv, NewsInv, Live, HasAsked, WillBeOn
  <2>3. PhaseInv(v)'
    BY <1>1, <2>1 DEF UriInv, PhaseInv, PhaseOf, WillBeOn
  <2>4. StaleInv(v)'
    BY <1>1, <2>1 DEF UriInv, StaleInv
  <2>. QED  BY <2>2, <2>3, <2>4 DEF UriInv
<1>. QED  BY <1>1, <1>2, <1>3 DEF SubscriptionInv

\* The session ends, with its subscriptions and leases.
LEMMA DropStep ==
  ASSUME SubscriptionInv, Subscriptions!Drop
  PROVE  SubscriptionInv'
<1>1. /\ session' = session + 1 /\ leases' = leases \ {sub[u] : u \in {v \in Uris : Subscriptions!Active(v)}}
      /\ sub' = [u \in Uris |-> None] /\ wire' = <<>> /\ back' = <<>> /\ on' = {} /\ news' = {}
      /\ UNCHANGED <<queue, op, sweep>>
  BY DEF Subscriptions!Drop, Subscriptions!DropLeases
<1>2. SubTypes
  BY DEF SubscriptionInv
<1>3. SubTypes'
  BY <1>1, <1>2 DEF SubTypes
<1>4. ASSUME NEW v \in Uris PROVE UriInv(v)'
  <2>1. UriInv(v)
    BY DEF SubscriptionInv
  <2>2. sub'[v] = None /\ ~WillBeOn(v)'
    BY <1>1 DEF WillBeOn, Settles
  <2>3. QueueInv(v)'
    BY <1>1, <2>1 DEF UriInv, QueueInv, Live
  <2>4. PhaseInv(v)'
    <3>1. ASSUME NEW p \in Subscriptions!Ops, op[p].uri = v PROVE PhaseOf(p, v)'
      <4>1. PhaseOf(p, v)
        BY <2>1, <3>1 DEF UriInv, PhaseInv
      <4>2. session \in Nat /\ op[p].session \in Nat
        BY <1>2 DEF SubTypes, Transitions
      <4>3. op[p].session <= session + 1
        BY <4>1, <4>2 DEF PhaseOf
      <4>. QED  BY <1>1, <2>2, <4>1, <4>3 DEF PhaseOf
    <3>. QED  BY <1>1, <3>1 DEF PhaseInv
  <2>5. SubInv(v)' /\ StaleInv(v)' /\ NewsInv(v)'
    BY <2>2 DEF SubInv, StaleInv, NewsInv
  <2>6. LeaseInv(v)'
    <3>1. ASSUME NEW p \in leases', op[p].uri = v
          PROVE  op[p].active /\ \E c \in Subscriptions!Ops : op[c].uri = v /\ op[c].pc = "cleaning" /\ op[c].of = p
      <4>1. p \in leases /\ op[p].active /\ (sub[v] = p \/ \E c \in Subscriptions!Ops : op[c].uri = v /\ op[c].pc = "cleaning" /\ op[c].of = p)
        BY <1>1, <2>1, <3>1 DEF UriInv, LeaseInv
      <4>2. p \in Subscriptions!Ops /\ p # None
        BY <1>2, <4>1, ServerAssumption DEF SubTypes, Subscriptions!Ops
      <4>3. sub[v] # p
        BY <1>1, <3>1, <4>1, <4>2 DEF Subscriptions!Active
      <4>. QED  BY <4>1, <4>3
    <3>. QED  BY <1>1, <3>1 DEF LeaseInv
  <2>. QED  BY <2>3, <2>4, <2>5, <2>6 DEF UriInv
<1>. QED  BY <1>1, <1>3, <1>4 DEF SubscriptionInv

\* A profile is switched: each URI is as it was, with one more cleanup in its queue when it has an active
\* subscription, and without its handshake.
LEMMA SweepStep ==
  ASSUME SubscriptionInv, Subscriptions!Sweep
  PROVE  SubscriptionInv'
<1>. DEFINE those == {u \in Uris : Subscriptions!Active(u)}
            asking == {u \in Uris : sub[u] # None /\ ~Subscriptions!Active(u)}
<1>2. PICK place \in Subscriptions!Places(those) :
        /\ op' = [o \in Subscriptions!Ops |->
             IF o \in {place[u] : u \in those}
             THEN LET u == CHOOSE v \in those : place[v] = o IN
                  [Subscriptions!NoOp EXCEPT !.kind = "cleanup", !.pc = "queued", !.uri = u, !.of = sub[u]]
             ELSE IF op[o].pc # "none" /\ op[o].kind = "subscribe" THEN [op[o] EXCEPT !.stale = TRUE]
             ELSE op[o]]
        /\ queue' = [u \in Uris |-> IF u \in those THEN Append(queue[u], place[u]) ELSE queue[u]]
        /\ sub' = [u \in Uris |-> IF u \in asking THEN None ELSE sub[u]]
        /\ sweep' = {place[u] : u \in those} \cup {Subscriptions!Newest(queue[u]) : u \in asking}
  BY Zenon DEF Subscriptions!Sweep
<1>1. those = {u \in Uris : Subscriptions!Active(u)} /\ asking = {u \in Uris : sub[u] # None /\ ~Subscriptions!Active(u)}
  OBVIOUS
<1>. HIDE DEF those, asking
<1>3. PICK made : made = {place[u] : u \in those}
  OBVIOUS
<1>4. /\ \A u \in those : place[u] \in Subscriptions!Ops /\ place[u] \in made /\ op[place[u]].pc = "none"
      /\ \A u, v \in those : u # v => place[u] # place[v]
      /\ \A o \in made : \E u \in those : o = place[u]
  BY <1>2, <1>3 DEF Subscriptions!Places
<1>5. UNCHANGED <<leases, session, wire, back, on, news>>
  BY DEF Subscriptions!Sweep, Subscriptions!upstream
<1>6. SubTypes /\ those \subseteq Uris /\ asking \subseteq Uris /\ \A u \in asking : u \notin those
  BY <1>1 DEF SubscriptionInv
<1>7. op \in [Subscriptions!Ops -> Transitions] /\ sub \in [Uris -> Subscriptions!Ops \cup {None}] /\ queue \in [Uris -> Seq(Subscriptions!Ops)] /\ leases \subseteq Subscriptions!Ops
  BY <1>6 DEF SubTypes
\* The new ones.
<1>8. ASSUME NEW u \in those
      PROVE  /\ op'[place[u]].kind = "cleanup" /\ op'[place[u]].pc = "queued" /\ op'[place[u]].uri = u
             /\ op'[place[u]].of = sub[u] /\ op'[place[u]].session = 0 /\ ~op'[place[u]].active /\ op'[place[u]].pending = 0
             /\ op'[place[u]] \in Transitions
  <2>1. (CHOOSE v \in those : place[v] = place[u]) = u
    BY <1>4
  <2>2. op'[place[u]] = [Subscriptions!NoOp EXCEPT !.kind = "cleanup", !.pc = "queued", !.uri = u, !.of = sub[u]]
    BY <1>2, <1>3, <1>4, <2>1
  <2>. DEFINE r == [Subscriptions!NoOp EXCEPT !.kind = "cleanup", !.pc = "queued", !.uri = u, !.of = sub[u]]
  <2>3. u \in Uris /\ sub[u] \in Subscriptions!Ops \cup {None}
    BY <1>6, <1>7
  <2>4. /\ r.kind = "cleanup" /\ r.pc = "queued" /\ r.uri = u /\ r.of = sub[u] /\ r.session = 0 /\ ~r.active /\ r.pending = 0
        /\ r \in Transitions
    BY <2>3 DEF Subscriptions!NoOp, Transitions, Steppings
  <2>5. op'[place[u]] = r
    BY <2>2
  <2>. HIDE DEF r
  <2>. QED  BY <2>4, <2>5
\* The old ones.
<1>9. ASSUME NEW o \in Subscriptions!Ops \ made
      PROVE  /\ op'[o] \in Transitions
             /\ op'[o].kind = op[o].kind /\ op'[o].pc = op[o].pc /\ op'[o].uri = op[o].uri /\ op'[o].of = op[o].of
             /\ op'[o].session = op[o].session /\ op'[o].pending = op[o].pending /\ op'[o].active = op[o].active
             /\ op'[o].stale => op[o].stale \/ op[o].kind = "subscribe"
  <2>1. (op'[o] = [op[o] EXCEPT !.stale = TRUE] /\ op[o].kind = "subscribe") \/ op'[o] = op[o]
    BY <1>2, <1>3
  <2>2. op[o] \in Transitions
    BY <1>7
  <2>3. CASE op'[o] = op[o]
    BY <2>2, <2>3
  <2>4. CASE op'[o] = [op[o] EXCEPT !.stale = TRUE] /\ op[o].kind = "subscribe"
    BY <2>2, <2>4 DEF Transitions
  <2>. QED  BY <2>1, <2>3, <2>4
<1>10. ASSUME NEW o \in Subscriptions!Ops, op[o].uri \in Uris PROVE o \notin made
  <2>1. op[o].pc # "none"
    BY <1>10, NotYet
  <2>. QED  BY <1>4, <2>1
<1>11. ASSUME NEW u \in Uris
       PROVE  /\ queue'[u] = IF u \in those THEN Append(queue[u], place[u]) ELSE queue[u]
              /\ sub'[u] = IF u \in asking THEN None ELSE sub[u]
  BY <1>2
<1>12. SubTypes' /\ sweep' # None
  <2>1. op' \in [Subscriptions!Ops -> Transitions]
    <3>1. \A o \in Subscriptions!Ops : op'[o] \in Transitions
      BY <1>4, <1>8, <1>9
    <3>2. DOMAIN op' = Subscriptions!Ops /\ op' = [o \in DOMAIN op' |-> op'[o]]
      BY <1>2
    <3>. QED  BY <3>1, <3>2
  <2>2. queue' \in [Uris -> Seq(Subscriptions!Ops)] /\ sub' \in [Uris -> Subscriptions!Ops \cup {None}]
    <3>1. ASSUME NEW u \in Uris
          PROVE  /\ (IF u \in those THEN Append(queue[u], place[u]) ELSE queue[u]) \in Seq(Subscriptions!Ops)
                 /\ (IF u \in asking THEN None ELSE sub[u]) \in Subscriptions!Ops \cup {None}
      BY <1>4, <1>7
    <3>. QED  BY <1>2, <3>1
  <2>3. ASSUME NEW u \in asking PROVE Subscriptions!Newest(queue[u]) \in Subscriptions!Ops
    <3>1. sub[u] \in Subscriptions!Ops /\ UriInv(u) /\ sub[u] # None /\ ~op[sub[u]].active /\ u \in Uris
      BY <1>1, <1>6, <1>7 DEF Subscriptions!Active, SubscriptionInv
    <3>2. Live(sub[u]) /\ op[sub[u]].uri = u
      BY <3>1 DEF UriInv, SubInv, Live
    <3>3. \E i \in 1..Len(queue[u]) : queue[u][i] = sub[u]
      BY <3>1, <3>2 DEF UriInv, QueueInv
    <3>. QED  BY <1>7, <3>1, <3>3 DEF Subscriptions!Newest
  <2>4. sweep' \in SUBSET Subscriptions!Ops
    BY <1>2, <1>4, <2>3, ZenonT(30)
  <2>5. sweep' # None
    BY <2>4, ServerAssumption DEF Subscriptions!Ops
  <2>. QED  BY <1>5, <1>6, <2>1, <2>2, <2>4, <2>5 DEF SubTypes
<1>13. ASSUME NEW o \in Subscriptions!Ops PROVE op'[o].uri \in Uris \/ (op'[o].pc = "none" /\ o \notin leases')
  <2>1. CASE o \in made
    BY <1>4, <1>6, <1>8, <2>1
  <2>2. CASE o \notin made
    BY <1>5, <1>9, <2>2 DEF SubscriptionInv
  <2>. QED  BY <2>1, <2>2
<1>14. ASSUME NEW u \in Uris PROVE UriInv(u)'
  <2>0. UriInv(u) /\ (sub[u] # None => sub[u] \in Subscriptions!Ops /\ op[sub[u]].uri = u /\ sub[u] \notin made)
    BY <1>7, <1>10 DEF SubscriptionInv, UriInv, SubInv
  <2>1. ASSUME NEW o \in Subscriptions!Ops, op[o].uri = u
        PROVE  /\ op'[o].kind = op[o].kind /\ op'[o].pc = op[o].pc /\ op'[o].uri = u /\ op'[o].of = op[o].of
               /\ op'[o].session = op[o].session /\ op'[o].pending = op[o].pending /\ op'[o].active = op[o].active
               /\ op'[o].stale => op[o].stale \/ op[o].kind = "subscribe"
               /\ o \notin made
    BY <1>9, <1>10, <2>1
  <2>2. ASSUME NEW o \in Subscriptions!Ops, op'[o].uri = u
        PROVE  op[o].uri = u \/ (u \in those /\ o = place[u])
    BY <1>4, <1>8, <1>9, <2>2
  <2>3. WillBeOn(u)' <=> WillBeOn(u)
    BY <1>5 DEF WillBeOn
  <2>4. QueueInv(u)'
    <3>1. CASE u \in those
      <4>1. queue'[u] = Append(queue[u], place[u]) /\ queue[u] \in Seq(Subscriptions!Ops)
        BY <1>7, <1>11, <3>1
      <4>2. op'[place[u]].uri = u /\ op'[place[u]].pc = "queued" /\ op[place[u]].pc = "none" /\ place[u] \in Subscriptions!Ops
        BY <1>4, <1>8, <3>1
      <4>3. \A p \in Subscriptions!Ops \ {place[u]} : op[p].uri = u \/ op'[p].uri = u => op'[p].uri = op[p].uri /\ op'[p].pc = op[p].pc
        BY <2>1, <2>2
      <4>. QED  BY <2>0, <4>1, <4>2, <4>3, QueueGrows DEF UriInv
    <3>2. CASE u \notin those
      <4>1. queue'[u] = queue[u] /\ queue[u] \in Seq(Subscriptions!Ops) /\ \A i \in 1..Len(queue[u]) : queue[u][i] \in Subscriptions!Ops
        BY <1>7, <1>11, <3>2
      <4>2. QueueInv(u)
        BY <2>0 DEF UriInv
      <4>. QED  BY <2>1, <2>2, <3>2, <4>1, <4>2 DEF QueueInv, Live
    <3>. QED  BY <3>1, <3>2
  <2>5. PhaseInv(u)'
    <3>1. ASSUME NEW p \in Subscriptions!Ops, op'[p].uri = u PROVE PhaseOf(p, u)'
      <4>1. CASE op[p].uri = u
        <5>1. PhaseOf(p, u)
          BY <2>0, <4>1 DEF UriInv, PhaseInv
        <5>2. op[p].of # None => op'[op[p].of].uri = u
          BY <1>7, <2>1, <5>1 DEF PhaseOf, Transitions
        <5>3. sub'[u] \in {sub[u], None}
          BY <1>11
        <5>4. op[p].pc = "asked" /\ op[p].kind = "subscribe" => sub'[u] = None
          <6>1. ASSUME op[p].pc = "asked", op[p].kind = "subscribe", sub[u] # None PROVE u \in asking
            <7>1. sub[u] = p /\ ~op[p].active
              BY <5>1, <6>1 DEF PhaseOf
            <7>. QED  BY <1>1, <6>1, <7>1 DEF Subscriptions!Active
          <6>. QED  BY <1>11, <6>1
        <5>. QED  BY <1>5, <2>1, <2>3, <4>1, <5>1, <5>2, <5>3, <5>4 DEF PhaseOf
      <4>2. CASE u \in those /\ p = place[u]
        <5>1. sub[u] # None /\ op'[sub[u]].uri = u /\ 0 <= session
          BY <1>1, <1>6, <2>0, <2>1, <4>2 DEF Subscriptions!Active, SubTypes
        <5>. QED  BY <1>5, <1>8, <4>2, <5>1, ServerAssumption DEF PhaseOf
      <4>. QED  BY <2>2, <3>1, <4>1, <4>2
    <3>. QED  BY <3>1 DEF PhaseInv
  <2>6. \A o \in Subscriptions!Ops : \A kind : HasAsked(o, kind, u) => HasAsked(o, kind, u)'
    BY <2>1 DEF HasAsked
  <2>7. SubInv(u)'
    <3>1. CASE u \in asking
      <4>1. sub'[u] = None /\ ~op[sub[u]].active /\ sub[u] \in Subscriptions!Ops /\ op[sub[u]].uri = u /\ sub[u] # None
        BY <1>1, <1>11, <2>0, <3>1 DEF Subscriptions!Active
      <4>2. op[sub[u]].pc = "asked" /\ op[sub[u]].kind = "subscribe"
        BY <2>0, <4>1 DEF UriInv, SubInv
      <4>3. HasAsked(sub[u], "subscribe", u)
        BY <4>1, <4>2 DEF HasAsked
      <4>4. \E o \in Subscriptions!Ops : HasAsked(o, "subscribe", u)'
        BY <2>6, <4>1, <4>3
      <4>. QED  BY <4>1, <4>4 DEF SubInv
    <3>2. CASE u \notin asking
      <4>1. sub'[u] = sub[u]
        BY <1>11, <3>2
      <4>2. ASSUME sub[u] # None
            PROVE  /\ op'[sub[u]].kind = op[sub[u]].kind /\ op'[sub[u]].pc = op[sub[u]].pc /\ op'[sub[u]].uri = op[sub[u]].uri
                   /\ op'[sub[u]].session = op[sub[u]].session /\ op'[sub[u]].active = op[sub[u]].active
        BY <2>0, <2>1, <4>2
      <4>. QED  BY <1>5, <2>0, <2>3, <2>6, <4>1, <4>2 DEF UriInv, SubInv
    <3>. QED  BY <3>1, <3>2
  <2>8. LeaseInv(u)'
    <3>1. ASSUME NEW p \in leases', op'[p].uri = u
          PROVE  op'[p].active /\ (sub'[u] = p \/ \E c \in Subscriptions!Ops : op'[c].uri = u /\ op'[c].pc = "cleaning" /\ op'[c].of = p)
      <4>1. p \in leases /\ p \in Subscriptions!Ops
        BY <1>5, <1>7, <3>1
      <4>2. op[p].uri = u
        <5>1. op[p].uri \in Uris
          BY <4>1 DEF SubscriptionInv
        <5>. QED  BY <1>9, <1>10, <3>1, <4>1, <5>1
      <4>3. op[p].active /\ (sub[u] = p \/ \E c \in Subscriptions!Ops : op[c].uri = u /\ op[c].pc = "cleaning" /\ op[c].of = p)
        BY <2>0, <4>1, <4>2 DEF UriInv, LeaseInv
      <4>4. CASE sub[u] = p
        <5>1. u \notin asking
          BY <1>1, <1>6, <4>1, <4>3, <4>4, ServerAssumption DEF Subscriptions!Active, Subscriptions!Ops
        <5>. QED  BY <1>11, <2>1, <4>1, <4>2, <4>3, <4>4, <5>1
      <4>5. CASE \E c \in Subscriptions!Ops : op[c].uri = u /\ op[c].pc = "cleaning" /\ op[c].of = p
        BY <2>1, <4>1, <4>2, <4>3, <4>5
      <4>. QED  BY <4>3, <4>4, <4>5
    <3>. QED  BY <3>1 DEF LeaseInv
  <2>9. StaleInv(u)'
    <3>1. ASSUME sub'[u] # None, op'[sub'[u]].active
          PROVE  sweep' # None /\ \E c \in sweep' : op'[c].uri = u /\ op'[c].pc = "queued" /\ op'[c].kind = "cleanup" /\ op'[c].of = sub'[u]
      <4>1. sub'[u] = sub[u] /\ sub[u] # None /\ op[sub[u]].active
        BY <1>11, <2>0, <2>1, <3>1
      <4>2. u \in those
        BY <1>1, <4>1 DEF Subscriptions!Active
      <4>3. place[u] \in sweep' /\ sweep' # None
        <5>. QED  BY <1>2, <1>12, <4>2
      <4>. QED  BY <1>8, <4>1, <4>2, <4>3
    <3>. QED  BY <3>1 DEF StaleInv
  <2>10. NewsInv(u)'
    <3>1. sub'[u] # None => sub'[u] = sub[u]
      BY <1>11
    <3>2. sub[u] # None => op'[sub[u]].pc = op[sub[u]].pc /\ op'[sub[u]].pending = op[sub[u]].pending
      BY <2>0, <2>1
    <3>. QED  BY <1>5, <2>0, <3>1, <3>2 DEF UriInv, NewsInv, Tells, Clears
  <2>. QED  BY <2>4, <2>5, <2>7, <2>8, <2>9, <2>10 DEF UriInv
<1>. QED  BY <1>12, <1>13, <1>14 DEF SubscriptionInv

-----------------------------------------------------------------------------
(* The theorem.                                                            *)

\* All steps.
LEMMA SubscriptionStep ==
  ASSUME SubscriptionInv, Subscriptions!Next
  PROVE  SubscriptionInv'
<1>1. ASSUME NEW o \in Subscriptions!Ops, NEW kind \in {"subscribe", "unsubscribe"}, NEW u \in Uris, Subscriptions!Ask(o, kind, u) PROVE SubscriptionInv'
  BY <1>1, AskStep
<1>2. ASSUME NEW o \in Subscriptions!Ops, Subscriptions!Refused(o) \/ Subscriptions!UnsubscribeCancelled(o) PROVE SubscriptionInv'
  BY <1>2, RefusedStep, UnsubscribesStep, NeverAskedStep DEF Subscriptions!UnsubscribeCancelled
<1>3. ASSUME NEW u \in Uris, Subscriptions!Changed(u) PROVE SubscriptionInv'
  BY <1>3, ChangedStep
<1>4. ASSUME NEW o \in Subscriptions!Ops, Subscriptions!Steps(o) PROVE SubscriptionInv'
  BY <1>4, StartStep, ExecuteStep, SubscribedStep, FlushedStep, SubscribeFailsStep, UnsubscribesStep, SweepOneStep, CleanedUpStep,
     Zenon DEF Subscriptions!Steps
<1>5. ASSUME Subscriptions!Swept \/ Subscriptions!Perform \/ Subscriptions!Forward \/ Subscriptions!Late \/ Subscriptions!Sweep \/ Subscriptions!Drop PROVE SubscriptionInv'
  BY <1>5, SweptStep, UpstreamPerforms, ForwardStep, LateStep, SweepStep, DropStep
<1>. QED  BY <1>1, <1>2, <1>3, <1>4, <1>5, Zenon DEF Subscriptions!Next, Subscriptions!Work

\* What the invariant says of a URI nobody works for, and of an upstream that has answered everything.
LEMMA SubscriptionsAreRight ==
  ASSUME SubscriptionInv
  PROVE  Subscriptions!LeasesExact /\ Subscriptions!UpstreamAgrees /\ Subscriptions!SwitchClears /\ Subscriptions!HearsAll
<1>1. ASSUME NEW u \in Uris, Subscriptions!Quiet(u)
      PROVE  /\ \A o \in Subscriptions!Ops : op[o].uri = u => ~Live(o)
             /\ SubInv(u) /\ LeaseInv(u) /\ NewsInv(u) /\ sub[u] \in Subscriptions!Ops \cup {None}
             /\ \A o \in leases : o \in Subscriptions!Ops /\ o # None
             /\ sub[u] # None => op[sub[u]].uri = u /\ op[sub[u]].pc = "done" /\ sub[u] \in leases
  <2>1. UriInv(u) /\ queue[u] = <<>> /\ SubTypes
    BY <1>1 DEF SubscriptionInv, Subscriptions!Quiet
  <2>2. \A o \in Subscriptions!Ops : op[o].uri = u => ~Live(o)
    BY <2>1 DEF UriInv, QueueInv
  <2>3. sub[u] \in Subscriptions!Ops \cup {None} /\ \A o \in leases : o \in Subscriptions!Ops /\ o # None
    BY <2>1, ServerAssumption DEF SubTypes, Subscriptions!Ops
  <2>4. sub[u] # None => op[sub[u]].uri = u /\ op[sub[u]].pc = "done" /\ sub[u] \in leases
    BY <2>1, <2>2, <2>3 DEF UriInv, SubInv, Live
  <2>. QED  BY <2>1, <2>2, <2>3, <2>4 DEF UriInv
<1>2. Subscriptions!LeasesExact
  <2>1. ASSUME NEW u \in Uris, Subscriptions!Quiet(u), NEW o \in leases, op[o].uri = u PROVE sub[u] = o
    <3>1. \A c \in Subscriptions!Ops : ~(op[c].uri = u /\ op[c].pc = "cleaning" /\ op[c].of = o)
      BY <1>1, <2>1 DEF Live
    <3>. QED  BY <1>1, <2>1, <3>1 DEF LeaseInv
  <2>2. ASSUME NEW u \in Uris, Subscriptions!Quiet(u) PROVE {o \in leases : op[o].uri = u} = Subscriptions!Subscription(u)
    <3>1. CASE sub[u] = None
      <4>1. \A o \in leases : op[o].uri # u
        BY <1>1, <2>1, <2>2, <3>1
      <4>. QED  BY <3>1, <4>1 DEF Subscriptions!Subscription
    <3>2. CASE sub[u] # None
      <4>1. sub[u] \in leases /\ op[sub[u]].uri = u
        BY <1>1, <2>2, <3>2
      <4>2. \A o \in leases : op[o].uri = u => o = sub[u]
        BY <2>1, <2>2
      <4>. QED  BY <3>2, <4>1, <4>2 DEF Subscriptions!Subscription
    <3>. QED  BY <3>1, <3>2
  <2>. QED  BY <2>2 DEF Subscriptions!LeasesExact
<1>3. Subscriptions!UpstreamAgrees
  <2>1. ASSUME NEW u \in Uris, Subscriptions!Quiet(u), Subscriptions!Drained PROVE u \in on <=> sub[u] # None
    <3>1. WillBeOn(u) <=> u \in on
      BY <2>1 DEF Subscriptions!Drained, WillBeOn, Settles
    <3>2. \A o \in Subscriptions!Ops : ~HasAsked(o, "subscribe", u) /\ ~HasAsked(o, "unsubscribe", u)
      BY <1>1, <2>1 DEF HasAsked, Live
    <3>. QED  BY <1>1, <2>1, <3>1, <3>2 DEF SubInv
  <2>. QED  BY <2>1 DEF Subscriptions!UpstreamAgrees
<1>4. Subscriptions!SwitchClears
  <2>1. ASSUME NEW o \in leases, op[o].stale
        PROVE  sweep # None \/ \E c \in Subscriptions!Ops : op[c].pc = "cleaning" /\ op[c].of = o
    <3>1. PICK u \in Uris : op[o].uri = u
      BY DEF SubscriptionInv, SubTypes
    <3>2. o # None /\ LeaseInv(u) /\ StaleInv(u)
      BY ServerAssumption DEF SubscriptionInv, SubTypes, UriInv, Subscriptions!Ops
    <3>3. op[o].active /\ (sub[u] = o \/ \E c \in Subscriptions!Ops : op[c].uri = u /\ op[c].pc = "cleaning" /\ op[c].of = o)
      BY <3>1, <3>2 DEF LeaseInv
    <3>. QED  BY <2>1, <3>2, <3>3 DEF StaleInv
  <2>. QED  BY <2>1 DEF Subscriptions!SwitchClears
<1>5. Subscriptions!HearsAll
  <2>1. ASSUME NEW u \in Uris, Subscriptions!Quiet(u), Subscriptions!Drained, sub[u] # None PROVE u \notin news
    <3>1. ~Tells(back, u) /\ ~Clears(wire, u)
      BY <2>1 DEF Subscriptions!Drained, Tells, Clears
    <3>2. op[sub[u]].pending = 0 /\ ~(0 > 0)
      BY <1>1, <2>1 DEF NewsInv
    <3>. QED  BY <1>1, <2>1, <3>1, <3>2 DEF NewsInv
  <2>. QED  BY <2>1 DEF Subscriptions!HearsAll
<1>. QED  BY <1>2, <1>3, <1>4, <1>5

\* The subscriptions of a client: leases are held for exactly the subscriptions that need them, an upstream at
\* rest has exactly those the server has, a switch leaves none of before, and a subscriber hears of every change,
\* however transitions, switches, cancellations, the end of sessions and late answers meet.
THEOREM SubscriptionsStayAgreed == ServerSpec => []SubscriptionsAgree
<1>. DEFINE Inv == part = "subscriptions" => SubscriptionInv
<1>1. ServerInit => Inv
  <2>. SUFFICES ASSUME Subscriptions!Init PROVE SubscriptionInv
    BY DEF ServerInit
  <2>1. Subscriptions!NoOp \in Transitions /\ Subscriptions!NoOp.pc = "none" /\ Subscriptions!NoOp.uri = None
    BY DEF Subscriptions!NoOp, Transitions, Steppings
  <2>2. /\ sub = [u \in Uris |-> None] /\ queue = [u \in Uris |-> <<>>] /\ op = [o \in Subscriptions!Ops |-> Subscriptions!NoOp] /\ leases = {}
        /\ sweep = None /\ session = 1 /\ wire = <<>> /\ back = <<>> /\ on = {} /\ news = {}
    BY DEF Subscriptions!Init
  <2>. HIDE DEF Subscriptions!Init
  <2>3. SubTypes
    BY <2>1, <2>2 DEF SubTypes
  <2>4. ASSUME NEW u \in Uris PROVE UriInv(u)
    <3>1. \A o \in Subscriptions!Ops : op[o].uri # u
      BY <2>1, <2>2, ServerAssumption
    <3>2. ~WillBeOn(u)
      BY <2>2 DEF WillBeOn, Settles
    <3>. QED  BY <2>2, <3>1, <3>2 DEF UriInv, QueueInv, PhaseInv, SubInv, LeaseInv, StaleInv, NewsInv
  <2>. QED  BY <2>1, <2>2, <2>3, <2>4 DEF SubscriptionInv
<1>2. Inv /\ [ServerNext]_all => Inv'
  <2>. SUFFICES ASSUME Inv, [ServerNext]_all, part' = "subscriptions" PROVE SubscriptionInv'
    OBVIOUS
  <2>1. part = "subscriptions" /\ (Subscriptions!Next \/ UNCHANGED subscriptionVars)
    BY DEF ServerNext, all, Request, ListTools, ListResources, Subscribe, VerifyIdentity, Rule
  <2>2. CASE Subscriptions!Next
    BY <2>1, <2>2, SubscriptionStep
  <2>3. CASE UNCHANGED subscriptionVars
    BY <2>1, <2>3
    DEF subscriptionVars, SubscriptionInv, SubTypes, UriInv, QueueInv, PhaseInv, PhaseOf, SubInv, LeaseInv, StaleInv, NewsInv,
        WillBeOn, Live, HasAsked
  <2>. QED  BY <2>1, <2>2, <2>3
<1>3. Inv => SubscriptionsAgree
  BY SubscriptionsAreRight DEF SubscriptionsAgree
<1>. QED  BY <1>1, <1>2, <1>3, PTL DEF ServerSpec, all

-----------------------------------------------------------------------------
(* One request on its way.  What it has been decided on is kept from one   *)
(* phase to the next (Unsent, Begun, Hinted, Aimed, Left), so that a call  *)
(* is decided for what it calls although the caches, the tools and the     *)
(* lease go on changing; and what is to be recorded is true before it is   *)
(* written (Outcome, Answered).                                            *)


Risks == {"read", "write", "destructive"}
Replies == {"result", "input", "error"}
Early == {"idle", "open", "source", "route", "target", "approve", "session", "call"}
Routed == {"target", "approve", "session", "call", "sent"}
Targeted == {"approve", "session", "call", "sent"}
Over == {"flush", "finish"}
Phases == Early \cup Over \cup {"sent", "answered"}

Journeys ==
  [kind : Kinds \cup {None}, phase : Phases, source : Selections \cup {None}, mapped : Described \cup {None},
   reason : {"rule", "matcher", "active-profile", None}, profile : Profiles \cup {None},
   meta : Described \cup {None}, risk : Risks \cup {None}, target : Described \cup {None},
   fresh : BOOLEAN, asked : BOOLEAN, sent : BOOLEAN, late : BOOLEAN, performed : BOOLEAN,
   status : Statuses \cup {None}, record : Statuses \cup {None}, answer : Replies \cup {None}]

JourneyTypes ==
  /\ conf \in Configs
  /\ tool \in [Profiles -> Described] /\ cached \in [Profiles -> Described \cup {None}]
  /\ late \in BOOLEAN /\ aborted \in BOOLEAN
  /\ req \in Journeys

\* Before its call a request has sent nothing, and has no outcome before it is over.
Unsent(r) ==
  /\ r.phase \in Early => r.sent = FALSE
  /\ r.phase \in Early \cup {"sent"} => r.status = None /\ r.answer = None
  /\ r.phase # "answered" => r.record = None

\* A request under way has its captured selection, and what is routed is not the wrapper's own.
Begun(r) ==
  /\ r.phase \in Early \cup {"sent"} /\ r.phase # "idle" => r.source \in Selections
  /\ r.phase \in Routed \cup {"route"} => r.kind \in {"tool", "resource"}

\* The hints that were read are those of the tool the client saw, and what the rules ask for was there.
Hinted(r) ==
  r.phase \in Routed =>
    /\ r.meta # None => r.kind = "tool" /\ r.meta = r.mapped
    /\ r.risk = Risk(r.meta)
    /\ r.risk = "destructive" /\ conf.ruled = TRUE /\ r.kind = "tool" => r.reason = "rule"

\* The target is the tool the client saw, and the identity's demands were met.
Aimed(r) ==
  r.phase \in Targeted =>
    /\ r.kind = "tool" => r.target = r.mapped
    /\ r.risk = "destructive" /\ conf.bound = "confirmed" =>
         r.source.how = "confirmed" /\ r.source.profile = r.profile

\* A call left under a lease that had not run out, if it needed one.
Left(r) ==
  r.phase = "sent" =>
    /\ r.sent = TRUE
    /\ r.risk = "destructive" /\ conf.leased = TRUE => r.late = FALSE /\ r.source.profile = r.profile

\* What there is to record of a request that is over.
Refusals == {"denied", "confirmation-required", "ambiguous"}
Told(r, outcome) ==
  /\ outcome \in Refusals => r.sent = FALSE
  /\ r.answer = "result" => (r.kind # "own" => r.sent = TRUE)
  /\ outcome = "success" => (r.kind # "own" => r.performed = TRUE) /\ r.answer = "result"
  /\ outcome = "cancelled" => aborted = TRUE
Outcome(r) ==
  r.phase \in Over =>
    /\ r.status # None
    /\ Told(r, r.status)
    /\ r.answer = "result" => r.status \in {"success", "failure"}
    /\ r.answer # "error"

\* And what there was to record of one that is answered.
Answered(r) ==
  r.phase = "answered" =>
    /\ Told(r, r.record)
    /\ r.answer = "result" /\ conf.closed = TRUE => r.record \in {"success", "failure"}
    /\ conf.closed = TRUE /\ r.record = None => r.answer = "error"

Good(r) == Unsent(r) /\ Begun(r) /\ Hinted(r) /\ Aimed(r) /\ Left(r) /\ Outcome(r) /\ Answered(r)
JourneyInv == JourneyTypes /\ Good(req)

---------------------------------------------------------------------------
LEMMA NothingType == Nothing \in Journeys
BY DEF Nothing, Journeys, Phases, Early

\* Every initial state is as the invariant says.
LEMMA InitInv == Init => JourneyInv
<1> SUFFICES ASSUME Init PROVE JourneyInv
  OBVIOUS
<1>1. JourneyTypes
  BY NothingType DEF Init, JourneyTypes
<1>2. Good(req)
  BY DEF Init, Nothing, Good, Unsent, Begun, Hinted, Aimed, Left, Outcome, Answered, Early, Routed, Targeted, Over
<1> QED
  BY <1>1, <1>2 DEF JourneyInv

\* What Ends leaves of a request.
LEMMA EndsType ==
  ASSUME JourneyTypes, NEW outcome \in Statuses, NEW answer \in {"result", "input", None}, Ends(outcome, answer)
  PROVE  req' \in Journeys
<1>1. req' = [kind |-> req.kind, phase |-> "flush", source |-> None, mapped |-> None, reason |-> None,
              profile |-> None, meta |-> None, risk |-> None, target |-> None, fresh |-> TRUE,
              asked |-> req.asked, sent |-> req.sent, late |-> FALSE, performed |-> req.performed,
              status |-> outcome, record |-> None, answer |-> answer]
  BY DEF Ends, Nothing
<1>2. req.kind \in Kinds \cup {None} /\ req.asked \in BOOLEAN /\ req.sent \in BOOLEAN /\ req.performed \in BOOLEAN
  BY DEF JourneyTypes, Journeys
<1> QED
  BY <1>1, <1>2 DEF Journeys, Phases, Over, Replies

\* Two requests that differ at most in their phase.
Same(s, r) ==
  /\ s.kind = r.kind /\ s.source = r.source /\ s.mapped = r.mapped /\ s.reason = r.reason
  /\ s.profile = r.profile /\ s.meta = r.meta /\ s.risk = r.risk /\ s.target = r.target
  /\ s.fresh = r.fresh /\ s.asked = r.asked /\ s.sent = r.sent /\ s.late = r.late
  /\ s.performed = r.performed /\ s.status = r.status /\ s.record = r.record /\ s.answer = r.answer
LEMMA GoesFields ==
  ASSUME NEW r \in Journeys, NEW phase \in Phases, Goes(phase, r)
  PROVE  req' \in Journeys /\ req'.phase = phase /\ Same(req', r)
<1>1. req' \in Journeys
  BY DEF Goes, Journeys
<1> QED
  BY <1>1 DEF Goes, Journeys, Same

\* The updates of a request.
Map(r, m) == [r EXCEPT !.mapped = m, !.asked = TRUE]
Ruled(r, p, reason, m, risk) == [r EXCEPT !.profile = p, !.reason = reason, !.meta = m, !.risk = risk]
Aim(r, m) == [r EXCEPT !.target = m, !.asked = TRUE]
Dispatch(r, l) == [r EXCEPT !.sent = TRUE, !.late = l]
Performing(r) == [r EXCEPT !.performed = TRUE]
Unforwarding(r) == [r EXCEPT !.status = "failure", !.answer = None]
Recording(r, outcome, a) == [r EXCEPT !.record = outcome, !.answer = a]
Answering(r, a) == [r EXCEPT !.answer = a]
Fresh(r, b) == [r EXCEPT !.fresh = b]

\* A field of a request takes any value of its type.
LEMMA Updates ==
  ASSUME NEW r \in Journeys
  PROVE  /\ \A x \in Described \cup {None} : [r EXCEPT !.mapped = x] \in Journeys
         /\ \A x \in Described \cup {None} : [r EXCEPT !.meta = x] \in Journeys
         /\ \A x \in Described \cup {None} : [r EXCEPT !.target = x] \in Journeys
         /\ \A x \in Risks \cup {None} : [r EXCEPT !.risk = x] \in Journeys
         /\ \A x \in Statuses \cup {None} : [r EXCEPT !.record = x] \in Journeys
         /\ \A x \in Replies \cup {None} : [r EXCEPT !.answer = x] \in Journeys
         /\ \A x \in BOOLEAN : [r EXCEPT !.asked = x] \in Journeys
         /\ [r EXCEPT !.sent = TRUE] \in Journeys
         /\ \A x \in Profiles : [r EXCEPT !.profile = x] \in Journeys
         /\ \A x \in {"rule", "matcher", "active-profile"} : [r EXCEPT !.reason = x] \in Journeys
         /\ \A x \in BOOLEAN : [r EXCEPT !.late = x] \in Journeys
<1> DEFINE Ks == Kinds \cup {None}
           Ss == Selections \cup {None}
           Ds == Described \cup {None}
           Ws == {"rule", "matcher", "active-profile", None}
           Ps == Profiles \cup {None}
           Rs == Risks \cup {None}
           Ts == Statuses \cup {None}
           As == Replies \cup {None}
           Bs == BOOLEAN
<1>1. Journeys = [kind : Ks, phase : Phases, source : Ss, mapped : Ds, reason : Ws, profile : Ps, meta : Ds, risk : Rs,
                  target : Ds, fresh : Bs, asked : Bs, sent : Bs, late : Bs, performed : Bs,
                  status : Ts, record : Ts, answer : As]
  BY DEF Journeys
<1> HIDE DEF Ks, Ss, Ds, Ws, Ps, Rs, Ts, As, Bs
<1>2. \A x \in Ds : [r EXCEPT !.mapped = x] \in Journeys
  BY <1>1
<1>3. \A x \in Ds : [r EXCEPT !.meta = x] \in Journeys
  BY <1>1
<1>4. \A x \in Ds : [r EXCEPT !.target = x] \in Journeys
  BY <1>1
<1>5. \A x \in Rs : [r EXCEPT !.risk = x] \in Journeys
  BY <1>1
<1>6. \A x \in Ts : [r EXCEPT !.record = x] \in Journeys
  BY <1>1
<1>7. \A x \in As : [r EXCEPT !.answer = x] \in Journeys
  BY <1>1
<1>8. \A x \in Bs : [r EXCEPT !.asked = x] \in Journeys
  BY <1>1
<1>9. \A x \in Bs : [r EXCEPT !.sent = x] \in Journeys
  BY <1>1
<1>11. \A x \in Ps : [r EXCEPT !.profile = x] \in Journeys
  BY <1>1
<1>12. \A x \in Ws : [r EXCEPT !.reason = x] \in Journeys
  BY <1>1
<1>13. TRUE \in Bs
  BY DEF Bs
<1>14. \A x \in Profiles : x \in Ps
  BY DEF Ps
<1>15. \A x \in {"rule", "matcher", "active-profile"} : x \in Ws
  BY DEF Ws
<1>10. \A x \in Bs : [r EXCEPT !.late = x] \in Journeys
  BY <1>1
<1> QED
  BY <1>2, <1>3, <1>4, <1>5, <1>6, <1>7, <1>8, <1>9, <1>10, <1>11, <1>12, <1>13, <1>14, <1>15 DEF Ds, Rs, Ts, As, Bs

\* And the other fields stay.
LEMMA Frames ==
  ASSUME NEW r \in Journeys
  PROVE  /\ \A x : LET q == [r EXCEPT !.mapped = x] IN
                   /\ q.mapped = x /\ q.kind = r.kind /\ q.source = r.source /\ q.reason = r.reason /\ q.profile = r.profile
                   /\ q.meta = r.meta /\ q.risk = r.risk /\ q.target = r.target /\ q.sent = r.sent /\ q.late = r.late
                   /\ q.performed = r.performed /\ q.status = r.status /\ q.record = r.record /\ q.answer = r.answer
         /\ \A x : LET q == [r EXCEPT !.target = x] IN
                   /\ q.target = x /\ q.kind = r.kind /\ q.source = r.source /\ q.mapped = r.mapped /\ q.reason = r.reason
                   /\ q.profile = r.profile /\ q.meta = r.meta /\ q.risk = r.risk /\ q.sent = r.sent /\ q.late = r.late
                   /\ q.performed = r.performed /\ q.status = r.status /\ q.record = r.record /\ q.answer = r.answer
         /\ \A x : LET q == [r EXCEPT !.sent = x] IN
                   /\ q.sent = x /\ q.kind = r.kind /\ q.source = r.source /\ q.mapped = r.mapped /\ q.reason = r.reason
                   /\ q.profile = r.profile /\ q.meta = r.meta /\ q.risk = r.risk /\ q.target = r.target /\ q.late = r.late
                   /\ q.performed = r.performed /\ q.status = r.status /\ q.record = r.record /\ q.answer = r.answer
         /\ \A x : LET q == [r EXCEPT !.asked = x] IN
                   /\ q.asked = x /\ q.kind = r.kind /\ q.source = r.source /\ q.mapped = r.mapped /\ q.reason = r.reason
                   /\ q.profile = r.profile /\ q.meta = r.meta /\ q.risk = r.risk /\ q.target = r.target /\ q.sent = r.sent
                   /\ q.late = r.late /\ q.performed = r.performed /\ q.status = r.status /\ q.record = r.record /\ q.answer = r.answer
         /\ \A x : LET q == [r EXCEPT !.late = x] IN
                   /\ q.late = x /\ q.kind = r.kind /\ q.source = r.source /\ q.mapped = r.mapped /\ q.reason = r.reason
                   /\ q.profile = r.profile /\ q.meta = r.meta /\ q.risk = r.risk /\ q.target = r.target /\ q.sent = r.sent
                   /\ q.performed = r.performed /\ q.status = r.status /\ q.record = r.record /\ q.answer = r.answer
<1> DEFINE Ks == Kinds \cup {None}
           Ss == Selections \cup {None}
           Ds == Described \cup {None}
           Ws == {"rule", "matcher", "active-profile", None}
           Ps == Profiles \cup {None}
           Rs == Risks \cup {None}
           Ts == Statuses \cup {None}
           As == Replies \cup {None}
           Bs == BOOLEAN
<1>1. Journeys = [kind : Ks, phase : Phases, source : Ss, mapped : Ds, reason : Ws, profile : Ps, meta : Ds, risk : Rs,
                  target : Ds, fresh : Bs, asked : Bs, sent : Bs, late : Bs, performed : Bs,
                  status : Ts, record : Ts, answer : As]
  BY DEF Journeys
<1> HIDE DEF Ks, Ss, Ds, Ws, Ps, Rs, Ts, As, Bs
<1>2. \A x : LET q == [r EXCEPT !.mapped = x] IN
         /\ q.mapped = x /\ q.kind = r.kind /\ q.source = r.source /\ q.reason = r.reason /\ q.profile = r.profile
         /\ q.meta = r.meta /\ q.risk = r.risk /\ q.target = r.target /\ q.sent = r.sent /\ q.late = r.late
         /\ q.performed = r.performed /\ q.status = r.status /\ q.record = r.record /\ q.answer = r.answer
  BY <1>1
<1>3. \A x : LET q == [r EXCEPT !.target = x] IN
         /\ q.target = x /\ q.kind = r.kind /\ q.source = r.source /\ q.mapped = r.mapped /\ q.reason = r.reason
         /\ q.profile = r.profile /\ q.meta = r.meta /\ q.risk = r.risk /\ q.sent = r.sent /\ q.late = r.late
         /\ q.performed = r.performed /\ q.status = r.status /\ q.record = r.record /\ q.answer = r.answer
  BY <1>1
<1>4. \A x : LET q == [r EXCEPT !.sent = x] IN
         /\ q.sent = x /\ q.kind = r.kind /\ q.source = r.source /\ q.mapped = r.mapped /\ q.reason = r.reason
         /\ q.profile = r.profile /\ q.meta = r.meta /\ q.risk = r.risk /\ q.target = r.target /\ q.late = r.late
         /\ q.performed = r.performed /\ q.status = r.status /\ q.record = r.record /\ q.answer = r.answer
  BY <1>1
<1>5. \A x : LET q == [r EXCEPT !.asked = x] IN
         /\ q.asked = x /\ q.kind = r.kind /\ q.source = r.source /\ q.mapped = r.mapped /\ q.reason = r.reason
         /\ q.profile = r.profile /\ q.meta = r.meta /\ q.risk = r.risk /\ q.target = r.target /\ q.sent = r.sent
         /\ q.late = r.late /\ q.performed = r.performed /\ q.status = r.status /\ q.record = r.record /\ q.answer = r.answer
  BY <1>1
<1>6. \A x : LET q == [r EXCEPT !.late = x] IN
         /\ q.late = x /\ q.kind = r.kind /\ q.source = r.source /\ q.mapped = r.mapped /\ q.reason = r.reason
         /\ q.profile = r.profile /\ q.meta = r.meta /\ q.risk = r.risk /\ q.target = r.target /\ q.sent = r.sent
         /\ q.performed = r.performed /\ q.status = r.status /\ q.record = r.record /\ q.answer = r.answer
  BY <1>1
<1> QED
  BY <1>2, <1>3, <1>4, <1>5, <1>6

LEMMA Mapped ==
  ASSUME NEW r \in Journeys, NEW m \in Described \cup {None}
  PROVE  LET s == Map(r, m) IN
         /\ s \in Journeys /\ s.mapped = m
         /\ s.kind = r.kind /\ s.source = r.source /\ s.reason = r.reason /\ s.profile = r.profile
         /\ s.meta = r.meta /\ s.risk = r.risk /\ s.target = r.target /\ s.sent = r.sent
         /\ s.late = r.late /\ s.performed = r.performed /\ s.status = r.status /\ s.record = r.record
         /\ s.answer = r.answer
<1> DEFINE q == [r EXCEPT !.mapped = m]
<1>a. q \in Journeys
  BY Updates
<1>b. q.mapped = m
  BY Frames
<1>1. q \in Journeys /\ q.mapped = m
  BY <1>a, <1>b
<1>2. /\ q.kind = r.kind /\ q.source = r.source /\ q.mapped = m /\ q.reason = r.reason
      /\ q.profile = r.profile /\ q.meta = r.meta /\ q.risk = r.risk /\ q.target = r.target
      /\ q.sent = r.sent /\ q.late = r.late /\ q.performed = r.performed /\ q.status = r.status
      /\ q.record = r.record /\ q.answer = r.answer
  BY Frames
<1>3. Map(r, m) = [q EXCEPT !.asked = TRUE]
  BY DEF Map
<1> HIDE DEF q
<1>4. Map(r, m) \in Journeys
  BY <1>1, <1>3, Updates
<1> QED
  BY <1>1, <1>2, <1>3, <1>4, Frames

LEMMA Decided ==
  ASSUME NEW r \in Journeys, NEW p \in Profiles, NEW reason \in {"rule", "matcher", "active-profile"},
         NEW m \in Described \cup {None}, NEW risk \in Risks
  PROVE  LET s == Ruled(r, p, reason, m, risk) IN
         /\ s \in Journeys /\ s.profile = p /\ s.reason = reason /\ s.meta = m /\ s.risk = risk
         /\ s.kind = r.kind /\ s.source = r.source /\ s.mapped = r.mapped /\ s.target = r.target
         /\ s.sent = r.sent /\ s.late = r.late /\ s.performed = r.performed /\ s.status = r.status
         /\ s.record = r.record /\ s.answer = r.answer
<1> DEFINE t == [r EXCEPT !.profile = p]
<1>t. t \in Journeys
  BY Updates
<1> HIDE DEF t
<1>u. [t EXCEPT !.reason = reason] \in Journeys
  BY <1>t, Updates
<1>a. [r EXCEPT !.profile = p, !.reason = reason] \in Journeys
  BY <1>u DEF t
<1>b. \A q \in Journeys : [q EXCEPT !.meta = m] \in Journeys
  BY Updates
<1>c. \A q \in Journeys : [q EXCEPT !.risk = risk] \in Journeys
  BY Updates
<1>1. Ruled(r, p, reason, m, risk) \in Journeys
  BY <1>a, <1>b, <1>c DEF Ruled
<1> QED
  BY <1>1, SMTT(40) DEF Ruled, Journeys

LEMMA Targeting ==
  ASSUME NEW r \in Journeys, NEW m \in Described \cup {None}
  PROVE  LET s == Aim(r, m) IN
         /\ s \in Journeys /\ s.target = m
         /\ s.kind = r.kind /\ s.source = r.source /\ s.mapped = r.mapped /\ s.reason = r.reason
         /\ s.profile = r.profile /\ s.meta = r.meta /\ s.risk = r.risk /\ s.sent = r.sent
         /\ s.late = r.late /\ s.performed = r.performed /\ s.status = r.status /\ s.record = r.record
         /\ s.answer = r.answer
<1> DEFINE q == [r EXCEPT !.target = m]
<1>a. q \in Journeys
  BY Updates
<1>b. q.target = m
  BY Frames
<1>1. q \in Journeys /\ q.target = m
  BY <1>a, <1>b
<1>2. /\ q.kind = r.kind /\ q.source = r.source /\ q.mapped = r.mapped /\ q.reason = r.reason
      /\ q.profile = r.profile /\ q.meta = r.meta /\ q.risk = r.risk /\ q.target = m
      /\ q.sent = r.sent /\ q.late = r.late /\ q.performed = r.performed /\ q.status = r.status
      /\ q.record = r.record /\ q.answer = r.answer
  BY Frames
<1>3. Aim(r, m) = [q EXCEPT !.asked = TRUE]
  BY DEF Aim
<1> HIDE DEF q
<1>4. Aim(r, m) \in Journeys
  BY <1>1, <1>3, Updates
<1> QED
  BY <1>1, <1>2, <1>3, <1>4, Frames

LEMMA Dispatched ==
  ASSUME NEW r \in Journeys, NEW l \in BOOLEAN
  PROVE  LET s == Dispatch(r, l) IN
         /\ s \in Journeys /\ s.sent = TRUE /\ s.late = l
         /\ s.kind = r.kind /\ s.source = r.source /\ s.mapped = r.mapped /\ s.reason = r.reason
         /\ s.profile = r.profile /\ s.meta = r.meta /\ s.risk = r.risk /\ s.target = r.target
         /\ s.performed = r.performed /\ s.status = r.status /\ s.record = r.record
         /\ s.answer = r.answer
<1> DEFINE q == [r EXCEPT !.sent = TRUE]
<1>a. q \in Journeys
  BY Updates
<1>b. q.sent = TRUE
  BY Frames
<1>1. q \in Journeys /\ q.sent = TRUE
  BY <1>a, <1>b
<1>2. /\ q.kind = r.kind /\ q.source = r.source /\ q.mapped = r.mapped /\ q.reason = r.reason
      /\ q.profile = r.profile /\ q.meta = r.meta /\ q.risk = r.risk /\ q.target = r.target
      /\ q.sent = TRUE /\ q.late = r.late /\ q.performed = r.performed /\ q.status = r.status
      /\ q.record = r.record /\ q.answer = r.answer
  BY Frames
<1>3. Dispatch(r, l) = [q EXCEPT !.late = l]
  BY DEF Dispatch
<1> HIDE DEF q
<1>4. Dispatch(r, l) \in Journeys
  BY <1>1, <1>3, Updates
<1> QED
  BY <1>1, <1>2, <1>3, <1>4, Frames

LEMMA Performed ==
  ASSUME NEW r \in Journeys
  PROVE  LET s == Performing(r) IN
         /\ s \in Journeys /\ s.performed = TRUE
         /\ s.kind = r.kind /\ s.source = r.source /\ s.mapped = r.mapped /\ s.reason = r.reason
         /\ s.profile = r.profile /\ s.meta = r.meta /\ s.risk = r.risk /\ s.target = r.target
         /\ s.sent = r.sent /\ s.late = r.late /\ s.status = r.status /\ s.record = r.record
         /\ s.answer = r.answer
<1>1. Performing(r) \in Journeys
  BY ZenonT(30) DEF Performing, Journeys, Statuses, Replies
<1> QED
  BY <1>1 DEF Performing, Journeys

LEMMA Unforwarded ==
  ASSUME NEW r \in Journeys
  PROVE  LET s == Unforwarding(r) IN
         /\ s \in Journeys /\ s.status = "failure" /\ s.answer = None
         /\ s.kind = r.kind /\ s.source = r.source /\ s.mapped = r.mapped /\ s.reason = r.reason
         /\ s.profile = r.profile /\ s.meta = r.meta /\ s.risk = r.risk /\ s.target = r.target
         /\ s.sent = r.sent /\ s.late = r.late /\ s.performed = r.performed /\ s.record = r.record
<1>1. Unforwarding(r) \in Journeys
  BY ZenonT(30) DEF Unforwarding, Journeys, Statuses, Replies
<1> QED
  BY <1>1 DEF Unforwarding, Journeys

LEMMA Recorded ==
  ASSUME NEW r \in Journeys, NEW a \in Replies \cup {None}, NEW outcome \in Statuses \cup {None}
  PROVE  LET s == Recording(r, outcome, a) IN
         /\ s \in Journeys /\ s.record = outcome /\ s.answer = a
         /\ s.kind = r.kind /\ s.source = r.source /\ s.mapped = r.mapped /\ s.reason = r.reason
         /\ s.profile = r.profile /\ s.meta = r.meta /\ s.risk = r.risk /\ s.target = r.target
         /\ s.sent = r.sent /\ s.late = r.late /\ s.performed = r.performed /\ s.status = r.status
<1>a. [r EXCEPT !.record = outcome] \in Journeys
  BY Updates
<1>b. \A q \in Journeys : [q EXCEPT !.answer = a] \in Journeys
  BY Updates
<1>1. Recording(r, outcome, a) \in Journeys
  BY <1>a, <1>b DEF Recording
<1> QED
  BY <1>1 DEF Recording, Journeys

LEMMA Unrecorded ==
  ASSUME NEW r \in Journeys, NEW a \in Replies \cup {None}
  PROVE  LET s == Answering(r, a) IN
         /\ s \in Journeys /\ s.answer = a
         /\ s.kind = r.kind /\ s.sent = r.sent /\ s.performed = r.performed /\ s.status = r.status
         /\ s.record = r.record
<1>1. Answering(r, a) \in Journeys
  BY Updates DEF Answering
<1>2. Answering(r, a).answer = a
  BY DEF Answering, Journeys
<1>3. Answering(r, a).kind = r.kind /\ Answering(r, a).sent = r.sent /\ Answering(r, a).performed = r.performed
  BY DEF Answering, Journeys
<1>4. Answering(r, a).status = r.status /\ Answering(r, a).record = r.record
  BY DEF Answering, Journeys
<1> QED
  BY <1>1, <1>2, <1>3, <1>4

LEMMA Refreshed ==
  ASSUME NEW r \in Journeys, NEW b \in BOOLEAN
  PROVE  LET s == Fresh(r, b) IN
         /\ s \in Journeys /\ s.phase = r.phase
         /\ s.kind = r.kind /\ s.source = r.source /\ s.mapped = r.mapped /\ s.reason = r.reason
         /\ s.profile = r.profile /\ s.meta = r.meta /\ s.risk = r.risk /\ s.target = r.target
         /\ s.sent = r.sent /\ s.late = r.late /\ s.performed = r.performed /\ s.status = r.status
         /\ s.record = r.record /\ s.answer = r.answer
<1>1. Fresh(r, b) \in Journeys
  BY DEF Fresh, Journeys, Statuses, Replies
<1> QED
  BY <1>1 DEF Fresh, Journeys

\* What the steps of a request leave alone.
LEMMA WorldType ==
  ASSUME JourneyTypes, UNCHANGED World, cached' \in [Profiles -> Described \cup {None}], req' \in Journeys
  PROVE  JourneyTypes'
BY DEF JourneyTypes, World

LEMMA GetType ==
  ASSUME JourneyTypes, NEW p \in Profiles, Get(p)
  PROVE  cached' \in [Profiles -> Described \cup {None}] /\ cached'[p] \in Described \cup {None}
BY DEF JourneyTypes, Get

\* A request that is over with an outcome that is true of it.
LEMMA EndsGood ==
  ASSUME JourneyInv, UNCHANGED World, NEW outcome \in Statuses, NEW answer \in {"result", "input", None}, Ends(outcome, answer),
         outcome \in Refusals => req.sent = FALSE,
         answer = "result" => (req.kind # "own" => req.sent = TRUE) /\ outcome \in {"success", "failure"},
         outcome = "success" => (req.kind # "own" => req.performed = TRUE) /\ answer = "result",
         outcome = "cancelled" => aborted = TRUE
  PROVE  req' \in Journeys /\ Good(req)'
<1>1. req' \in Journeys
  BY EndsType DEF JourneyInv
<1>2. /\ req'.phase = "flush" /\ req'.status = outcome /\ req'.record = None /\ req'.answer = answer
      /\ req'.kind = req.kind /\ req'.sent = req.sent /\ req'.performed = req.performed
  BY <1>1 DEF Ends, Nothing, Journeys
<1>3. UNCHANGED <<conf, aborted>>
  BY DEF World
<1>4. Told(req, outcome)'
  BY <1>2, <1>3 DEF Told
<1>5. Outcome(req)'
  BY <1>2, <1>4, OperationAssumption DEF Outcome, Told, Statuses
<1> QED
  BY <1>1, <1>2, <1>5 DEF Good, Unsent, Begun, Hinted, Aimed, Left, Answered, Early, Routed, Targeted

LEMMA ThrowsGood ==
  ASSUME JourneyInv, UNCHANGED World, NEW outcome \in Statuses \ {"success", "cancelled"}, Throws(outcome),
         req.sent = FALSE \/ outcome = "failure"
  PROVE  req' \in Journeys /\ Good(req)'
<1>1. aborted \in BOOLEAN
  BY DEF JourneyInv, JourneyTypes
<1>2. CASE aborted = TRUE
  <2>1. Ends("cancelled", None)
    BY <1>2 DEF Throws
  <2> QED
    BY <1>2, <2>1, EndsGood, OperationAssumption DEF Statuses, Refusals
<1>3. CASE aborted = FALSE
  <2>1. Ends(outcome, None)
    BY <1>3 DEF Throws
  <2> QED
    BY <1>3, <2>1, EndsGood, OperationAssumption DEF Statuses, Refusals
<1> QED
  BY <1>1, <1>2, <1>3

\* A request that is over for one or the other reason keeps the invariant.
LEMMA Kept ==
  ASSUME JourneyInv, UNCHANGED <<World, cached>>, req' \in Journeys, Good(req)'
  PROVE  JourneyInv'
BY WorldType DEF JourneyInv, JourneyTypes

---------------------------------------------------------------------------
(* The steps.                                                              *)

LEMMA CaptureStep ==
  ASSUME JourneyInv, NEW kind \in Kinds, NEW source \in Selections, Capture(kind, source)
  PROVE  JourneyInv'
<1> DEFINE r == [Nothing EXCEPT !.kind = kind, !.source = source]
<1>1. r \in Journeys /\ r.status = None /\ r.answer = None /\ r.record = None /\ r.sent = FALSE
      /\ r.source \in Selections
  BY DEF Nothing, Journeys, Phases, Early
<1>2. Goes("open", r)
  BY DEF Capture
<1> HIDE DEF r
<1>3. req' \in Journeys /\ req'.phase = "open" /\ req'.status = None /\ req'.answer = None /\ req'.record = None /\ req'.sent = FALSE
      /\ req'.source \in Selections
  BY <1>1, <1>2, GoesFields DEF Phases, Early, Same
<1>4. Good(req)'
  BY <1>3 DEF Good, Unsent, Begun, Hinted, Aimed, Left, Outcome, Answered, Told, Early, Routed, Targeted, Over, Refusals
<1> QED
  BY <1>3, <1>4, Kept DEF Capture

LEMMA AdmitStep == ASSUME JourneyInv, Admit PROVE JourneyInv'
<1>0. /\ req \in Journeys /\ Good(req) /\ req.phase = "open" /\ UNCHANGED <<World, cached>>
  BY DEF JourneyInv, JourneyTypes, Admit, At
<1>1. CASE Goes("source", req)
  <2>1. req' \in Journeys /\ req'.phase = "source" /\ Same(req', req)
    BY <1>0, <1>1, GoesFields DEF Phases, Early
  <2>2. Good(req)'
    BY <1>0, <2>1 DEF Same, Good, Unsent, Begun, Hinted, Aimed, Left, Outcome, Answered, Told, Early, Routed, Targeted, Over, Refusals
  <2> QED
    BY <1>0, <2>1, <2>2, Kept
<1>2. CASE Goes("finish", [req EXCEPT !.status = "failure"])
  <2> DEFINE r == [req EXCEPT !.status = "failure"]
  <2>1. r \in Journeys /\ r.status = "failure" /\ r.answer = req.answer /\ r.record = req.record
    BY <1>0 DEF Journeys, Statuses
  <2>2. Goes("finish", r)
    BY <1>2
  <2> HIDE DEF r
  <2>3. req' \in Journeys /\ req'.phase = "finish" /\ req'.status = "failure" /\ req'.answer = req.answer /\ req'.record = req.record
    BY <2>1, <2>2, GoesFields DEF Phases, Over, Same
  <2>4. Good(req)'
    BY <1>0, <2>3, OperationAssumption DEF Good, Unsent, Begun, Hinted, Aimed, Left, Outcome, Answered, Told, Early, Routed, Targeted, Over, Refusals, Statuses
  <2> QED
    BY <1>0, <2>3, <2>4, Kept
<1> QED
  BY <1>1, <1>2 DEF Admit

LEMMA AnswerOwnStep == ASSUME JourneyInv, AnswerOwn PROVE JourneyInv'
<1>0. /\ req \in Journeys /\ Good(req) /\ req.phase = "source" /\ req.kind = "own" /\ UNCHANGED <<World, cached>>
      /\ req.sent = FALSE
  BY DEF JourneyInv, JourneyTypes, AnswerOwn, At, Good, Unsent, Early
<1>1. PICK outcome \in Statuses, answer \in {"result", None} :
        /\ Ends(outcome, answer)
        /\ answer = "result" <=> outcome = "success" \/ (answer = "result" /\ outcome = "failure")
        /\ outcome = "cancelled" => aborted = TRUE
  <2> aborted \in BOOLEAN
    BY DEF JourneyInv, JourneyTypes
  <2> QED
    BY OperationAssumption DEF AnswerOwn, Statuses
<1>2. req' \in Journeys /\ Good(req)'
  BY <1>0, <1>1, EndsGood
<1> QED
  BY <1>0, <1>2, Kept

LEMMA FindSourceStep == ASSUME JourneyInv, FindSource PROVE JourneyInv'
<1>0. /\ req \in Journeys /\ Good(req) /\ req.phase = "source" /\ req.kind # "own" /\ UNCHANGED World
      /\ req.sent = FALSE /\ JourneyTypes
  BY DEF JourneyInv, JourneyTypes, FindSource, At, Good, Unsent, Early
<1>1. CASE req.kind = "resource" /\ Goes("route", req) /\ UNCHANGED cached
  <2>1. req' \in Journeys /\ req'.phase = "route" /\ Same(req', req)
    BY <1>0, <1>1, GoesFields DEF Phases, Early
  <2>2. Good(req)'
    BY <1>0, <1>1, <2>1 DEF Same, Good, Unsent, Begun, Hinted, Aimed, Left, Outcome, Answered, Told, Early, Routed, Targeted, Over, Refusals
  <2> QED
    BY <1>0, <1>1, <2>1, <2>2, Kept
<1>2. CASE /\ req.kind = "tool" /\ Get(req.source.profile)
           /\ Goes("route", [req EXCEPT !.mapped = cached'[req.source.profile], !.asked = TRUE])
  <2>1. cached' \in [Profiles -> Described \cup {None}]
    BY <1>0, <1>2 DEF JourneyTypes, Get
  <2>2. req.source.profile \in Profiles
    BY <1>0 DEF Good, Begun, Early, Selections
  <2>m. PICK m \in Described \cup {None} : m = cached'[req.source.profile]
    BY <2>1, <2>2
  <2> DEFINE r == Map(req, m)
  <2>3. /\ r \in Journeys /\ r.status = req.status /\ r.answer = req.answer /\ r.record = req.record /\ r.sent = req.sent
        /\ r.source = req.source /\ r.kind = req.kind
    BY <1>0, <2>m, Mapped
  <2>4. Goes("route", r)
    BY <1>2, <2>m DEF Map
  <2> HIDE DEF r
  <2>5. req' \in Journeys /\ req'.phase = "route" /\ req'.status = req.status /\ req'.answer = req.answer
        /\ req'.record = req.record /\ req'.sent = req.sent /\ req'.source = req.source /\ req'.kind = req.kind
    BY <2>3, <2>4, GoesFields DEF Phases, Early, Same
  <2>6. Good(req)'
    BY <1>0, <1>2, <2>5 DEF Good, Unsent, Begun, Hinted, Aimed, Left, Outcome, Answered, Told, Early, Routed, Targeted, Over, Refusals
  <2> QED
    BY <1>0, <2>1, <2>5, <2>6, WorldType DEF JourneyInv
<1>3. CASE Ends("failure", None) /\ UNCHANGED cached
  <2>1. req' \in Journeys /\ Good(req)'
    BY <1>0, <1>3, EndsGood, OperationAssumption DEF Statuses, Refusals
  <2> QED
    BY <1>0, <1>3, <2>1, Kept
<1> QED
  BY <1>0, <1>1, <1>2, <1>3 DEF FindSource

\* A refusal before the call.
LEMMA RefuseGood ==
  ASSUME JourneyInv, UNCHANGED World, req.sent = FALSE, Refuse
  PROVE  req' \in Journeys /\ Good(req)'
BY ThrowsGood, OperationAssumption DEF Refuse, Statuses

LEMMA DecideStep ==
  ASSUME JourneyInv, NEW p \in Profiles, NEW reason \in {"rule", "matcher", "active-profile"}, Decide(p, reason)
  PROVE  JourneyInv'
<1>0. /\ req \in Journeys /\ Good(req) /\ req.phase = "route" /\ UNCHANGED <<World, cached>>
      /\ req.sent = FALSE /\ req.kind \in {"tool", "resource"} /\ req.source \in Selections
  BY DEF JourneyInv, JourneyTypes, Decide, At, Good, Unsent, Begun, Early
<1>1. PICK m \in Described \cup {None} : m = CachedTarget(p) /\ (m # None => req.kind = "tool" /\ m = req.mapped)
  BY DEF CachedTarget, JourneyInv, JourneyTypes
<1>2. PICK risk \in Risks : risk = Risk(m)
  BY <1>1, OperationAssumption DEF Risk, Described, Risks
<1> DEFINE r == Ruled(req, p, reason, m, risk)
<1>3. CASE Refuse
  BY <1>0, <1>3, RefuseGood, Kept
<1>4. CASE Enforced(reason, risk) /\ Goes("target", r)
  <2>1. /\ r \in Journeys /\ r.profile = p /\ r.reason = reason /\ r.meta = m /\ r.risk = risk
        /\ r.status = req.status /\ r.answer = req.answer /\ r.record = req.record /\ r.sent = req.sent
        /\ r.source = req.source /\ r.kind = req.kind /\ r.mapped = req.mapped
    BY <1>0, <1>1, <1>2, Decided
  <2>2. Goes("target", r)
    BY <1>4
  <2>3. risk = "destructive" /\ conf.ruled = TRUE /\ req.kind = "tool" => reason = "rule"
    BY <1>4 DEF Enforced
  <2>4. risk = (IF conf'.trusts /\ m # None THEN m ELSE ByName) /\ UNCHANGED conf
    BY <1>0, <1>2 DEF Risk, World
  <2> HIDE DEF r
  <2>5. /\ req' \in Journeys /\ req'.phase = "target" /\ req'.status = req.status /\ req'.answer = req.answer
        /\ req'.record = req.record /\ req'.sent = req.sent /\ req'.source = req.source /\ req'.kind = req.kind
        /\ req'.reason = reason /\ req'.meta = m /\ req'.risk = risk /\ req'.mapped = req.mapped
    BY <2>1, <2>2, GoesFields DEF Phases, Early, Same
  <2>6. Good(req)'
    BY <1>0, <1>1, <2>3, <2>4, <2>5 DEF Risk, Good, Unsent, Begun, Hinted, Aimed, Left, Outcome, Answered, Told, Early, Routed, Targeted, Over, Refusals
  <2> QED
    BY <1>0, <2>5, <2>6, Kept
<1> QED
  BY <1>1, <1>2, <1>3, <1>4 DEF Decide, Ruled

LEMMA UnroutedStep ==
  ASSUME JourneyInv, NEW outcome \in {"denied", "ambiguous", "failure"}, Unrouted(outcome)
  PROVE  JourneyInv'
<1>1. UNCHANGED <<World, cached>> /\ Throws(outcome) /\ req.sent = FALSE
  BY DEF JourneyInv, Unrouted, At, Good, Unsent, Early
<1>2. outcome \in Statuses \ {"success", "cancelled"}
  BY DEF Statuses
<1> QED
  BY <1>1, <1>2, ThrowsGood, Kept

LEMMA BindStep == ASSUME JourneyInv, Bind PROVE JourneyInv'
<1>0. /\ req \in Journeys /\ Good(req) /\ req.phase = "target" /\ UNCHANGED World /\ JourneyTypes
      /\ req.sent = FALSE /\ req.kind \in {"tool", "resource"} /\ req.source \in Selections
  BY DEF JourneyInv, JourneyTypes, Bind, At, Good, Unsent, Begun, Early, Routed
<1>1. cached' \in [Profiles -> Described \cup {None}]
  BY <1>0 DEF Bind, Get, JourneyTypes
<1> DEFINE target == IF req.kind = "tool" THEN cached'[req.profile] ELSE None
           after == IF req.risk = "destructive" /\ conf.destructive = "confirm" THEN "approve" ELSE "session"
<1>2. CASE \E outcome \in {"failure", "denied", "confirmation-required"} : Throws(outcome)
  <2>1. req' \in Journeys /\ Good(req)'
    BY <1>0, <1>2, ThrowsGood DEF Statuses
  <2> QED
    BY <1>0, <1>1, <2>1, WorldType DEF JourneyInv
<1>3. CASE /\ target = req.mapped /\ IdentityAllows /\ IdentityConfirmed
           /\ Goes(after, Aim(req, target))
  <2>1. PICK m \in Described \cup {None} : m = target /\ m = req.mapped
    BY <1>0, <1>3 DEF Journeys
  <2> DEFINE r == Aim(req, m)
  <2>2. /\ r \in Journeys /\ r.target = m /\ r.source = req.source /\ r.kind = req.kind /\ r.mapped = req.mapped
        /\ r.meta = req.meta /\ r.risk = req.risk /\ r.reason = req.reason /\ r.profile = req.profile
        /\ r.sent = req.sent /\ r.status = req.status /\ r.answer = req.answer /\ r.record = req.record
    BY <1>0, Targeting
  <2>3. Goes(after, r) /\ after \in {"approve", "session"}
    BY <1>3, <2>1
  <2> HIDE DEF r, after, target
  <2>4. req' \in Journeys /\ req'.phase \in {"approve", "session"} /\ Same(req', r)
    BY <2>2, <2>3, GoesFields DEF Phases, Early
  <2>5. conf.bound = "confirmed" /\ req.risk = "destructive" => req.source.how = "confirmed" /\ req.source.profile = req.profile
    BY <1>3 DEF IdentityAllows, IdentityConfirmed, SelectedFor
  <2>6. UNCHANGED conf
    BY <1>0 DEF World
  <2>7. Good(req)'
    BY <1>0, <2>1, <2>2, <2>4, <2>5, <2>6 DEF Risk, Same, Good, Unsent, Begun, Hinted, Aimed, Left, Outcome, Answered, Told, Early, Routed, Targeted, Over, Refusals
  <2> QED
    BY <1>0, <1>1, <2>4, <2>7, WorldType DEF JourneyInv
<1>4. \/ \E outcome \in {"failure", "denied", "confirmation-required"} : Throws(outcome)
      \/ target = req.mapped /\ IdentityAllows /\ IdentityConfirmed /\ Goes(after, Aim(req, target))
  BY Zenon DEF Bind, Aim
<1> QED
  BY <1>2, <1>3, <1>4

LEMMA UnboundStep == ASSUME JourneyInv, Unbound PROVE JourneyInv'
<1>1. UNCHANGED <<World, cached>> /\ Throws("failure")
  BY DEF Unbound
<1> QED
  BY <1>1, ThrowsGood, Kept, OperationAssumption DEF Statuses

LEMMA ApproveStep == ASSUME JourneyInv, Approve PROVE JourneyInv'
<1>0. /\ req \in Journeys /\ Good(req) /\ req.phase = "approve" /\ UNCHANGED <<World, cached>> /\ req.sent = FALSE
      /\ UNCHANGED conf
  BY DEF JourneyInv, JourneyTypes, Approve, At, Good, Unsent, Early, World
<1>1. CASE Goes("session", req)
  <2>1. req' \in Journeys /\ req'.phase = "session" /\ Same(req', req)
    BY <1>0, <1>1, GoesFields DEF Phases, Early
  <2>2. Good(req)'
    BY <1>0, <2>1 DEF Risk, Same, Good, Unsent, Begun, Hinted, Aimed, Left, Outcome, Answered, Told, Early, Routed, Targeted, Over, Refusals
  <2> QED
    BY <1>0, <2>1, <2>2, Kept
<1>2. CASE Throws("confirmation-required")
  BY <1>0, <1>2, ThrowsGood, Kept DEF Statuses
<1>3. CASE Ends("confirmation-required", "input")
  <2>1. req' \in Journeys /\ Good(req)'
    BY <1>0, <1>3, EndsGood, OperationAssumption DEF Statuses
  <2> QED
    BY <1>0, <2>1, Kept
<1> QED
  BY <1>1, <1>2, <1>3 DEF Approve

LEMMA AcquireStep == ASSUME JourneyInv, Acquire PROVE JourneyInv'
<1>0. /\ req \in Journeys /\ Good(req) /\ req.phase = "session" /\ UNCHANGED <<World, cached>> /\ UNCHANGED conf
  BY DEF JourneyInv, JourneyTypes, Acquire, At, World
<1>1. CASE Goes("call", req)
  <2>1. req' \in Journeys /\ req'.phase = "call" /\ Same(req', req)
    BY <1>0, <1>1, GoesFields DEF Phases, Early
  <2>2. Good(req)'
    BY <1>0, <2>1 DEF Risk, Same, Good, Unsent, Begun, Hinted, Aimed, Left, Outcome, Answered, Told, Early, Routed, Targeted, Over, Refusals
  <2> QED
    BY <1>0, <2>1, <2>2, Kept
<1>2. CASE Throws("failure")
  BY <1>0, <1>2, ThrowsGood, Kept DEF Statuses
<1> QED
  BY <1>1, <1>2 DEF Acquire

LEMMA CallStep == ASSUME JourneyInv, Call PROVE JourneyInv'
<1>0. /\ req \in Journeys /\ Good(req) /\ req.phase = "call" /\ UNCHANGED <<World, cached>> /\ req.sent = FALSE
      /\ UNCHANGED conf /\ late \in BOOLEAN
  BY DEF JourneyInv, JourneyTypes, Call, At, Good, Unsent, Early, World
<1>1. CASE Refuse
  BY <1>0, <1>1, RefuseGood, Kept
<1>2. CASE Throws("failure")
  BY <1>0, <1>2, ThrowsGood, Kept DEF Statuses
<1>3. CASE SelectionAllows(req.profile, req.risk) /\ Goes("sent", Dispatch(req, late))
  <2> DEFINE r == Dispatch(req, late)
  <2>1. /\ r \in Journeys /\ r.target = req.target /\ r.source = req.source /\ r.kind = req.kind /\ r.mapped = req.mapped
        /\ r.meta = req.meta /\ r.risk = req.risk /\ r.reason = req.reason /\ r.profile = req.profile
        /\ r.sent = TRUE /\ r.late = late /\ r.status = req.status /\ r.answer = req.answer /\ r.record = req.record
    BY <1>0, Dispatched
  <2>2. Goes("sent", r)
    BY <1>3
  <2> HIDE DEF r
  <2>3. req' \in Journeys /\ req'.phase = "sent" /\ Same(req', r)
    BY <2>1, <2>2, GoesFields DEF Phases
  <2>4. req.risk = "destructive" /\ conf.leased = TRUE => late = FALSE /\ req.source.profile = req.profile
    BY <1>0, <1>3 DEF SelectionAllows, LeaseAllows
  <2>5. Good(req)'
    BY <1>0, <2>1, <2>3, <2>4 DEF Risk, Same, Good, Unsent, Begun, Hinted, Aimed, Left, Outcome, Answered, Told, Early, Routed, Targeted, Over, Refusals
  <2> QED
    BY <1>0, <2>3, <2>5, Kept
<1> QED
  BY <1>1, <1>2, <1>3 DEF Call, Dispatch

LEMMA PerformStep == ASSUME JourneyInv, Perform PROVE JourneyInv'
<1>0. /\ req \in Journeys /\ Good(req) /\ req.phase = "sent" /\ UNCHANGED <<World, cached>> /\ UNCHANGED conf
  BY DEF JourneyInv, JourneyTypes, Perform, At, World
<1> DEFINE r == Performing(req)
<1>1. /\ r \in Journeys /\ r.target = req.target /\ r.source = req.source /\ r.kind = req.kind /\ r.mapped = req.mapped
      /\ r.meta = req.meta /\ r.risk = req.risk /\ r.reason = req.reason /\ r.profile = req.profile
      /\ r.sent = req.sent /\ r.late = req.late /\ r.status = req.status /\ r.answer = req.answer /\ r.record = req.record
  BY <1>0, Performed
<1>2. Goes("sent", r)
  BY DEF Perform, Performing
<1> HIDE DEF r
<1>3. req' \in Journeys /\ req'.phase = "sent" /\ Same(req', r)
  BY <1>1, <1>2, GoesFields DEF Phases
<1>4. Good(req)'
  BY <1>0, <1>1, <1>3 DEF Risk, Same, Good, Unsent, Begun, Hinted, Aimed, Left, Outcome, Answered, Told, Early, Routed, Targeted, Over, Refusals
<1> QED
  BY <1>0, <1>3, <1>4, Kept

LEMMA ReturnStep == ASSUME JourneyInv, Return PROVE JourneyInv'
<1>0. /\ req \in Journeys /\ Good(req) /\ req.phase = "sent" /\ UNCHANGED <<World, cached>> /\ req.sent = TRUE
      /\ req.performed \in BOOLEAN
  BY DEF JourneyInv, JourneyTypes, Return, At, Good, Left, Journeys
<1>1. CASE req.performed = TRUE /\ Ends("success", "result")
  <2>1. req' \in Journeys /\ Good(req)'
    BY <1>0, <1>1, EndsGood, OperationAssumption DEF Statuses, Refusals
  <2> QED
    BY <1>0, <2>1, Kept
<1>2. CASE Throws("failure")
  BY <1>0, <1>2, ThrowsGood, Kept DEF Statuses
<1>3. CASE Ends("failure", "result")
  <2>1. req' \in Journeys /\ Good(req)'
    BY <1>0, <1>3, EndsGood, OperationAssumption DEF Statuses, Refusals
  <2> QED
    BY <1>0, <2>1, Kept
<1> QED
  BY <1>0, <1>1, <1>2, <1>3 DEF Return

LEMMA FlushStep == ASSUME JourneyInv, Flush PROVE JourneyInv'
<1>0. /\ req \in Journeys /\ Good(req) /\ req.phase = "flush" /\ UNCHANGED <<World, cached>> /\ UNCHANGED <<conf, aborted>>
  BY DEF JourneyInv, JourneyTypes, Flush, At, World
<1>1. CASE Goes("finish", req)
  <2>1. req' \in Journeys /\ req'.phase = "finish" /\ Same(req', req)
    BY <1>0, <1>1, GoesFields DEF Phases, Over
  <2>2. Good(req)'
    BY <1>0, <2>1 DEF Same, Good, Unsent, Begun, Hinted, Aimed, Left, Outcome, Answered, Told, Early, Routed, Targeted, Over, Refusals
  <2> QED
    BY <1>0, <2>1, <2>2, Kept
<1>2. CASE Goes("finish", Unforwarding(req))
  <2> DEFINE r == Unforwarding(req)
  <2>1. /\ r \in Journeys /\ r.status = "failure" /\ r.answer = None /\ r.record = req.record /\ r.sent = req.sent
        /\ r.kind = req.kind
    BY <1>0, Unforwarded
  <2>2. Goes("finish", r)
    BY <1>2
  <2> HIDE DEF r
  <2>3. req' \in Journeys /\ req'.phase = "finish" /\ Same(req', r)
    BY <2>1, <2>2, GoesFields DEF Phases, Over
  <2>4. Good(req)'
    BY <1>0, <2>1, <2>3, OperationAssumption DEF Same, Good, Unsent, Begun, Hinted, Aimed, Left, Outcome, Answered, Told, Early, Routed, Targeted, Over, Refusals, Statuses
  <2> QED
    BY <1>0, <2>3, <2>4, Kept
<1> QED
  BY <1>1, <1>2 DEF Flush, Unforwarding

LEMMA FinishStep == ASSUME JourneyInv, Finish PROVE JourneyInv'
<1>0. /\ req \in Journeys /\ Good(req) /\ req.phase = "finish" /\ UNCHANGED <<World, cached>> /\ UNCHANGED <<conf, aborted>>
      /\ conf.closed \in BOOLEAN /\ req.answer \in Replies \cup {None} /\ req.status \in Statuses \cup {None} /\ req.record = None
  BY DEF JourneyInv, JourneyTypes, Finish, At, World, Configs, Journeys, Good, Unsent
<1> DEFINE a == IF req.answer = None THEN "error" ELSE req.answer
           b == IF req.answer = None \/ conf.closed THEN "error" ELSE req.answer
<1>1. CASE Goes("answered", Recording(req, req.status, a))
  <2>1. PICK x \in Replies \cup {None} : x = a
    BY <1>0 DEF Replies
  <2> DEFINE r == Recording(req, req.status, x)
  <2>2. /\ r \in Journeys /\ r.record = req.status /\ r.answer = x /\ r.sent = req.sent
        /\ r.kind = req.kind /\ r.performed = req.performed
    BY <1>0, Recorded
  <2>3. Goes("answered", r)
    BY <1>1, <2>1
  <2>4. x = "result" <=> req.answer = "result"
    BY <1>0, <2>1, OperationAssumption
  <2> HIDE DEF r, a
  <2>5. req' \in Journeys /\ req'.phase = "answered" /\ Same(req', r)
    BY <2>2, <2>3, GoesFields DEF Phases
  <2>6. Good(req)'
    BY <1>0, <2>2, <2>4, <2>5 DEF Same, Good, Unsent, Begun, Hinted, Aimed, Left, Outcome, Answered, Told, Early, Routed, Targeted, Over, Refusals
  <2> QED
    BY <1>0, <2>5, <2>6, Kept
<1>2. CASE Goes("answered", Answering(req, b))
  <2>1. PICK x \in Replies \cup {None} : x = b
    BY <1>0 DEF Replies
  <2> DEFINE r == Answering(req, x)
  <2>2. /\ r \in Journeys /\ r.record = None /\ r.answer = x /\ r.sent = req.sent /\ r.kind = req.kind
    BY <1>0, Unrecorded
  <2>3. Goes("answered", r)
    BY <1>2, <2>1
  <2>4. (x = "result" => req.answer = "result" /\ conf.closed = FALSE) /\ (conf.closed = TRUE => x = "error")
    BY <1>0, <2>1, OperationAssumption
  <2> HIDE DEF r, b
  <2>5. req' \in Journeys /\ req'.phase = "answered" /\ Same(req', r)
    BY <2>2, <2>3, GoesFields DEF Phases
  <2>6. Good(req)'
    BY <1>0, <2>2, <2>4, <2>5, OperationAssumption DEF Same, Good, Unsent, Begun, Hinted, Aimed, Left, Outcome, Answered, Told, Early, Routed, Targeted, Over, Refusals, Statuses
  <2> QED
    BY <1>0, <2>5, <2>6, Kept
<1> QED
  BY <1>1, <1>2 DEF Finish, Recording, Answering

\* What others do changes no more of the request than whether its catalog is still the one it was bound to.
LEMMA MeanwhileStep == ASSUME JourneyInv, Meanwhile PROVE JourneyInv'
<1>0. JourneyTypes /\ req \in Journeys /\ Good(req) /\ aborted \in BOOLEAN
  BY DEF JourneyInv, JourneyTypes
<1>1. ASSUME UNCHANGED <<conf, req>>, aborted' = aborted \/ aborted' = TRUE, JourneyTypes' PROVE JourneyInv'
  BY <1>0, <1>1 DEF JourneyInv, Risk, Good, Unsent, Begun, Hinted, Aimed, Left, Outcome, Answered, Told, Early, Routed, Targeted, Over, Refusals
<1>2. CASE \E p \in Profiles : Fill(p)
  <2>1. PICK p \in Profiles : Fill(p)
    BY <1>2
  <2>2. cached' \in [Profiles -> Described \cup {None}] /\ UNCHANGED World /\ req' = req
    BY <1>0, <2>1 DEF Fill, Get, JourneyTypes
  <2>3. JourneyTypes'
    BY <1>0, <2>2, WorldType
  <2> QED
    BY <1>1, <2>2, <2>3 DEF World
<1>3. CASE \E p \in Profiles : Invalidate(p)
  <2>1. PICK p \in Profiles : Invalidate(p)
    BY <1>3
  <2>2. PICK b \in BOOLEAN : req' = Fresh(req, b)
    <3>1. PICK b \in BOOLEAN : b = (req.fresh /\ (req.profile = p /\ req.kind = "resource" => At("target")))
      BY Zenon
    <3> QED
      BY <2>1, <3>1, Zenon DEF Invalidate, Fresh
  <2> DEFINE r == Fresh(req, b)
  <2>3. /\ r \in Journeys /\ r.phase = req.phase /\ r.kind = req.kind /\ r.source = req.source /\ r.mapped = req.mapped
        /\ r.reason = req.reason /\ r.profile = req.profile /\ r.meta = req.meta /\ r.risk = req.risk
        /\ r.target = req.target /\ r.sent = req.sent /\ r.late = req.late /\ r.performed = req.performed
        /\ r.status = req.status /\ r.record = req.record /\ r.answer = req.answer
    BY <1>0, Refreshed
  <2>4. req' = r
    BY <2>2
  <2>5. cached' \in [Profiles -> Described \cup {None}] /\ UNCHANGED World /\ UNCHANGED <<conf, aborted>>
    BY <1>0, <2>1 DEF Invalidate, JourneyTypes, World
  <2> HIDE DEF r
  <2>6. Good(req)'
    BY <1>0, <2>3, <2>4, <2>5 DEF Risk, Good, Unsent, Begun, Hinted, Aimed, Left, Outcome, Answered, Told, Early, Routed, Targeted, Over, Refusals
  <2> QED
    BY <1>0, <2>3, <2>4, <2>5, <2>6, WorldType DEF JourneyInv
<1>4. CASE \E p \in Profiles, d \in Described : Change(p, d)
  <2>1. UNCHANGED <<conf, cached, late, aborted, req>> /\ tool' \in [Profiles -> Described]
    BY <1>0, <1>4 DEF Change, JourneyTypes
  <2> QED
    BY <1>0, <1>1, <2>1 DEF JourneyTypes
<1>5. CASE RunOut
  BY <1>0, <1>1, <1>5 DEF RunOut, JourneyTypes
<1>6. CASE Cancel
  BY <1>0, <1>1, <1>6 DEF Cancel, JourneyTypes
<1> QED
  BY <1>2, <1>3, <1>4, <1>5, <1>6 DEF Meanwhile

---------------------------------------------------------------------------
(* The theorems.                                                           *)

\* Every step keeps the invariant.
LEMMA NextInv == JourneyInv /\ [Next]_operationVars => JourneyInv'
<1> SUFFICES ASSUME JourneyInv, [Next]_operationVars PROVE JourneyInv'
  OBVIOUS
<1>1. CASE Handle
  <2>1. ASSUME NEW kind \in Kinds, NEW source \in Selections, Capture(kind, source) PROVE JourneyInv'
    BY <2>1, CaptureStep
  <2>2. ASSUME NEW p \in Profiles, NEW reason \in {"rule", "matcher", "active-profile"}, Decide(p, reason) PROVE JourneyInv'
    BY <2>2, DecideStep
  <2>3. ASSUME NEW outcome \in {"denied", "ambiguous", "failure"}, Unrouted(outcome) PROVE JourneyInv'
    BY <2>3, UnroutedStep
  <2> QED
    BY <1>1, <2>1, <2>2, <2>3, AdmitStep, AnswerOwnStep, FindSourceStep, BindStep, UnboundStep, ApproveStep,
       AcquireStep, CallStep, PerformStep, ReturnStep, FlushStep, FinishStep, Zenon DEF Handle
<1>2. CASE Meanwhile
  BY <1>2, MeanwhileStep
<1>3. CASE UNCHANGED operationVars
  BY <1>3 DEF operationVars, JourneyInv, JourneyTypes, Risk, Good, Unsent, Begun, Hinted, Aimed, Left, Outcome, Answered, Told, Early, Routed, Targeted, Over, Refusals
<1> QED
  BY <1>1, <1>2, <1>3 DEF Next

\* A call that left was decided for the tool it calls, under the selection, the lease and the rule that
\* the configuration asks for, whatever happened to caches, tools and lease meanwhile.
THEOREM CallsDecided == Spec => []CallsAreDecided
<1>1. JourneyInv => CallsAreDecided
  BY DEF JourneyInv, CallsAreDecided, At, Good, Unsent, Begun, Hinted, Aimed, Left, Outcome, Answered, Told, Early, Routed, Targeted, Over, Refusals, JourneyTypes, Configs, Journeys
<1> QED
  BY <1>1, InitInv, NextInv, PTL DEF Spec

\* The record of an answered request, and its answer, say what happened to it.
THEOREM RecordsHonest == Spec => []RecordsAreHonest
<1>1. JourneyInv => RecordsAreHonest
  BY OperationAssumption DEF JourneyInv, RecordsAreHonest, At, Good, Unsent, Begun, Hinted, Aimed, Left, Outcome, Answered, Told, Early, Routed, Targeted, Over, Refusals, JourneyTypes, Configs, Journeys
<1> QED
  BY <1>1, InitInv, NextInv, PTL DEF Spec

\* So it is beside the other parts, which leave the request alone.
THEOREM RequestsInServer == ServerSpec => [](CallsAreDecided /\ RecordsAreHonest)
<1>1. ServerInit => Init
  BY DEF ServerInit, MCInit
<1>2. [ServerNext]_all => [Next]_operationVars
  BY DEF ServerNext, Request, ListTools, ListResources, Subscribe, VerifyIdentity, Rule, MCNext, all
<1>. QED  BY <1>1, <1>2, CallsDecided, RecordsHonest, PTL DEF ServerSpec, Spec, all
=============================================================================
