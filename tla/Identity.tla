------------------------------- MODULE Identity -------------------------------
(***************************************************************************)
(* IdentityManager, for one profile and upstream: verifications of the     *)
(* account behind a session, shared by the callers that ask for the same   *)
(* session, published to the cache and the status unless an upstream       *)
(* lifecycle event came in between, and bound in a file that outlives the  *)
(* process (FileIdentityBindingStore).                                     *)
(*                                                                         *)
(* A probe is a PendingVerification; probes are numbered as they begin,    *)
(* which is also the order of their verifiedAt.                            *)
(***************************************************************************)
EXTENDS Naturals, Sequences, FiniteSets

CONSTANTS None, Failure, Callers, MaxProbes, MaxEpoch

VARIABLES
  epoch,      \* epochs
  generation, \* of the session an upstream manager would hand out now
  caller,     \* the callers of verify: their session and what they wait for
  probes,     \* every PendingVerification there was
  inFlight,   \* the probes listed there, one for each session key
  cache,      \* the probes whose result is cached, one for each session key
  status,     \* statuses: a probe, Failure of an acquisition, or None
  aged,       \* the probes older than identity.maxAgeMs
  binding,    \* bindings: the probe whose evidence is bound, 0 for none
  file,       \* the same in the store
  storeDown   \* bindingStoreUnavailable

identityVars == <<epoch, generation, caller, probes, inFlight, cache, status, aged, binding, file, storeDown>>

Results == {"verified", "mismatch", "failed"}
Idle == [pc |-> "idle", session |-> 0, probe |-> 0, got |-> None]

Init ==
  /\ epoch = 0 /\ generation = 1
  /\ caller = [c \in Callers |-> Idle]
  /\ probes = <<>> /\ inFlight = {} /\ cache = {} /\ status = None /\ aged = {}
  /\ binding = 0 /\ file = 0 /\ storeDown = FALSE

KeyOf(p) == <<probes[p].session, probes[p].epoch>>
Without(S, key) == {p \in S : KeyOf(p) # key}
Waiting(p) == {c \in Callers : caller[c].pc = "waiting" /\ caller[c].probe = p}
Gets(S, value) ==
  caller' = [c \in Callers |-> IF c \in S THEN [Idle EXCEPT !.pc = "done", !.got = value] ELSE caller[c]]

\* The pipeline has the session of the moment.
Acquire(c) ==
  /\ caller[c].pc = "idle"
  /\ caller' = [caller EXCEPT ![c].pc = "has", ![c].session = generation]
  /\ UNCHANGED <<epoch, generation, probes, inFlight, cache, status, aged, binding, file, storeDown>>

\* It could not get one.
AcquisitionFails(c) ==
  /\ caller[c].pc = "idle" /\ status # Failure
  /\ status' = Failure
  /\ UNCHANGED <<epoch, generation, caller, probes, inFlight, cache, aged, binding, file, storeDown>>

\* Callers share a probe of their session that nobody has given up.
JoinsAny(p, key) == KeyOf(p) = key                         \* mutant: an aborted probe is joined
Joins(p, key) == KeyOf(p) = key /\ ~probes[p].aborted

\* verify: a fresh cached result, the probe under way, or a new one in its place.
Verify(c, force) ==
  LET key == <<caller[c].session, epoch>>
      fresh == {p \in cache \ aged : KeyOf(p) = key}
      current == {p \in inFlight : Joins(p, key)}
      next == Len(probes) + 1
      WaitFor(p) == caller' = [caller EXCEPT ![c].pc = "waiting", ![c].probe = p]
  IN  /\ caller[c].pc = "has"
      /\ \/ /\ ~force
            /\ \E p \in fresh : Gets({c}, probes[p].result)
            /\ UNCHANGED <<probes, inFlight>>
         \/ /\ force \/ fresh = {}
            /\ \E p \in current : WaitFor(p)
            /\ UNCHANGED <<probes, inFlight>>
         \/ /\ force \/ fresh = {}
            /\ current = {} /\ next <= MaxProbes
            /\ probes' = Append(probes, [session |-> key[1], epoch |-> epoch, phase |-> "probing",
                                         aborted |-> FALSE, result |-> None, before |-> 0])
            /\ inFlight' = Without(inFlight, key) \cup {next}
            /\ WaitFor(next)
      /\ UNCHANGED <<epoch, generation, cache, status, aged, binding, file, storeDown>>

\* A caller leaves; a probe without callers is aborted.
Cancel(c) ==
  LET p == caller[c].probe
  IN  /\ caller[c].pc = "waiting"
      /\ Gets({c}, "left")
      /\ probes' = [probes EXCEPT ![p].aborted = (@ \/ Waiting(p) = {c})]
      /\ UNCHANGED <<epoch, generation, inFlight, cache, status, aged, binding, file, storeDown>>

\* A probe is done: published if nothing came in between, and told to its callers.
PublishesLate(p) == KeyOf(p)[1] = generation               \* mutant: the session alone is compared
Publishes(p) == probes[p].epoch = epoch /\ p \in inFlight
Settle(p, result) ==
  /\ probes' = [probes EXCEPT ![p].phase = "done", ![p].result = result]
  /\ IF Publishes(p) /\ result # "cancelled"
     THEN cache' = Without(cache, KeyOf(p)) \cup {p} /\ status' = p
     ELSE UNCHANGED <<cache, status>>
  /\ inFlight' = inFlight \ {p}
  /\ Gets(Waiting(p), result)

\* probe() returns, or throws because it was aborted; evidence that matches is bound before it counts.
ProbeEnds(p) ==
  /\ probes[p].phase = "probing"
  /\ \E result \in (IF probes[p].aborted THEN {"cancelled"} ELSE Results) :
       IF result = "verified" /\ ~storeDown
       THEN /\ binding' = p
            /\ probes' = [probes EXCEPT ![p].phase = "saving", ![p].before = binding]
            /\ UNCHANGED <<caller, inFlight, cache, status>>
       ELSE /\ Settle(p, IF result = "cancelled" \/ ~storeDown THEN result ELSE "unavailable")
            /\ UNCHANGED binding
  /\ UNCHANGED <<epoch, generation, aged, file, storeDown>>

\* save: the store keeps the newest evidence of a target; a failure takes the binding back.
Newest(p) == IF p > file THEN p ELSE file
Unbound(p) == /\ binding' = probes[p].before
              /\ storeDown' = TRUE
              /\ Settle(p, "verified")                     \* mutant: the failure stays with the store
Rejected(p) == /\ binding' = probes[p].before
               /\ storeDown' = TRUE
               /\ Settle(p, "unavailable")
SaveEnds(p) ==
  /\ probes[p].phase = "saving"
  /\ \/ file' = Newest(p) /\ Settle(p, "verified") /\ UNCHANGED <<binding, storeDown>>
     \/ Rejected(p) /\ UNCHANGED file
  /\ UNCHANGED <<epoch, generation, aged>>

\* Another target's save has failed: the store is given up for all of them.
StoreBreaks ==
  /\ ~storeDown /\ storeDown' = TRUE
  /\ UNCHANGED <<epoch, generation, caller, probes, inFlight, cache, status, aged, binding, file>>

Ages(p) ==
  /\ p \in cache \ aged /\ aged' = aged \cup {p}
  /\ UNCHANGED <<epoch, generation, caller, probes, inFlight, cache, status, binding, file, storeDown>>

\* invalidate: the session ended or was replaced.
Invalidate ==
  /\ epoch < MaxEpoch
  /\ epoch' = epoch + 1 /\ generation' \in {generation, generation + 1}
  /\ status' = None /\ cache' = {} /\ inFlight' = {}
  /\ UNCHANGED <<caller, probes, aged, binding, file, storeDown>>

Next ==
  \/ \E c \in Callers : Acquire(c) \/ AcquisitionFails(c) \/ Cancel(c) \/ \E f \in BOOLEAN : Verify(c, f)
  \/ \E p \in 1..Len(probes) : ProbeEnds(p) \/ SaveEnds(p) \/ Ages(p)
  \/ Invalidate \/ StoreBreaks

Spec == Init /\ [][Next]_identityVars

---------------------------------------------------------------------------
\* A published result was probed since the last lifecycle event of the upstream; nobody is told of
\* a cancellation not its own; and an account counts as verified only when the store has evidence of
\* it at least as new.
IdentityIsHonest ==
  /\ \A p \in cache \cup ({status} \ {None, Failure}) : probes[p].epoch = epoch
  /\ \A c \in Callers : caller[c].got # "cancelled"
  /\ \A p \in 1..Len(probes) : probes[p].result = "verified" => file >= p

\* The evidence in memory is as new as that in the store, once no save is under way.
MemoryIsNewest == (\A p \in 1..Len(probes) : probes[p].phase # "saving") /\ ~storeDown => binding = file
=============================================================================
