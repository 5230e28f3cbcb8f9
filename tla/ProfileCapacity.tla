---------------------------- MODULE ProfileCapacity ----------------------------
(***************************************************************************)
(* What the shared ProfileSessionLimiter promises, as docs/config.md       *)
(* states it for maxConcurrentProfiles: a bounded number of profiles have  *)
(* live sessions, all upstreams of a profile share one slot, a session     *)
(* lives only on a slot, and no session is ever evicted to make room: a    *)
(* slot is given back only when its last session or process is gone.       *)
(***************************************************************************)
EXTENDS Naturals, FiniteSets

CONSTANTS Upstreams, Profiles, MaxProfiles

Keys == Upstreams \X Profiles

VARIABLES
  held,  \* the pairs of an upstream and a profile that hold a share of a slot
  live   \* the pairs with a live session or a live child process

vars == <<held, live>>

ProfilesOf(pairs) == {k[2] : k \in pairs}

Init == held = {} /\ live = {}

\* acquire: the profile has a slot already, or there is one left.
Admit(k) ==
  /\ \/ k[2] \in ProfilesOf(held)
     \/ Cardinality(ProfilesOf(held)) < MaxProfiles
  /\ held' = held \cup {k}
  /\ UNCHANGED live

\* A session or a process comes to life, on the share of its pair.
Begin(k) ==
  /\ k \in held
  /\ live' = live \cup {k}
  /\ UNCHANGED held

\* Sessions end and shares are released, never one that is still in use.
Leave ==
  /\ live' \subseteq live
  /\ held' \subseteq held
  /\ live' \subseteq held'

Next == Leave \/ \E k \in Keys : Admit(k) \/ Begin(k)

Spec == Init /\ [][Next]_vars

\* At most MaxProfiles profiles have anything alive, each on its slot.
CapacityRespected ==
  /\ live \subseteq held
  /\ Cardinality(ProfilesOf(live)) <= MaxProfiles
=============================================================================
