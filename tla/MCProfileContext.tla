-------------------------- MODULE MCProfileContext --------------------------
(***************************************************************************)
(* The services with what was known when each request began.  A stranger   *)
(* only tries to revoke; only the last request uses a context, when the    *)
(* others are over; and the key manager acts at one time of the clock.     *)
(***************************************************************************)
EXTENDS ProfileContext

VARIABLE dead  \* for each request, the handles whose revocation had been answered before it began

MCAhead == [s \in Services |-> 0]

Stranger == CHOOSE chat \in Chats : chat # handle[0].chat

Answered == {call[c].handle : c \in {d \in Calls : call[d].pc = "done" /\ call[d].out = "ok" /\ call[d].kind # "use"}}

MCInit == Init /\ dead = [c \in Calls |-> {}]
MCNext ==
  /\ Next
  /\ rings' # rings => now = 1
  /\ \A c \in Calls : call[c].pc = "none" /\ call'[c].chat = Stranger => call'[c].kind = "revoke"
  /\ call'[NumCalls].kind \in {"none", "use"}
  /\ \A c \in Calls \ {NumCalls} : call'[c].kind # "use" /\ (call'[NumCalls].kind = "use" => call[c].pc = "done")
  /\ dead' = [c \in Calls |-> IF call[c].pc = "none" /\ call'[c].pc # "none" THEN Answered \ {None}
                       ELSE IF call'[c].pc = "done" THEN {} ELSE dead[c]]
MCSpec == MCInit /\ [][MCNext]_<<vars, dead>>

\* Once a revocation, or a switch away from a handle, has been answered, no request that begins
\* later gets the context it selects before the handle has expired by the clock of the service that
\* decides: at any service whose clock is not behind another's, whichever of them revoked or pruned.
RevokedStaysRevoked ==
  [][\A c \in Calls :
       call[c].pc = "check" /\ call'[c].pc # "check" /\ (call'[c].pc = "done" => call'[c].out # None) =>
         \/ call[c].round = "undo"
         \/ call[c].handle \notin dead[c]
         \/ ExpiredAt(call[c].s, call[c].handle) \/ Behind(call[c].s)]_<<vars, dead>>

\* So neither the epochs nor the revocations of a service ever go back.
NothingRollsBack == MintingNeverRollsBack /\ RevokedStaysRevoked
=============================================================================
