------------------------ MODULE ResourceSubscriptions ------------------------
(***************************************************************************)
(* The resource subscriptions of one client connection (mcp/server/        *)
(* miftah-server.ts).  Subscribe, unsubscribe and cleanup of one URI run   *)
(* one after the other; a subscription holds a lease on its upstream       *)
(* session; a profile switch sweeps all of them, and a session that ends   *)
(* drops its own.                                                          *)
(*                                                                         *)
(* A subscription is named by the transition that made it.  The upstream   *)
(* takes requests in order and may still perform one whose caller has      *)
(* given up.  The epoch only tells whether a sweep began since a subscribe *)
(* was asked for: stale.  A resource that changed leaves news, until the   *)
(* client has been notified.                                               *)
(***************************************************************************)
EXTENDS Naturals, Sequences, FiniteSets

CONSTANTS
  None,
  Uris,
  NumOps,      \* bound: transitions
  MaxSessions, \* bound: sessions of the upstream, one after the other
  MaxSweeps,   \* bound: profile switches
  MaxUpdates,  \* bound: changes of resources
  MaxFaults    \* bound: cancellations, refusals and timeouts

VARIABLES
  sub,      \* resourceSubscriptions: the subscription of each URI
  queue,    \* resourceSubscriptionTransitions: what waits for each URI, the first one running
  op,       \* transitions
  leases,   \* subscriptions that retain their session
  sweep,    \* the transitions that the profile switch in progress waits for, or None
  session,  \* the live session
  wire,     \* what was sent to it
  back,     \* what it sent
  on,       \* URIs that it is subscribed to
  news,     \* URIs that changed since the client was last notified of them
  sweeps, updates, faults

vars == <<sub, queue, op, leases, sweep, session, wire, back, on, news, sweeps, updates, faults>>
upstream == <<wire, back, on>>
counts == <<sweeps, updates, faults>>

Ops == 1..NumOps
NoOp == [kind |-> None, pc |-> "none", uri |-> None, of |-> None, session |-> 0, stale |-> FALSE,
         pending |-> 0, active |-> FALSE]

Init ==
  /\ sub = [u \in Uris |-> None]
  /\ queue = [u \in Uris |-> <<>>]
  /\ op = [o \in Ops |-> NoOp]
  /\ leases = {}
  /\ sweep = None
  /\ session = 1
  /\ wire = <<>> /\ back = <<>>
  /\ on = {} /\ news = {}
  /\ sweeps = 0 /\ updates = 0 /\ faults = 0

Fault == faults < MaxFaults /\ faults' = faults + 1
Fresh(o) == op[o].pc = "none" /\ \A p \in Ops : p < o => op[p].pc # "none"
Running(o, pc) == op[o].pc = pc /\ Head(queue[op[o].uri]) = o
Subscription(u) == IF sub[u] = None THEN {} ELSE {sub[u]}
Active(u) == sub[u] # None /\ op[sub[u]].active

\* The transition settles, and the next one of its URI may run.  What it made outlives it.
Over(o) == [op[o] EXCEPT !.pc = "done"]
Ahead(o) == [queue EXCEPT ![op[o].uri] = Tail(@)]
End(o) == op' = [op EXCEPT ![o] = Over(o)] /\ queue' = Ahead(o)

\* The transition that a URI will have come to when its queue has run dry.
Newest(q) == q[Len(q)]

\* A request on the session of a subscription; a session that is gone takes none.
Send(s, m) == wire' = IF s = session THEN Append(wire, m) ELSE wire
Request(o, what) == [by |-> o, what |-> what, uri |-> op[o].uri]

---------------------------------------------------------------------------
(* Transitions.                                                            *)

\* enqueueResourceSubscriptionTransition.
Ask(o, kind, u) ==
  /\ Fresh(o)
  /\ op' = [op EXCEPT ![o] = [NoOp EXCEPT !.kind = kind, !.pc = "queued", !.uri = u]]
  /\ queue' = [queue EXCEPT ![u] = Append(@, o)]
  /\ UNCHANGED <<sub, leases, sweep, session, upstream, news, counts>>

\* subscribeResourceOnce and unsubscribeResourceOnce look whether there is anything to do.
Start(o) ==
  /\ Running(o, "queued") /\ op[o].kind \in {"subscribe", "unsubscribe"}
  /\ LET s == sub[op[o].uri] IN
     IF (op[o].kind = "subscribe") = (s # None) THEN End(o)
     ELSE op' = [op EXCEPT ![o].pc = "routing", ![o].of = s] /\ UNCHANGED queue
  /\ UNCHANGED <<sub, leases, sweep, session, upstream, news, counts>>

\* The pipeline refuses, or the client cancelled its subscribe before the upstream was asked.
Refused(o) ==
  /\ Running(o, "routing")
  /\ Fault
  /\ End(o)
  /\ UNCHANGED <<sub, leases, sweep, session, upstream, news, sweeps, updates>>

\* mutant
IsCurrent(o) == TRUE
\* assertResourceSubscriptionEpoch.
EpochIsCurrent(o) == ~op[o].stale

\* execute: the subscription is registered before the upstream hears of it, so no update is missed.
Execute(o) ==
  LET u == op[o].uri IN
  /\ Running(o, "routing")
  /\ IF op[o].kind = "subscribe" /\ ~EpochIsCurrent(o) THEN End(o) /\ UNCHANGED <<sub, wire>>
     ELSE /\ op' = [op EXCEPT ![o].pc = "asked", ![o].session = session]
          /\ sub' = IF op[o].kind = "subscribe" THEN [sub EXCEPT ![u] = o] ELSE sub
          /\ Send(session, Request(o, op[o].kind))
          /\ UNCHANGED queue
  /\ UNCHANGED <<leases, sweep, session, back, on, news, counts>>

\* mutant
CleanupUnsent(o, s) == op' = [op EXCEPT ![o].pc = "cleaning", ![o].of = s] /\ UNCHANGED wire
\* cleanupResourceSubscription of s, in the transition o: one bounded unsubscribe.
Cleanup(o, s) ==
  /\ op' = [op EXCEPT ![o].pc = "cleaning", ![o].of = s]
  /\ Send(op[s].session, [by |-> o, what |-> "cleanup", uri |-> op[o].uri])
\* mutant
KeepLease(s) == UNCHANGED leases
Release(s) == leases' = leases \ {s}

Answered(o) == back # <<>> /\ Head(back).by = o

\* The upstream has subscribed: the lease is taken unless the subscription went away meanwhile.
Subscribed(o) ==
  LET u == op[o].uri IN
  /\ Running(o, "asked") /\ op[o].kind = "subscribe" /\ Answered(o)
  /\ back' = Tail(back)
  /\ IF sub[u] # o
     THEN Cleanup(o, o) /\ UNCHANGED leases
     ELSE /\ leases' = leases \cup {o}
          /\ op' = [op EXCEPT ![o].pc = "flushing", ![o].active = TRUE]
          /\ UNCHANGED wire
  /\ UNCHANGED <<sub, queue, sweep, session, on, news, counts>>

\* mutant
Unflushed(o) == End(o) /\ UNCHANGED news
\* flushPendingResourceUpdates; the transition ends when the notifications are out.
Flush(o) ==
  /\ op' = [op EXCEPT ![o] = [Over(o) EXCEPT !.pending = 0]]
  /\ queue' = Ahead(o)
  /\ news' = IF op[o].pending > 0 THEN news \ {op[o].uri} ELSE news
Flushed(o) ==
  /\ Running(o, "flushing")
  /\ Flush(o)
  /\ UNCHANGED <<sub, leases, sweep, session, upstream, counts>>

\* The subscribe is over for its caller, by an abort, a refusal or the end of the session: what the
\* upstream may still make of it is undone before the next transition of the URI.
Abandon(o) == [sub EXCEPT ![op[o].uri] = IF @ = o THEN None ELSE @]
SubscribeFails(o) ==
  /\ Running(o, "asked") /\ op[o].kind = "subscribe"
  /\ \/ sub[op[o].uri] # o \/ op[o].session # session
     \/ faults < MaxFaults
  /\ faults' = IF sub[op[o].uri] # o \/ op[o].session # session THEN faults ELSE faults + 1
  /\ sub' = Abandon(o)
  /\ Cleanup(o, o)
  /\ UNCHANGED <<queue, leases, sweep, session, back, on, news, sweeps, updates>>

Unsubscribed(o) ==
  LET u == op[o].uri IN
  /\ Running(o, "asked") /\ op[o].kind = "unsubscribe" /\ Answered(o)
  /\ back' = Tail(back)
  /\ sub' = [sub EXCEPT ![u] = None]
  /\ Release(op[o].of)
  /\ End(o)
  /\ UNCHANGED <<sweep, session, wire, on, news, counts>>

\* The client cancels its unsubscribe, be it before the upstream was asked: the subscription goes
\* all the same, if it is still there.
UnsubscribeCancelled(o) ==
  /\ Running(o, "routing") \/ Running(o, "asked")
  /\ op[o].kind = "unsubscribe"
  /\ Fault
  /\ IF sub[op[o].uri] = op[o].of
     THEN sub' = [sub EXCEPT ![op[o].uri] = None] /\ Cleanup(o, op[o].of) /\ UNCHANGED queue
     ELSE End(o) /\ UNCHANGED <<sub, wire>>
  /\ UNCHANGED <<leases, sweep, session, back, on, news, sweeps, updates>>

\* The session has ended under the unsubscribe; the subscription went with it.
UnsubscribeFails(o) ==
  /\ Running(o, "asked") /\ op[o].kind = "unsubscribe" /\ op[o].session # session
  /\ End(o)
  /\ UNCHANGED <<sub, leases, sweep, session, upstream, news, counts>>

\* The cleanup that a sweep asked for: an unsubscribe of the client may have come first.
SweepOne(o) ==
  LET u == op[o].uri IN
  /\ Running(o, "queued") /\ op[o].kind = "cleanup"
  /\ IF sub[u] # op[o].of THEN End(o) /\ UNCHANGED <<sub, wire>>
     ELSE sub' = [sub EXCEPT ![u] = None] /\ Cleanup(o, op[o].of) /\ UNCHANGED queue
  /\ UNCHANGED <<leases, sweep, session, back, on, news, counts>>

\* The upstream answered, or the time for it is over.
CleanedUp(o) ==
  /\ Running(o, "cleaning")
  /\ \/ op[op[o].of].session # session /\ UNCHANGED <<back, faults>>
     \/ Answered(o) /\ back' = Tail(back) /\ UNCHANGED faults
     \/ Fault /\ UNCHANGED back
  /\ Release(op[o].of)
  /\ End(o)
  /\ UNCHANGED <<sub, sweep, session, wire, on, news, sweeps, updates>>

---------------------------------------------------------------------------
(* The profile is switched, or a session ends.                             *)

\* Transitions that clean up, one for each of these URIs, in the free records.
Places(us) == {f \in [us -> Ops] :
  /\ \A u \in us : op[f[u]].pc = "none"
  /\ \A u, v \in us : u # v => f[u] # f[v]
  /\ \A o \in Ops : op[o].pc = "none" /\ (\E u \in us : o < f[u]) => \E u \in us : f[u] = o}

\* invalidateResourcePromptProfiles: subscribes that were asked for are stale, handshakes are aborted,
\* and what is active is unsubscribed behind the transitions already there.
Sweep ==
  /\ sweep = None /\ sweeps < MaxSweeps /\ sweeps' = sweeps + 1
  /\ LET active == {u \in Uris : Active(u)}
         pending == {u \in Uris : sub[u] # None /\ ~Active(u)}
     IN \E place \in Places(active) :
          LET made == {place[u] : u \in active} IN
          /\ op' = [o \in Ops |->
               IF o \in made
               THEN LET u == CHOOSE v \in active : place[v] = o IN
                    [NoOp EXCEPT !.kind = "cleanup", !.pc = "queued", !.uri = u, !.of = sub[u]]
               ELSE IF op[o].pc # "none" /\ op[o].kind = "subscribe" THEN [op[o] EXCEPT !.stale = TRUE]
               ELSE op[o]]
          /\ queue' = [u \in Uris |-> IF u \in active THEN Append(queue[u], place[u]) ELSE queue[u]]
          /\ sub' = [u \in Uris |-> IF u \in pending THEN None ELSE sub[u]]
          /\ sweep' = made \cup {Newest(queue[u]) : u \in pending}
  /\ UNCHANGED <<leases, session, upstream, news, updates, faults>>

Swept ==
  /\ sweep # None /\ \A o \in sweep : op[o].pc = "done"
  /\ sweep' = None
  /\ UNCHANGED <<sub, queue, op, leases, session, upstream, news, counts>>

\* dropResourceSubscriptions: the process of the upstream ended or is restarted.
DropLeases == leases' = leases \ {sub[u] : u \in {v \in Uris : Active(v)}}
Drop ==
  /\ session < MaxSessions /\ session' = session + 1
  /\ DropLeases
  /\ sub' = [u \in Uris |-> None]
  /\ wire' = <<>> /\ back' = <<>> /\ on' = {} /\ news' = {}
  /\ UNCHANGED <<queue, op, sweep, counts>>

---------------------------------------------------------------------------
(* The upstream.                                                           *)

Perform ==
  /\ wire # <<>>
  /\ wire' = Tail(wire)
  /\ LET m == Head(wire) IN
     /\ on' = IF m.what = "subscribe" THEN on \cup {m.uri} ELSE on \ {m.uri}
     /\ news' = IF m.uri \in on /\ m.what = "subscribe" THEN news ELSE news \ {m.uri}
     /\ back' = Append(back, [by |-> m.by, what |-> m.what, uri |-> m.uri])
  /\ UNCHANGED <<sub, queue, op, leases, sweep, session, counts>>

PutAt(s, i, m) == SubSeq(s, 1, i-1) \o <<m>> \o SubSeq(s, i, Len(s))

\* The update may overtake the answer to the subscribe.
Changed(u) ==
  /\ updates < MaxUpdates /\ updates' = updates + 1
  /\ u \in on
  /\ news' = news \cup {u}
  /\ \E i \in {Len(back), Len(back) + 1} \ {0} : back' = PutAt(back, i, [by |-> 0, what |-> "updated", uri |-> u])
  /\ UNCHANGED <<sub, queue, op, leases, sweep, session, wire, on, sweeps, faults>>

\* forwardUpstreamResourceUpdated: counted while the handshake lasts, sent after.
Forward ==
  /\ back # <<>> /\ Head(back).what = "updated"
  /\ back' = Tail(back)
  /\ LET u == Head(back).uri IN
     /\ op' = IF sub[u] # None /\ ~Active(u) THEN [op EXCEPT ![sub[u]].pending = 1] ELSE op
     /\ news' = IF Active(u) THEN news \ {u} ELSE news
  /\ UNCHANGED <<sub, queue, leases, sweep, session, wire, on, counts>>

\* An answer to a request that its caller has given up.
Late ==
  /\ back # <<>> /\ Head(back).what # "updated"
  /\ LET o == Head(back).by IN
     \/ op[o].pc \notin {"asked", "cleaning"}
     \/ op[o].pc = "cleaning" /\ Head(back).what # "cleanup"
  /\ back' = Tail(back)
  /\ UNCHANGED <<sub, queue, op, leases, sweep, session, wire, on, news, counts>>

---------------------------------------------------------------------------
Steps(o) ==
  \/ Start(o) \/ Execute(o) \/ Subscribed(o) \/ Flushed(o) \/ SubscribeFails(o) \/ Unsubscribed(o)
  \/ UnsubscribeFails(o) \/ SweepOne(o) \/ CleanedUp(o)

Work == (\E o \in Ops : Steps(o)) \/ Swept \/ Perform \/ Forward \/ Late

Next ==
  \/ \E o \in Ops, kind \in {"subscribe", "unsubscribe"}, u \in Uris : Ask(o, kind, u)
  \/ \E o \in Ops : Refused(o) \/ UnsubscribeCancelled(o)
  \/ \E u \in Uris : Changed(u)
  \/ Sweep
  \/ Drop
  \/ Work

Spec == Init /\ [][Next]_vars

---------------------------------------------------------------------------
(* Properties.                                                             *)

Quiet(u) == queue[u] = <<>>
Drained == wire = <<>> /\ back = <<>>

\* When nothing is under way for a URI, the leases on its behalf are that of its subscription: none
\* is left to keep the session from ever being idle, and none is missing.
LeasesExact == \A u \in Uris : Quiet(u) => {o \in leases : op[o].uri = u} = Subscription(u)

\* The upstream is subscribed to a URI exactly when the client is, once everything sent has been
\* performed: no late cleanup undoes a newer subscription, and no abandoned handshake survives.
UpstreamAgrees == \A u \in Uris : Quiet(u) /\ Drained => (u \in on <=> sub[u] # None)

\* The client is notified of every change since the upstream subscribed, those of the handshake too.
HearsAll == \A u \in Uris : Quiet(u) /\ Drained /\ sub[u] # None => u \notin news

\* After a switch of the profile no subscription from before it holds a session, but for one that is
\* being cleaned up because the client cancelled its unsubscribe.
SwitchClears ==
  \A o \in leases : op[o].stale => sweep # None \/ \E c \in Ops : op[c].pc = "cleaning" /\ op[c].of = o

=============================================================================
