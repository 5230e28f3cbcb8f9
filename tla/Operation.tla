------------------------------ MODULE Operation ------------------------------
(***************************************************************************)
(* One client request on its way through the facade: captured, admitted    *)
(* while the audit log can be written, resolved against the cached tools   *)
(* of its profile, routed, decided by the policy, bound to the target of   *)
(* the routed profile, approved, verified, sent to the upstream, and       *)
(* recorded once (miftah-server.ts, operation-pipeline.ts, audit-trail.ts, *)
(* audit-logger.ts).  Between two steps other requests fill and empty the  *)
(* caches, upstreams announce other tools, leases run out, the client      *)
(* gives up.                                                               *)
(* A tool is seen by what its annotations make of it: two descriptions     *)
(* with one fingerprint are one description.  How a policy, a route, an    *)
(* approval or an identity is decided is in Decisions, Approvals and       *)
(* Identity; here each has the outcomes this path tells apart.             *)
(***************************************************************************)
EXTENDS Naturals

CONSTANTS
  None,
  Profiles,
  ByName,       \* the risk the name of the tool suggests: "read", "write" or "destructive"
  MaxFaults      \* bound: failures, and changes of what an upstream describes

VARIABLES
  conf,      \* the configuration
  tool,      \* what each profile's upstream describes the tool as now
  cached,    \* what the tool registry holds of each profile, or None
  late,      \* the lease captured by the request has run out
  aborted,   \* the client cancelled the request
  req,       \* the request
  faults

operationVars == <<conf, tool, cached, late, aborted, req, faults>>

Described == {"read", "destructive"}
\* What is asked for: an upstream's tool; a resource or a prompt; a list, or one of the wrapper's own tools.
Kinds == {"tool", "resource", "own"}
\* The error codes auditStatus tells apart, by the status it gives them; the rest are failures.
Statuses == {"success", "failure", "denied", "confirmation-required", "ambiguous", "cancelled"}

Configs ==
  [closed : BOOLEAN,                                   \* audit.failureMode is fail-closed
   trusts : BOOLEAN,                                   \* trustToolAnnotations of the upstream
   destructive : {"allow", "confirm", "deny"},         \* the policy of destructive operations
   ruled : BOOLEAN,                                    \* requireExplicitProfileForDestructive
   selected : BOOLEAN,                                 \* requireExplicitSelectionForDestructive
   leased : BOOLEAN,                                   \* lease.requiredForRisk: destructive
   bound : {"no", "explicit", "confirmed"}]            \* the identity's selection mode for destructive

\* No value is the lack of one.
ASSUME OperationAssumption ==
  /\ None \notin Kinds \cup Statuses \cup Described \cup {"write", "result", "input", "error"}
  /\ ByName \in {"read", "write", "destructive"}

Nothing ==
  [kind |-> None, phase |-> "idle", source |-> None, mapped |-> None, reason |-> None, profile |-> None,
   meta |-> None, risk |-> None, target |-> None, fresh |-> TRUE, asked |-> FALSE, sent |-> FALSE, late |-> FALSE,
   performed |-> FALSE, status |-> None, record |-> None, answer |-> None]

Init ==
  /\ conf \in Configs
  /\ tool \in [Profiles -> Described] /\ cached \in [Profiles -> Described \cup {None}]
  /\ late = FALSE /\ aborted = FALSE /\ req = Nothing
  /\ faults = 0

At(phase) == req.phase = phase
World == <<conf, tool, late, aborted>>
Fails == faults < MaxFaults /\ faults' = faults + 1
Goes(phase, r) == req' = [r EXCEPT !.phase = phase]
\* The request is over but for its record; what the pipeline catches of a cancelled one is a cancellation.
Ends(status, answer) ==
  req' = [Nothing EXCEPT !.phase = "flush", !.kind = req.kind, !.status = status, !.answer = answer,
                         !.asked = req.asked, !.sent = req.sent, !.performed = req.performed]
Throws(status) == Ends(IF aborted THEN "cancelled" ELSE status, None)

---------------------------------------------------------------------------
\* A handler captures the selection, when no transition may still roll it back, and opens the audit scope.
\* A selection is default, explicit or confirmed as hasExplicitCurrentSessionSelection sees it: one by a
\* configured lock is confirmed, a switch that was not confirmed is like none.
Selections == [profile : Profiles, how : {"default", "explicit", "confirmed"}, lease : BOOLEAN]

Capture(kind, source) ==
  /\ At("idle")
  /\ Goes("open", [Nothing EXCEPT !.kind = kind, !.source = source])
  /\ UNCHANGED <<World, cached, faults>>

\* ensureWritable: a fail-closed log is tried before anything else; its failure is the request's.
Admit ==
  /\ At("open")
  /\ \/ Goes("source", req) /\ UNCHANGED faults
     \/ conf.closed /\ Fails /\ Goes("finish", [req EXCEPT !.status = "failure"])
  /\ UNCHANGED <<World, cached>>

\* A list, or a tool of the wrapper that sends nothing for the client: miftah_verify_identity answers with a
\* failure it reports itself.  Its transitions and approvals are in ProfileControl and Approvals.
AnswerOwn ==
  /\ At("source") /\ req.kind = "own"
  /\ \/ Ends("success", "result") /\ UNCHANGED faults
     \/ Fails /\ Ends("failure", "result")
     \/ \E status \in {"failure", "denied", "confirmation-required"} : Fails /\ Ends(status, None)
     \/ aborted /\ Ends("cancelled", None) /\ UNCHANGED faults
  /\ UNCHANGED <<World, cached>>

\* ToolRegistry.get: the cached tools of the profile, or those it finds now; how it fails is ToolDiscovery's.
Get(p) == cached' = [cached EXCEPT ![p] = IF @ = None THEN tool[p] ELSE @]

\* handleUpstreamTool: the exposed tool of the captured profile; a resource is resolved after its route.
\* A discovery the client cancelled fails like any other.
FindSource ==
  /\ At("source") /\ req.kind # "own"
  /\ \/ req.kind = "resource" /\ Goes("route", req) /\ UNCHANGED <<cached, faults>>
     \/ /\ req.kind = "tool" /\ Get(req.source.profile) /\ UNCHANGED faults
        /\ Goes("route", [req EXCEPT !.mapped = cached'[req.source.profile], !.asked = TRUE])
     \/ req.kind = "tool" /\ Fails /\ UNCHANGED cached /\ Ends("failure", None)
     \/ req.kind = "tool" /\ aborted /\ Ends("failure", None) /\ UNCHANGED <<cached, faults>>
  /\ UNCHANGED <<World>>

\* The annotations count when the upstream is trusted; a resource has a policy name of its own.
Risk(meta) == IF conf.trusts /\ meta # None THEN meta ELSE ByName

CachedAnyTarget(p) == cached[p] \* mutant
\* riskMetadataForProfile: what is cached of the routed profile, if it is the tool of the captured one.
CachedTarget(p) == IF req.kind = "tool" /\ cached[p] # None /\ cached[p] = req.mapped THEN cached[p] ELSE None
\* A selection made in this session for the very profile the operation is routed to.
SelectedFor(p) == req.source.profile = p /\ req.source.how # "default"
LeaseAllows(p) == req.source.profile = p /\ req.source.lease /\ ~late
LeaseAlone(p, risk) == risk = "destructive" /\ conf.leased => req.source.lease /\ ~late \* mutant
SelectionAllows(p, risk) ==
  risk = "destructive" => (conf.selected => SelectedFor(p)) /\ (conf.leased => LeaseAllows(p))
\* What evaluatePolicyEnforcement lets pass; only a tool can need a rule of its own.
Enforced(reason, risk) ==
  risk = "destructive" => (conf.ruled /\ req.kind = "tool" => reason = "rule") /\ conf.destructive # "deny"

\* An expired lease is recorded first, and that record must be written.
Refuse ==
  \/ Throws("denied") /\ UNCHANGED faults
  \/ conf.leased /\ late /\ Fails /\ Throws("failure")

\* Routing picks a profile, or refuses ("matcher" stands for the default profile too); then policy,
\* selection and lease are decided in one go.
Decide(p, reason) ==
  /\ At("route")
  /\ reason = "active-profile" => p = req.source.profile
  /\ LET meta == CachedTarget(p)
         risk == Risk(meta)
     IN IF Enforced(reason, risk) /\ SelectionAllows(p, risk)
        THEN /\ Goes("target", [req EXCEPT !.profile = p, !.reason = reason, !.meta = meta, !.risk = risk])
             /\ UNCHANGED faults
        ELSE Refuse
  /\ UNCHANGED <<World, cached>>

\* Neither a rule, nor a matcher, nor a default decides; or the client cancels before, or while one does.
Unrouted(status) ==
  At("route") /\ Throws(status) /\ UNCHANGED <<World, cached, faults>>

\* assertIdentitySelectionAllows: an account-bound operation wants the profile selected, or confirmed.
IdentityAllows == conf.bound # "no" /\ req.risk = "destructive" => SelectedFor(req.profile)
IdentityConfirmed == conf.bound = "confirmed" /\ req.risk = "destructive" => req.source.how = "confirmed"

BindAnything == \* mutant
  /\ At("target")
  /\ IF req.kind = "tool" THEN Get(req.profile) ELSE UNCHANGED cached
  /\ Goes(IF req.risk = "destructive" /\ conf.destructive = "confirm" THEN "approve" ELSE "session",
          [req EXCEPT !.target = IF req.kind = "tool" THEN cached'[req.profile] ELSE None, !.asked = TRUE])
  /\ UNCHANGED <<World, faults>>
\* resolveTarget: the same tool in the routed profile, or the resource's route in this epoch of its catalog.
Bind ==
  /\ At("target")
  /\ IF req.kind = "tool" THEN Get(req.profile) ELSE UNCHANGED cached
  /\ LET target == IF req.kind = "tool" THEN cached'[req.profile] ELSE None
     IN IF target # req.mapped THEN Throws("failure")
        ELSE IF ~IdentityAllows THEN Throws("denied")
        ELSE IF ~IdentityConfirmed THEN Throws("confirmation-required")
        ELSE Goes(IF req.risk = "destructive" /\ conf.destructive = "confirm" THEN "approve" ELSE "session",
                  [req EXCEPT !.target = target, !.asked = TRUE])
  /\ UNCHANGED <<World, faults>>

\* The target cannot be found: a discovery fails, or the client cancels it.
Unbound ==
  /\ At("target") /\ Throws("failure")
  /\ \/ Fails
     \/ aborted /\ UNCHANGED faults
  /\ UNCHANGED <<World, cached>>

\* requireApproval: consumed, refused, or answered by a form the client is to fill in.
Approve ==
  /\ At("approve")
  /\ \/ Goes("session", req)
     \/ Throws("confirmation-required")
     \/ Ends("confirmation-required", "input")
  /\ UNCHANGED <<World, cached, faults>>

\* The upstream is started if it must be, and an account-bound identity is verified on its session.
Acquire ==
  /\ At("session")
  /\ \/ Goes("call", req) /\ UNCHANGED faults
     \/ Fails /\ Throws("failure")
     \/ aborted /\ Throws("failure") /\ UNCHANGED faults
  /\ UNCHANGED <<World, cached>>

CallAtOnce == \* mutant
  /\ At("call")
  /\ IF aborted THEN Throws("failure")
     ELSE Goes("sent", [req EXCEPT !.sent = TRUE, !.late = late])
  /\ UNCHANGED <<World, cached, faults>>
\* The selection and the lease once more; then the call leaves, unless it is cancelled already.
Call ==
  /\ At("call")
  /\ \/ ~SelectionAllows(req.profile, req.risk) /\ Refuse
     \/ SelectionAllows(req.profile, req.risk) /\ aborted /\ Throws("failure") /\ UNCHANGED faults
     \/ /\ SelectionAllows(req.profile, req.risk) /\ ~aborted /\ UNCHANGED faults
        /\ Goes("sent", [req EXCEPT !.sent = TRUE, !.late = late])
  /\ UNCHANGED <<World, cached>>
\* The upstream does what it was asked.
Perform ==
  /\ At("sent") /\ ~req.performed
  /\ Goes("sent", [req EXCEPT !.performed = TRUE])
  /\ UNCHANGED <<World, cached, faults>>

\* Its answer: a result (one of a catalog that was invalidated since is refused), an error result, an error.
Return ==
  /\ At("sent")
  /\ \/ /\ req.performed /\ UNCHANGED faults
        /\ IF req.fresh THEN Ends("success", "result")
           ELSE Throws("failure")
     \/ /\ Fails
        /\ \/ req.kind = "tool" /\ Ends("failure", "result")
           \/ Throws("failure")
     \/ aborted /\ Throws("failure") /\ UNCHANGED faults
  /\ UNCHANGED <<World, cached>>

\* runWithUpstreamRequest: progress still under way is awaited; if it could not be forwarded, that is the outcome.
Flush ==
  /\ At("flush")
  /\ \/ Goes("finish", req) /\ UNCHANGED faults
     \/ req.asked /\ Fails /\ Goes("finish", [req EXCEPT !.status = "failure", !.answer = None])
  /\ UNCHANGED <<World, cached>>

FinishAnyway == \* mutant
  /\ At("finish")
  /\ \/ /\ UNCHANGED faults
        /\ Goes("answered", [req EXCEPT !.record = req.status, !.answer = IF @ = None THEN "error" ELSE @])
     \/ /\ Fails
        /\ Goes("answered", [req EXCEPT !.answer = IF @ = None THEN "error" ELSE @])
  /\ UNCHANGED <<World, cached>>
\* runAudited: the one record of the request.  A log that fails closed turns any outcome into an error.
Finish ==
  /\ At("finish")
  /\ \/ /\ UNCHANGED faults
        /\ Goes("answered", [req EXCEPT !.record = req.status, !.answer = IF @ = None THEN "error" ELSE @])
     \/ /\ Fails
        /\ Goes("answered", [req EXCEPT !.answer = IF @ = None \/ conf.closed THEN "error" ELSE @])
  /\ UNCHANGED <<World, cached>>
---------------------------------------------------------------------------
\* Meanwhile: another request fills a cache, an upstream describes the tool anew with or without saying
\* so (which empties the cache and opens a new epoch of the catalog), time passes, the client gives up.
Fill(p) == cached[p] = None /\ Get(p) /\ UNCHANGED <<World, req, faults>>
Change(p, d) ==
  /\ Fails /\ tool[p] # d /\ tool' = [tool EXCEPT ![p] = d]
  /\ UNCHANGED <<conf, cached, late, aborted, req>>
Invalidate(p) ==
  /\ Fails
  /\ cached' = [cached EXCEPT ![p] = None]
  /\ req' = [req EXCEPT !.fresh = @ /\ (req.profile = p /\ req.kind = "resource" => At("target"))]
  /\ UNCHANGED <<World>>
RunOut ==
  /\ ~late /\ req.source.lease
  /\ late' = TRUE /\ UNCHANGED <<conf, tool, cached, aborted, req, faults>>
Cancel ==
  /\ ~aborted
  /\ aborted' = TRUE /\ UNCHANGED <<conf, tool, cached, late, req, faults>>

Handle ==
  \/ \E kind \in Kinds, source \in Selections : Capture(kind, source)
  \/ Admit \/ AnswerOwn \/ FindSource
  \/ \E p \in Profiles, reason \in {"rule", "matcher", "active-profile"} : Decide(p, reason)
  \/ \E status \in {"denied", "ambiguous", "failure"} : Unrouted(status)
  \/ Bind \/ Unbound \/ Approve \/ Acquire \/ Call \/ Perform \/ Return \/ Flush \/ Finish
Underway == req.source # None
Meanwhile ==
  /\ Underway
  /\ \/ \E p \in Profiles : Fill(p) \/ Invalidate(p) \/ \E d \in Described : Change(p, d)
     \/ RunOut \/ Cancel
Next == Handle \/ Meanwhile
Spec == Init /\ [][Next]_operationVars

---------------------------------------------------------------------------
\* What the log says of an answered request is what happened.  A request recorded as denied, unconfirmed
\* or ambiguous sent nothing; a result was performed, and a fail-closed log has it; where nothing was
\* recorded by a fail-closed log the client was not told of a success.
RecordsAreHonest ==
  At("answered") =>
    /\ req.record \in {"denied", "confirmation-required", "ambiguous"} => ~req.sent
    /\ req.answer = "result" =>
         (req.kind # "own" => req.sent) /\ (conf.closed => req.record \in {"success", "failure"})
    /\ req.record = "success" => (req.kind # "own" => req.performed) /\ req.answer = "result"
    /\ req.record = "cancelled" => aborted
    /\ conf.closed /\ req.record = None => req.answer = "error"

\* A call that left was decided for what it calls: the tool of the profile it was routed to is the one
\* the client saw, hints that were read are the hints it has, and a destructive call left under the
\* selection, the unexpired lease and the rule its configuration asks for.
CallsAreDecided ==
  At("sent") =>
    /\ req.kind = "tool" => req.target = req.mapped /\ (req.meta # None => req.risk = Risk(req.target))
    /\ req.risk = "destructive" =>
         /\ conf.leased => ~req.late /\ req.source.profile = req.profile
         /\ conf.ruled /\ req.kind = "tool" => req.reason = "rule"
         /\ conf.bound = "confirmed" => req.source.how = "confirmed" /\ req.source.profile = req.profile

\* "Policies classify operations in this order: ... MCP tool annotations only when that exact upstream
\* declaration sets trustToolAnnotations ... conservative name heuristics" (config.md): so a trusted
\* upstream's destructive tool is decided as one.  It is not, when nothing is cached of the profile the
\* call is routed to (operation-pipeline.ts:147).
TrustedHintsDecide ==
  At("sent") /\ req.kind = "tool" /\ conf.trusts => req.risk = Risk(req.target)
=============================================================================
