------------------------------- MODULE Decisions -------------------------------
(***************************************************************************)
(* What the operation pipeline decides before it touches an upstream: the  *)
(* profile an operation is routed to (RoutingEngine), its risk             *)
(* (classifyToolRisk), the verdict of the profile's policy (PolicyEngine)  *)
(* and whether the client's own selection of a profile is enough.          *)
(*                                                                         *)
(* Glob, name and path patterns are seen by what they match: `name' is the *)
(* set of risk patterns the tool's name matches, `rules' the profiles of   *)
(* the rules that match the request, `bindings' those of the static        *)
(* provider matchers.                                                      *)
(***************************************************************************)
EXTENDS Naturals, FiniteSets

CONSTANTS
  None, Undefined,   \* a profile whose policy is not defined
  Profiles,
  Default    \* the default profile

VARIABLES request, verdict

decisionVars == <<request, verdict>>

Risks == {"read", "write", "destructive"}

Route(profile, by) == [profile |-> profile, by |-> by]
Stop(code) == [profile |-> None, by |-> code]
Undecided == Stop("undecided")

-----------------------------------------------------------------------------
(* Routing.                                                                *)

\* A band of the precedence decides when all that speaks in it names one profile.
Band(named, by) ==
  IF named = {} THEN Undecided
  ELSE IF Cardinality(named) > 1 THEN Stop("ROUTING_AMBIGUOUS")
  ELSE Route(CHOOSE p \in named : TRUE, by)

\* A band is passed over only when nothing speaks in it.
PassedOver(decision, otherwise) ==                       \* mutant: ambiguity is left to the next band
  IF decision.profile = None THEN otherwise ELSE decision
OrElse(decision, otherwise) == IF decision = Undecided THEN otherwise ELSE decision

\* resolvePreMatcher: the environment, the project markers, the rules.
PreMatcher(r) ==
  OrElse(Band({r.environment} \ {None}, "hint"), OrElse(Band(r.markers, "hint"), Band(r.rules, "rule")))

Fallback(r) ==
  CASE r.fallback = "activeProfile" -> Route(r.active, "active-profile")
    [] r.fallback = "default" -> Route(Default, "default-profile")
    [] r.fallback = "block" -> Stop("ROUTING_BLOCKED")
    [] OTHER -> Stop("ROUTING_AMBIGUOUS")

\* resolveWithPlugins: plugins are asked only if nothing before has decided.
Resolve(r) == OrElse(PreMatcher(r), OrElse(Band(r.bindings \cup r.plugins, "matcher"), Fallback(r)))

-----------------------------------------------------------------------------
(* Risk and policy.                                                        *)

Classified(risk, source) == [risk |-> risk, source |-> source]

\* classifyTrustedAnnotations: hints are TRUE, FALSE or None.
Annotated(t) ==
  IF t.readOnly = TRUE /\ t.destructive = TRUE THEN Classified("destructive", "annotation-conflict")
  ELSE IF t.readOnly = TRUE THEN Classified("read", "trusted-upstream-annotation")
  ELSE IF t.destructive = TRUE THEN Classified("destructive", "trusted-upstream-annotation")
  ELSE IF t.readOnly = FALSE /\ t.destructive = FALSE THEN Classified("write", "trusted-upstream-annotation")
  ELSE IF t.readOnly = FALSE THEN Classified("destructive", "trusted-upstream-annotation")
  ELSE None

\* The patterns of a name, the gravest first; unknownToolRisk when none matches.
Named(t) ==
  IF "destructive" \in t.name THEN Classified("destructive", "name-heuristic")
  ELSE IF "write" \in t.name THEN Classified("write", "name-heuristic")
  ELSE IF "read" \in t.name THEN Classified("read", "name-heuristic")
  ELSE Classified(t.unknownRisk, "unknown-default")

AnyHint(t) == t.readOnly # None \/ t.destructive # None  \* mutant: any upstream's annotations count
Trusted(t) == t.trusted

\* classifyToolRisk
Classify(t) ==
  IF t.override # None THEN Classified(t.override, "local-override")
  ELSE IF t.safeRead THEN Classified("read", "trusted-provider-adapter")
  ELSE IF t.command # None THEN Classified(t.command, "trusted-command-adapter")
  ELSE IF Trusted(t) /\ Annotated(t) # None THEN Annotated(t)
  ELSE Named(t)

\* PolicyEngine.evaluate: a profile without a policy, one that is not defined, or a policy.
AllowsFirst(policy, risk) ==                             \* mutant: allowRisk wins over denyRisk
  policy.denied \/ (risk \in policy.denyRisk /\ (policy.allowRisk = None \/ risk \notin policy.allowRisk))
                \/ (policy.allowRisk # None /\ risk \notin policy.allowRisk)
Denies(policy, risk) ==
  \/ policy.denied \/ risk \in policy.denyRisk
  \/ policy.allowRisk # None /\ risk \notin policy.allowRisk

Evaluate(r, risk) ==
  IF r.policy = None THEN "allow"
  ELSE IF r.policy = Undefined \/ Denies(r.policy, risk) THEN "deny"
  ELSE IF risk \in r.policy.confirm THEN "confirm"
  ELSE "allow"

\* evaluatePolicyEnforcement, for calls and previews alike.
Enforce(r, route, risk) ==
  (r.mustRule /\ risk = "destructive" /\ route.by # "rule") \/ Evaluate(r, risk) = "deny"

-----------------------------------------------------------------------------
(* The client's own selection.                                             *)

\* hasExplicitCurrentSessionSelection
Anywhere(r, profile) == r.selected # "none"              \* mutant: the selection of another profile counts
Explicit(r, profile) == r.active = profile /\ r.selected # "none"

\* assertProfileSelectionAllows (leases are ProfileControl's) and assertIdentitySelectionAllows.
NeedsSelection(r, risk) ==
  \/ r.mustSelect /\ risk = "destructive"
  \/ r.identityMode # None /\ risk \in {"write", "destructive"}
NeedsConfirmation(r, risk) == r.identityMode = "confirmed" /\ risk \in {"write", "destructive"}

Decide(r) ==
  LET route == Resolve(r)
      risk == Classify(r.tool).risk
      outcome ==
        IF route.profile = None THEN route.by
        ELSE IF Enforce(r, route, risk) THEN "POLICY_BLOCKED"
        ELSE IF NeedsSelection(r, risk) /\ ~Explicit(r, route.profile) THEN "SELECTION_REQUIRED"
        ELSE IF NeedsConfirmation(r, risk) /\ r.selected \notin {"confirmed", "locked"} THEN "CONFIRMATION_REQUIRED"
        ELSE Evaluate(r, risk)
  IN  [route |-> route, risk |-> risk, outcome |-> outcome]

-----------------------------------------------------------------------------
Hints == {None, TRUE, FALSE}
Tools ==
  [name : SUBSET Risks, override : {None, "read"}, safeRead : BOOLEAN, command : {None, "destructive"},
   trusted : BOOLEAN, readOnly : Hints, destructive : Hints, unknownRisk : {"write", "destructive"}]
Policies ==
  {None, Undefined} \cup
  [denied : BOOLEAN, denyRisk : {{}, {"write"}}, allowRisk : {None, {"read", "write"}}, confirm : {{}, {"write"}}]
Selections == {"none", "selected", "confirmed", "locked"}

Delete == [name |-> {"destructive"}, override |-> None, safeRead |-> FALSE, command |-> None, trusted |-> FALSE,
           readOnly |-> None, destructive |-> None, unknownRisk |-> "destructive"]
Plain == [environment |-> None, markers |-> {}, rules |-> {}, bindings |-> {}, plugins |-> {},
          fallback |-> "activeProfile", active |-> Default, selected |-> "none",
          tool |-> Delete, policy |-> None, mustRule |-> FALSE, mustSelect |-> FALSE, identityMode |-> None]

\* Every way to be routed, with a destructive tool; and every tool and policy, under one route.
Routings ==
  [environment : Profiles \cup {None}, markers : SUBSET Profiles, rules : SUBSET Profiles,
   bindings : {{}, {Default}}, plugins : SUBSET Profiles, fallback : {"activeProfile", "default", "block", "ask"},
   active : Profiles, selected : {"none", "selected"}, tool : {Delete}, policy : {None},
   mustRule : BOOLEAN, mustSelect : BOOLEAN, identityMode : {None}]
Ask ==
  /\ request = Plain
  /\ \/ request' \in Routings /\ request'.mustSelect = ~request'.mustRule
     \/ \E t \in Tools, p \in Policies : request' = [Plain EXCEPT !.tool = t, !.policy = p]
     \/ \E s \in Selections, i \in {None, "explicit", "confirmed"}, e \in Profiles, n \in SUBSET Risks :
          request' = [Plain EXCEPT !.environment = e, !.selected = s, !.identityMode = i, !.tool.name = n]
  /\ verdict' = Decide(request')

Init == request = Plain /\ verdict = Decide(Plain)
Next == Ask
Spec == Init /\ [][Next]_decisionVars

-----------------------------------------------------------------------------
Strength(route) ==
  CASE route.by = "hint" -> 3 [] route.by = "rule" -> 2 [] route.by = "matcher" -> 1 [] OTHER -> 0
Passes == verdict.outcome \in {"allow", "confirm"}

\* More evidence never moves an operation to another account: one more hint, rule, binding or plugin
\* answer for a profile leaves the route, makes it ambiguous, or speaks in a stronger band than the route.
EvidenceNeverDiverts ==
  \A p \in Profiles :
    LET more(r) == {[r EXCEPT !.markers = @ \cup {p}], [r EXCEPT !.rules = @ \cup {p}],
                    [r EXCEPT !.bindings = @ \cup {p}], [r EXCEPT !.plugins = @ \cup {p}]}
    IN  \A r \in more(request) :
          \/ Resolve(r).profile \in {None, verdict.route.profile}
          \/ Resolve(r).profile = p /\ Strength(Resolve(r)) > Strength(verdict.route)

\* "Unknown or ambiguous routing and untrusted risk annotations do not lower risk": what an upstream
\* that is not trusted says of its tool changes nothing.
HintsAreNotAuthority ==
  ~request.tool.trusted =>
    \A ro, de \in Hints :
      Classify([request.tool EXCEPT !.readOnly = ro, !.destructive = de]) = Classify(request.tool)

\* A destructive operation that must be ruled passes by a rule only, no matcher, hint or fallback; one
\* that must be selected goes only to the profile the client itself has selected in this session; and
\* "denyRisk takes precedence over allowRisk".
DestructiveIsOrdered ==
  /\ Passes /\ verdict.risk = "destructive" /\ request.mustRule => request.rules = {verdict.route.profile}
  /\ Passes /\ verdict.risk = "destructive" /\ request.mustSelect =>
       request.selected # "none" /\ verdict.route.profile = request.active
  /\ Passes /\ request.policy \notin {None, Undefined} => verdict.risk \notin request.policy.denyRisk

DecisionsAreSafe == EvidenceNeverDiverts /\ HintsAreNotAuthority /\ DestructiveIsOrdered
=============================================================================
