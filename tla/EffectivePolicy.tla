-------------------------- MODULE EffectivePolicy --------------------------
(***************************************************************************)
(* What a caller may do under a published set, as operators: the models    *)
(* the bindings allow, the one plan that governs, the hops of the plan the *)
(* caller may take, and whether all of it composes to a document           *)
(* (governance-domain/authorization, governance-domain/policy,             *)
(* control-api/policy-resolution-endpoint.mjs).                            *)
(*                                                                         *)
(* Limits are kept only as far as composition depends on them: whether a   *)
(* binding states a token quota, and whether it states a rate of zero.     *)
(* What a quota or a rate amounts to is not modelled.                      *)
(***************************************************************************)
EXTENDS Naturals, FiniteSets

CONSTANTS
    Model,          \* aliases requests and allowlists name
    Family,         \* wire contracts a route serves
    Team, Subject, Application,
    Organization,   \* the target of the global binding and the global plan
    AllModels,      \* the model scope of a budget over every model
    Caller          \* [subject, application, groups], as a token states them

Target == {Organization} \union Team \union Subject \union Application

\* One record per target.  The limits of a binding are abstracted to what
\* decides composition.
Binding == [active : BOOLEAN, models : SUBSET Model,
            quota : BOOLEAN, zeroRate : BOOLEAN]

Scope == {"organization", "team", "subject", "application"}

\* A budget is known by the counter it occupies; two of one identity cannot
\* be published together.
Budget == [scope : Scope, model : Model \union {AllModels}, throttle : BOOLEAN]

\* `enabled' stands for the switch and the record state together, `edges' maps
\* each model to its one fallback target.
IsPlan(plan) ==
    /\ DOMAIN plan = {"enabled", "preferred", "edges"}
    /\ plan.enabled \in BOOLEAN /\ plan.preferred \in BOOLEAN
    /\ DOMAIN plan.edges \subseteq Model
    /\ \A m \in DOMAIN plan.edges : plan.edges[m] \in Model

\* What authoring accepts: no model points at itself and no cycle, that is,
\* every set of sources has one whose target leaves the set.
Authorable(plan) ==
    \A S \in SUBSET DOMAIN plan.edges :
        S # {} => \E m \in S : plan.edges[m] \notin S

\* What the validators ask of the five snapshots when they are published: one
\* active ceiling, bindings for catalogued teams only, acyclic plans.
WellFormed(p) ==
    /\ DOMAIN p = {"bindings", "teams", "budgets", "plans", "registry"}
    /\ Organization \in DOMAIN p.bindings /\ p.bindings[Organization].active
    /\ DOMAIN p.bindings \subseteq {Organization} \union p.teams \union Subject \union Application
    /\ \A t \in DOMAIN p.bindings : p.bindings[t] \in Binding
    /\ p.teams \subseteq Team
    /\ p.budgets \subseteq Budget
    /\ DOMAIN p.plans \subseteq Target
    /\ \A t \in DOMAIN p.plans : IsPlan(p.plans[t]) /\ Authorable(p.plans[t])
    /\ DOMAIN p.registry \subseteq Model
    /\ \A m \in DOMAIN p.registry : p.registry[m] \subseteq Family

\* Every model a binding lists is registered.
Registered(p) == \A t \in DOMAIN p.bindings : p.bindings[t].models \subseteq DOMAIN p.registry

(***************************************************************************)
(* Entitlement                                                             *)
(***************************************************************************)

\* The catalogued teams among the caller's groups.
TeamsOf(p, c) == c.groups \intersect p.teams

\* The one team consumption can be charged to: only a sole team is named.
ChargedTeam(p, c) == IF Cardinality(TeamsOf(p, c)) = 1 THEN TeamsOf(p, c) ELSE {}

Applied(p, c) ==
    {t \in DOMAIN p.bindings :
        /\ p.bindings[t].active
        /\ t \in {Organization, c.subject, c.application} \union TeamsOf(p, c)}

\* The organization's list is a ceiling; under it every other binding grants.
\* Without any grant the caller is not entitled at all.
AllowedModels(p, c) ==
    p.bindings[Organization].models
        \intersect UNION {p.bindings[t].models : t \in Applied(p, c) \ {Organization}}

(***************************************************************************)
(* Fallback                                                                *)
(***************************************************************************)

\* The most specific plan governs alone, disabled or not.
GoverningPlan(p, c) ==
    LET ranked == <<{c.application}, {c.subject}, ChargedTeam(p, c), {Organization}>>
        planned(i) == ranked[i] \intersect DOMAIN p.plans
        first == {i \in 1..4 : planned(i) # {} /\ \A j \in 1..(i - 1) : planned(j) = {}}
    IN  {p.plans[t] : t \in UNION {planned(i) : i \in first}}

Answers(p, m, f) == m \in DOMAIN p.registry /\ f \in p.registry[m]

\* The hops of a plan this caller may take on this route.
Hops(p, c, f, plan) ==
    {m \in DOMAIN plan.edges :
        /\ plan.enabled
        /\ {m, plan.edges[m]} \subseteq AllowedModels(p, c)
        /\ Answers(p, m, f)
        /\ Answers(p, plan.edges[m], f)}

Chain(p, c, f) ==
    LET edges == UNION {{<<m, plan.edges[m]>> : m \in Hops(p, c, f, plan)} :
                            plan \in GoverningPlan(p, c)}
    IN  [m \in {e[1] : e \in edges} |-> (CHOOSE e \in edges : e[1] = m)[2]]

Preferred(p, c) == \E plan \in GoverningPlan(p, c) : plan.preferred

(***************************************************************************)
(* Composition                                                             *)
(***************************************************************************)

\* An organization-wide quota over all models, from the organization's binding
\* or from a budget that denies.
Capped(p) ==
    \/ p.bindings[Organization].quota
    \/ \E b \in p.budgets : b.scope = "organization" /\ b.model = AllModels /\ ~b.throttle

\* A rate of zero survives every merge, being the tightest there is, and the
\* document refuses it.
RatesAreCounts(p, c) == \A t \in Applied(p, c) : ~p.bindings[t].zeroRate

\* The document allows its whole chain to be walked no deeper than one hop.
WalksOneHop(chain) == \A m \in DOMAIN chain : chain[m] \notin DOMAIN chain

Deployed(p, c) == AllowedModels(p, c) \subseteq DOMAIN p.registry

Composes(p, c, f) ==
    /\ Capped(p)
    /\ Deployed(p, c)
    /\ RatesAreCounts(p, c)
    /\ WalksOneHop(Chain(p, c, f))

Document(p, c, f) ==
    [models |-> AllowedModels(p, c), chain |-> Chain(p, c, f), preferred |-> Preferred(p, c)]

\* What the control plane answers the gateway: not entitled, not resolvable, or
\* a document.
Resolve(p, c, f) ==
    CASE AllowedModels(p, c) = {} -> [status |-> 403]
      [] AllowedModels(p, c) # {} /\ ~Composes(p, c, f) -> [status |-> 503]
      [] OTHER -> [status |-> 200, document |-> Document(p, c, f)]

\* What the gateway selects: past the warning threshold, and where the plan
\* prefers a substitute, the one hop from the requested model.
EffectiveModel(doc, requested, breached) ==
    IF breached /\ doc.preferred /\ requested \in DOMAIN doc.chain
    THEN doc.chain[requested]
    ELSE requested

=============================================================================
