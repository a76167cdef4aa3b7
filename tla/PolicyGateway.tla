--------------------------- MODULE PolicyGateway ---------------------------
(***************************************************************************)
(* The published set as administrators edit it, and the gateway that asks  *)
(* for a caller's policy, caches the answer and serves requests from it    *)
(* (functions/handlers/admin-*-edit.mjs with the edit functions under      *)
(* governance-domain, control-api/policy-resolution-endpoint.mjs,          *)
(* src/apim/policies/inference.xml).                                       *)
(*                                                                         *)
(* An edit and its publication are one step here: how a revision is        *)
(* approved and written is the subject of GovernancePublication.  Time is  *)
(* counted in ticks and only where it bounds something: the age of a       *)
(* cached document and of a request in flight.                             *)
(***************************************************************************)
EXTENDS EffectivePolicy

CONSTANTS
    Slot,           \* requests the gateway waits on at once
    Ttl,            \* policy-cache-seconds, in ticks
    Timeout,        \* governance-policy-timeout-seconds, in ticks
    MaxEdits,       \* bound on publications
    InitialSet,     \* published sets to begin with
    Grant,          \* bindings administrators submit
    Downgrade,      \* plans administrators submit
    Cap,            \* budgets administrators submit
    Reading         \* readings of the provider: the contracts of every model

ASSUME TimesAreTicks == Ttl \in Nat \ {0} /\ Timeout \in Nat

\* Whose tokens name one subject and one application name the same groups, so
\* the cache never holds one token's document for another.
ASSUME CallersAreDistinct ==
    \A c, d \in Caller :
        c.subject = d.subject /\ c.application = d.application => c = d

\* The kinds of target are told apart.
ASSUME OrganizationIsNoTeam == Organization \notin Team

\* Request bodies are validated before an edit looks at them.
ASSUME InputsAreTyped ==
    /\ MaxEdits \in Nat
    /\ Grant \subseteq Binding /\ Cap \subseteq Budget
    /\ \A plan \in Downgrade : IsPlan(plan)
    /\ \A reading \in Reading : reading \in [Model -> SUBSET Family]

ASSUME InitialSetsAreValid == \A p \in InitialSet : WellFormed(p) /\ Registered(p)

VARIABLES
    published,      \* the set the resolver reads
    edits,          \* how often it was published
    cache,          \* documents the gateway holds, by cache key
    request,        \* requests waiting for the control plane, by slot
    served,         \* the request this step dispatched to a model, if any
    withdrawn,      \* ticks since a caller was last allowed a model
    unanswered      \* ticks since a model last answered a contract

vars == <<published, edits, cache, request, served, withdrawn, unanswered>>
gateway == <<cache, request>>

\* A document is used for fewer than this many ticks after it was resolved.
StaleBound == Ttl + Timeout

Put(f, x, v) == [y \in DOMAIN f \union {x} |-> IF y = x THEN v ELSE f[y]]
Without(f, S) == [x \in DOMAIN f \ S |-> f[x]]

Init ==
    /\ published \in InitialSet
    /\ edits = 0
    /\ cache = <<>>
    /\ request = <<>>
    /\ served = {}
    /\ withdrawn = [c \in Caller |-> [m \in Model |->
           IF m \in AllowedModels(published, c) THEN 0 ELSE StaleBound]]
    /\ unanswered = [m \in Model |-> [f \in Family |->
           IF Answers(published, m, f) THEN 0 ELSE StaleBound]]

(***************************************************************************)
(* Edits                                                                   *)
(***************************************************************************)

Publish(p) ==
    /\ edits < MaxEdits
    /\ published' = p
    /\ edits' = edits + 1
    /\ served' = {}
    /\ withdrawn' = [c \in Caller |-> [m \in Model |->
           IF m \in AllowedModels(p, c) THEN 0 ELSE withdrawn[c][m]]]
    /\ unanswered' = [m \in Model |-> [f \in Family |->
           IF Answers(p, m, f) THEN 0 ELSE unanswered[m][f]]]
    /\ UNCHANGED gateway

\* A list an administrator submits names registered models, at least one.
Submittable(models) == models # {} /\ models \subseteq DOMAIN published.registry

AddBinding(t, grant) ==
    /\ t \notin DOMAIN published.bindings
    /\ t \in Team => t \in published.teams
    /\ Submittable(grant.models)
    /\ Publish([published EXCEPT !.bindings = Put(@, t, [grant EXCEPT !.active = TRUE])])

\* Limits are merged into those the binding has, so a quota is never dropped;
\* the organization's binding stays active.
EditBinding(t, grant) ==
    /\ t \in DOMAIN published.bindings
    /\ Submittable(grant.models)
    /\ t = Organization => grant.active
    /\ Publish([published EXCEPT !.bindings[t] =
                   [grant EXCEPT !.quota = @ \/ published.bindings[t].quota]])

AddTeam(t) ==
    /\ t \notin published.teams
    /\ Publish([published EXCEPT !.teams = @ \union {t}])

\* Taken out of the catalogue, once no binding names it.
RemoveTeam(t) ==
    /\ t \in published.teams \ DOMAIN published.bindings
    /\ Publish([published EXCEPT !.teams = @ \ {t}])

\* Removed with everything that is for it.
DissolveTeam(t) ==
    /\ t \in published.teams
    /\ Publish([published EXCEPT !.teams = @ \ {t},
                                 !.bindings = Without(@, {t}),
                                 !.plans = Without(@, {t})])

AddModel(m, reading) ==
    /\ m \notin DOMAIN published.registry
    /\ reading[m] # {}
    /\ Publish([published EXCEPT !.registry = Put(@, m, reading[m])])

\* Every registered model is read again; one that answers nothing refuses all.
Recapture(reading) ==
    /\ \A m \in DOMAIN published.registry : reading[m] # {}
    /\ Publish([published EXCEPT !.registry = [m \in DOMAIN @ |-> reading[m]]])

Removable(m) == m \in DOMAIN published.registry /\ DOMAIN published.registry # {m}

\* Taken out of the registry, once no binding allows it.
RemoveModel(m) ==
    /\ Removable(m)
    /\ \A t \in DOMAIN published.bindings : m \notin published.bindings[t].models
    /\ Publish([published EXCEPT !.registry = Without(@, {m})])

\* Mutant: only the active bindings are followed.
ActiveBindingsWithout(m) ==
    [t \in DOMAIN published.bindings |->
        [published.bindings[t] EXCEPT !.models = IF published.bindings[t].active
                                                 THEN @ \ {m} ELSE @]]

\* The bindings without a model that is removed.
BindingsWithout(m) ==
    [t \in DOMAIN published.bindings |-> [published.bindings[t] EXCEPT !.models = @ \ {m}]]

\* The plans without the hops from and to a model that is removed.
PlansWithout(m) ==
    [t \in DOMAIN published.plans |->
        LET edges == published.plans[t].edges
        IN  [published.plans[t] EXCEPT !.edges =
                Without(edges, {n \in DOMAIN edges : m \in {n, edges[n]}})]]

\* Removed from every list, budget and plan that names it, unless a list would
\* be left empty.
RetireModel(m) ==
    /\ Removable(m)
    /\ \A t \in DOMAIN published.bindings : published.bindings[t].models # {m}
    /\ Publish([published EXCEPT
           !.bindings = BindingsWithout(m),
           !.budgets = {b \in @ : b.model # m},
           !.plans = PlansWithout(m),
           !.registry = Without(@, {m})])

AddBudget(b) ==
    /\ b \notin published.budgets
    /\ Publish([published EXCEPT !.budgets = @ \union {b}])

RemoveBudget(b) ==
    /\ b \in published.budgets
    /\ Publish([published EXCEPT !.budgets = @ \ {b}])

\* An edit may move a budget to another counter, its scope excepted.
EditBudget(b, edited) ==
    /\ b \in published.budgets
    /\ edited \notin published.budgets
    /\ edited.scope = b.scope
    /\ Publish([published EXCEPT !.budgets = (@ \ {b}) \union {edited}])

AddPlan(t, plan) ==
    /\ t \notin DOMAIN published.plans
    /\ t \in Team => t \in published.teams
    /\ Authorable(plan)
    /\ \A m \in DOMAIN plan.edges : {m, plan.edges[m]} \subseteq DOMAIN published.registry
    /\ Publish([published EXCEPT !.plans = Put(@, t, plan)])

EditPlan(t, plan) ==
    /\ t \in DOMAIN published.plans
    /\ plan # published.plans[t]
    /\ Authorable(plan)
    /\ Publish([published EXCEPT !.plans[t] = plan])

Edit ==
    \/ \E t \in Target, grant \in Grant : AddBinding(t, grant) \/ EditBinding(t, grant)
    \/ \E t \in Team : AddTeam(t) \/ RemoveTeam(t) \/ DissolveTeam(t)
    \/ \E m \in Model : RemoveModel(m) \/ RetireModel(m)
    \/ \E reading \in Reading : Recapture(reading) \/ \E m \in Model : AddModel(m, reading)
    \/ \E b \in Cap : AddBudget(b) \/ RemoveBudget(b) \/ \E e \in Cap : EditBudget(b, e)
    \/ \E t \in Target, plan \in Downgrade : AddPlan(t, plan) \/ EditPlan(t, plan)

(***************************************************************************)
(* The gateway                                                             *)
(***************************************************************************)

\* Mutant: one document for every route.
KeyWithoutFamily(c, f) == <<c.subject, c.application>>

\* The contract is part of the key: a chain is compiled for one contract.
CacheKey(c, f) == <<c.subject, c.application, f>>

\* A request is dispatched if its document allows the model it names.
Dispatch(c, f, requested, doc, breached) ==
    served' = {[caller |-> c, family |-> f, requested |-> requested,
                model |-> EffectiveModel(doc, requested, breached)] :
                   m \in {requested} \intersect doc.models}

Hit(c, f, requested, breached) ==
    /\ CacheKey(c, f) \in DOMAIN cache
    /\ Dispatch(c, f, requested, cache[CacheKey(c, f)].document, breached)
    /\ UNCHANGED <<published, edits, cache, request, withdrawn, unanswered>>

Ask(s, c, f, requested) ==
    /\ s \notin DOMAIN request
    /\ CacheKey(c, f) \notin DOMAIN cache
    /\ request' = Put(request, s, [caller |-> c, family |-> f, requested |-> requested,
                                   age |-> 0, answer |-> [status |-> 0]])
    /\ served' = {}
    /\ UNCHANGED <<published, edits, cache, withdrawn, unanswered>>

\* The control plane reads the published set and answers; the answer is on its
\* way until it is received.
Answer(s) ==
    /\ s \in DOMAIN request
    /\ request[s].answer.status = 0
    /\ request' = [request EXCEPT ![s].answer =
                       Resolve(published, request[s].caller, request[s].family)]
    /\ served' = {}
    /\ UNCHANGED <<published, edits, cache, withdrawn, unanswered>>

\* A document is stored, whatever is stored under its key already, and used.
Receive(s, breached) ==
    /\ s \in DOMAIN request
    /\ request[s].answer.status = 200
    /\ LET r == request[s]
           doc == r.answer.document
       IN  /\ cache' = Put(cache, CacheKey(r.caller, r.family), [document |-> doc, age |-> 0])
           /\ Dispatch(r.caller, r.family, r.requested, doc, breached)
    /\ request' = Without(request, {s})
    /\ UNCHANGED <<published, edits, withdrawn, unanswered>>

\* Refused, unavailable, or not heard from: the request ends without a model.
Fail(s) ==
    /\ s \in DOMAIN request
    /\ request[s].answer.status # 200 \/ request[s].age = Timeout
    /\ request' = Without(request, {s})
    /\ served' = {}
    /\ UNCHANGED <<published, edits, cache, withdrawn, unanswered>>

\* Mutant: a document is held one tick longer.
KeptThroughTtl(entries) == {k \in DOMAIN entries : entries[k].age < Ttl}

\* What is still held after a tick.
Kept(entries) == {k \in DOMAIN entries : entries[k].age + 1 < Ttl}

\* No request waits past its timeout.
Tick ==
    /\ \A s \in DOMAIN request : request[s].age < Timeout
    /\ request' = [s \in DOMAIN request |-> [request[s] EXCEPT !.age = @ + 1]]
    /\ cache' = [k \in Kept(cache) |-> [cache[k] EXCEPT !.age = @ + 1]]
    /\ served' = {}
    /\ withdrawn' = [c \in Caller |-> [m \in Model |->
           IF m \in AllowedModels(published, c) \/ withdrawn[c][m] = StaleBound
           THEN withdrawn[c][m] ELSE withdrawn[c][m] + 1]]
    /\ unanswered' = [m \in Model |-> [f \in Family |->
           IF Answers(published, m, f) \/ unanswered[m][f] = StaleBound
           THEN unanswered[m][f] ELSE unanswered[m][f] + 1]]
    /\ UNCHANGED <<published, edits>>

Serve ==
    \E c \in Caller, f \in Family, m \in Model :
        \/ \E breached \in BOOLEAN : Hit(c, f, m, breached)
        \/ \E s \in Slot : Ask(s, c, f, m)

Resolution ==
    \E s \in Slot :
        \/ Answer(s)
        \/ \E breached \in BOOLEAN : Receive(s, breached)
        \/ Fail(s)

Next == Edit \/ Serve \/ Resolution \/ Tick

Spec == Init /\ [][Next]_vars

(***************************************************************************)
(* Properties                                                              *)
(***************************************************************************)

\* Every publication is well formed, and ages and requests keep their types
\* (governance-authorization-validator.mjs, fallback-plan-compiler.mjs:116-140).
TypeOK ==
    /\ WellFormed(published)
    /\ edits \in 0..MaxEdits
    /\ \A k \in DOMAIN cache : cache[k].age \in 0..Ttl
    /\ DOMAIN request \subseteq Slot
    /\ \A s \in DOMAIN request : request[s].age \in 0..Timeout
    /\ withdrawn \in [Caller -> [Model -> 0..StaleBound]]
    /\ unanswered \in [Model -> [Family -> 0..StaleBound]]

\* A request is dispatched only to a model its caller was allowed fewer than
\* the cache's and the answer's time ago: a withdrawal takes effect within both
\* together, whatever is cached, in flight, or stored out of order
\* (inference.xml:239-310).
WithdrawnWithinBound ==
    \A d \in served : withdrawn[d.caller][d.model] < StaleBound

\* A substitute answers the contract of the route it is used on, or did within
\* the same time: a chain compiled for one route is not used on another
\* (inference.xml:235-238, fallback-plan-compiler.mjs:346-377).
SubstituteAnswersRoute ==
    \A d \in served : d.model # d.requested => unanswered[d.model][d.family] < StaleBound

\* Whatever is edited or removed, and in whichever order, every model a binding
\* lists has a deployment, a suspended binding included, so that no caller is
\* left without a policy because a model went away
\* (effective-policy-composer.mjs:167-183, governance-removal.mjs:278-335).
ListedIsDeployed == Registered(published)

\* Adding a binding takes no model away from anybody
\* (governance-authorization-evaluator.mjs:120-132).
GrantsOnlyWiden ==
    [][(\E t \in Target, grant \in Grant : AddBinding(t, grant)) =>
           \A c \in Caller : AllowedModels(published, c) \subseteq AllowedModels(published', c)]_vars

=============================================================================
