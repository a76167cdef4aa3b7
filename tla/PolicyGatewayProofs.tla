------------------------ MODULE PolicyGatewayProofs ------------------------
(***************************************************************************)
(* Proofs about PolicyGateway, for any callers, models, edits, slots and   *)
(* times: every edit publishes a well-formed set whose lists are deployed, *)
(* and what the gateway serves was allowed within the stale bound.         *)
(*                                                                         *)
(* The invariant says how old what the gateway holds can be: a document    *)
(* states nothing that was withdrawn longer ago than it has been in flight *)
(* and in the cache.                                                       *)
(***************************************************************************)
EXTENDS PolicyGateway, TLAPS

(***************************************************************************)
(* Helpers                                                                 *)
(***************************************************************************)

\* The organization's ceiling bounds every grant: a caller is allowed nothing
\* outside its list (governance-authorization-evaluator.mjs:120-132).
LEMMA AllowedUnderCeiling ==
    ASSUME NEW p, NEW c
    PROVE  AllowedModels(p, c) \subseteq p.bindings[Organization].models
BY DEF AllowedModels

LEMMA AllowedAreModels ==
    ASSUME NEW p, NEW c, WellFormed(p)
    PROVE  AllowedModels(p, c) \subseteq Model
<1>1. p.bindings[Organization] \in Binding
  BY DEF WellFormed
<1> QED
  BY <1>1, AllowedUnderCeiling DEF Binding

\* Every target of a compiled chain is a model its caller is allowed and that
\* answers the contract the chain was compiled for
\* (fallback-plan-compiler.mjs:362-377, 479-486).
LEMMA ChainStaysAllowed ==
    ASSUME NEW p, NEW c, NEW f, NEW m \in DOMAIN Chain(p, c, f)
    PROVE  /\ Chain(p, c, f)[m] \in AllowedModels(p, c)
           /\ Answers(p, Chain(p, c, f)[m], f)
<1> DEFINE Edges == UNION {{<<n, plan.edges[n]>> : n \in Hops(p, c, f, plan)} :
                               plan \in GoverningPlan(p, c)}
           e == CHOOSE e \in Edges : e[1] = m
<1>1. m \in {x[1] : x \in Edges} /\ Chain(p, c, f)[m] = e[2]
  BY DEF Chain
<1>2. e \in Edges
  BY <1>1
<1> HIDE DEF e
<1>3. PICK plan \in GoverningPlan(p, c) : \E n \in Hops(p, c, f, plan) : e = <<n, plan.edges[n]>>
  BY <1>2
<1>4. PICK n \in Hops(p, c, f, plan) : e = <<n, plan.edges[n]>>
  BY <1>3
<1>5. e[2] = plan.edges[n]
  BY <1>4
<1>6. {n, plan.edges[n]} \subseteq AllowedModels(p, c) /\ Answers(p, plan.edges[n], f)
  BY <1>4 DEF Hops
<1> QED
  BY <1>1, <1>5, <1>6

\* Two tokens share a cache key only if they are one caller on one route.
LEMMA KeysAreDistinct ==
    ASSUME NEW c \in Caller, NEW d \in Caller, NEW f \in Family, NEW g \in Family,
           CacheKey(c, f) = CacheKey(d, g)
    PROVE  c = d /\ f = g
BY CallersAreDistinct DEF CacheKey

(***************************************************************************)
(* Edits                                                                   *)
(***************************************************************************)

\* The set an edit publishes is well formed and lists only registered models.
Valid(p) == WellFormed(p) /\ Registered(p)

PublishesValid == \E p : Valid(p) /\ Publish(p)

\* A set that differs in one field from the published one.
LEMMA OneField ==
    ASSUME WellFormed(published), NEW v
    PROVE  /\ \A p : p = [published EXCEPT !.bindings = v] =>
                  /\ DOMAIN p = DOMAIN published /\ p.bindings = v
                  /\ p.teams = published.teams /\ p.budgets = published.budgets
                  /\ p.plans = published.plans /\ p.registry = published.registry
           /\ \A p : p = [published EXCEPT !.teams = v] =>
                  /\ DOMAIN p = DOMAIN published /\ p.teams = v
                  /\ p.bindings = published.bindings /\ p.budgets = published.budgets
                  /\ p.plans = published.plans /\ p.registry = published.registry
           /\ \A p : p = [published EXCEPT !.budgets = v] =>
                  /\ DOMAIN p = DOMAIN published /\ p.budgets = v
                  /\ p.bindings = published.bindings /\ p.teams = published.teams
                  /\ p.plans = published.plans /\ p.registry = published.registry
           /\ \A p : p = [published EXCEPT !.plans = v] =>
                  /\ DOMAIN p = DOMAIN published /\ p.plans = v
                  /\ p.bindings = published.bindings /\ p.teams = published.teams
                  /\ p.budgets = published.budgets /\ p.registry = published.registry
           /\ \A p : p = [published EXCEPT !.registry = v] =>
                  /\ DOMAIN p = DOMAIN published /\ p.registry = v
                  /\ p.bindings = published.bindings /\ p.teams = published.teams
                  /\ p.budgets = published.budgets /\ p.plans = published.plans
BY DEF WellFormed

\* A binding in place of another, or a new one, leaves the set valid.
LEMMA BindingReplaced ==
    ASSUME Valid(published), NEW t \in Target, NEW binding \in Binding,
           t \in Team => t \in published.teams,
           t = Organization => binding.active,
           binding.models \subseteq DOMAIN published.registry,
           Publish([published EXCEPT !.bindings = Put(published.bindings, t, binding)])
    PROVE  PublishesValid
<1> DEFINE b == Put(published.bindings, t, binding)
           p == [published EXCEPT !.bindings = b]
<1>1. /\ DOMAIN p = DOMAIN published /\ p.bindings = b
      /\ p.teams = published.teams /\ p.budgets = published.budgets
      /\ p.plans = published.plans /\ p.registry = published.registry
  BY OneField DEF Valid
<1>2. /\ DOMAIN b = DOMAIN published.bindings \union {t} /\ b[t] = binding
      /\ \A y \in DOMAIN published.bindings : y # t => b[y] = published.bindings[y]
  BY DEF Put
<1>3. Publish(p)
  OBVIOUS
<1> HIDE DEF b, p
<1>4. WellFormed(p)
  BY <1>1, <1>2 DEF Valid, WellFormed, Target
<1>5. Registered(p)
  BY <1>1, <1>2 DEF Valid, Registered
<1> QED
  BY <1>3, <1>4, <1>5 DEF Valid, PublishesValid

\* Bindings are added for registered models and catalogued teams.
LEMMA AddBindingValid ==
    ASSUME Valid(published), NEW t \in Target, NEW grant \in Grant, AddBinding(t, grant)
    PROVE  PublishesValid
<1>1. [grant EXCEPT !.active = TRUE] \in Binding
      /\ [grant EXCEPT !.active = TRUE].models = grant.models
      /\ [grant EXCEPT !.active = TRUE].active
  BY InputsAreTyped DEF Binding
<1> QED
  BY <1>1, BindingReplaced DEF AddBinding, Submittable

\* A binding that exists names a catalogued team if it names one.
LEMMA EditBindingValid ==
    ASSUME Valid(published), NEW t \in Target, NEW grant \in Grant, EditBinding(t, grant)
    PROVE  PublishesValid
<1> DEFINE quota == grant.quota \/ published.bindings[t].quota
           binding == [grant EXCEPT !.quota = quota]
           b == [published.bindings EXCEPT ![t] = binding]
           p == [published EXCEPT !.bindings = b]
<1>1. t \in DOMAIN published.bindings /\ Submittable(grant.models)
      /\ (t = Organization => grant.active) /\ Publish(p)
  BY DEF EditBinding
<1>2. grant \in Binding /\ published.bindings[t] \in Binding
  BY <1>1, InputsAreTyped DEF Valid, WellFormed
<1>3. binding \in Binding /\ binding.models = grant.models /\ binding.active = grant.active
  BY <1>2 DEF Binding
<1>4. DOMAIN b = DOMAIN published.bindings /\ b[t] = binding
      /\ \A y \in DOMAIN published.bindings : y # t => b[y] = published.bindings[y]
  BY <1>1
<1>5. /\ DOMAIN p = DOMAIN published /\ p.bindings = b
      /\ p.teams = published.teams /\ p.budgets = published.budgets
      /\ p.plans = published.plans /\ p.registry = published.registry
  BY OneField DEF Valid
<1> HIDE DEF binding, b, p
<1>6. WellFormed(p)
  BY <1>1, <1>3, <1>4, <1>5 DEF Valid, WellFormed
<1>7. Registered(p)
  BY <1>1, <1>3, <1>4, <1>5 DEF Valid, Registered, Submittable
<1> QED
  BY <1>1, <1>6, <1>7 DEF Valid, PublishesValid

\* The catalogue grows freely and loses only teams no binding names.
LEMMA TeamsValid ==
    ASSUME Valid(published), NEW t \in Team, AddTeam(t) \/ RemoveTeam(t)
    PROVE  PublishesValid
<1>1. PICK ts : /\ ts \subseteq Team
                /\ \A y \in published.teams : y \in DOMAIN published.bindings => y \in ts
                /\ Publish([published EXCEPT !.teams = ts])
  <2>1. CASE AddTeam(t)
    BY <2>1 DEF AddTeam, Valid, WellFormed
  <2>2. CASE RemoveTeam(t)
    BY <2>2 DEF RemoveTeam, Valid, WellFormed
  <2> QED
    BY <2>1, <2>2
<1> DEFINE p == [published EXCEPT !.teams = ts]
<1>2. /\ DOMAIN p = DOMAIN published /\ p.teams = ts
      /\ p.bindings = published.bindings /\ p.budgets = published.budgets
      /\ p.plans = published.plans /\ p.registry = published.registry
  BY OneField DEF Valid
<1>3. Publish(p)
  BY <1>1
<1> HIDE DEF p
<1>4. WellFormed(p) /\ Registered(p)
  BY <1>1, <1>2 DEF Valid, WellFormed, Registered
<1> QED
  BY <1>3, <1>4 DEF Valid, PublishesValid

\* A removed team takes its bindings and plans with it
\* (governance-removal.mjs:239-276).
LEMMA DissolveTeamValid ==
    ASSUME Valid(published), NEW t \in Team, DissolveTeam(t)
    PROVE  PublishesValid
<1> DEFINE b == Without(published.bindings, {t})
           pl == Without(published.plans, {t})
           p == [published EXCEPT !.teams = published.teams \ {t}, !.bindings = b, !.plans = pl]
<1>1. Publish(p)
  BY DEF DissolveTeam
<1>2. /\ DOMAIN p = DOMAIN published /\ p.teams = published.teams \ {t}
      /\ p.bindings = b /\ p.plans = pl
      /\ p.budgets = published.budgets /\ p.registry = published.registry
  BY DEF Valid, WellFormed
<1>3. /\ DOMAIN b = DOMAIN published.bindings \ {t} /\ DOMAIN pl = DOMAIN published.plans \ {t}
      /\ \A y \in DOMAIN b : b[y] = published.bindings[y]
      /\ \A y \in DOMAIN pl : pl[y] = published.plans[y]
  BY DEF Without
<1> HIDE DEF b, pl, p
<1>4. WellFormed(p)
  BY <1>2, <1>3, OrganizationIsNoTeam DEF Valid, WellFormed
<1>5. Registered(p)
  BY <1>2, <1>3 DEF Valid, Registered
<1> QED
  BY <1>1, <1>4, <1>5 DEF Valid, PublishesValid

\* The registry grows, and is read again, with what the provider states.
LEMMA RegistryValid ==
    ASSUME Valid(published), NEW reading \in Reading,
           Recapture(reading) \/ \E m \in Model : AddModel(m, reading)
    PROVE  PublishesValid
<1>1. reading \in [Model -> SUBSET Family]
  BY InputsAreTyped
<1>2. PICK r : /\ DOMAIN published.registry \subseteq DOMAIN r /\ DOMAIN r \subseteq Model
               /\ \A y \in DOMAIN r : r[y] \subseteq Family
               /\ Publish([published EXCEPT !.registry = r])
  <2>1. CASE Recapture(reading)
    BY <1>1, <2>1 DEF Recapture, Valid, WellFormed
  <2>2. ASSUME NEW m \in Model, AddModel(m, reading)
        PROVE  \E r : /\ DOMAIN published.registry \subseteq DOMAIN r /\ DOMAIN r \subseteq Model
                      /\ \A y \in DOMAIN r : r[y] \subseteq Family
                      /\ Publish([published EXCEPT !.registry = r])
    <3> DEFINE r == Put(published.registry, m, reading[m])
    <3>1. Publish([published EXCEPT !.registry = r])
      BY <2>2 DEF AddModel
    <3>2. /\ DOMAIN r = DOMAIN published.registry \union {m} /\ r[m] = reading[m]
          /\ \A y \in DOMAIN published.registry : y # m => r[y] = published.registry[y]
      BY DEF Put
    <3> HIDE DEF r
    <3>3. DOMAIN r \subseteq Model /\ \A y \in DOMAIN r : r[y] \subseteq Family
      BY <1>1, <3>2 DEF Valid, WellFormed
    <3> QED
      BY <3>1, <3>2, <3>3
  <2> QED
    BY <2>1, <2>2
<1> DEFINE p == [published EXCEPT !.registry = r]
<1>3. /\ DOMAIN p = DOMAIN published /\ p.registry = r
      /\ p.bindings = published.bindings /\ p.teams = published.teams
      /\ p.budgets = published.budgets /\ p.plans = published.plans
  BY OneField DEF Valid
<1>4. Publish(p)
  BY <1>2
<1> HIDE DEF p
<1>5. WellFormed(p) /\ Registered(p)
  BY <1>2, <1>3 DEF Valid, WellFormed, Registered
<1> QED
  BY <1>4, <1>5 DEF Valid, PublishesValid

\* A model leaves the registry once no list names it.
LEMMA RemoveModelValid ==
    ASSUME Valid(published), NEW m \in Model, RemoveModel(m)
    PROVE  PublishesValid
<1> DEFINE r == Without(published.registry, {m})
           p == [published EXCEPT !.registry = r]
<1>1. Publish(p) /\ \A t \in DOMAIN published.bindings : m \notin published.bindings[t].models
  BY DEF RemoveModel
<1>2. /\ DOMAIN p = DOMAIN published /\ p.registry = r
      /\ p.bindings = published.bindings /\ p.teams = published.teams
      /\ p.budgets = published.budgets /\ p.plans = published.plans
  BY OneField DEF Valid
<1>3. DOMAIN r = DOMAIN published.registry \ {m} /\ \A y \in DOMAIN r : r[y] = published.registry[y]
  BY DEF Without
<1> HIDE DEF r, p
<1>4. WellFormed(p)
  BY <1>2, <1>3 DEF Valid, WellFormed
<1>5. Registered(p)
  BY <1>1, <1>2, <1>3 DEF Valid, Registered
<1> QED
  BY <1>1, <1>4, <1>5 DEF Valid, PublishesValid

\* Fewer hops of an acyclic plan are an acyclic plan.
LEMMA FewerHops ==
    ASSUME NEW plan, IsPlan(plan), Authorable(plan), NEW S
    PROVE  LET fewer == [plan EXCEPT !.edges = Without(plan.edges, S)]
           IN  IsPlan(fewer) /\ Authorable(fewer)
<1> DEFINE e == Without(plan.edges, S)
           fewer == [plan EXCEPT !.edges = e]
<1>1. DOMAIN e = DOMAIN plan.edges \ S /\ \A y \in DOMAIN e : e[y] = plan.edges[y]
  BY DEF Without
<1>2. /\ DOMAIN fewer = DOMAIN plan /\ fewer.edges = e
      /\ fewer.enabled = plan.enabled /\ fewer.preferred = plan.preferred
  BY DEF IsPlan
<1> HIDE DEF e, fewer
<1>3. IsPlan(fewer)
  BY <1>1, <1>2 DEF IsPlan
<1>4. ASSUME NEW T \in SUBSET DOMAIN e, T # {}
      PROVE  \E n \in T : e[n] \notin T
  <2>1. T \in SUBSET DOMAIN plan.edges
    BY <1>1
  <2>2. PICK n \in T : plan.edges[n] \notin T
    BY <2>1, <1>4 DEF Authorable
  <2> QED
    BY <2>2, <1>1
<1>5. Authorable(fewer)
  BY <1>2, <1>4 DEF Authorable
<1> QED
  BY <1>3, <1>5 DEF fewer, e

\* A retired model leaves every list, budget and plan with the registry
\* (governance-removal.mjs:278-335).
LEMMA RetireModelValid ==
    ASSUME Valid(published), NEW m \in Model, RetireModel(m)
    PROVE  PublishesValid
<1> DEFINE b == BindingsWithout(m)
           bs == {x \in published.budgets : x.model # m}
           pl == PlansWithout(m)
           r == Without(published.registry, {m})
           p == [published EXCEPT !.bindings = b, !.budgets = bs, !.plans = pl, !.registry = r]
<1>1. Publish(p)
  BY DEF RetireModel
<1>2. /\ DOMAIN p = DOMAIN published /\ p.teams = published.teams
      /\ p.bindings = b /\ p.budgets = bs /\ p.plans = pl /\ p.registry = r
  BY DEF Valid, WellFormed
<1>3. DOMAIN r = DOMAIN published.registry \ {m} /\ \A y \in DOMAIN r : r[y] = published.registry[y]
  BY DEF Without
<1>4. /\ DOMAIN b = DOMAIN published.bindings
      /\ \A t \in DOMAIN b : /\ b[t] \in Binding
                             /\ b[t].active = published.bindings[t].active
                             /\ b[t].models = published.bindings[t].models \ {m}
  BY DEF BindingsWithout, Valid, WellFormed, Binding
<1>5. DOMAIN pl = DOMAIN published.plans
  BY DEF PlansWithout
<1>6. ASSUME NEW t \in DOMAIN published.plans
      PROVE  IsPlan(pl[t]) /\ Authorable(pl[t])
  <2>1. IsPlan(published.plans[t]) /\ Authorable(published.plans[t])
    BY DEF Valid, WellFormed
  <2> QED
    BY <2>1, FewerHops DEF PlansWithout
<1> HIDE DEF b, bs, pl, r, p
<1>7. bs \subseteq published.budgets
  BY DEF bs
<1>8. WellFormed(p)
  BY <1>2, <1>3, <1>4, <1>5, <1>6, <1>7 DEF Valid, WellFormed
<1>9. Registered(p)
  BY <1>2, <1>3, <1>4 DEF Valid, Registered
<1> QED
  BY <1>1, <1>8, <1>9 DEF Valid, PublishesValid

\* Budgets come and go among the submitted ones.
LEMMA BudgetsValid ==
    ASSUME Valid(published), NEW b \in Cap,
           AddBudget(b) \/ RemoveBudget(b) \/ \E e \in Cap : EditBudget(b, e)
    PROVE  PublishesValid
<1>1. PICK bs : bs \subseteq Budget /\ Publish([published EXCEPT !.budgets = bs])
  <2>0. Cap \subseteq Budget /\ published.budgets \subseteq Budget
    BY InputsAreTyped DEF Valid, WellFormed
  <2>1. CASE AddBudget(b)
    BY <2>0, <2>1 DEF AddBudget
  <2>2. CASE RemoveBudget(b)
    BY <2>0, <2>2 DEF RemoveBudget
  <2>3. ASSUME NEW e \in Cap, EditBudget(b, e)
        PROVE  \E bs : bs \subseteq Budget /\ Publish([published EXCEPT !.budgets = bs])
    BY <2>0, <2>3 DEF EditBudget
  <2> QED
    BY <2>1, <2>2, <2>3
<1> DEFINE p == [published EXCEPT !.budgets = bs]
<1>2. /\ DOMAIN p = DOMAIN published /\ p.budgets = bs
      /\ p.bindings = published.bindings /\ p.teams = published.teams
      /\ p.plans = published.plans /\ p.registry = published.registry
  BY OneField DEF Valid
<1>3. Publish(p)
  BY <1>1
<1> HIDE DEF p
<1>4. WellFormed(p) /\ Registered(p)
  BY <1>1, <1>2 DEF Valid, WellFormed, Registered
<1> QED
  BY <1>3, <1>4 DEF Valid, PublishesValid

\* Only acyclic plans are accepted.
LEMMA PlansValid ==
    ASSUME Valid(published), NEW t \in Target, NEW plan \in Downgrade,
           AddPlan(t, plan) \/ EditPlan(t, plan)
    PROVE  PublishesValid
<1>1. IsPlan(plan) /\ Authorable(plan)
  BY InputsAreTyped DEF AddPlan, EditPlan
<1>2. PICK pl : /\ DOMAIN pl \subseteq DOMAIN published.plans \union {t} /\ pl[t] = plan
                /\ \A y \in DOMAIN pl : y # t => pl[y] = published.plans[y]
                /\ Publish([published EXCEPT !.plans = pl])
  <2>1. CASE AddPlan(t, plan)
    <3> DEFINE pl == Put(published.plans, t, plan)
    <3>1. Publish([published EXCEPT !.plans = pl])
      BY <2>1 DEF AddPlan
    <3>2. /\ DOMAIN pl = DOMAIN published.plans \union {t} /\ pl[t] = plan
          /\ \A y \in DOMAIN pl : y # t => pl[y] = published.plans[y]
      BY DEF Put
    <3> HIDE DEF pl
    <3> QED
      BY <3>1, <3>2
  <2>2. CASE EditPlan(t, plan)
    <3> DEFINE pl == [published.plans EXCEPT ![t] = plan]
    <3>1. Publish([published EXCEPT !.plans = pl]) /\ t \in DOMAIN published.plans
      BY <2>2 DEF EditPlan
    <3>2. /\ DOMAIN pl = DOMAIN published.plans /\ pl[t] = plan
          /\ \A y \in DOMAIN pl : y # t => pl[y] = published.plans[y]
      BY <3>1
    <3> HIDE DEF pl
    <3> QED
      BY <3>1, <3>2
  <2> QED
    BY <2>1, <2>2
<1> DEFINE p == [published EXCEPT !.plans = pl]
<1>3. /\ DOMAIN p = DOMAIN published /\ p.plans = pl
      /\ p.bindings = published.bindings /\ p.teams = published.teams
      /\ p.budgets = published.budgets /\ p.registry = published.registry
  BY OneField DEF Valid
<1>4. Publish(p)
  BY <1>2
<1> HIDE DEF p
<1>5. WellFormed(p)
  BY <1>1, <1>2, <1>3 DEF Valid, WellFormed
<1>6. Registered(p)
  BY <1>3 DEF Valid, Registered
<1> QED
  BY <1>4, <1>5, <1>6 DEF Valid, PublishesValid

\* Whatever an administrator does, a valid set is published.
LEMMA EditsValid ==
    ASSUME Valid(published), Edit
    PROVE  PublishesValid
BY AddBindingValid, EditBindingValid, TeamsValid, DissolveTeamValid, RegistryValid,
   RemoveModelValid, RetireModelValid, BudgetsValid, PlansValid DEF Edit

(***************************************************************************)
(* The invariant                                                           *)
(***************************************************************************)

\* By the clocks w and u, nothing a document states was withdrawn, and no
\* substitute stopped answering its contract, more than age ticks ago.
Fresh(w, u, doc, c, f, age) ==
    /\ doc.models \subseteq Model
    /\ \A m \in doc.models : w[c][m] <= age
    /\ \A m \in DOMAIN doc.chain : doc.chain[m] \in doc.models /\ u[doc.chain[m]][f] <= age

ClocksOK ==
    /\ withdrawn \in [Caller -> [Model -> 0..StaleBound]]
    /\ unanswered \in [Model -> [Family -> 0..StaleBound]]

\* What holds now has not been withdrawn.
Current ==
    /\ \A c \in Caller : \A m \in AllowedModels(published, c) : withdrawn[c][m] = 0
    /\ \A m \in Model, f \in Family : Answers(published, m, f) => unanswered[m][f] = 0

\* An answer is as old as its request at most.
RequestsOK ==
    /\ DOMAIN request \subseteq Slot
    /\ \A s \in DOMAIN request :
        /\ DOMAIN request[s] = {"caller", "family", "requested", "age", "answer"}
        /\ request[s].caller \in Caller /\ request[s].family \in Family
        /\ request[s].requested \in Model /\ request[s].age \in 0..Timeout
        /\ request[s].answer.status = 200 =>
              Fresh(withdrawn, unanswered, request[s].answer.document,
                    request[s].caller, request[s].family, request[s].age)

\* A cached document was in flight no longer than the timeout.
CacheOK ==
    \A k \in DOMAIN cache :
        /\ DOMAIN cache[k] = {"document", "age"}
        /\ cache[k].age \in 0..(Ttl - 1)
        /\ \E c \in Caller, f \in Family :
              /\ k = CacheKey(c, f)
              /\ Fresh(withdrawn, unanswered, cache[k].document, c, f, cache[k].age + Timeout)

GatewayInv ==
    /\ Valid(published) /\ edits \in 0..MaxEdits
    /\ ClocksOK /\ Current /\ RequestsOK /\ CacheOK
    /\ WithdrawnWithinBound /\ SubstituteAnswersRoute

\* While the clocks advance by at most one, a document ages by one.
LEMMA FreshAges ==
    ASSUME NEW w \in [Caller -> [Model -> 0..StaleBound]],
           NEW u \in [Model -> [Family -> 0..StaleBound]],
           NEW v \in [Caller -> [Model -> 0..StaleBound]],
           NEW x \in [Model -> [Family -> 0..StaleBound]],
           NEW age \in Nat,
           \A c \in Caller, m \in Model : v[c][m] <= w[c][m] + 1,
           \A m \in Model, f \in Family : x[m][f] <= u[m][f] + 1
    PROVE  \A doc : \A c \in Caller, f \in Family :
               Fresh(w, u, doc, c, f, age) => Fresh(v, x, doc, c, f, age + 1)
<1> SUFFICES ASSUME NEW doc, NEW c \in Caller, NEW f \in Family, Fresh(w, u, doc, c, f, age)
             PROVE  Fresh(v, x, doc, c, f, age + 1)
  OBVIOUS
<1>0. StaleBound \in Nat
  BY TimesAreTicks DEF StaleBound
<1>1. ASSUME NEW m \in doc.models PROVE v[c][m] <= age + 1
  <2>1. m \in Model /\ w[c][m] <= age
    BY DEF Fresh
  <2>2. w[c][m] \in 0..StaleBound /\ v[c][m] \in 0..StaleBound /\ v[c][m] <= w[c][m] + 1
    BY <2>1
  <2> QED
    BY <1>0, <2>1, <2>2
<1>2. ASSUME NEW m \in DOMAIN doc.chain
      PROVE  doc.chain[m] \in doc.models /\ x[doc.chain[m]][f] <= age + 1
  <2>1. doc.chain[m] \in doc.models /\ doc.chain[m] \in Model /\ u[doc.chain[m]][f] <= age
    BY DEF Fresh
  <2>2. /\ u[doc.chain[m]][f] \in 0..StaleBound /\ x[doc.chain[m]][f] \in 0..StaleBound
        /\ x[doc.chain[m]][f] <= u[doc.chain[m]][f] + 1
    BY <2>1
  <2> QED
    BY <1>0, <2>1, <2>2
<1> QED
  BY <1>1, <1>2 DEF Fresh

\* A document just composed is fresh at any age.
LEMMA ComposedIsFresh ==
    ASSUME Valid(published), ClocksOK, Current,
           NEW c \in Caller, NEW f \in Family, NEW age \in Nat
    PROVE  Fresh(withdrawn, unanswered, Document(published, c, f), c, f, age)
<1> DEFINE doc == Document(published, c, f)
<1>1. doc.models = AllowedModels(published, c) /\ doc.chain = Chain(published, c, f)
  BY DEF Document
<1>2. doc.models \subseteq Model
  BY <1>1, AllowedAreModels DEF Valid
<1>3. \A m \in doc.models : withdrawn[c][m] <= age
  BY <1>1 DEF Current
<1>4. ASSUME NEW m \in DOMAIN doc.chain
      PROVE  doc.chain[m] \in doc.models /\ unanswered[doc.chain[m]][f] <= age
  <2>1. doc.chain[m] \in doc.models /\ Answers(published, doc.chain[m], f)
    BY <1>1, ChainStaysAllowed
  <2> QED
    BY <1>2, <2>1 DEF Current
<1> QED
  BY <1>2, <1>3, <1>4 DEF Fresh

\* What is dispatched from a document younger than the bound is within it.
LEMMA DispatchWithinBound ==
    ASSUME ClocksOK, NEW c \in Caller, NEW f \in Family, NEW m \in Model,
           NEW doc, NEW breached, NEW age \in Nat, age < StaleBound,
           Fresh(withdrawn, unanswered, doc, c, f, age),
           Dispatch(c, f, m, doc, breached),
           withdrawn' = withdrawn, unanswered' = unanswered
    PROVE  WithdrawnWithinBound' /\ SubstituteAnswersRoute'
<1>0. StaleBound \in Nat
  BY TimesAreTicks DEF StaleBound
<1>1. SUFFICES ASSUME NEW r \in served'
               PROVE  /\ withdrawn[r.caller][r.model] < StaleBound
                      /\ r.model # r.requested => unanswered[r.model][r.family] < StaleBound
  BY DEF WithdrawnWithinBound, SubstituteAnswersRoute
<1>2. /\ m \in doc.models /\ r.caller = c /\ r.family = f /\ r.requested = m
      /\ r.model = EffectiveModel(doc, m, breached)
  BY <1>1 DEF Dispatch
<1>3. CASE r.model = m
  <2>1. m \in Model /\ withdrawn[c][m] <= age
    BY <1>2 DEF Fresh
  <2>2. withdrawn[c][m] \in 0..StaleBound
    BY <2>1 DEF ClocksOK
  <2> QED
    BY <1>0, <1>2, <1>3, <2>1, <2>2
<1>4. CASE r.model # m
  <2>1. m \in DOMAIN doc.chain /\ r.model = doc.chain[m]
    BY <1>2, <1>4 DEF EffectiveModel
  <2>2. r.model \in Model /\ withdrawn[c][r.model] <= age /\ unanswered[r.model][f] <= age
    BY <2>1 DEF Fresh
  <2>3. withdrawn[c][r.model] \in 0..StaleBound /\ unanswered[r.model][f] \in 0..StaleBound
    BY <2>2 DEF ClocksOK
  <2> QED
    BY <1>0, <1>2, <2>2, <2>3
<1> QED
  BY <1>3, <1>4

(***************************************************************************)
(* Steps                                                                   *)
(***************************************************************************)

\* What is held stays fresh while the clocks do not advance.
LEMMA HeldStaysFresh ==
    ASSUME GatewayInv, ClocksOK', UNCHANGED <<request, cache>>,
           \A c \in Caller, m \in Model : withdrawn'[c][m] <= withdrawn[c][m],
           \A m \in Model, f \in Family : unanswered'[m][f] <= unanswered[m][f]
    PROVE  RequestsOK' /\ CacheOK'
<1>1. ClocksOK
  BY DEF GatewayInv
<1>2. ASSUME NEW doc, NEW c \in Caller, NEW f \in Family, NEW age \in Nat,
             Fresh(withdrawn, unanswered, doc, c, f, age)
      PROVE  Fresh(withdrawn', unanswered', doc, c, f, age)
  <2>0. StaleBound \in Nat
    BY TimesAreTicks DEF StaleBound
  <2>1. ASSUME NEW m \in doc.models PROVE withdrawn'[c][m] <= age
    <3>1. m \in Model /\ withdrawn[c][m] <= age
      BY <1>2 DEF Fresh
    <3>2. withdrawn[c][m] \in 0..StaleBound /\ withdrawn'[c][m] \in 0..StaleBound
      BY <1>1, <3>1 DEF ClocksOK
    <3>3. withdrawn'[c][m] <= withdrawn[c][m]
      BY <3>1
    <3> QED
      BY <2>0, <3>1, <3>2, <3>3
  <2>2. ASSUME NEW m \in DOMAIN doc.chain
        PROVE  doc.chain[m] \in doc.models /\ unanswered'[doc.chain[m]][f] <= age
    <3>1. doc.chain[m] \in doc.models /\ doc.chain[m] \in Model /\ unanswered[doc.chain[m]][f] <= age
      BY <1>2 DEF Fresh
    <3>2. unanswered[doc.chain[m]][f] \in 0..StaleBound /\ unanswered'[doc.chain[m]][f] \in 0..StaleBound
      BY <1>1, <3>1 DEF ClocksOK
    <3>3. unanswered'[doc.chain[m]][f] <= unanswered[doc.chain[m]][f]
      BY <3>1
    <3> QED
      BY <2>0, <3>1, <3>2, <3>3
  <2> QED
    BY <1>2, <2>1, <2>2 DEF Fresh
<1>3. RequestsOK'
  BY <1>2, TimesAreTicks DEF GatewayInv, RequestsOK
<1>4. ASSUME NEW k \in DOMAIN cache
      PROVE  \E c \in Caller, f \in Family :
                 /\ k = CacheKey(c, f)
                 /\ Fresh(withdrawn', unanswered', cache[k].document, c, f, cache[k].age + Timeout)
  <2>1. PICK c \in Caller, f \in Family :
            /\ k = CacheKey(c, f)
            /\ Fresh(withdrawn, unanswered, cache[k].document, c, f, cache[k].age + Timeout)
    BY DEF GatewayInv, CacheOK
  <2>2. cache[k].age + Timeout \in Nat
    BY TimesAreTicks DEF GatewayInv, CacheOK
  <2> QED
    BY <1>2, <2>1, <2>2
<1>5. CacheOK'
  BY <1>4 DEF GatewayInv, CacheOK
<1> QED
  BY <1>3, <1>5

\* Publishing only turns clocks back.
LEMMA PublishStep ==
    ASSUME GatewayInv, NEW p, Valid(p), Publish(p)
    PROVE  GatewayInv'
<1>0. StaleBound \in Nat
  BY TimesAreTicks DEF StaleBound
<1>1. Valid(published') /\ edits' \in 0..MaxEdits
  BY InputsAreTyped DEF Publish, GatewayInv
<1>2. ClocksOK'
  BY <1>0 DEF Publish, GatewayInv, ClocksOK
<1>3. Current'
  <2>1. \A c \in Caller : AllowedModels(p, c) \subseteq Model
    BY AllowedAreModels DEF Valid
  <2> QED
    BY <2>1 DEF Publish, Current
<1>4. ASSUME NEW c \in Caller, NEW m \in Model
      PROVE  withdrawn'[c][m] <= withdrawn[c][m]
  <2>1. withdrawn[c][m] \in 0..StaleBound
    BY DEF GatewayInv, ClocksOK
  <2> QED
    BY <1>0, <2>1 DEF Publish
<1>5. ASSUME NEW m \in Model, NEW f \in Family
      PROVE  unanswered'[m][f] <= unanswered[m][f]
  <2>1. unanswered[m][f] \in 0..StaleBound
    BY DEF GatewayInv, ClocksOK
  <2> QED
    BY <1>0, <2>1 DEF Publish
<1>6. RequestsOK' /\ CacheOK'
  BY <1>2, <1>4, <1>5, HeldStaysFresh DEF Publish, gateway
<1>7. WithdrawnWithinBound' /\ SubstituteAnswersRoute'
  BY DEF Publish, WithdrawnWithinBound, SubstituteAnswersRoute
<1> QED
  BY <1>1, <1>2, <1>3, <1>6, <1>7 DEF GatewayInv

\* Nothing is served by a step that dispatches nothing.
LEMMA NothingServed ==
    ASSUME served' = {} PROVE WithdrawnWithinBound' /\ SubstituteAnswersRoute'
BY DEF WithdrawnWithinBound, SubstituteAnswersRoute

\* A cached document is used only while it is young enough.
LEMMA HitStep ==
    ASSUME GatewayInv, NEW c \in Caller, NEW f \in Family, NEW m \in Model,
           NEW breached \in BOOLEAN, Hit(c, f, m, breached)
    PROVE  GatewayInv'
<1> DEFINE k == CacheKey(c, f)
<1>1. PICK d \in Caller, g \in Family :
          /\ k = CacheKey(d, g)
          /\ Fresh(withdrawn, unanswered, cache[k].document, d, g, cache[k].age + Timeout)
  BY DEF Hit, GatewayInv, CacheOK
<1>2. d = c /\ g = f
  BY <1>1, KeysAreDistinct
<1>3. cache[k].age + Timeout \in Nat /\ cache[k].age + Timeout < StaleBound
  BY TimesAreTicks DEF Hit, GatewayInv, CacheOK, StaleBound
<1>4. WithdrawnWithinBound' /\ SubstituteAnswersRoute'
  BY <1>1, <1>2, <1>3, DispatchWithinBound DEF Hit, GatewayInv
<1> QED
  BY <1>4 DEF Hit, GatewayInv, ClocksOK, Current, RequestsOK, CacheOK

\* A request that is not yet answered holds nothing.
LEMMA AskStep ==
    ASSUME GatewayInv, NEW s \in Slot, NEW c \in Caller, NEW f \in Family, NEW m \in Model,
           Ask(s, c, f, m)
    PROVE  GatewayInv'
<1> DEFINE r == [caller |-> c, family |-> f, requested |-> m,
                 age |-> 0, answer |-> [status |-> 0]]
<1>1. /\ DOMAIN request' = DOMAIN request \union {s} /\ request'[s] = r
      /\ \A y \in DOMAIN request : y # s => request'[y] = request[y]
      /\ s \notin DOMAIN request
  BY DEF Ask, Put
<1>2. RequestsOK'
  BY <1>1, TimesAreTicks DEF GatewayInv, RequestsOK, Ask
<1>3. WithdrawnWithinBound' /\ SubstituteAnswersRoute'
  BY NothingServed DEF Ask
<1> QED
  BY <1>2, <1>3 DEF Ask, GatewayInv, ClocksOK, Current, CacheOK

\* An answer states what is published when it is given.
LEMMA AnswerStep ==
    ASSUME GatewayInv, NEW s \in Slot, Answer(s)
    PROVE  GatewayInv'
<1> DEFINE c == request[s].caller
           f == request[s].family
           a == Resolve(published, c, f)
<1>1. /\ s \in DOMAIN request /\ c \in Caller /\ f \in Family /\ request[s].age \in Nat
      /\ DOMAIN request[s] = {"caller", "family", "requested", "age", "answer"}
  BY TimesAreTicks DEF Answer, GatewayInv, RequestsOK
<1>2. /\ DOMAIN request' = DOMAIN request
      /\ request'[s] = [request[s] EXCEPT !.answer = a]
      /\ \A y \in DOMAIN request : y # s => request'[y] = request[y]
  BY <1>1 DEF Answer
<1>3. a.status = 200 => a.document = Document(published, c, f)
  BY DEF Resolve
<1>4. Fresh(withdrawn, unanswered, Document(published, c, f), c, f, request[s].age)
  BY <1>1, ComposedIsFresh DEF GatewayInv
<1> HIDE DEF a
<1>5. RequestsOK'
  <2> SUFFICES ASSUME NEW y \in DOMAIN request
               PROVE  /\ DOMAIN request'[y] = {"caller", "family", "requested", "age", "answer"}
                      /\ request'[y].caller \in Caller /\ request'[y].family \in Family
                      /\ request'[y].requested \in Model /\ request'[y].age \in 0..Timeout
                      /\ request'[y].answer.status = 200 =>
                            Fresh(withdrawn, unanswered, request'[y].answer.document,
                                  request'[y].caller, request'[y].family, request'[y].age)
    BY <1>2 DEF RequestsOK, GatewayInv, Answer
  <2>1. CASE y = s
    <3>1. /\ DOMAIN request'[s] = DOMAIN request[s] /\ request'[s].answer = a
          /\ request'[s].caller = c /\ request'[s].family = f
          /\ request'[s].requested = request[s].requested /\ request'[s].age = request[s].age
      BY <1>1, <1>2
    <3> QED
      BY <1>1, <1>3, <1>4, <2>1, <3>1 DEF GatewayInv, RequestsOK
  <2>2. CASE y # s
    BY <1>2, <2>2 DEF GatewayInv, RequestsOK
  <2> QED
    BY <2>1, <2>2
<1>6. WithdrawnWithinBound' /\ SubstituteAnswersRoute'
  BY NothingServed DEF Answer
<1> QED
  BY <1>5, <1>6 DEF Answer, GatewayInv, ClocksOK, Current, CacheOK

\* What is left of the requests when one ends.
LEMMA RequestEnds ==
    ASSUME GatewayInv, NEW s, request' = Without(request, {s}), UNCHANGED <<withdrawn, unanswered>>
    PROVE  RequestsOK'
<1>1. DOMAIN request' = DOMAIN request \ {s} /\ \A y \in DOMAIN request' : request'[y] = request[y]
  BY DEF Without
<1>2. RequestsOK
  BY DEF GatewayInv
<1>3. ASSUME NEW y \in DOMAIN request'
      PROVE  /\ y \in DOMAIN request /\ request'[y] = request[y]
             /\ withdrawn' = withdrawn /\ unanswered' = unanswered
  BY <1>1
<1>4. ASSUME NEW y \in DOMAIN request'
      PROVE  /\ DOMAIN request'[y] = {"caller", "family", "requested", "age", "answer"}
             /\ request'[y].caller \in Caller /\ request'[y].family \in Family
             /\ request'[y].requested \in Model /\ request'[y].age \in 0..Timeout
  BY <1>2, <1>3 DEF RequestsOK
<1>5. ASSUME NEW y \in DOMAIN request', request'[y].answer.status = 200
      PROVE  Fresh(withdrawn', unanswered', request'[y].answer.document,
                   request'[y].caller, request'[y].family, request'[y].age)
  <2>1. Fresh(withdrawn, unanswered, request[y].answer.document,
              request[y].caller, request[y].family, request[y].age)
    BY <1>2, <1>3, <1>5 DEF RequestsOK
  <2> QED
    BY <1>3, <2>1
<1>6. DOMAIN request' \subseteq Slot
  BY <1>1, <1>2 DEF RequestsOK
<1> QED
  BY <1>4, <1>5, <1>6 DEF RequestsOK

\* A document enters the cache as old as its request.
LEMMA ReceiveStep ==
    ASSUME GatewayInv, NEW s \in Slot, NEW breached \in BOOLEAN, Receive(s, breached)
    PROVE  GatewayInv'
<1> DEFINE r == request[s]
           doc == r.answer.document
           k == CacheKey(r.caller, r.family)
           entry == [document |-> doc, age |-> 0]
<1>1. /\ r.caller \in Caller /\ r.family \in Family /\ r.requested \in Model
      /\ r.age \in 0..Timeout
      /\ Fresh(withdrawn, unanswered, doc, r.caller, r.family, r.age)
  BY DEF Receive, GatewayInv, RequestsOK
<1>2. /\ cache' = Put(cache, k, entry)
      /\ Dispatch(r.caller, r.family, r.requested, doc, breached)
      /\ request' = Without(request, {s})
      /\ UNCHANGED <<published, edits, withdrawn, unanswered>>
  BY DEF Receive
<1>3. DOMAIN cache' = DOMAIN cache \union {k} /\ cache'[k] = entry
      /\ \A y \in DOMAIN cache : y # k => cache'[y] = cache[y]
  BY <1>2 DEF Put
<1>4. Fresh(withdrawn, unanswered, doc, r.caller, r.family, 0 + Timeout)
  <2>1. \A m \in doc.models : withdrawn[r.caller][m] \in 0..StaleBound
    BY <1>1 DEF Fresh, GatewayInv, ClocksOK
  <2>2. \A m \in DOMAIN doc.chain : unanswered[doc.chain[m]][r.family] \in 0..StaleBound
    BY <1>1 DEF Fresh, GatewayInv, ClocksOK
  <2>3. StaleBound \in Nat
    BY TimesAreTicks DEF StaleBound
  <2> QED
    BY <1>1, <2>1, <2>2, <2>3, TimesAreTicks DEF Fresh
<1>5. CacheOK'
  <2> SUFFICES ASSUME NEW y \in DOMAIN cache'
               PROVE  /\ DOMAIN cache'[y] = {"document", "age"}
                      /\ cache'[y].age \in 0..(Ttl - 1)
                      /\ \E c \in Caller, f \in Family :
                            /\ y = CacheKey(c, f)
                            /\ Fresh(withdrawn, unanswered, cache'[y].document, c, f,
                                     cache'[y].age + Timeout)
    BY <1>2 DEF CacheOK
  <2>1. CASE y = k
    BY <1>1, <1>3, <1>4, <2>1, TimesAreTicks
  <2>2. CASE y # k
    BY <1>3, <2>2 DEF GatewayInv, CacheOK
  <2> QED
    BY <2>1, <2>2
<1>6. RequestsOK'
  BY <1>2, RequestEnds
<1>7. r.age \in Nat /\ r.age < StaleBound
  BY <1>1, TimesAreTicks DEF StaleBound
<1>8. WithdrawnWithinBound' /\ SubstituteAnswersRoute'
  BY <1>1, <1>2, <1>7, DispatchWithinBound DEF GatewayInv
<1> QED
  BY <1>2, <1>5, <1>6, <1>8 DEF GatewayInv, ClocksOK, Current

\* A request that fails leaves nothing behind.
LEMMA FailStep ==
    ASSUME GatewayInv, NEW s \in Slot, Fail(s)
    PROVE  GatewayInv'
<1>1. RequestsOK'
  BY RequestEnds DEF Fail
<1>2. WithdrawnWithinBound' /\ SubstituteAnswersRoute'
  BY NothingServed DEF Fail
<1> QED
  BY <1>1, <1>2 DEF Fail, GatewayInv, ClocksOK, Current, CacheOK

\* Everything that waits or is held grows older together with the clocks.
LEMMA TickStep ==
    ASSUME GatewayInv, Tick
    PROVE  GatewayInv'
<1>0. StaleBound \in Nat
  BY TimesAreTicks DEF StaleBound
<1>1. ClocksOK
  BY DEF GatewayInv
<1>2. ClocksOK'
  <2>1. ASSUME NEW c \in Caller, NEW m \in Model PROVE withdrawn'[c][m] \in 0..StaleBound
    <3>1. withdrawn[c][m] \in 0..StaleBound
      BY <1>1 DEF ClocksOK
    <3>2. withdrawn'[c][m] = IF m \in AllowedModels(published, c) \/ withdrawn[c][m] = StaleBound
                             THEN withdrawn[c][m] ELSE withdrawn[c][m] + 1
      BY DEF Tick
    <3> QED
      BY <1>0, <3>1, <3>2
  <2>2. ASSUME NEW m \in Model, NEW f \in Family PROVE unanswered'[m][f] \in 0..StaleBound
    <3>1. unanswered[m][f] \in 0..StaleBound
      BY <1>1 DEF ClocksOK
    <3>2. unanswered'[m][f] = IF Answers(published, m, f) \/ unanswered[m][f] = StaleBound
                              THEN unanswered[m][f] ELSE unanswered[m][f] + 1
      BY DEF Tick
    <3> QED
      BY <1>0, <3>1, <3>2
  <2> QED
    BY <2>1, <2>2 DEF ClocksOK, Tick
<1>3. Current'
  <2>1. \A c \in Caller : AllowedModels(published, c) \subseteq Model
    BY AllowedAreModels DEF GatewayInv, Valid
  <2> QED
    BY <2>1 DEF Tick, GatewayInv, Current
<1>4. ASSUME NEW c \in Caller, NEW m \in Model
      PROVE  withdrawn'[c][m] <= withdrawn[c][m] + 1
  <2>1. withdrawn[c][m] \in 0..StaleBound
    BY <1>1 DEF ClocksOK
  <2> QED
    BY <1>0, <2>1 DEF Tick
<1>5. ASSUME NEW m \in Model, NEW f \in Family
      PROVE  unanswered'[m][f] <= unanswered[m][f] + 1
  <2>1. unanswered[m][f] \in 0..StaleBound
    BY <1>1 DEF ClocksOK
  <2> QED
    BY <1>0, <2>1 DEF Tick
<1>6. ASSUME NEW doc, NEW c \in Caller, NEW f \in Family, NEW age \in Nat,
             Fresh(withdrawn, unanswered, doc, c, f, age)
      PROVE  Fresh(withdrawn', unanswered', doc, c, f, age + 1)
  BY <1>1, <1>2, <1>4, <1>5, <1>6, FreshAges DEF ClocksOK
<1>7. RequestsOK'
  <2>1. DOMAIN request' = DOMAIN request /\ DOMAIN request \subseteq Slot
    BY DEF Tick, GatewayInv, RequestsOK
  <2>2. ASSUME NEW s \in DOMAIN request
        PROVE  /\ DOMAIN request'[s] = {"caller", "family", "requested", "age", "answer"}
               /\ request'[s].caller \in Caller /\ request'[s].family \in Family
               /\ request'[s].requested \in Model /\ request'[s].age \in 0..Timeout
               /\ request'[s].answer.status = 200 =>
                     Fresh(withdrawn', unanswered', request'[s].answer.document,
                           request'[s].caller, request'[s].family, request'[s].age)
    <3>1. /\ DOMAIN request[s] = {"caller", "family", "requested", "age", "answer"}
          /\ request[s].caller \in Caller /\ request[s].family \in Family
          /\ request[s].requested \in Model /\ request[s].age \in 0..Timeout
          /\ request[s].age < Timeout
      BY DEF Tick, GatewayInv, RequestsOK
    <3>2. request'[s] = [request[s] EXCEPT !.age = request[s].age + 1]
      BY DEF Tick
    <3>3. /\ DOMAIN request'[s] = DOMAIN request[s] /\ request'[s].age = request[s].age + 1
          /\ request'[s].caller = request[s].caller /\ request'[s].family = request[s].family
          /\ request'[s].requested = request[s].requested
          /\ request'[s].answer = request[s].answer
      BY <3>1, <3>2
    <3>4. request'[s].age \in 0..Timeout /\ request[s].age \in Nat
      BY <3>1, <3>3, TimesAreTicks
    <3>5. request[s].answer.status = 200 =>
              Fresh(withdrawn, unanswered, request[s].answer.document,
                    request[s].caller, request[s].family, request[s].age)
      BY DEF GatewayInv, RequestsOK
    <3> QED
      BY <1>6, <3>1, <3>3, <3>4, <3>5
  <2> QED
    BY <2>1, <2>2 DEF RequestsOK
<1>8. CacheOK'
  <2>1. ASSUME NEW k \in DOMAIN cache'
        PROVE  /\ DOMAIN cache'[k] = {"document", "age"}
               /\ cache'[k].age \in 0..(Ttl - 1)
               /\ \E c \in Caller, f \in Family :
                     /\ k = CacheKey(c, f)
                     /\ Fresh(withdrawn', unanswered', cache'[k].document, c, f,
                              cache'[k].age + Timeout)
    <3>1. k \in DOMAIN cache /\ cache[k].age + 1 < Ttl
          /\ cache'[k] = [cache[k] EXCEPT !.age = cache[k].age + 1]
      BY DEF Tick, Kept
    <3>2. DOMAIN cache[k] = {"document", "age"} /\ cache[k].age \in 0..(Ttl - 1)
      BY <3>1 DEF GatewayInv, CacheOK
    <3>3. /\ DOMAIN cache'[k] = {"document", "age"} /\ cache'[k].age = cache[k].age + 1
          /\ cache'[k].document = cache[k].document
      BY <3>1, <3>2
    <3>4. /\ cache'[k].age \in 0..(Ttl - 1) /\ cache[k].age + Timeout \in Nat
          /\ cache'[k].age + Timeout = (cache[k].age + Timeout) + 1
      BY <3>1, <3>2, <3>3, TimesAreTicks
    <3>5. PICK c \in Caller, f \in Family :
              /\ k = CacheKey(c, f)
              /\ Fresh(withdrawn, unanswered, cache[k].document, c, f, cache[k].age + Timeout)
      BY <3>1 DEF GatewayInv, CacheOK
    <3>6. Fresh(withdrawn', unanswered', cache[k].document, c, f, (cache[k].age + Timeout) + 1)
      BY <1>6, <3>4, <3>5
    <3> QED
      BY <3>3, <3>4, <3>5, <3>6
  <2> QED
    BY <2>1 DEF CacheOK
<1>9. WithdrawnWithinBound' /\ SubstituteAnswersRoute'
  BY NothingServed DEF Tick
<1> QED
  BY <1>2, <1>3, <1>7, <1>8, <1>9 DEF Tick, GatewayInv

(***************************************************************************)
(* Theorems                                                                *)
(***************************************************************************)

LEMMA InitHolds == Init => GatewayInv
<1> SUFFICES ASSUME Init PROVE GatewayInv
  OBVIOUS
<1>0. StaleBound \in Nat /\ MaxEdits \in Nat
  BY TimesAreTicks, InputsAreTyped DEF StaleBound
<1>1. Valid(published)
  BY InitialSetsAreValid DEF Init, Valid
<1>2. ClocksOK
  BY <1>0 DEF Init, ClocksOK
<1>3. \A c \in Caller : AllowedModels(published, c) \subseteq Model
  BY <1>1, AllowedAreModels DEF Valid
<1>4. Current
  BY <1>3 DEF Init, Current
<1>5. RequestsOK /\ CacheOK
  BY DEF Init, RequestsOK, CacheOK
<1>6. WithdrawnWithinBound /\ SubstituteAnswersRoute
  BY DEF Init, WithdrawnWithinBound, SubstituteAnswersRoute
<1> QED
  BY <1>0, <1>1, <1>2, <1>4, <1>5, <1>6 DEF Init, GatewayInv

LEMMA NextHolds == GatewayInv /\ [Next]_vars => GatewayInv'
<1> SUFFICES ASSUME GatewayInv, [Next]_vars PROVE GatewayInv'
  OBVIOUS
<1>1. CASE Edit
  BY <1>1, EditsValid, PublishStep DEF PublishesValid, GatewayInv
<1>2. CASE Serve
  BY <1>2, HitStep, AskStep DEF Serve
<1>3. CASE Resolution
  BY <1>3, AnswerStep, ReceiveStep, FailStep DEF Resolution
<1>4. CASE Tick
  BY <1>4, TickStep
<1>5. CASE UNCHANGED vars
  BY <1>5 DEF vars, GatewayInv, ClocksOK, Current, RequestsOK, CacheOK,
              WithdrawnWithinBound, SubstituteAnswersRoute
<1> QED
  BY <1>1, <1>2, <1>3, <1>4, <1>5 DEF Next

\* What is published is valid, and what the gateway holds and serves is no older
\* than the cache and the timeout allow, after any edits, answers and ticks.
THEOREM GatewayInvariant == Spec => []GatewayInv
BY InitHolds, NextHolds, PTL DEF Spec

\* Every edit publishes a well-formed set, and ages and requests keep their types.
THEOREM GatewayTypes == Spec => []TypeOK
<1>1. GatewayInv => TypeOK
  BY TimesAreTicks DEF GatewayInv, TypeOK, Valid, ClocksOK, RequestsOK, CacheOK
<1> QED
  BY <1>1, GatewayInvariant, PTL

\* A withdrawal takes effect within the cache's and the answer's time, for every
\* cache time, timeout and order of answers (inference.xml:239-310).
THEOREM GatewayWithdrawn == Spec => []WithdrawnWithinBound
<1>1. GatewayInv => WithdrawnWithinBound
  BY DEF GatewayInv
<1> QED
  BY <1>1, GatewayInvariant, PTL

\* No substitute is used on a route whose contract it does not answer
\* (inference.xml:235-238).
THEOREM GatewaySubstitute == Spec => []SubstituteAnswersRoute
<1>1. GatewayInv => SubstituteAnswersRoute
  BY DEF GatewayInv
<1> QED
  BY <1>1, GatewayInvariant, PTL

\* No sequence of edits and removals leaves a list naming a model that is not
\* registered (governance-removal.mjs:278-335, model-capture.mjs:201-233).
THEOREM GatewayListed == Spec => []ListedIsDeployed
<1>1. GatewayInv => ListedIsDeployed
  BY DEF GatewayInv, Valid, ListedIsDeployed
<1> QED
  BY <1>1, GatewayInvariant, PTL

\* A new binding takes no model away from anybody, whoever it is for
\* (governance-authorization-evaluator.mjs:120-132).
THEOREM GatewayGrants == Spec => GrantsOnlyWiden
<1>1. ASSUME Valid(published), NEW t \in Target, NEW grant \in Grant, AddBinding(t, grant),
             NEW c \in Caller
      PROVE  AllowedModels(published, c) \subseteq AllowedModels(published', c)
  <2> DEFINE b == Put(published.bindings, t, [grant EXCEPT !.active = TRUE])
  <2>1. published' = [published EXCEPT !.bindings = b] /\ t \notin DOMAIN published.bindings
    BY <1>1 DEF AddBinding, Publish
  <2>2. published'.bindings = b /\ published'.teams = published.teams
    BY <1>1, <2>1, OneField DEF Valid
  <2>3. /\ DOMAIN b = DOMAIN published.bindings \union {t}
        /\ \A y \in DOMAIN published.bindings : b[y] = published.bindings[y]
    BY <2>1 DEF Put
  <2>4. Organization \in DOMAIN published.bindings
    BY <1>1 DEF Valid, WellFormed
  <2> HIDE DEF b
  <2>5. Applied(published, c) \subseteq Applied(published', c)
    BY <2>2, <2>3 DEF Applied, TeamsOf
  <2>6. \A y \in Applied(published, c) : y \in DOMAIN published.bindings
    BY DEF Applied
  <2> QED
    BY <2>2, <2>3, <2>4, <2>5, <2>6 DEF AllowedModels
<1>2. GatewayInv /\ [Next]_vars =>
          [(\E t \in Target, grant \in Grant : AddBinding(t, grant)) =>
              \A c \in Caller : AllowedModels(published, c) \subseteq AllowedModels(published', c)]_vars
  BY <1>1 DEF GatewayInv
<1> QED
  BY <1>2, GatewayInvariant, PTL DEF Spec, GrantsOnlyWiden

=============================================================================
