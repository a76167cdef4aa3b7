------------------------ MODULE GovernanceAuthoring ------------------------
(***************************************************************************)
(* What administrators write: the initial import, the edit routes           *)
(* (functions/handlers/admin-governance-edit.mjs, admin-access.mjs,         *)
(* admin-model-edit.mjs) and the planned removal of a team or a model       *)
(* (governance-domain/removal/governance-removal.mjs), each a whole         *)
(* governance set computed from a reading of the five published documents.  *)
(*                                                                         *)
(* A record is named by what it is about: a binding and a plan by their     *)
(* target, a grant by holder and scope, a budget by its model, a model by   *)
(* its deployment.  A list is the set of what it names: the stored ones are *)
(* all in the order of the validators (localeCompare), and an editor that   *)
(* puts a list in another order first (by code units) is refused where the  *)
(* two orders part, which is what Misordered is about.                      *)
(*                                                                         *)
(* Reasons, limits, validity windows, expiry, version numbers (each editor  *)
(* adds one) and display are left out.  Approval, entity tags and           *)
(* overlapping publishers are the subject of RevisionLifecycle and          *)
(* GovernancePublication; here a revision is approved and taken up in one   *)
(* step and its parts land one by one.                                      *)
(***************************************************************************)
EXTENDS Integers, Sequences, FiniteSets, Functions, TLC

CONSTANTS
    Administrator, Importer,
    Team, Group, Person, Organization, Everywhere,
    Model, Fact,        \* what the provider says of a deployment
    Unserved,           \* it says: no wire contract the gateway serves
    Import,             \* inputs of the initial import
    Standing,           \* sets published before the model begins
    Reading,            \* answers of the provider: functions on sets of models
    PlanOffer,          \* plans administrators write
    AllowOffer,         \* allowlists administrators write
    Misordered,         \* pairs of models, and of teams, the two orders of
                        \* names (by code units, by the locale) do not agree on
    MisorderedIds,      \* pairs of targets whose bindings' names they do not
    MaxRevisions,       \* bound: revisions ever stored
    Absent, NoOne, Nothing

Kind   == {"assignment", "entitlement", "modelRegistry", "fallbackPolicy", "budget"}
Target == Team \cup Person \cup {Organization}
Scope  == Team \cup {Everywhere}
State  == {"active", "revoked"}

Binding == [models : (SUBSET Model) \ {{}}, state : State]
Edges   == SUBSET (Model \X Model)
Plan    == [edges : Edges, preferred : BOOLEAN, inline : BOOLEAN, enabled : BOOLEAN]

VARIABLES
    live,       \* the five published documents
    revisions,  \* the stored revisions, by number
    request,    \* what an administrator's request at the service holds
    review,     \* the removal plan on an administrator's page
    intact      \* history: the published set is one whole set (see Whole)

authoringVars == <<live, revisions, request, review, intact>>

-----------------------------------------------------------------------------
(* The five parts and what each is checked for on the way in and out.       *)

Without(f, S) == Restrict(f, DOMAIN f \ S)
Over(new, old) ==
    [x \in DOMAIN new \cup DOMAIN old |-> IF x \in DOMAIN new THEN new[x] ELSE old[x]]
With(f, x, v) == Over([y \in {x} |-> v], f)
Revise(p, r)  == [p EXCEPT !.records = r]

(* Each edge of a plan leads on, never back: some model of any set of       *)
(* sources leads out of the set.                                            *)
Sources(E) == { e[1] : e \in E }
Acyclic(E) ==
    \A S \in (SUBSET Sources(E)) \ {{}} : \E e \in E : e[1] \in S /\ e[2] \notin S
IsPlan(p) ==
    /\ p \in Plan
    /\ \A d, e \in p.edges : d[1] = e[1] => d = e
    /\ Acyclic(p.edges)

(* Sorted by code units, the names are as assertSortedUnique wants them.    *)
Agree(S)    == \A x \in S, y \in S : {x, y} \notin Misordered
AgreeIds(S) == \A x \in S, y \in S : {x, y} \notin MisorderedIds

IsAssignment(p) ==
    /\ DOMAIN p = {"records"}
    /\ DOMAIN p.records \subseteq (Person \cup Administrator) \X Scope /\ Range(p.records) \subseteq State
IsEntitlement(p) ==
    /\ DOMAIN p = {"teams", "records"}
    /\ DOMAIN p.teams \subseteq Team /\ Range(p.teams) \subseteq Group
    /\ \A t, u \in DOMAIN p.teams : p.teams[t] = p.teams[u] => t = u
    /\ DOMAIN p.records \subseteq Target /\ Range(p.records) \subseteq Binding
    /\ DOMAIN p.records \cap Team \subseteq DOMAIN p.teams
    /\ Organization \in DOMAIN p.records /\ p.records[Organization].state = "active"
IsRegistry(p) ==
    DOMAIN p = {"records"} /\ DOMAIN p.records \subseteq Model /\ Range(p.records) \subseteq Fact
IsFallback(p) ==
    /\ DOMAIN p = {"records"}
    /\ DOMAIN p.records \subseteq Target /\ \A t \in DOMAIN p.records : IsPlan(p.records[t])
IsBudget(p) == DOMAIN p = {"records"} /\ p.records \subseteq Model

IsSet(s) ==
    /\ DOMAIN s = Kind
    /\ IsAssignment(s.assignment) /\ IsEntitlement(s.entitlement)
    /\ IsRegistry(s.modelRegistry) /\ IsFallback(s.fallbackPolicy) /\ IsBudget(s.budget)

ASSUME AuthoringAssumption ==
    /\ Importer \notin Administrator /\ MaxRevisions \in Nat
    /\ PlanOffer \subseteq Plan /\ AllowOffer \subseteq SUBSET Model
    /\ \A s \in Standing : IsSet(s)
    /\ \A r \in Reading : DOMAIN r \subseteq Model /\ Range(r) \subseteq Fact \cup {Unserved}

(* A partial set is never read (assembleGovernanceSnapshots).               *)
Readable(s) == \A k \in Kind : s[k] # Absent
Registered(s) == DOMAIN s.modelRegistry.records
Teams(s)      == DOMAIN s.entitlement.teams

(* Every binding, a revoked one too, lists registered models only.          *)
Resolves(s) ==
    \A t \in DOMAIN s.entitlement.records : s.entitlement.records[t].models \subseteq Registered(s)
ASSUME StandingAssumption == \A s \in Standing : Resolves(s)
(* Teams, people and models are known by different kinds of names.          *)
ASSUME NamesAssumption ==
    /\ Team \cap (Person \cup {Organization, Everywhere}) = {}
    /\ Model \cap (Team \cup Person \cup {Organization, Everywhere}) = {}
    /\ IsFiniteSet(Model)

-----------------------------------------------------------------------------
(* The editors.  Each gives the next part, and no part where it refuses.    *)

AddTeam(e, t, g) ==
    { n \in {[e EXCEPT !.teams = With(@, t, g)]} :
        /\ t \notin DOMAIN e.teams /\ g \notin Range(e.teams)
        /\ Agree(DOMAIN n.teams) /\ IsEntitlement(n) }
RemoveTeam(e, t) ==
    { n \in {[e EXCEPT !.teams = Without(@, {t})]} :
        /\ t \in DOMAIN e.teams /\ t \notin DOMAIN e.records
        /\ Agree(DOMAIN n.teams) /\ IsEntitlement(n) }

(* A change names an allowlist, a state or both.  The allowlist is stored   *)
(* as it is sent: in the validator's order, or in the page's.               *)
EditBinding(e, t, change, registered) ==
    IF t \notin DOMAIN e.records THEN {}
    ELSE { n \in {Revise(e, [e.records EXCEPT ![t] = Over(change, @)])} :
             /\ "models" \in DOMAIN change => change.models # {} /\ change.models \subseteq registered
             /\ IsEntitlement(n) }
EditAsSent(e, t, change, registered) ==
    { n \in EditBinding(e, t, change, registered) :
        "models" \in DOMAIN change => Agree(change.models) }
AddBinding(e, t, models, registered, issuer) ==
    { n \in {Revise(e, With(e.records, t, [models |-> models, state |-> "active"]))} :
        /\ t \notin DOMAIN e.records \cup {Organization, issuer}
        /\ t \in Team => t \in DOMAIN e.teams
        /\ models # {} /\ models \subseteq registered
        /\ Agree(models) /\ AgreeIds(DOMAIN n.records) /\ IsEntitlement(n) }

AddPlan(f, t, plan, registered, teams) ==
    { n \in {Revise(f, With(f.records, t, plan))} :
        /\ plan.inline => plan.preferred
        /\ t \notin DOMAIN f.records /\ (t \in Team => t \in teams)
        /\ (UNION { {e[1], e[2]} : e \in plan.edges }) \subseteq registered
        /\ IsFallback(n) }
(* An edit does not look at the registry.                                   *)
EditPlan(f, t, change) ==
    IF t \notin DOMAIN f.records THEN {}
    ELSE LET plan == Over(change, f.records[t]) IN
         { n \in {Revise(f, [f.records EXCEPT ![t] = plan])} :
             /\ plan.inline => plan.preferred
             /\ plan # f.records[t]
             /\ IsFallback(n) }

(* A grant that was ever made, a revoked one too, cannot be made again.     *)
Grant(p, h, c, issuer) ==
    { n \in {Revise(p, With(p.records, <<h, c>>, "active"))} :
        h # issuer /\ <<h, c>> \notin DOMAIN p.records /\ IsAssignment(n) }
Revoke(p, g) ==
    IF g \in DOMAIN p.records /\ p.records[g] = "active"
    THEN {Revise(p, [p.records EXCEPT ![g] = "revoked"])} ELSE {}

AddBudget(b, m)     == IF m \in b.records THEN {} ELSE {Revise(b, b.records \cup {m})}
RemoveBudget(b, m)  == IF m \in b.records THEN {Revise(b, b.records \ {m})} ELSE {}
EditBudget(b, m, o) ==
    IF m \in b.records /\ (o = m \/ o \notin b.records)
    THEN {Revise(b, (b.records \ {m}) \cup {o})} ELSE {}

Capture(r, m) == { f \in Fact : m \in DOMAIN r /\ f = r[m] }
AddModel(p, m, r) ==
    { Revise(p, With(p.records, m, f)) : f \in IF m \in DOMAIN p.records THEN {} ELSE Capture(r, m) }
Recapture(p, r) ==
    IF \A m \in DOMAIN p.records : Capture(r, m) # {}
    THEN {Revise(p, [m \in DOMAIN p.records |-> r[m]])} ELSE {}
\* Fault: a revoked binding is taken not to need its models.
EntitledNow(e, m) == \E t \in DOMAIN e.records : e.records[t].state = "active" /\ m \in e.records[t].models
Entitled(e, m) == \E t \in DOMAIN e.records : m \in e.records[t].models
RemoveModel(p, m, e) ==
    IF m \in DOMAIN p.records /\ Cardinality(DOMAIN p.records) > 1 /\ ~Entitled(e, m)
    THEN {Revise(p, Without(p.records, {m}))} ELSE {}

-----------------------------------------------------------------------------
(* The initial set, built on the operator's machine from an input and the   *)
(* provider's answer.                                                       *)

CaptureModels(input, r) ==
    IF input.models # {} /\ \A m \in input.models : Capture(r, m) # {}
    THEN {[records |-> Restrict(r, input.models)]} ELSE {}
BuildEntitlement(input, captured) ==
    IF /\ input.allow[Organization] \subseteq captured
       /\ \A t \in DOMAIN input.allow : input.allow[t] \subseteq input.allow[Organization]
    THEN {[teams   |-> input.teams,
           records |-> [t \in DOMAIN input.allow |-> [models |-> input.allow[t], state |-> "active"]]]}
    ELSE {}
OrganizationPlan(input) ==
    IF input.plan = Absent THEN {[records |-> <<>>]}
    ELSE IF \A e \in input.plan.edges : {e[1], e[2]} \subseteq input.allow[Organization]
    THEN {[records |-> Organization :> input.plan]} ELSE {}
InitialSet(input, r) ==
    { s \in UNION { { [assignment |-> [records |-> <<>>], entitlement |-> e, modelRegistry |-> g,
                       fallbackPolicy |-> f, budget |-> [records |-> input.budgets]] :
                        e \in BuildEntitlement(input, input.models), f \in OrganizationPlan(input) } :
                    g \in CaptureModels(input, r) } : IsSet(s) }

-----------------------------------------------------------------------------
(* What the routes make of a set, each changing one part of it.             *)

TeamChange(s) ==
    { [s EXCEPT !.entitlement = n] : n \in
        (UNION { AddTeam(s.entitlement, t, g) : t \in Team, g \in Group })
        \cup (UNION { RemoveTeam(s.entitlement, t) : t \in Team }) }
EntitlementChange(s, a) ==
    { [s EXCEPT !.entitlement = n] : n \in
        (UNION { EditBinding(s.entitlement, t, c, Registered(s)) :
                  t \in Target, c \in [{"models"} -> AllowOffer] \cup [{"state"} -> State] })
        \cup (UNION { AddBinding(s.entitlement, t, m, Registered(s), a) : t \in Target, m \in AllowOffer }) }
FallbackChange(s) ==
    { [s EXCEPT !.fallbackPolicy = n] : n \in
        (UNION { AddPlan(s.fallbackPolicy, t, p, Registered(s), Teams(s)) : t \in Target, p \in PlanOffer })
        \cup (UNION { EditPlan(s.fallbackPolicy, t, p) : t \in Target, p \in PlanOffer }) }
AssignmentChange(s, a) ==
    { [s EXCEPT !.assignment = n] : n \in
        (UNION { Grant(s.assignment, h, c, a) : h \in Person, c \in Scope })
        \cup (UNION { Revoke(s.assignment, g) : g \in DOMAIN s.assignment.records }) }
BudgetChange(s) ==
    { [s EXCEPT !.budget = n] : n \in
        (UNION { AddBudget(s.budget, m) \cup RemoveBudget(s.budget, m) : m \in Model })
        \cup (UNION { EditBudget(s.budget, m, o) : m \in Model, o \in Model }) }
ModelChange(s) ==
    { [s EXCEPT !.modelRegistry = n] : n \in
        (UNION { RemoveModel(s.modelRegistry, m, s.entitlement) : m \in Model })
        \cup (UNION { AddModel(s.modelRegistry, m, r) : m \in Model, r \in Reading })
        \cup (UNION { Recapture(s.modelRegistry, r) : r \in Reading }) }

-----------------------------------------------------------------------------
(* Planned removal of a team or a model with everything that names it.      *)

(* A reference is the document it is in and what names the target there.    *)
HeldIn(p, t) == { g \in DOMAIN p.records : g[2] = t }
TeamReferences(s, t) ==
    { <<"entitlement", b>>   : b \in DOMAIN s.entitlement.records \cap {t} }
    \cup { <<"assignment", g>> : g \in HeldIn(s.assignment, t) }
    \cup { <<"fallbackPolicy", p>> : p \in DOMAIN s.fallbackPolicy.records \cap {t} }
PlannedEdges(s) ==
    UNION { {t} \X s.fallbackPolicy.records[t].edges : t \in DOMAIN s.fallbackPolicy.records }
ModelReferences(s, m) ==
    { <<"entitlement", b>> : b \in { t \in DOMAIN s.entitlement.records : m \in s.entitlement.records[t].models } }
    \cup { <<"budget", b>> : b \in s.budget.records \cap {m} }
    \cup { <<"fallbackPolicy", e>> : e \in { d \in PlannedEdges(s) : m \in {d[2][1], d[2][2]} } }
References(s, x) == IF x \in Team THEN TeamReferences(s, x) ELSE ModelReferences(s, x)
Digest(s, x) == <<s, x>>
ExactSelection(s, x, selected) == selected = References(s, x)

Known(s, x) == x \in IF x \in Team THEN Teams(s) ELSE Registered(s)
\* Fault: the last model blocks nothing.
BlocksButLast(s, x) ==
    \/ ~Known(s, x)
    \/ x \in Model /\ \E t \in DOMAIN s.entitlement.records : s.entitlement.records[t].models = {x}
Blocked(s, x) ==
    \/ ~Known(s, x)
    \/ x \in Model /\ Registered(s) = {x}
    \/ x \in Model /\ \E t \in DOMAIN s.entitlement.records : s.entitlement.records[t].models = {x}

TeamRemoval(s, t) ==
    { [s EXCEPT !.entitlement    = n,
                !.assignment     = Revise(@, Without(@.records, HeldIn(@, t))),
                !.fallbackPolicy = Revise(@, Without(@.records, {t}))] :
        n \in RemoveTeam(Revise(s.entitlement, Without(s.entitlement.records, {t})), t) }

\* Fault: only the edges that start at the model are dropped.
LeavingFrom(E, m) == { e \in E : e[1] # m }
Leaving(E, m) == { e \in E : m \notin {e[1], e[2]} }
PlanWithout(p, m) == [p EXCEPT !.edges = Leaving(@, m)]
Narrowed(b, m)    == [b EXCEPT !.models = @ \ {m}]
(* Every plan with such an edge is edited in turn; one refusal ends it.     *)
PlansWithout(f, m) ==
    LET touched == { t \in DOMAIN f.records : Leaving(f.records[t].edges, m) # f.records[t].edges } IN
    IF \E t \in touched : f.records[t].inline /\ ~f.records[t].preferred THEN {}
    ELSE {Revise(f, [t \in DOMAIN f.records |-> PlanWithout(f.records[t], m)])}
BindingsWithout(e, m) == Revise(e, [t \in DOMAIN e.records |-> Narrowed(e.records[t], m)])
ModelRemoval(s, m) ==
    LET e == BindingsWithout(s.entitlement, m) IN
    { [assignment |-> s.assignment, entitlement |-> e, modelRegistry |-> n, fallbackPolicy |-> f,
       budget |-> Revise(s.budget, s.budget.records \ {m})] :
        f \in PlansWithout(s.fallbackPolicy, m), n \in RemoveModel(s.modelRegistry, m, e) }
Removal(s, x) == IF x \in Team THEN TeamRemoval(s, x) ELSE ModelRemoval(s, x)

-----------------------------------------------------------------------------
(* What the page offers and the forms it lets be sent.                      *)

Options(s) ==
    [models   |-> Registered(s), teams |-> s.entitlement.teams, bindings |-> s.entitlement.records,
     holds    |-> { g \in DOMAIN s.assignment.records : s.assignment.records[g] = "active" }]

(* A binding in force can be narrowed or widened, and revoked unless it is  *)
(* everybody's; a revoked one can be restored.                              *)
Editable(o) == { t \in DOMAIN o.bindings : o.bindings[t].state = "active" }
AllowlistForms(o) ==
    { f \in [target : Editable(o), change : [models : SUBSET o.models]] :
        f.change.models \notin {{}, o.bindings[f.target].models} }
\* Fault: the organization's own binding can be revoked.
StateFormsOfAll(o) ==
    { f \in [target : DOMAIN o.bindings, change : [state : State]] :
        f.change.state # o.bindings[f.target].state }
StateForms(o) ==
    { f \in [target : DOMAIN o.bindings \ {Organization}, change : [state : State]] :
        f.change.state # o.bindings[f.target].state }

(* A person is written by hand, a team chosen from the catalogue.           *)
Governable(o) == Person \cup DOMAIN o.teams
BindingForms(o) == [target : Governable(o), models : (SUBSET o.models) \ {{}}]
TeamForms == [team : Team, group : Group]
GrantScopes(o) == DOMAIN o.teams \cup {Everywhere}
GrantForms(o) == [holder : Person, scope : GrantScopes(o)]

(* A row of a plan keeps the models it named, registered or not, until      *)
(* others are chosen; only a new plan's notice is compared with its intent. *)
PlanRows(o, authored) ==
    { e \in Model \X Model : \E d \in authored \cup (o.models \X o.models) :
        e[1] \in o.models \cup {d[1]} /\ e[2] \in o.models \cup {d[2]} }
PlanOnForm == { p \in Plan : IsPlan(p) }
PlanForms(o) ==
    { f \in [target : {Organization} \cup Governable(o), plan : PlanOnForm] :
        f.plan.edges \subseteq PlanRows(o, {}) /\ (f.plan.inline => f.plan.preferred) }
PlanEditForms(o, plan) ==
    { p \in PlanOnForm : p.edges \subseteq PlanRows(o, plan.edges) /\ p # plan }

(* The plan the fallback screen of a team, or of everybody, opens for edit.  *)
PlanShown(s, t) ==
    LET ranked == IF t \in DOMAIN s.fallbackPolicy.records THEN {t} ELSE {Organization}
    IN  ranked \cap DOMAIN s.fallbackPolicy.records

-----------------------------------------------------------------------------
(* Revisions: a proposal is stored as a draft, approved and taken up, and   *)
(* its parts land one by one; a part whose write fails is tried again when  *)
(* the revision is resumed.  The publisher keeps an order of the parts but  *)
(* goes on past a failed one, so any of them may be the ones that landed.   *)
(* What a finished revision held is not read again.                         *)

Numbers    == DOMAIN revisions
Unfinished == { i \in Numbers : revisions[i].state \in {"draft", "publishing", "failed"} }
LastInFlight(i) == i \in Unfinished /\ \A j \in Unfinished : j <= i
Finished(state) == [content |-> Absent, author |-> NoOne, state |-> state,
                    landed |-> {}, removes |-> NoOne, whole |-> FALSE]

(* History: a set is whole if it is the import, or computed from a whole    *)
(* set just as it was published, and not from parts of several.             *)
Whole(s) == \E i \in Numbers : revisions[i].whole /\ revisions[i].content = s

Store(content, author, target, whole) ==
    /\ Len(revisions) < MaxRevisions
    /\ revisions' = Append(revisions, [content |-> content, author |-> author, state |-> "draft",
                                       landed |-> {}, removes |-> target, whole |-> whole])

AuthoringInit ==
    /\ \/ live = [k \in Kind |-> Absent] /\ revisions = <<>> /\ intact = FALSE
       \/ live \in Standing /\ revisions = <<Finished("active")>> /\ intact = TRUE
    /\ request = [a \in Administrator |-> Nothing] /\ review = [a \in Administrator |-> Nothing]

Initialize ==
    /\ revisions = <<>>
    /\ \E i \in Import, r \in Reading : \E s \in InitialSet(i, r) : Store(s, Importer, NoOne, TRUE)
    /\ UNCHANGED <<live, request, review, intact>>

(* An edit: read and compute, look for a proposal in flight, store.  Who     *)
(* edits and removes at once is two administrators here.                    *)
AtWork(a) == request[a] # Nothing \/ review[a] # Nothing
ReadPublished(a) ==
    /\ ~AtWork(a) /\ Readable(live) /\ Len(revisions) < MaxRevisions
    /\ request' = [request EXCEPT ![a] =
                     [step |-> "read", base |-> live, whole |-> intact, removes |-> NoOne]]
    /\ UNCHANGED <<live, revisions, review, intact>>
LookInFlight(a) ==
    /\ request[a] # Nothing /\ request[a].step = "read"
    /\ Unfinished = {}
    /\ request' = [request EXCEPT ![a].step = "checked"]
    /\ UNCHANGED <<live, revisions, review, intact>>
Computed(a) ==
    LET r == request[a] IN
    IF r.removes # NoOne THEN Removal(r.base, r.removes)
    ELSE TeamChange(r.base) \cup EntitlementChange(r.base, a) \cup FallbackChange(r.base)
         \cup AssignmentChange(r.base, a) \cup BudgetChange(r.base) \cup ModelChange(r.base)
Propose(a) ==
    /\ request[a] # Nothing /\ request[a].step = "checked"
    /\ \E s \in Computed(a) : Store(s, a, request[a].removes, request[a].whole)
    /\ request' = [request EXCEPT ![a] = Nothing]
    /\ UNCHANGED <<live, review, intact>>
(* Refused, failed or lost.                                                 *)
Drop(a) ==
    /\ request[a] # Nothing
    /\ request' = [request EXCEPT ![a] = Nothing]
    /\ UNCHANGED <<live, revisions, review, intact>>

(* A removal: the page asks for a plan, shows the answer to its latest      *)
(* question only, and sends the plan's digest and all its references; the   *)
(* service reads again and stores without looking for what is in flight.    *)
OpenRemoval(a, x) ==
    /\ request[a] = Nothing /\ Len(revisions) < MaxRevisions
    /\ review' = [review EXCEPT ![a] = [target |-> x, base |-> Absent]]
    /\ UNCHANGED <<live, revisions, request, intact>>
ShowPlan(a) ==
    /\ review[a] # Nothing /\ review[a].base = Absent /\ Readable(live)
    /\ review' = [review EXCEPT ![a].base = live]
    /\ UNCHANGED <<live, revisions, request, intact>>
CloseRemoval(a) ==
    /\ review[a] # Nothing
    /\ review' = [review EXCEPT ![a] = Nothing]
    /\ UNCHANGED <<live, revisions, request, intact>>
Shown(a)     == review[a] # Nothing /\ review[a].base # Absent
CanPropose(a) == Shown(a) /\ ~Blocked(review[a].base, review[a].target)
ConfirmRemoval(a) ==
    /\ CanPropose(a)
    /\ LET x == review[a].target  shown == review[a].base IN
         Digest(live, x) = Digest(shown, x) /\ ExactSelection(live, x, References(shown, x))
    /\ request' = [request EXCEPT ![a] = [step |-> "checked", base |-> live, whole |-> intact,
                                          removes |-> review[a].target]]
    /\ review' = [review EXCEPT ![a] = Nothing]
    /\ UNCHANGED <<live, revisions, intact>>

(* Only the last revision in flight can be resumed, an import only by its   *)
(* importer.  What is already as the revision has it needs no landing.      *)
Resume(i) ==
    /\ LastInFlight(i) /\ revisions[i].state \in {"draft", "failed"}
    /\ revisions' = [revisions EXCEPT ![i].state = "publishing",
                       ![i].landed = @ \cup { k \in Kind : live[k] = revisions[i].content[k] }]
    /\ UNCHANGED <<live, request, review, intact>>
Land(i, k) ==
    /\ revisions[i].state = "publishing" /\ k \notin revisions[i].landed
    /\ live' = [live EXCEPT ![k] = revisions[i].content[k]]
    /\ revisions' = [revisions EXCEPT ![i].landed = @ \cup {k}]
    /\ intact' = Whole(live')
    /\ UNCHANGED <<request, review>>
Conclude(i) ==
    /\ revisions[i].state = "publishing"
    /\ revisions' = [revisions EXCEPT ![i] =
         IF @.landed = Kind THEN Finished("active") ELSE [@ EXCEPT !.state = "failed"]]
    /\ UNCHANGED <<live, request, review, intact>>
Withdraw(i) ==
    /\ revisions[i].state = "draft" /\ revisions[i].author # Importer
    /\ revisions' = [revisions EXCEPT ![i] = Finished("withdrawn")]
    /\ UNCHANGED <<live, request, review, intact>>

AuthoringNext ==
    \/ Initialize
    \/ \E a \in Administrator :
         \/ ReadPublished(a) \/ LookInFlight(a) \/ Propose(a) \/ Drop(a)
         \/ \E x \in Team \cup Model : OpenRemoval(a, x)
         \/ ShowPlan(a) \/ CloseRemoval(a) \/ ConfirmRemoval(a)
    \/ \E i \in Numbers :
         \/ Resume(i) \/ Conclude(i) \/ Withdraw(i)
         \/ \E k \in Kind : Land(i, k)

AuthoringSpec == AuthoringInit /\ [][AuthoringNext]_authoringVars

-----------------------------------------------------------------------------
(* Every stored set passes every part's validator, whatever reading it was  *)
(* computed from, and names no binding without models.                      *)
AuthoringTypeOK ==
    /\ Readable(live) => IsSet(live)
    /\ \A i \in Numbers :
         /\ revisions[i].state \in {"draft", "publishing", "failed", "active", "withdrawn"}
         /\ i \in Unfinished => IsSet(revisions[i].content) /\ revisions[i].landed \subseteq Kind
    /\ \A a \in Administrator : request[a] # Nothing => IsSet(request[a].base)

(* In a set computed from a whole one, every active binding allows only     *)
(* registered models: revoking a binding, removing a model and restoring    *)
(* the binding cannot bring the model back, though a restored state is not  *)
(* compared with the registry (editEntitlementBinding, removeModel).        *)
BindingsResolve ==
    \A i \in Unfinished : revisions[i].whole =>
        LET s == revisions[i].content IN
        \A t \in DOMAIN s.entitlement.records :
            s.entitlement.records[t].state = "active" =>
                s.entitlement.records[t].models \subseteq Registered(s)

(* A removal leaves nothing that names what it removes (applyTeamRemoval,   *)
(* applyModelRemoval), in no part of the set.                               *)
Names(s, x) ==
    \/ x \in Teams(s) \cup Registered(s) \cup s.budget.records
    \/ x \in DOMAIN s.entitlement.records \cup DOMAIN s.fallbackPolicy.records
    \/ \E t \in DOMAIN s.entitlement.records : x \in s.entitlement.records[t].models
    \/ \E g \in DOMAIN s.assignment.records : x = g[2]
    \/ \E e \in PlannedEdges(s) : x \in {e[2][1], e[2][2]}
RemovalLeavesNothing ==
    \A i \in Unfinished :
        revisions[i].removes # NoOne => ~Names(revisions[i].content, revisions[i].removes)

(* A plan shown without blockers can be carried out, on whatever mix of     *)
(* parts it was computed (blockersFor; canPropose), but for two refusals it *)
(* does not foresee: the set holds a substitution plan whose notice its own *)
(* editor refuses, or the names of the teams that stay are ordered in two   *)
(* ways (removeTeam sorts by code units what the validator wants in the     *)
(* order of the locale).                                                    *)
NoticeKept(s) ==
    \A t \in DOMAIN s.fallbackPolicy.records :
        s.fallbackPolicy.records[t].inline => s.fallbackPolicy.records[t].preferred
PlannedIsPossible ==
    \A a \in Administrator :
        LET s == review[a].base  x == review[a].target IN
        CanPropose(a) /\ NoticeKept(s) /\ (x \in Team => Agree(Teams(s) \ {x})) =>
            \E n \in Removal(s, x) : IsSet(n)

(* What the page lets be sent about the published set, the service accepts  *)
(* but for the refusals named here, all of them (the panels of app.mjs and  *)
(* governance-authoring.mjs against the editors):                           *)
(*   - an allowlist, and a new binding, that the page and the editors order *)
(*     by code units where the validator orders by the locale;              *)
(*   - a team beside others in a catalogue of which that is true;           *)
(*   - a second binding or plan for a target, a team's key or group already *)
(*     in use;                                                              *)
(*   - a binding or a grant for oneself;                                    *)
(*   - a grant ever made, though it was revoked since;                      *)
(*   - an edit that leaves a pinned plan its inline notice.                 *)
(* An edit of a state is never refused.  It is about the published set      *)
(* alone, so it is judged while nobody is at work.                          *)
AtRest == Unfinished = {} /\ \A a \in Administrator : ~AtWork(a)
BindingsAccepted(s, o) ==
    LET e == s.entitlement IN
    /\ \A f \in StateForms(o) : EditAsSent(e, f.target, f.change, Registered(s)) # {}
    /\ \A f \in AllowlistForms(o) :
         EditAsSent(e, f.target, f.change, Registered(s)) # {} <=> Agree(f.change.models)
    /\ \A f \in BindingForms(o), a \in Administrator :
         AddBinding(e, f.target, f.models, Registered(s), a) # {} <=>
            /\ f.target \notin DOMAIN e.records \cup {a}
            /\ Agree(f.models) /\ AgreeIds(DOMAIN e.records \cup {f.target})
PlansAccepted(s, o) ==
    LET p == s.fallbackPolicy IN
    /\ \A f \in PlanForms(o) :
         AddPlan(p, f.target, f.plan, Registered(s), Teams(s)) # {} <=> f.target \notin DOMAIN p.records
    /\ \A t \in DOMAIN o.teams \cup {Organization} : \A u \in PlanShown(s, t) :
         \A n \in PlanEditForms(o, p.records[u]) :
             EditPlan(p, u, n) # {} <=> (n.inline => n.preferred)
PeopleAccepted(s, o) ==
    /\ \A f \in TeamForms :
         AddTeam(s.entitlement, f.team, f.group) # {} <=>
            /\ f.team \notin DOMAIN o.teams /\ f.group \notin Range(o.teams)
            /\ Agree(DOMAIN o.teams \cup {f.team})
    /\ \A f \in GrantForms(o), a \in Administrator :
         Grant(s.assignment, f.holder, f.scope, a) # {} <=>
            f.holder # a /\ <<f.holder, f.scope>> \notin DOMAIN s.assignment.records
FormsAreAccepted ==
    AtRest /\ Readable(live) =>
        /\ BindingsAccepted(live, Options(live))
        /\ PlansAccepted(live, Options(live))
        /\ PeopleAccepted(live, Options(live))

=============================================================================
