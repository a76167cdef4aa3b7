--------------------------- MODULE BudgetCounters ---------------------------
(***************************************************************************)
(* Token budgets from the administrator's form to the gateway's counters:   *)
(* the budget edits (governance-domain/policy/budget-edit.mjs and their     *)
(* handler), what the resolver makes of budgets and entitlement limits for  *)
(* one caller (budget-publication.mjs, effective-policy-composer.mjs), and  *)
(* the token policies of src/apim/policies/inference.xml.                   *)
(*                                                                         *)
(* Time is counted in hours.  A document is resolved for less than one,     *)
(* a request may end in a later one.  How a proposal is approved and        *)
(* written is the subject of GovernancePublication, which models a caller   *)
(* may use and when a document is asked for that of PolicyGateway.          *)
(***************************************************************************)
EXTENDS Integers, FiniteSets, FiniteSetsExt

CONSTANTS
    Caller,         \* [subject, application, teams, models, preferred]
    ModelKey, AnyModel,
    Organization, TeamKey, NoTeamKey,
    Hours,          \* the hours of each period
    Limit,          \* entitlement quotas by target: [quota, period]
    Hop,            \* the substitute of a model, where the plan has one
    DefaultWarn,    \* warnThresholdPercent of the deployment
    BudgetId, Terms,        \* ids and terms administrators submit
    Administrator, Slot,
    InitialBudgets,
    MaxTokens,      \* bound: what one request consumes
    MaxEdits, MaxHour,     \* bounds: proposals, hours
    NoBudget, NoSet, Unused

Scope  == {"organization", "team", "subject", "application"}
Span == DOMAIN Hours
Action == {"HARD_BLOCK", "SOFT_WARNING", "THROTTLE"}

(* Percentages are whole; an absent one is 0.                               *)
Term == [scope : Scope, model : ModelKey \cup {AnyModel}, action : Action,
         amount : Nat \ {0}, period : Span, warn : 0..99, grace : 0..100]

(* What one budget may say (assertEnforceableBudget, assertThresholds).     *)
Sound(b) ==
    /\ b.model # AnyModel => b.scope \in {"organization", "team"}
    /\ b.warn # 0 => b.action = "HARD_BLOCK"
    /\ (b.grace # 0) <=> (b.action = "SOFT_WARNING")

Identity(b) == <<b.action = "THROTTLE", b.scope, b.model>>
IsBudget(b) ==
    /\ DOMAIN b = {"id", "version", "scope", "model", "action", "amount", "period", "warn", "grace"}
    /\ b.id \in BudgetId /\ b.version \in Nat \ {0}
    /\ [f \in DOMAIN b \ {"id", "version"} |-> b[f]] \in Term /\ Sound(b)
IsBudgetSet(B) ==
    /\ \A b \in B : IsBudget(b)
    /\ \A b, d \in B : (b.id = d.id \/ Identity(b) = Identity(d)) => b = d

ASSUME BudgetAssumption ==
    /\ \A c \in Caller : c.teams \subseteq TeamKey /\ c.models \subseteq ModelKey /\ c.models # {}
    /\ Organization \in DOMAIN Limit /\ Hours \in [Span -> Nat \ {0}]
    /\ \A t \in DOMAIN Limit : Limit[t] \in [quota : Nat \ {0}, period : Span]
    /\ DefaultWarn \in 1..99 /\ Terms \subseteq Term
    /\ DOMAIN Hop \subseteq ModelKey /\ \A m \in DOMAIN Hop : Hop[m] \in ModelKey \ {m}
    /\ \A B \in InitialBudgets : IsBudgetSet(B)
    /\ IsFiniteSet(TeamKey) /\ IsFiniteSet(Slot) /\ MaxTokens \in Nat /\ MaxEdits \in Nat /\ MaxHour \in Nat

VARIABLES
    hour,       \* since the start
    published,  \* the budgets in force
    authored,   \* history: every budget that ever was in force
    restarted,  \* history: ids put in force not as the next version
    base,       \* the set an administrator's request has read
    proposal,   \* the proposal in flight
    edits,
    cache,      \* the budgets a caller's document was composed from
    slot,       \* requests the model is answering
    counter,    \* tokens by counter key and hour
    spent       \* history: tokens by caller, serving model, limits and hour

authoring    == <<published, authored, restarted, base, proposal, edits>>
countersVars == <<hour, authoring, cache, slot, counter, spent>>
-----------------------------------------------------------------------------
(* What a budget comes to for a caller.                                     *)
Enforced(b) == IF b.action = "SOFT_WARNING" THEN (b.amount * (100 + b.grace)) \div 100
               ELSE b.amount

(* Mutant: the warning is placed on the quota with its grace.                 *)
PercentOfTheGrace(b) == IF b.action = "SOFT_WARNING" THEN 99 ELSE b.warn

Percent(b) == IF b.action = "SOFT_WARNING" THEN (b.amount * 100) \div Enforced(b) ELSE b.warn

(* A budget over models the caller may not use limits nothing.              *)
Enforceable(b, c) == b.model = AnyModel \/ b.model \in c.models

SoleTeam(c) == IF Cardinality(c.teams) = 1 THEN CHOOSE t \in c.teams : TRUE ELSE NoTeamKey

AsLimit(b) == [scope |-> b.scope, model |-> b.model, quota |-> Enforced(b),
               period |-> b.period, budget |-> <<b.id, b.version>>]
Plain(scope, target) ==
    IF target \in DOMAIN Limit
    THEN {[scope |-> scope, model |-> AnyModel, quota |-> Limit[target].quota,
           period |-> Limit[target].period, budget |-> NoBudget]}
    ELSE {}

(* The limits of a team are the caller's own where no one team is charged.  *)
Entitled(c) ==
    Plain("organization", Organization)
        \cup (UNION {Plain(IF SoleTeam(c) = NoTeamKey THEN "subject" ELSE "team", t) : t \in c.teams})
        \cup Plain("subject", c.subject) \cup Plain("application", c.application)

Budgeted(c, B) == {AsLimit(b) : b \in {x \in B : x.action # "THROTTLE" /\ Enforceable(x, c)}}

(* By the rate per hour, then by the amount.                                *)
Tighter(l, k) ==
    \/ l.quota * Hours[k.period] < k.quota * Hours[l.period]
    \/ l.quota * Hours[k.period] = k.quota * Hours[l.period] /\ l.quota < k.quota

(* One limit for each scope and model; a budget must be tighter to replace. *)
Limits(c, B) ==
    LET all == Entitled(c) \cup Budgeted(c, B)
    IN  {l \in all : \A k \in all :
            (k.scope = l.scope /\ k.model = l.model /\ k # l) =>
                \/ Tighter(l, k)
                \/ ~Tighter(k, l) /\ l.budget = NoBudget}

WarnAt(c, B) ==
    Min({DefaultWarn} \cup
        ({Percent(b) : b \in {x \in B : x.action # "THROTTLE" /\ Enforceable(x, c)}} \cap 1..99))

Measured(c, B) == {AsLimit(b) : b \in {x \in B : x.action = "THROTTLE" /\ Enforceable(x, c)}}
-----------------------------------------------------------------------------
(* The gateway's counters.  Key names who a counter is for, under a prefix   *)
(* per scope.                                                               *)
Whose(scope, c) == CASE scope = "organization" -> Organization
                     [] scope = "team"         -> SoleTeam(c)
                     [] scope = "subject"      -> c.subject
                     [] scope = "application"  -> c.application

(* Mutant: a new version of a budget goes on with the counter of the old.     *)
KeyOfId(space, l, c) ==
    [space |-> space, scope |-> l.scope, who |-> Whose(l.scope, c), model |-> l.model,
     budget |-> IF l.budget = NoBudget THEN NoBudget ELSE l.budget[1]]

Key(space, l, c) ==
    [space |-> space, scope |-> l.scope, who |-> Whose(l.scope, c), model |-> l.model,
     budget |-> l.budget]

(* A counter runs where the caller has what its scope names, per-model ones  *)
(* for the model that serves.                                               *)
Running(ls, c, models) ==
    {l \in ls : l.model \in models /\ Whose(l.scope, c) # NoTeamKey}

StartOf(p, t) == t - (t % Hours[p])
UsedIn(k, p)  ==
    MapThenSumSet(LAMBDA x : counter[x],
        {x \in DOMAIN counter : x[1] = k /\ x[2] \in StartOf(p, hour)..hour})

(* Mutant: a counter is declared with the shortest period, not the limit's.   *)
UsedThisHour(space, l, c) ==
    MapThenSumSet(LAMBDA x : counter[x], {<<Key(space, l, c), hour>>} \cap DOMAIN counter)

Used(space, l, c) == UsedIn(Key(space, l, c), l.period)

HasRoom(ls, c) == \A l \in ls : Used("quota", l, c) < l.quota

Breached(c, B) ==
    \E l \in Running(Limits(c, B), c, {AnyModel}) :
        Used("quota", l, c) * 100 >= WarnAt(c, B) * l.quota

Substitutable(c, m) == c.preferred /\ m \in DOMAIN Hop /\ Hop[m] \in c.models
Effective(c, B, m)  == IF Substitutable(c, m) /\ Breached(c, B) THEN Hop[m] ELSE m

Add(f, S, n) == [x \in DOMAIN f \cup S |->
    (IF x \in DOMAIN f THEN f[x] ELSE 0) + (IF x \in S THEN n ELSE 0)]
-----------------------------------------------------------------------------
(* Administrators.  An edit is computed from the set its request read and    *)
(* proposed as a whole, if nothing is in flight at that moment.             *)
ReadBudgets(a) ==
    /\ base[a] = NoSet /\ edits < MaxEdits
    /\ base' = [base EXCEPT ![a] = published]
    /\ UNCHANGED <<hour, published, authored, restarted, proposal, edits, cache, slot, counter, spent>>

Propose(a, B) ==
    /\ proposal = NoSet /\ edits < MaxEdits
    /\ proposal' = B /\ edits' = edits + 1
    /\ base' = [base EXCEPT ![a] = NoSet]
    /\ UNCHANGED <<hour, published, authored, restarted, cache, slot, counter, spent>>

(* Refused with a conflict: the request ends.                               *)
Conflict(a) ==
    /\ base[a] # NoSet /\ proposal # NoSet
    /\ base' = [base EXCEPT ![a] = NoSet]
    /\ UNCHANGED <<hour, published, authored, restarted, proposal, edits, cache, slot, counter, spent>>

Authored(id, version, t) ==
    [f \in {"id", "version"} \cup DOMAIN t |->
        CASE f = "id" -> id [] f = "version" -> version [] OTHER -> t[f]]

(* Neither the id nor the coverage of another budget.                       *)
Free(B, b) == \A d \in B : d.id # b.id /\ Identity(d) # Identity(b)

AddBudget(a, id, t) ==
    LET b == Authored(id, 1, t) IN
    /\ base[a] # NoSet
    /\ Sound(b) /\ Free(base[a], b)
    /\ Propose(a, base[a] \cup {b})

(* The budgets of the set a request has read.                               *)
Known(a) == IF base[a] = NoSet THEN {} ELSE base[a]

(* The scope stays; what is written must differ.                            *)
EditBudget(a, held, t) ==
    LET b == Authored(held.id, held.version + 1, t) IN
    /\ held \in Known(a)
    /\ t.scope = held.scope /\ [b EXCEPT !.version = held.version] # held
    /\ Sound(b) /\ Free(base[a] \ {held}, b)
    /\ Propose(a, (base[a] \ {held}) \cup {b})

RemoveBudget(a, held) ==
    /\ held \in Known(a)
    /\ Propose(a, base[a] \ {held})

(* An id that has been in force comes back, or back to what it was, otherwise *)
(* than as the next version of the budget in force.                         *)
Restarts(b) ==
    /\ b \notin published /\ \E p \in authored : p.id = b.id
    /\ ~\E d \in published : d.id = b.id /\ b.version = d.version + 1

Publish ==
    /\ proposal # NoSet
    /\ published' = proposal /\ proposal' = NoSet
    /\ authored' = authored \cup proposal
    /\ restarted' = restarted \cup {b.id : b \in {x \in proposal : Restarts(x)}}
    /\ UNCHANGED <<hour, base, edits, cache, slot, counter, spent>>

Withdraw ==
    /\ proposal # NoSet
    /\ proposal' = NoSet
    /\ UNCHANGED <<hour, published, authored, restarted, base, edits, cache, slot, counter, spent>>
-----------------------------------------------------------------------------
TurnHour ==
    /\ hour < MaxHour
    /\ hour' = hour + 1
    /\ cache' = [c \in Caller |-> NoSet]
    /\ UNCHANGED <<authoring, slot, counter, spent>>

(* A request of the caller finds no document, or an expired one.            *)
Resolve(c) ==
    /\ cache[c] # published
    /\ cache' = [cache EXCEPT ![c] = published]
    /\ UNCHANGED <<hour, authoring, slot, counter, spent>>

(* The counters a request runs: those over all models, then, for the model   *)
(* that will serve, its own.                                                *)
Declared(c, B, m) == Running(Limits(c, B), c, {AnyModel, Effective(c, B, m)})

(* Admitted past every quota; any counter without room refuses with 403.    *)
Admit(s, c, m) ==
    LET B        == cache[c]
        serving  == Effective(c, B, m)
        declared == Declared(c, B, m)
    IN
    /\ slot[s] = Unused /\ B # NoSet /\ m \in c.models
    /\ HasRoom(declared, c)
    /\ slot' = [slot EXCEPT ![s] =
           [caller |-> c, asked |-> m, serving |-> serving, quotas |-> declared,
            meters |-> Running(Measured(c, B), c, {AnyModel, serving})]]
    /\ UNCHANGED <<hour, authoring, cache, counter, spent>>

(* The answer arrives, is abandoned half way, or there is none; every        *)
(* counter the request passed is charged what it consumed.                  *)
Answer(s, n) ==
    LET r       == slot[s]
        charged == ({"quota"} \X r.quotas) \cup ({"throttle"} \X r.meters)
    IN
    /\ r # Unused
    /\ slot' = [slot EXCEPT ![s] = Unused]
    /\ counter' = IF n = 0 THEN counter
                  ELSE Add(counter, {Key(x[1], x[2], r.caller) : x \in charged} \X {hour}, n)
    /\ spent' = IF n = 0 THEN spent
                ELSE Add(spent, {<<r.caller, r.serving, charged, hour>>}, n)
    /\ UNCHANGED <<hour, authoring, cache>>

CountersInit ==
    /\ hour = 0 /\ edits = 0
    /\ published \in InitialBudgets /\ authored = published /\ restarted = {} /\ proposal = NoSet
    /\ base = [a \in Administrator |-> NoSet]
    /\ cache = [c \in Caller |-> NoSet] /\ slot = [s \in Slot |-> Unused]
    /\ counter = <<>> /\ spent = <<>>

CountersNext ==
    \/ \E a \in Administrator :
          \/ ReadBudgets(a) \/ Conflict(a)
          \/ \E id \in BudgetId, t \in Terms : AddBudget(a, id, t)
          \/ \E held \in Known(a) : RemoveBudget(a, held) \/ \E t \in Terms : EditBudget(a, held, t)
    \/ Publish \/ Withdraw \/ TurnHour
    \/ \E c \in Caller : Resolve(c) \/ \E s \in Slot, m \in ModelKey : Admit(s, c, m)
    \/ \E s \in Slot, n \in 0..MaxTokens : Answer(s, n)

CountersSpec == CountersInit /\ [][CountersNext]_countersVars
-----------------------------------------------------------------------------
(* Every set that is read, proposed or published is one the validator        *)
(* accepts: ids and counter identities are not repeated.                    *)
CountersTypeOK ==
    /\ hour \in 0..MaxHour /\ edits \in 0..MaxEdits
    /\ IsBudgetSet(published)
    /\ \A B \in {proposal} \cup {base[a] : a \in Administrator} \cup {cache[c] : c \in Caller} :
           B = NoSet \/ IsBudgetSet(B)
    /\ \A s \in Slot : slot[s] # Unused =>
           slot[s].caller \in Caller /\ {slot[s].asked, slot[s].serving} \subseteq slot[s].caller.models
    /\ \A x \in DOMAIN counter : x[2] \in 0..MaxHour /\ counter[x] \in Nat

(* Who share a counter of a scope.                                          *)
Sharing(scope, c) == {d \in Caller : Whose(scope, d) = Whose(scope, c)}

SameBudget(l, k) == l.scope = k.scope /\ l.model = k.model /\ l.budget = k.budget

(* What those who share a limit spent under it in some hours, per-model      *)
(* limits on their model.                                                   *)
SpentUnder(space, l, c, hours) ==
    MapThenSumSet(LAMBDA x : spent[x],
        {x \in DOMAIN spent :
            /\ x[1] \in Sharing(l.scope, c) /\ x[4] \in hours
            /\ l.model \in {AnyModel, x[2]}
            /\ \E y \in x[3] : y[1] = space /\ SameBudget(y[2], l)})

(* A budget's counter holds what was spent under that budget as it was        *)
(* authored, and nothing of an earlier version or of another budget ("an      *)
(* authored budget cannot inherit consumption from another budget"),         *)
(* whatever was edited, cached or in flight.  The exception the code allows:  *)
(* an id that comes back at a version it had before, because it was removed   *)
(* and added again or written over from an outdated reading.  The counter of  *)
(* an entitlement goes on.                                                  *)
CountersAreOwn ==
    \A x \in DOMAIN spent : \A y \in x[3] :
        LET l == y[2]
            k == Key(y[1], l, x[1])
        IN  (l.budget # NoBudget /\ l.budget[1] \notin restarted) =>
                counter[<<k, x[4]>>] =
                    MapThenSumSet(LAMBDA u : spent[u],
                        {u \in DOMAIN spent : /\ u[4] = x[4] /\ u[1] \in Sharing(l.scope, x[1])
                                              /\ l.model \in {AnyModel, u[2]} /\ y \in u[3]})

(* The contents that have been charged as one version of one budget.        *)
Contents(l) ==
    {y[2] : y \in {z \in UNION {x[3] : x \in DOMAIN spent} : SameBudget(z[2], l)}}
        \cup {k \in UNION {slot[s].quotas : s \in {t \in Slot : slot[t] # Unused}} : SameBudget(k, l)}

(* A quota is passed by no more than what was in flight when it ran out      *)
(* ("Requests already in flight are served, so a cap can be exceeded").     *)
OvershootIsInFlight ==
    \A x \in DOMAIN spent : \A y \in x[3] :
        LET l     == y[2]
            start == StartOf(l.period, x[4])
        IN  (y[1] = "quota" /\ Contents(l) = {l}) =>
                SpentUnder("quota", l, x[1], start..(start + Hours[l.period] - 1))
                    < l.quota + MaxTokens * Cardinality(Slot)

Starts(s) == slot[s] = Unused /\ slot'[s] # Unused

(* The limit that counts for a budget: itself, or one of its scope and model  *)
(* that displaced it.                                                       *)
CountsFor(l, b) ==
    l.scope = b.scope /\ l.model = b.model /\ (l = AsLimit(b) \/ ~Tighter(AsLimit(b), l))

(* For every soft budget over all models, whatever else limits its scope: who *)
(* accepts a substitute is served the model asked for only while less is      *)
(* spent than its configured amount, the grace being for those who do not    *)
(* (publishBudgets, the effectiveModel of the gateway).  A budget a tighter  *)
(* limit displaced counts nothing itself; the same share of that limit warns  *)
(* in its stead.  What is in flight has not been counted yet.               *)
SoftWarnsInTime ==
    [][\A s \in Slot : Starts(s) =>
          LET r == slot'[s]
          IN  (Substitutable(r.caller, r.asked) /\ r.serving = r.asked) =>
                  \A b \in cache[r.caller] :
                      (/\ b.action = "SOFT_WARNING" /\ b.model = AnyModel
                       /\ Whose(b.scope, r.caller) # NoTeamKey) =>
                          \E l \in r.quotas :
                              /\ CountsFor(l, b)
                              /\ Used("quota", l, r.caller) * Enforced(b) < b.amount * l.quota]_countersVars

=============================================================================
