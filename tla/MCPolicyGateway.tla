--------------------------- MODULE MCPolicyGateway ---------------------------
EXTENDS PolicyGateway, TLC

CONSTANTS a, b, chat, responses, staff, crew, ann, app, s1, s2

MCCaller == {[subject |-> ann, application |-> app, groups |-> {staff, crew}]}

Allow(models) == [active |-> TRUE, models |-> models, quota |-> FALSE, zeroRate |-> FALSE]

Hop(m, n) == [enabled |-> TRUE, preferred |-> TRUE, edges |-> (m :> n)]

MCCap == {[scope |-> "organization", model |-> m, throttle |-> FALSE] : m \in {AllModels, a}}

Everything == [m \in Model |-> Family]

\* Two models in use, one team, a suspended binding of the caller's own, and one
\* downgrade for everybody.
Founded ==
    [bindings |-> (Organization :> [Allow({a, b}) EXCEPT !.quota = TRUE])
                      @@ (staff :> Allow({a, b}))
                      @@ (ann :> [Allow({a, b}) EXCEPT !.active = FALSE]),
     teams |-> {staff}, budgets |-> {}, plans |-> (Organization :> Hop(a, b)),
     registry |-> [m \in {a, b} |-> Family]]

\* One model in use, the other one only registered.
Narrow == [Founded EXCEPT !.bindings = [t \in DOMAIN @ |-> [@[t] EXCEPT !.models = {a}]],
                          !.plans = <<>>]

\* One model at all, two teams, one without a binding, and a budget.
Bare == [Narrow EXCEPT !.registry = a :> Family, !.teams = Team,
                       !.budgets = {[scope |-> "organization", model |-> a, throttle |-> FALSE]}]

MCInitialSet == {Founded, Narrow, Bare}
MCGrant == {Allow({a}), [Allow({a, b}) EXCEPT !.active = FALSE]}
MCDowngrade == {Hop(b, a)}
MCReading == {[m \in Model |-> IF m = b THEN fs ELSE Family] : fs \in {{chat}, {}}}
SlotSymmetry == Permutations(Slot)
=============================================================================
