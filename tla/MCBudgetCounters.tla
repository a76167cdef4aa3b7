-------------------------- MODULE MCBudgetCounters --------------------------
EXTENDS BudgetCounters, TLC

CONSTANTS ann, bob, app, red, blue, big, small

\* Ann is in one team and takes the substitute; Bob is in two.
Ann == [subject |-> ann, application |-> app, teams |-> {red},
        models |-> {big, small}, preferred |-> TRUE]
Bob == [subject |-> bob, application |-> app, teams |-> {red, blue},
        models |-> {big}, preferred |-> FALSE]
Both  == {Ann, Bob}

MCHours == [Hourly |-> 1, Daily |-> 2]
MCHop   == big :> small

MCLimit == (Organization :> [quota |-> 3, period |-> "Daily"])
        @@ (red :> [quota |-> 1, period |-> "Daily"])
        @@ (blue :> [quota |-> 1, period |-> "Daily"])

Of(scope, model, action, amount, period, warn, grace) ==
    [scope |-> scope, model |-> model, action |-> action, amount |-> amount,
     period |-> period, warn |-> warn, grace |-> grace]

\* In force is a soft budget over everyone (1 of 2 in two hours).  Submitted
\* are a hard one in its place, a soft one that the entitlement limit displaces
\* (1 of 2 an hour against 3 in two), a hard one over a model and, once the
\* budget is removed, a meter of a team.
MCTerms == {Of("organization", AnyModel, "HARD_BLOCK", 1, "Daily", 50, 0),
            Of("organization", AnyModel, "SOFT_WARNING", 1, "Hourly", 0, 100),
            Of("organization", big, "HARD_BLOCK", 1, "Daily", 0, 0),
            Of("team", AnyModel, "THROTTLE", 2, "Hourly", 0, 0)}

MCInitialBudgets ==
    {{Authored("b", 1, Of("organization", AnyModel, "SOFT_WARNING", 1, "Daily", 0, 100))}}

Symmetric == Permutations(Slot)
=============================================================================
