-------------------------- MODULE MCUsageProjection --------------------------
EXTENDS UsageScreens, UsageDrift, TLC

CONSTANTS r1, r2, red, a, b, p1, p2

\* A request in each of two windows: the provider reports on the first, the second
\* is an estimate that no team can be charged with.
MCRowData ==
    (r1 :> [window |-> 0, team |-> red, model |-> a, provider |-> 2, gateway |-> 1, refused |-> FALSE])
 @@ (r2 :> [window |-> 1, team |-> NoTeam, model |-> b, provider |-> 0, gateway |-> 1, refused |-> FALSE])

\* For the quiet hour: one request, in the first of two windows.
OneRequest == r1 :> MCRowData[r1]

MCRegistry == <<{a}, {a, b}>>

\* The organization is warned by the first request and exhausted by both; the
\* team has a budget for a model it does not use and one it exhausts at once.
Everyone == [scope |-> "organization", model |-> AllModels, quota |-> 3, warn |-> 50]
TeamB    == [scope |-> "team", model |-> b, quota |-> 1, warn |-> NoWarning]
TeamAll  == [scope |-> "team", model |-> AllModels, quota |-> 2, warn |-> NoWarning]
MCBudget == {Everyone, TeamB}
TeamBudget == {TeamAll}

(* One request past the gateway, of as many tokens as one through it.        *)
MCAside == {[requests |-> 0, tokens |-> 0], [requests |-> 1, tokens |-> 1]}

ProjectorSymmetry == Permutations(Projector)

\* Two regimes, chosen once: the budget comparison beside runs that find no
\* catalogue and so keep no records, and every run there is without a comparison,
\* which reads rollups only.
VARIABLE comparing

Regime ==
    /\ comparing' = comparing
    /\ comparing  => catalogue' = catalogue /\ \A p \in Projector : worker'[p].phase # "query"
    /\ ~comparing => sweep' = Resting

MCInit == Init /\ comparing \in BOOLEAN

MCSpec == MCInit /\ [][Next /\ Regime]_<<vars, comparing>>
=============================================================================
