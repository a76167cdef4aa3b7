----------------------- MODULE MCGovernanceAuthoring -----------------------
(* One team, one person, two models and two administrators.  The input of   *)
(* the import binds the team and plans a substitute with an inline notice;  *)
(* in the set published before, the plan is pinned.  The two models, and    *)
(* the bindings of the team and the person, come in another order by code   *)
(* units than by the locale.                                                *)
EXTENDS GovernanceAuthoring

CONSTANTS a1, a2, team, other, g1, g2, person, organization, m1, m2, served, Revisions

MCPlan(E, p, i) == [edges |-> E, preferred |-> p, inline |-> i, enabled |-> TRUE]
MCInput(bound, plan) ==
    [teams |-> team :> g1, allow |-> organization :> {m1, m2} @@ bound,
     models |-> {m1, m2}, budgets |-> {m2}, plan |-> plan]
MCImport == {MCInput(team :> {m2}, MCPlan({<<m1, m2>>}, TRUE, TRUE))}
\* As imported, then the organization narrowed and the team's binding revoked.
MCStanding ==
    {[assignment     |-> [records |-> <<>>],
      entitlement    |-> [teams |-> team :> g1,
                          records |-> organization :> [models |-> {m1}, state |-> "active"]
                                      @@ team :> [models |-> {m2}, state |-> "revoked"]],
      modelRegistry  |-> [records |-> [m \in {m1, m2} |-> served]],
      fallbackPolicy |-> [records |-> organization :> MCPlan({<<m1, m2>>}, FALSE, TRUE)],
      budget         |-> [records |-> {m2}]]}
MCReading  == {[m \in {m1, m2} |-> served]}
MCPlans    == {MCPlan({}, TRUE, FALSE)}
MCAllow    == {{m1}}
MCRevisions == Revisions
MCMisordered    == {{m1, m2}, {team, other}}
MCMisorderedIds == {{team, person}}
Symmetry   == Permutations({a1, a2})
=============================================================================
