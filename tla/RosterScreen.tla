----------------------------- MODULE RosterScreen -----------------------------
(***************************************************************************)
(* The users-and-groups screen: the stored roster beside the published      *)
(* policy, and what each person, group and application is allowed           *)
(* (functions/handlers/admin-screens.mjs,                                   *)
(* control-api/users-groups-read-model-projector.mjs), and what the gateway *)
(* would be told of the same caller                                         *)
(* (governance-domain/authorization/governance-authorization-evaluator.mjs). *)
(*                                                                          *)
(* The screen keeps no state.  Rates, quotas and validity windows of the    *)
(* bindings are left out: a binding grants models to its target.            *)
(***************************************************************************)
EXTENDS DirectoryReading

CONSTANTS
    Team, TeamOf,   \* TeamOf[v][g]: the team version v maps a group to
    KnownTeam,      \* the teams the deployment was configured with
    Application, Model,
    Binding,        \* Binding[v]: the active bindings of version v
    Everyone,       \* the organization as a target
    NoTeam, NoApplication

\* One person, two pseudonyms: the gateway is shown the token's subject, the directory
\* knows its own identifier.
SubjectKey(p)    == <<"subject", p>>
DirectoryCode(p) == <<"actor", p>>

BindingTarget == {Everyone} \union Team \union Application \union {SubjectKey(p) : p \in Person}

ASSUME PolicyAssumption ==
    /\ TeamOf \in [Versions -> [GovernedGroup -> Team]]
    /\ \A v \in Versions : \A g, h \in Catalogue[v] : TeamOf[v][g] = TeamOf[v][h] => g = h
    /\ KnownTeam \subseteq Team
    /\ Binding \in [Versions -> SUBSET [target : BindingTarget, models : SUBSET Model]]

\* Bindings name their targets; no directory code and no absent team is one of them.
ASSUME CodesAssumption ==
    BindingTarget \intersect ({NoTeam, NoApplication} \union GovernedGroup
                              \union {DirectoryCode(p) : p \in Person}) = {}

-----------------------------------------------------------------------------
(***************************************************************************)
(* What bindings add up to                                                 *)
(***************************************************************************)

\* Mutant: whoever no binding names is shown what the organization may use at most.
AnyBinding(bindings) == bindings # {}

\* The organization's binding is a ceiling and no grant.
Specific(bindings) == \E b \in bindings : b.target # Everyone

Allowlist(bindings) ==
    LET ceilings == {b \in bindings : b.target = Everyone}
        grants   == bindings \ ceilings
    IN  {m \in Model : /\ ceilings # {} /\ \A b \in ceilings : m \in b.models
                       /\ grants = {} \/ \E b \in grants : m \in b.models}

\* The gateway's caller: every team the person is in, directly or below, the person
\* and the application, together.  Whoever its source of memberships does not know at
\* all is refused before a binding is looked at.
GatewayModels(v, memberships, caller) ==
    LET teams    == {TeamOf[v][g] : g \in {x \in Catalogue[v] : memberships[x][caller.person] # "none"}}
        bindings == {b \in Binding[v] :
                        b.target \in teams \union {Everyone, SubjectKey(caller.person), caller.application}}
    IN  IF caller.known /\ (\E b \in bindings : b.target # Everyone) THEN Allowlist(bindings) ELSE {}

-----------------------------------------------------------------------------
(***************************************************************************)
(* The records                                                             *)
(***************************************************************************)

SeenIn(document, p) == {g \in DOMAIN document.groups : p \in DOMAIN document.groups[g]}

\* A person in several teams has no single team.
TeamCode(document, p) ==
    LET teams == {TeamOf[document.version][g] : g \in SeenIn(document, p)}
    IN  IF Cardinality(teams) = 1 THEN CHOOSE t \in teams : TRUE ELSE NoTeam

Users(document) ==
    {[view |-> "users", key |-> DirectoryCode(p), team |-> TeamCode(document, p),
      application |-> NoApplication, members |-> {p}] :
        p \in {q \in Person : SeenIn(document, q) # {}}}

GroupRecords(document) ==
    {[view |-> "groups", key |-> g, team |-> TeamOf[document.version][g],
      application |-> NoApplication, members |-> DOMAIN document.groups[g]] :
        g \in DOMAIN document.groups}

\* No directory knows who uses an application.
ApplicationRecords ==
    {[view |-> "applications", key |-> a, team |-> NoTeam, application |-> a, members |-> Person] :
        a \in Application}

\* The bindings a record is matched with: by its one team, by its pseudonym, by its
\* application.
BindingsOf(v, record) ==
    {b \in Binding[v] : b.target \in {Everyone, record.team, record.key, record.application}}

\* Of a reading that is not fresh nothing is claimed.
Shown(v, document, record) ==
    LET bindings == BindingsOf(v, record)
    IN  CASE Quality(document) # "fresh" -> [decision |-> "unavailable", models |-> {}]
          [] Quality(document) = "fresh" /\ ~Specific(bindings) -> [decision |-> "deny", models |-> {}]
          [] OTHER -> [decision |-> IF Allowlist(bindings) = {} THEN "deny" ELSE "allow",
                       models |-> Allowlist(bindings)]

-----------------------------------------------------------------------------
(***************************************************************************)
(* Who may see what                                                        *)
(***************************************************************************)

\* A signed-in person, with a governance role or without, placed in the directory or
\* not, asks for a view of themselves, of a team or of everybody.
Reader ==
    [role : {"own", "administer", "read", "none"}, person : Person, placed : BOOLEAN,
     scope : {"self", "team", "global"}, team : Team, view : {"users", "groups", "applications"}]

\* Every governance role may read every scope, and the teams the deployment was
\* configured with.
ReadScopes   == {"self", "team", "global"}
Scopes(role) == IF role = "none" THEN {} ELSE ReadScopes

MayRead(reader) ==
    /\ reader.scope \in Scopes(reader.role)
    /\ reader.scope = "team" => reader.team \in KnownTeam

\* Whoever cannot be placed has no answer to "which of these is me", and nobody has
\* applications of their own.
Answerable(reader) ==
    reader.scope = "self" => reader.placed /\ reader.view # "applications"

Visible(document, reader) ==
    {record \in Users(document) \union GroupRecords(document) :
        CASE reader.scope = "global" -> TRUE
          [] reader.scope = "team" -> record.team = reader.team
          [] reader.scope = "self" -> \/ record.view = "users" /\ record.key = DirectoryCode(reader.person)
                                      \/ record.view = "groups" /\ reader.person \in record.members}

Projected(v, document, reader) ==
    {[record |-> r, policy |-> Shown(v, document, r)] :
        r \in {x \in Visible(document, reader) \union ApplicationRecords : x.view = reader.view}}

\* The rows of an answer; the policy is read first, the roster after it.
Rows(v, document, reader) ==
    IF MayRead(reader) /\ Answerable(reader) THEN Projected(v, document, reader) ELSE {}

-----------------------------------------------------------------------------
\* Whom a row speaks for, known to the gateway's source of memberships or not.
Callers(record) ==
    [person : record.members,
     application : IF record.application = NoApplication THEN Application \union {NoApplication}
                   ELSE {record.application},
     known : BOOLEAN]

\* In one team all the time, and not named in person.
Plain(v, p, memberships) ==
    /\ \A b \in Binding[v] : b.target # SubjectKey(p)
    /\ \E g \in Catalogue[v] : \A m \in memberships : \A x \in Catalogue[v] : m[x][p] # "none" <=> x = g

\* The screen promises nobody what the gateway would refuse: whatever models a row
\* shows as allowed, everyone it speaks for whom the gateway's source of memberships
\* knows would have been served at some moment while the roster was read, however
\* people moved between the groups meanwhile; and who was in one team all along is
\* shown with just what the gateway would serve
\* (users-groups-read-model-projector.mjs projectEffectivePolicy).  The screen is read
\* under the version the roster was read for, and does not say who has no published
\* membership.
RosterShowsPolicy ==
    [][\A h \in Host : Put(h) =>
        LET v == snapshot'.version IN
        /\ \A row \in UNION {Rows(v, snapshot', reader) : reader \in Reader} :
              \A caller \in Callers(row.record) : caller.known => \E m \in witnessed[h] :
                  row.policy.models \subseteq GatewayModels(v, m, caller)
        /\ \A p \in Person :
              snapshot'.state = "complete" /\ Plain(v, p, witnessed[h]) =>
                  \E record \in Users(snapshot') :
                      /\ record.key = DirectoryCode(p)
                      /\ \A m \in witnessed[h] :
                            Shown(v, snapshot', record).models
                                = GatewayModels(v, m, [person |-> p, application |-> NoApplication, known |-> TRUE])]_rosterVars

=============================================================================
