-------------------------- MODULE DirectoryReading --------------------------
(***************************************************************************)
(* The roster behind the users-and-groups screen: a timer on some host of  *)
(* the control plane asks Microsoft Entra who is in every governed group   *)
(* and replaces the one stored snapshot with the answer                    *)
(* (control-api/scheduled-directory-projector.mjs,                         *)
(* providers/entra-directory-query.mjs,                                    *)
(* governance-domain/directory/directory-snapshot-projector.mjs).          *)
(*                                                                         *)
(* The directory changes while it is read, faults, refuses a host whose    *)
(* token was minted before the permission was granted, and cuts off groups *)
(* that are too large.  A person is known by a model value; display codes, *)
(* lifecycle states and the paging of one answer are left out.             *)
(***************************************************************************)
EXTENDS Naturals, FiniteSets

CONSTANTS
    Host,           \* instances of the control plane, each with its credential
    GovernedGroup, Person,
    Catalogue,      \* Catalogue[v]: the groups governed by published version v
    Start0,         \* memberships the directory may start with
    MaxMembers,     \* members of a group that are read
    MaxAge,         \* age up to which an observation may be called complete
    MaxTime, MaxChanges,    \* bounds: the clock, changes of the directory
    NoSnapshot

Versions == DOMAIN Catalogue

ASSUME CatalogueAssumption ==
    /\ IsFiniteSet(Versions) /\ Versions = 1..Cardinality(Versions)
    /\ \A v \in Versions : Catalogue[v] \subseteq GovernedGroup
ASSUME BoundsAssumption ==
    /\ MaxMembers \in Nat /\ MaxAge \in Nat /\ MaxTime \in Nat /\ MaxChanges \in Nat

Standing == {"none", "direct", "inherited"}
Membership == [GovernedGroup -> [Person -> Standing]]

ASSUME StartAssumption == Start0 \subseteq Membership

VARIABLES
    now,        \* the clock
    member,     \* the directory: how each person stands in each group
    changes,
    down,       \* the directory answers with faults other than a refusal, or not at all
    granted,    \* the application permission is assigned to the identity
    issuing,    \* tokens the platform hands out carry the permission
    published,  \* the published version, 0 while there is none
    token,      \* what a host's credential holds
    run,        \* a host's run of the projector
    snapshot,
    witnessed   \* the memberships that were true since a host's run began

rosterVars == <<now, member, changes, down, granted, issuing, published, token, run, snapshot, witnessed>>
entra == <<member, changes, down>>
platform == <<granted, issuing>>

Refusal == {"forbidden", "failed"}
Members == UNION {[S -> {"direct", "inherited"}] : S \in SUBSET Person}
Groups == UNION {[S -> Members] : S \in SUBSET GovernedGroup}

AtRest == [stage |-> "idle"]
\* `todo' are the groups still to be asked about, `got' the answers so far,
\* `direct' the first of the two answers about the group being asked.
RosterRun ==
    [stage : {"asking", "asked"}, at : Nat, version : Versions, todo : SUBSET GovernedGroup,
     group : GovernedGroup \union {NoSnapshot}, direct : SUBSET Person,
     got : Groups, refusals : SUBSET Refusal, cut : BOOLEAN, again : BOOLEAN]
Document == [observedAt : Nat, version : Versions, state : {"complete", "partial"}, groups : Groups]

-----------------------------------------------------------------------------
(***************************************************************************)
(* The environment                                                         *)
(***************************************************************************)

Witness(m) ==
    witnessed' = [h \in Host |-> IF run[h] = AtRest THEN witnessed[h] ELSE witnessed[h] \union {m}]

\* Somebody joins, leaves or is moved between a group and one below it.
MemberChange ==
    \E g \in GovernedGroup, p \in Person, s \in Standing :
        /\ changes < MaxChanges /\ s # member[g][p]
        /\ member' = [member EXCEPT ![g][p] = s]
        /\ changes' = changes + 1
        /\ Witness(member')
        /\ UNCHANGED <<now, down, platform, published, token, run, snapshot>>

Advance ==
    /\ now < MaxTime
    /\ now' = now + 1
    /\ UNCHANGED <<entra, platform, published, token, run, snapshot, witnessed>>

Fault ==
    /\ down' = ~down
    /\ UNCHANGED <<now, member, changes, platform, published, token, run, snapshot, witnessed>>

Grant ==
    /\ ~granted /\ granted' = TRUE
    /\ UNCHANGED <<now, entra, issuing, published, token, run, snapshot, witnessed>>

\* The platform keeps handing out the token it cached until its cache turns over.
TurnOver ==
    /\ issuing # granted /\ issuing' = granted
    /\ UNCHANGED <<now, entra, granted, published, token, run, snapshot, witnessed>>

Publish ==
    /\ published + 1 \in Versions
    /\ published' = published + 1
    /\ UNCHANGED <<now, entra, platform, token, run, snapshot, witnessed>>

-----------------------------------------------------------------------------
(***************************************************************************)
(* A run of the projector                                                  *)
(***************************************************************************)

Attempt(at, v, again) ==
    [stage |-> "asking", at |-> at, version |-> v, todo |-> Catalogue[v], group |-> NoSnapshot,
     direct |-> {}, got |-> [g \in {} |-> {}], refusals |-> {}, cut |-> FALSE, again |-> again]

\* Which groups are governed is what the published set says; without one, or
\* with one that names no group, there is nothing to ask.
Start(h) ==
    /\ run[h] = AtRest
    /\ published # 0 /\ Catalogue[published] # {}
    /\ run' = [run EXCEPT ![h] = Attempt(now, published, FALSE)]
    /\ witnessed' = [witnessed EXCEPT ![h] = {member}]
    /\ UNCHANGED <<now, entra, platform, published, token, snapshot>>

\* A credential is made when there is none and keeps its token.
Held(h) ==
    IF token[h] # "none" THEN token[h] ELSE IF issuing THEN "with" ELSE "without"

Among(g, standings) == {p \in Person : member[g][p] \in standings}

\* What a host is told about a group: at most MaxMembers of its members.
Answer(h, g, standings) ==
    LET all == Among(g, standings) IN
    {S \in SUBSET all : IF Cardinality(all) > MaxMembers THEN Cardinality(S) = MaxMembers ELSE S = all}

Cut(g, standings) == Cardinality(Among(g, standings)) > MaxMembers

AskDirect(h) ==
    /\ run[h].stage = "asking"
    /\ Held(h) = "with" /\ ~down
    /\ \E g \in run[h].todo : \E S \in Answer(h, g, {"direct"}) :
          run' = [run EXCEPT ![h] = [run[h] EXCEPT !.stage = "asked", !.group = g, !.direct = S,
                                        !.cut = run[h].cut \/ Cut(g, {"direct"})]]
    /\ token' = [token EXCEPT ![h] = Held(h)]
    /\ UNCHANGED <<now, entra, platform, published, snapshot, witnessed>>

\* Whoever was not in the first answer is taken to be in a group below.
Labelled(h, S) == [p \in S |-> IF p \in run[h].direct THEN "direct" ELSE "inherited"]

\* The second answer about a group is everybody in it or below it, read later.
AskTransitive(h) ==
    /\ run[h].stage = "asked"
    /\ Held(h) = "with" /\ ~down
    /\ LET r == run[h] IN
       \E S \in Answer(h, r.group, {"direct", "inherited"}) :
          run' = [run EXCEPT ![h] = [r EXCEPT
              !.stage = "asking", !.group = NoSnapshot, !.direct = {}, !.todo = r.todo \ {r.group},
              !.cut = r.cut \/ Cut(r.group, {"direct", "inherited"}),
              !.got = [g \in DOMAIN r.got \union {r.group} |->
                          IF g = r.group THEN Labelled(h, S) ELSE r.got[g]]]]
    /\ UNCHANGED <<now, entra, platform, published, token, snapshot, witnessed>>

\* A refusal or a fault costs the group, not the run: the reading goes on and is
\* partial.
Refused(h) ==
    /\ run[h].stage \in {"asking", "asked"}
    /\ run[h].stage = "asking" => run[h].todo # {}
    /\ Held(h) = "without" \/ down
    /\ \E g \in (IF run[h].stage = "asked" THEN {run[h].group} ELSE run[h].todo),
          why \in (IF Held(h) = "without" THEN {"forbidden"} ELSE {})
                      \union (IF down THEN {"failed"} ELSE {}) :
          run' = [run EXCEPT ![h] = [run[h] EXCEPT !.stage = "asking", !.group = NoSnapshot, !.direct = {},
                              !.todo = run[h].todo \ {g}, !.refusals = run[h].refusals \union {why}]]
    /\ token' = [token EXCEPT ![h] = Held(h)]
    /\ UNCHANGED <<now, entra, platform, published, snapshot, witnessed>>

\* Any other error, a connection that fails or a credential that yields no token,
\* ends the run whatever was read.
Thrown(h) ==
    /\ run[h].stage \in {"asking", "asked"}
    /\ run[h].stage = "asking" => run[h].todo # {}
    /\ down
    /\ run' = [run EXCEPT ![h] = AtRest]
    /\ witnessed' = [witnessed EXCEPT ![h] = {}]
    /\ \E held \in {token[h], Held(h)} : token' = [token EXCEPT ![h] = held]
    /\ UNCHANGED <<now, entra, platform, published, snapshot>>

Done(h) == run[h].stage = "asking" /\ run[h].todo = {}

\* Mutant: the second attempt is made with the credential that was refused.
RetryAsBefore(h) ==
    /\ Done(h) /\ DOMAIN run[h].got = {}
    /\ run[h].refusals = {"forbidden"} /\ ~run[h].again
    /\ run' = [run EXCEPT ![h] = Attempt(run[h].at, run[h].version, TRUE)]
    /\ UNCHANGED <<now, entra, platform, published, token, snapshot, witnessed>>

\* Every group was forbidden: once, the same question with a new credential.
Retry(h) ==
    /\ Done(h) /\ DOMAIN run[h].got = {}
    /\ run[h].refusals = {"forbidden"} /\ ~run[h].again
    /\ token' = [token EXCEPT ![h] = "none"]
    /\ run' = [run EXCEPT ![h] = Attempt(run[h].at, run[h].version, TRUE)]
    /\ UNCHANGED <<now, entra, platform, published, snapshot, witnessed>>

\* No group answered: the stored snapshot is left as it is.
GiveUp(h) ==
    /\ Done(h) /\ DOMAIN run[h].got = {}
    /\ run[h].refusals # {"forbidden"} \/ run[h].again
    /\ run' = [run EXCEPT ![h] = AtRest]
    /\ witnessed' = [witnessed EXCEPT ![h] = {}]
    /\ UNCHANGED <<now, entra, platform, published, token, snapshot>>

\* Mutant: a reading that was cut off is taken for the whole group.
CompletenessOfAnswers(observedAt, asOf, r) ==
    IF r.refusals # {} \/ asOf - observedAt > MaxAge THEN "partial" ELSE "complete"

\* What the reading may claim is derived from what happened to it.
Completeness(observedAt, asOf, r) ==
    IF r.cut \/ r.refusals # {} \/ asOf - observedAt > MaxAge THEN "partial" ELSE "complete"

\* The document is written over whatever is stored, a newer one included.  It is
\* observed, and as of, the moment the run began.
Put(h) ==
    /\ Done(h) /\ DOMAIN run[h].got # {}
    /\ snapshot' = [observedAt |-> run[h].at, version |-> run[h].version,
                    state |-> Completeness(run[h].at, run[h].at, run[h]), groups |-> run[h].got]
    /\ run' = [run EXCEPT ![h] = AtRest]
    /\ witnessed' = [witnessed EXCEPT ![h] = {}]
    /\ UNCHANGED <<now, entra, platform, published, token>>

\* What a screen calls a stored reading.
Quality(document) == IF document.state = "complete" THEN "fresh" ELSE "partial"

-----------------------------------------------------------------------------
RosterInit ==
    /\ now = 0 /\ member \in Start0 /\ changes = 0 /\ down = FALSE
    /\ granted \in BOOLEAN /\ issuing \in {FALSE, granted} /\ published \in {0} \union Versions
    /\ token = [h \in Host |-> "none"]
    /\ run = [h \in Host |-> AtRest]
    /\ snapshot = NoSnapshot
    /\ witnessed = [h \in Host |-> {}]

Step(h) ==
    \/ AskDirect(h) \/ AskTransitive(h) \/ Refused(h) \/ Thrown(h)
    \/ Retry(h) \/ GiveUp(h) \/ Put(h)

RosterNext ==
    \/ MemberChange \/ Advance \/ Fault \/ Grant \/ TurnOver \/ Publish
    \/ \E h \in Host : Start(h) \/ Step(h)

\* The timer keeps firing, a run that has begun goes on, and the platform's cache
\* of tokens turns over.
Fairness ==
    /\ WF_rosterVars(TurnOver)
    /\ \A h \in Host : WF_rosterVars(Start(h)) /\ WF_rosterVars(Step(h))

RosterSpec == RosterInit /\ [][RosterNext]_rosterVars /\ Fairness

-----------------------------------------------------------------------------
RosterTypeOK ==
    /\ now \in 0..MaxTime /\ changes \in 0..MaxChanges
    /\ member \in Membership
    /\ down \in BOOLEAN /\ granted \in BOOLEAN /\ issuing \in BOOLEAN
    /\ published \in {0} \union Versions
    /\ token \in [Host -> {"none", "with", "without"}]
    /\ \A h \in Host : run[h] # AtRest => run[h] \in RosterRun
    /\ snapshot = NoSnapshot \/ snapshot \in Document
    /\ \A h \in Host : witnessed[h] \subseteq Membership

\* A snapshot that calls itself complete is one.  It answers for every group its
\* published version governs; it lists everybody who was in the group all the
\* time it was read and nobody who never was; and it calls those direct who were
\* so all the time, and none who never were.  Groups are read one after the
\* other, in two questions each, while people come and go, answers are cut off
\* and single groups are refused.
CompleteIsWhole ==
    [][\A h \in Host : Put(h) /\ snapshot'.state = "complete" =>
          /\ DOMAIN snapshot'.groups = Catalogue[snapshot'.version]
          /\ \A g \in DOMAIN snapshot'.groups, p \in Person :
                LET listed == p \in DOMAIN snapshot'.groups[g]
                    called(s) == listed /\ snapshot'.groups[g][p] = s
                    always(S) == \A m \in witnessed[h] : m[g][p] \in S
                IN  /\ always({"direct", "inherited"}) => listed
                    /\ always({"none"}) => ~listed
                    /\ always({"direct"}) => called("direct")
                    /\ always({"none", "inherited"}) => ~called("direct")]_rosterVars

Settled ==
    /\ granted /\ ~down /\ published # 0
    /\ Catalogue[published] # {}

\* However the permission, the platform's cached tokens, the hosts' credentials and
\* the faults were mixed before: once the permission is granted and the directory
\* answers, what is stored becomes and stays the directory as it is, or says that
\* it is not complete.
RosterCatchesUp ==
    <>[]Settled =>
        <>[](/\ snapshot # NoSnapshot
             /\ snapshot.version = published
             /\ \A g \in Catalogue[published] :
                    /\ g \in DOMAIN snapshot.groups
                    /\ ~Cut(g, {"direct", "inherited"}) =>
                          snapshot.groups[g] = [p \in Among(g, {"direct", "inherited"}) |-> member[g][p]])

=============================================================================
