------------------------- MODULE PrincipalAdmission -------------------------
(***************************************************************************)
(* Who is admitted to a model, and on what evidence.  On a cache miss the  *)
(* gateway (apim/policies/inference.xml) asks the control plane            *)
(* (control-api/policy-resolution-endpoint.mjs), which learns the caller's *)
(* groups from the caller's own token, from the directory or from the      *)
(* published roster (token-claims-, directory- and stored-membership-      *)
(* resolver.mjs), builds a principal context around that evidence and      *)
(* answers with a policy document, a refusal or neither.                   *)
(*                                                                         *)
(* The state is one caller's on one route, as the cache is keyed.  What    *)
(* the groups are entitled to stays as it is: PolicyGateway is about edits *)
(* of it.  Time is kept as ages, so that it has no end.                    *)
(***************************************************************************)
EXTENDS Naturals, FiniteSets

CONSTANTS
    Group,
    Entitled,       \* groups some active binding grants models to
    Slot,           \* lookups the gateway may have in flight at once
    MaxGroups,      \* most groups a token or one answer of the directory lists
    TokenLife,      \* lifetime of the caller's token
    CredentialLife, \* lifetime the control plane gives a validated identity
    ReadingAge,     \* lifetime of what the directory answered
    RosterAge,      \* longest lifetime of a published membership
    Timeout,        \* how long the gateway waits for the control plane
    Ttl             \* how long it keeps a document

ASSUME GroupAssumption == IsFiniteSet(Group) /\ Entitled \subseteq Group
ASSUME LifeAssumption ==
    /\ {MaxGroups, Timeout} \subseteq Nat
    /\ {TokenLife, CredentialLife, ReadingAge, RosterAge, Ttl} \subseteq Nat \ {0}

VARIABLES
    kind,       \* the caller is a user or a workload
    source,     \* where the deployment learns memberships
    exists,     \* the directory has an object for the caller,
    standing,   \* in these groups
    tokens,     \* the user's tokens that have not expired
    roster,     \* the membership published for the caller, if any
    lookup,     \* what is in flight in each slot
    cached,     \* age of the policy document the gateway holds, Ttl when it holds none
    sinceIn,    \* how long ago the source last put the caller in an entitled group,
    sinceOut,   \* last put them in none,
    sinceUnlisted \* and last listed no group of theirs because they are in too many;
                \* each counted up to Long

vars == <<kind, source, exists, standing, tokens, roster, lookup, cached,
          sinceIn, sinceOut, sinceUnlisted>>
deployment == <<kind, source>>
directory == <<exists, standing>>
history == <<sinceIn, sinceOut, sinceUnlisted>>

Long == TokenLife + Timeout + Ttl

Strict == {"complete", "empty-complete"}
\* Membership evidence, with the time left until it expires.
Evidence ==
    [status : {"complete"}, groups : (SUBSET Group) \ {{}}, left : Nat]
        \union [status : {"empty-complete", "unmapped", "source-unavailable"}, groups : {{}}, left : Nat]
Token == [groups : SUBSET Group, age : 0..(TokenLife - 1)]
Idle == [stage |-> "idle"]

-----------------------------------------------------------------------------
(***************************************************************************)
(* The directory, the caller's tokens and the published roster             *)
(***************************************************************************)

\* A token lists the groups of the moment it is issued.  Of more than it can list it
\* lists none, and the gateway forwards an empty list, as it does for a user in no
\* group at all: the control plane cannot tell the two apart.
Claims(S) == IF Cardinality(S) > MaxGroups THEN {} ELSE S
Unlisted(S) == source = "directory-claim" /\ kind = "user" /\ Cardinality(S) > MaxGroups

\* Whether the source puts the caller in an entitled group, when its directory object
\* is S and its roster is r, and whether it puts them in none.  A roster that has
\* expired says neither, and so does a token that lists no groups because there are
\* too many.
PutsIn(S, r) ==
    IF source = "store" THEN r.left > 0 /\ r.groups \intersect Entitled # {}
    ELSE IF kind = "user" THEN Claims(S) \intersect Entitled # {}
    ELSE S \intersect Entitled # {}
PutsOut(S, r) ==
    /\ ~(source = "store" /\ r.published /\ r.left = 0) /\ ~Unlisted(S)
    /\ ~PutsIn(S, r)

More(n) == IF n = Long THEN Long ELSE n + 1

\* The history remembers when the source last said what.
Remember(elapsed) ==
    LET since(says, n) == IF says THEN 0 ELSE IF elapsed THEN More(n) ELSE n IN
    /\ sinceIn' = since(PutsIn(standing', roster'), sinceIn)
    /\ sinceOut' = since(PutsOut(standing', roster'), sinceOut)
    /\ sinceUnlisted' = since(Unlisted(standing'), sinceUnlisted)

\* Somebody moves, deletes or restores the caller in Microsoft Entra.
Change ==
    \E there \in BOOLEAN, S \in SUBSET Group :
        /\ <<there, S>> # directory /\ (~there => S = {})
        /\ exists' = there /\ standing' = S
        /\ UNCHANGED <<deployment, tokens, roster, lookup, cached>>
        /\ Remember(FALSE)

Issue ==
    /\ kind = "user" /\ exists
    /\ tokens' = tokens \union {[groups |-> Claims(standing), age |-> 0]}
    /\ UNCHANGED <<deployment, directory, roster, lookup, cached, history>>

\* An administrator's publication replaces the caller's membership, with whatever
\* is left of the lifetime it states.
PublishMembership ==
    \E S \in SUBSET Group, left \in 1..RosterAge :
        /\ source = "store"
        /\ roster' = [published |-> TRUE, groups |-> S, left |-> left]
        /\ UNCHANGED <<deployment, directory, tokens, lookup, cached>>
        /\ Remember(FALSE)

-----------------------------------------------------------------------------
(***************************************************************************)
(* The gateway asks                                                        *)
(***************************************************************************)

Presented == IF kind = "user" THEN {t.groups : t \in tokens} ELSE {{}}

\* Nothing is held for the caller: the gateway forwards what the token says.
Ask(s) ==
    /\ lookup[s] = Idle /\ cached = Ttl
    /\ \E claims \in Presented :
          lookup' = [lookup EXCEPT ![s] = [stage |-> "sent", age |-> 0, claims |-> claims]]
    /\ UNCHANGED <<deployment, directory, tokens, roster, cached, history>>

-----------------------------------------------------------------------------
(***************************************************************************)
(* The control plane gathers evidence                                      *)
(***************************************************************************)

\* What a source that answered establishes.
Mapped(groups, left) ==
    [status |-> IF groups = {} THEN "empty-complete" ELSE "complete", groups |-> groups, left |-> left]

Degraded(status) == [status |-> status, groups |-> {}, left |-> 0]

Evidenced(s, credential, e) ==
    lookup' = [lookup EXCEPT ![s] =
        [stage |-> "evidenced", age |-> @.age, credential |-> credential, evidence |-> e]]

\* The identity that the gateway validated counts for CredentialLife.  A user's groups
\* are those of the token, and expire with it.
ReadClaims(s) ==
    /\ lookup[s].stage = "sent" /\ source = "directory-claim" /\ kind = "user"
    /\ Evidenced(s, CredentialLife, Mapped(lookup[s].claims, CredentialLife))
    /\ UNCHANGED <<deployment, directory, tokens, roster, cached, history>>

\* Of anybody else somebody is asked; what is answered counts from this moment.
Enquire(s) ==
    /\ lookup[s].stage = "sent" /\ (source = "store" \/ kind = "workload")
    /\ lookup' = [lookup EXCEPT ![s] = [stage |-> "enquiring", age |-> @.age,
                                        credential |-> CredentialLife, left |-> ReadingAge]]
    /\ UNCHANGED <<deployment, directory, tokens, roster, cached, history>>

\* Mutant: the groups of the first page are taken for all of them.
FirstPage ==
    IF ~exists THEN {Degraded("unmapped")}
    ELSE {Mapped(S, ReadingAge) : S \in {T \in SUBSET standing :
              Cardinality(T) = MaxGroups \/ (T = standing /\ Cardinality(T) < MaxGroups)}}

\* What one answer of the directory establishes: nothing when it is cut off.
Listed ==
    IF ~exists THEN {Degraded("unmapped")}
    ELSE IF Cardinality(standing) > MaxGroups THEN {Degraded("source-unavailable")}
    ELSE {Mapped(standing, ReadingAge)}

\* The directory is asked about a workload, and may not answer.
ReadDirectory(s) ==
    /\ lookup[s].stage = "enquiring" /\ source = "directory-claim"
    /\ \E e \in Listed \union {Degraded("source-unavailable")} :
          Evidenced(s, lookup[s].credential, IF e.status \in Strict THEN [e EXCEPT !.left = lookup[s].left] ELSE e)
    /\ UNCHANGED <<deployment, directory, tokens, roster, cached, history>>

\* Evidence that states groups counts until it expires.
Current(e) == e.status \in Strict => e.left > 0

\* The roster is read: one that was never published maps nobody, and one that has
\* expired is as good as unreadable.
ReadRoster(s) ==
    /\ lookup[s].stage = "enquiring" /\ source = "store"
    /\ \E e \in {Degraded("source-unavailable")} \union
                (IF ~roster.published THEN {Degraded("unmapped")}
                 ELSE {m \in {Mapped(roster.groups, roster.left)} : Current(m)}) :
          Evidenced(s, lookup[s].credential, e)
    /\ UNCHANGED <<deployment, directory, tokens, roster, cached, history>>

-----------------------------------------------------------------------------
(***************************************************************************)
(* The control plane answers                                               *)
(***************************************************************************)

\* A context holds an identity and evidence that both still count.
Sound(l) == l.credential > 0 /\ Current(l.evidence)

Answered(l, verdict) == [stage |-> "answered", age |-> l.age, verdict |-> verdict]

\* The context is built; the published set is read next.
Establish(s) ==
    /\ lookup[s].stage = "evidenced"
    /\ lookup' = [lookup EXCEPT ![s] =
           IF Sound(@) THEN [@ EXCEPT !.stage = "established"] ELSE Answered(@, "unavailable")]
    /\ UNCHANGED <<deployment, directory, tokens, roster, cached, history>>

\* Mutant: whoever nobody answered for gets a conservative document.
DegradedVerdict(l) ==
    IF l.evidence.status = "unmapped" THEN "refused"
    ELSE IF l.evidence.groups \intersect Entitled = {} /\ l.evidence.status \in Strict THEN "refused"
    ELSE "document"

\* Whoever the roster or the directory answered for and left out is refused; whoever
\* nobody answered for is neither refused nor admitted; the groups decide the rest.
Verdict(l) ==
    IF l.evidence.status = "unmapped" THEN "refused"
    ELSE IF l.evidence.status \notin Strict \/ ~Sound(l) THEN "unavailable"
    ELSE IF l.evidence.groups \intersect Entitled = {} THEN "refused" ELSE "document"

\* The published set may be unreadable, too.
Decide(s) ==
    /\ lookup[s].stage = "established"
    /\ \E verdict \in {Verdict(lookup[s]), "unavailable"} :
          lookup' = [lookup EXCEPT ![s] = Answered(@, verdict)]
    /\ UNCHANGED <<deployment, directory, tokens, roster, cached, history>>

-----------------------------------------------------------------------------
(***************************************************************************)
(* The gateway goes on                                                     *)
(***************************************************************************)

\* A document admits the request that asked and every one after it while it is held.
Admit(s) ==
    /\ lookup[s].stage = "answered" /\ lookup[s].verdict = "document"
    /\ cached' = 0
    /\ lookup' = [lookup EXCEPT ![s] = Idle]
    /\ UNCHANGED <<deployment, directory, tokens, roster, history>>

\* The caller is told that they are not entitled.
Refuse(s) ==
    /\ lookup[s].stage = "answered" /\ lookup[s].verdict = "refused"
    /\ lookup' = [lookup EXCEPT ![s] = Idle]
    /\ UNCHANGED <<deployment, directory, tokens, roster, cached, history>>

\* The caller is told to try again, when no answer came in time, too.
Unresolved(s) ==
    /\ lookup[s] # Idle
    /\ \/ lookup[s].stage = "answered" /\ lookup[s].verdict = "unavailable"
       \/ lookup[s].age = Timeout
    /\ lookup' = [lookup EXCEPT ![s] = Idle]
    /\ UNCHANGED <<deployment, directory, tokens, roster, cached, history>>

Less(n) == IF n = 0 THEN 0 ELSE n - 1
Waning(e) == [e EXCEPT !.left = Less(@)]
Older(l) ==
    CASE l.stage = "idle" -> l
      [] l.stage = "enquiring" -> [l EXCEPT !.age = @ + 1, !.credential = Less(@), !.left = Less(@)]
      [] l.stage \in {"evidenced", "established"} ->
            [l EXCEPT !.age = @ + 1, !.credential = Less(@), !.evidence = Waning(@)]
      [] OTHER -> [l EXCEPT !.age = @ + 1]

\* Time passes, for no lookup beyond its timeout.
Tick ==
    /\ \A s \in Slot : lookup[s] # Idle => lookup[s].age < Timeout
    /\ tokens' = {[t EXCEPT !.age = @ + 1] : t \in {u \in tokens : u.age + 1 < TokenLife}}
    /\ roster' = [roster EXCEPT !.left = Less(@)]
    /\ lookup' = [s \in Slot |-> Older(lookup[s])]
    /\ cached' = IF cached = Ttl THEN Ttl ELSE cached + 1
    /\ UNCHANGED <<deployment, directory>>
    /\ Remember(TRUE)

-----------------------------------------------------------------------------
Init ==
    /\ kind \in {"user", "workload"} /\ source \in {"store", "directory-claim"}
    /\ exists \in BOOLEAN /\ standing \in SUBSET Group /\ (~exists => standing = {})
    /\ tokens = {} /\ roster = [published |-> FALSE, groups |-> {}, left |-> 0] /\ cached = Ttl
    /\ lookup = [s \in Slot |-> Idle]
    /\ sinceIn = IF PutsIn(standing, roster) THEN 0 ELSE Long
    /\ sinceOut = IF PutsOut(standing, roster) THEN 0 ELSE Long
    /\ sinceUnlisted = IF Unlisted(standing) THEN 0 ELSE Long

Next ==
    \/ Change \/ Issue \/ PublishMembership \/ Tick
    \/ \E s \in Slot :
          \/ Ask(s) \/ ReadClaims(s) \/ Enquire(s) \/ ReadDirectory(s) \/ ReadRoster(s)
          \/ Establish(s) \/ Decide(s) \/ Admit(s) \/ Refuse(s) \/ Unresolved(s)

Spec == Init /\ [][Next]_vars

-----------------------------------------------------------------------------
Lookup ==
    {Idle}
    \union [stage : {"sent"}, age : 0..Timeout, claims : SUBSET Group]
    \union [stage : {"enquiring"}, age : 0..Timeout, credential : Nat, left : Nat]
    \union [stage : {"evidenced", "established"}, age : 0..Timeout, credential : Nat, evidence : Evidence]
    \union [stage : {"answered"}, age : 0..Timeout, verdict : {"document", "refused", "unavailable"}]

\* Evidence says complete of groups only and of no groups only that they are none,
\* and nothing outlives its time (principal-context-validator.mjs:84-185).
TypeOK ==
    /\ kind \in {"user", "workload"} /\ source \in {"store", "directory-claim"}
    /\ exists \in BOOLEAN /\ standing \in SUBSET Group
    /\ tokens \subseteq Token
    /\ roster \in [published : BOOLEAN, groups : SUBSET Group, left : 0..RosterAge]
    /\ lookup \in [Slot -> Lookup]
    /\ cached \in 0..Ttl
    /\ sinceIn \in 0..Long /\ sinceOut \in 0..Long /\ sinceUnlisted \in 0..Long

\* How long ago the source may have said what an answer is about when the gateway
\* gets it.
Behind == IF source = "directory-claim" /\ kind = "user" THEN (TokenLife - 1) + Timeout ELSE Timeout

\* Leaving takes effect.  While the gateway holds a document for a caller, and so
\* admits whatever they ask for, their source put them in an entitled group no
\* longer ago than their token, the wait for the control plane and the cache allow
\* together, whatever tokens they present and however readings, expiries and late
\* answers cross.
LeavingTakesEffect == cached < Ttl => sinceIn < Behind + Ttl

\* Nobody is refused on evidence nobody gathered, but for one kind of caller.  Of
\* whoever is told that they are not entitled, the source itself said within the same
\* time that they are in no entitled group: a cut-off reading, an unreadable directory
\* and an expired roster refuse nobody.  The one exception is a user whose own token
\* lists no groups because there were too many: the gateway sends the
\* empty list (inference.xml:266) and they are refused although nobody said which
\* groups theirs are, where gateway-identity.mjs:16-25 has absent differ from empty
\* and docs/03-operations.md:219-220 has incomplete data answered with 503.
RefusalIsAnAnswer == [][\A s \in Slot : Refuse(s) => sinceOut <= Behind \/ sinceUnlisted <= Behind]_vars

=============================================================================
