----------------------- MODULE AuthoringScheduleProofs -----------------------
(***************************************************************************)
(* The safety of GovernanceAuthoring, for any administrators, teams,       *)
(* people, models, inputs and offers; and the safety of ScheduleRunner and *)
(* that it keeps ScheduleDuty, for every set of runners, every window,     *)
(* lease, lag and backfill length and every bound.                         *)
(*                                                                         *)
(* AuthoringInv is inductive: what is published, stored or held by a       *)
(* request is valid part by part, and whole where it was computed from a   *)
(* whole set.  It rests on a lemma per editor and two for the removals.    *)
(* ScheduleInv is inductive: Held says what a runner's tag proves about    *)
(* the stored checkpoint, Planned what its plan covers.                    *)
(***************************************************************************)
EXTENDS GovernanceAuthoring, ScheduleRunner, TLAPS, FiniteSetTheorems, SequenceTheorems

(***************************************************************************)
(* GovernanceAuthoring: what is stored is valid whatever it was made from. *)
(***************************************************************************)
IsPart(k, p) ==
    /\ k = "assignment" => IsAssignment(p)
    /\ k = "entitlement" => IsEntitlement(p)
    /\ k = "modelRegistry" => IsRegistry(p)
    /\ k = "fallbackPolicy" => IsFallback(p)
    /\ k = "budget" => IsBudget(p)

(* Parts of different sets may be published side by side, each valid.      *)
LiveInv ==
    /\ DOMAIN live = Kind
    /\ \A k \in Kind : live[k] = Absent \/ IsPart(k, live[k])
    /\ intact => Resolves(live)

(* A revision's content is read until it is finished, and a set that is    *)
(* whole is one that is still read.                                        *)
Open(r) == r.state \in {"draft", "publishing", "failed"}
RevisionInv(r) ==
    /\ DOMAIN r = {"content", "author", "state", "landed", "removes", "whole"}
    /\ r.state \in {"draft", "publishing", "failed", "active", "withdrawn"}
    /\ Open(r) =>
          /\ IsSet(r.content) /\ r.landed \subseteq Kind
          /\ r.whole => Resolves(r.content)
          /\ r.removes # NoOne => ~Names(r.content, r.removes)
    /\ r.whole => Open(r)
RevisionsInv ==
    /\ revisions \in Seq(Range(revisions))
    /\ \A i \in Numbers : RevisionInv(revisions[i])

(* A removal holds the very set its plan was shown for.                    *)
RequestInv(r) ==
    /\ DOMAIN r = {"step", "base", "whole", "removes"}
    /\ IsSet(r.base) /\ (r.whole => Resolves(r.base))
    /\ r.removes # NoOne => r.removes \in Team \cup Model /\ ~Blocked(r.base, r.removes)
ReviewInv(r) ==
    /\ DOMAIN r = {"target", "base"} /\ r.target \in Team \cup Model
    /\ r.base # Absent => IsSet(r.base)
WorkInv ==
    /\ DOMAIN request = Administrator /\ DOMAIN review = Administrator
    /\ \A a \in Administrator :
          /\ request[a] # Nothing => RequestInv(request[a])
          /\ review[a] # Nothing => ReviewInv(review[a])

AuthoringInv == LiveInv /\ RevisionsInv /\ WorkInv

-----------------------------------------------------------------------------
(* Records written over, put into and taken out of.                         *)

LEMMA ReviseIs ==
    ASSUME NEW p, NEW r, "records" \in DOMAIN p
    PROVE  /\ DOMAIN Revise(p, r) = DOMAIN p
           /\ Revise(p, r).records = r
           /\ \A k \in DOMAIN p : k # "records" => Revise(p, r)[k] = p[k]
  BY DEF Revise

LEMMA SetParts ==
    ASSUME NEW s
    PROVE  IsSet(s) <=> DOMAIN s = Kind /\ \A k \in Kind : IsPart(k, s[k])
  BY DEF IsSet, IsPart, Kind

(* A set with one part changed, and that part valid.                        *)
LEMMA OnePart ==
    ASSUME NEW s, IsSet(s), NEW k \in Kind, NEW n, IsPart(k, n)
    PROVE  IsSet([s EXCEPT ![k] = n])
  <1>1. DOMAIN s = Kind /\ \A j \in Kind : IsPart(j, s[j])
    BY SetParts
  <1>2. \A j \in Kind : [s EXCEPT ![k] = n][j] = IF j = k THEN n ELSE s[j]
    BY <1>1
  <1>3. DOMAIN [s EXCEPT ![k] = n] = Kind
    BY <1>1
  <1>4. \A j \in Kind : IsPart(j, [s EXCEPT ![k] = n][j])
    BY <1>1, <1>2
  <1>5. QED
    BY <1>3, <1>4, SetParts

LEMMA TeamChangeKeeps ==
    ASSUME NEW s, IsSet(s), NEW n \in TeamChange(s)
    PROVE  IsSet(n) /\ (Resolves(s) => Resolves(n))
  <1>1. PICK e : /\ n = [s EXCEPT !.entitlement = e] /\ IsEntitlement(e)
                 /\ e.records = s.entitlement.records
    <2>1. PICK e \in (UNION { AddTeam(s.entitlement, t, g) : t \in Team, g \in Group })
                   \cup (UNION { RemoveTeam(s.entitlement, t) : t \in Team }) :
                 n = [s EXCEPT !.entitlement = e]
      BY DEF TeamChange
    <2>2. DOMAIN s.entitlement = {"teams", "records"}
      BY DEF IsSet, IsEntitlement
    <2>3. ASSUME NEW t \in Team, NEW g \in Group, e \in AddTeam(s.entitlement, t, g)
          PROVE  IsEntitlement(e) /\ e.records = s.entitlement.records
      BY <2>2, <2>3 DEF AddTeam
    <2>4. ASSUME NEW t \in Team, e \in RemoveTeam(s.entitlement, t)
          PROVE  IsEntitlement(e) /\ e.records = s.entitlement.records
      BY <2>2, <2>4 DEF RemoveTeam
    <2>5. (\E t \in Team, g \in Group : e \in AddTeam(s.entitlement, t, g))
          \/ \E t \in Team : e \in RemoveTeam(s.entitlement, t)
      BY <2>1
    <2>6. QED
      BY <2>1, <2>3, <2>4, <2>5
  <1>2. IsSet(n)
    BY <1>1, OnePart DEF IsPart, Kind
  <1>3. n.entitlement = e /\ n.modelRegistry = s.modelRegistry
    BY <1>1 DEF IsSet, Kind
  <1>4. QED
    BY <1>1, <1>2, <1>3 DEF Resolves, Registered

LEMMA EntitlementChangeKeeps ==
    ASSUME NEW s, IsSet(s), NEW a, NEW n \in EntitlementChange(s, a)
    PROVE  IsSet(n) /\ (Resolves(s) => Resolves(n))
  <1> DEFINE old == s.entitlement
  <1>0. DOMAIN old = {"teams", "records"}
    BY DEF IsSet, IsEntitlement
  <1> DEFINE Changes == [{"models"} -> AllowOffer] \cup [{"state"} -> State]
  <1>1. PICK e : /\ n = [s EXCEPT !.entitlement = e]
                 /\ \/ \E t \in Target, c \in Changes : e \in EditBinding(old, t, c, Registered(s))
                    \/ \E t \in Target, m \in AllowOffer : e \in AddBinding(old, t, m, Registered(s), a)
    <2> DEFINE Edits == UNION { EditBinding(old, t, c, Registered(s)) : t \in Target, c \in Changes }
               Adds  == UNION { AddBinding(old, t, m, Registered(s), a) : t \in Target, m \in AllowOffer }
    <2>1. n \in { [s EXCEPT !.entitlement = e] : e \in Edits \cup Adds }
      BY DEF EntitlementChange
    <2>2. \A e \in Edits : \E t \in Target, c \in Changes : e \in EditBinding(old, t, c, Registered(s))
      OBVIOUS
    <2>3. \A e \in Adds : \E t \in Target, m \in AllowOffer : e \in AddBinding(old, t, m, Registered(s), a)
      OBVIOUS
    <2> HIDE DEF Edits, Adds, Changes
    <2>4. QED
      BY <2>1, <2>2, <2>3
  <1>2. IsEntitlement(e)
    BY <1>1 DEF EditBinding, AddBinding
  <1>3. IsSet(n)
    BY <1>1, <1>2, OnePart DEF IsPart, Kind
  <1>4. n.entitlement = e /\ n.modelRegistry = s.modelRegistry
    BY <1>1 DEF IsSet, Kind
  <1>5. ASSUME Resolves(s) PROVE Resolves(n)
    <2>1. \A t \in DOMAIN old.records : old.records[t].models \subseteq Registered(s)
      BY <1>5 DEF Resolves
    <2>2. \A t \in DOMAIN e.records : e.records[t].models \subseteq Registered(s)
      <3>1. ASSUME NEW t \in Target, NEW c \in Changes,
                   e \in EditBinding(old, t, c, Registered(s))
            PROVE  \A u \in DOMAIN e.records : e.records[u].models \subseteq Registered(s)
        <4>1. /\ t \in DOMAIN old.records
              /\ "models" \in DOMAIN c => c.models \subseteq Registered(s)
              /\ e = Revise(old, [old.records EXCEPT ![t] = Over(c, @)])
          BY <3>1 DEF EditBinding
        <4>2. /\ DOMAIN e.records = DOMAIN old.records
              /\ \A u \in DOMAIN old.records :
                    e.records[u] = IF u = t THEN Over(c, old.records[t]) ELSE old.records[u]
          BY <4>1, <1>0, ReviseIs
        <4>3. old.records[t] \in Binding
          BY <4>1 DEF IsSet, IsEntitlement, Range
        <4>4. Over(c, old.records[t]).models \subseteq Registered(s)
          <5>1. DOMAIN old.records[t] = {"models", "state"}
            BY <4>3 DEF Binding
          <5>2. Over(c, old.records[t]).models =
                  IF "models" \in DOMAIN c THEN c.models ELSE old.records[t].models
            BY <5>1 DEF Over
          <5>3. QED
            BY <4>1, <2>1, <5>2
        <4>5. QED
          BY <4>2, <4>4, <2>1
      <3>2. ASSUME NEW t \in Target, NEW m \in AllowOffer,
                   e \in AddBinding(old, t, m, Registered(s), a)
            PROVE  \A u \in DOMAIN e.records : e.records[u].models \subseteq Registered(s)
        <4>1. /\ m \subseteq Registered(s)
              /\ e = Revise(old, With(old.records, t, [models |-> m, state |-> "active"]))
          BY <3>2 DEF AddBinding
        <4> DEFINE new == [models |-> m, state |-> "active"]
        <4>2. e.records = With(old.records, t, new) /\ new.models = m
          BY <4>1, <1>0, ReviseIs
        <4> HIDE DEF new
        <4>3. /\ DOMAIN e.records = DOMAIN old.records \cup {t} /\ e.records[t] = new
              /\ \A u \in DOMAIN old.records : u # t => e.records[u] = old.records[u]
          BY <4>2 DEF With, Over
        <4>4. QED
          BY <4>1, <4>2, <4>3, <2>1
      <3>3. QED
        BY <1>1, <3>1, <3>2
    <2>3. QED
      BY <2>2, <1>4 DEF Resolves, Registered
  <1>6. QED
    BY <1>3, <1>5

LEMMA FallbackChangeKeeps ==
    ASSUME NEW s, IsSet(s), NEW n \in FallbackChange(s)
    PROVE  IsSet(n) /\ (Resolves(s) => Resolves(n))
  <1>1. PICK f : n = [s EXCEPT !.fallbackPolicy = f] /\ IsFallback(f)
    <2>1. \A t, p, m, k : \A f \in AddPlan(s.fallbackPolicy, t, p, m, k) : IsFallback(f)
      BY DEF AddPlan
    <2>2. \A t, p : \A f \in EditPlan(s.fallbackPolicy, t, p) : IsFallback(f)
      BY DEF EditPlan
    <2>3. QED
      BY <2>1, <2>2 DEF FallbackChange
  <1>2. IsSet(n)
    BY <1>1, OnePart DEF IsPart, Kind
  <1>3. n.entitlement = s.entitlement /\ n.modelRegistry = s.modelRegistry
    BY <1>1 DEF IsSet, Kind
  <1>4. QED
    BY <1>2, <1>3 DEF Resolves, Registered

LEMMA AssignmentChangeKeeps ==
    ASSUME NEW s, IsSet(s), NEW a, NEW n \in AssignmentChange(s, a)
    PROVE  IsSet(n) /\ (Resolves(s) => Resolves(n))
  <1>1. PICK p : n = [s EXCEPT !.assignment = p] /\ IsAssignment(p)
    <2>1. PICK p \in (UNION { Grant(s.assignment, h, c, a) : h \in Person, c \in Scope })
                   \cup (UNION { Revoke(s.assignment, g) : g \in DOMAIN s.assignment.records }) :
                 n = [s EXCEPT !.assignment = p]
      BY DEF AssignmentChange
    <2>2. CASE \E h \in Person, c \in Scope : p \in Grant(s.assignment, h, c, a)
      BY <2>1, <2>2 DEF Grant
    <2>3. ASSUME NEW g \in DOMAIN s.assignment.records, p \in Revoke(s.assignment, g)
          PROVE  IsAssignment(p)
      <3>1. p = Revise(s.assignment, [s.assignment.records EXCEPT ![g] = "revoked"])
        BY <2>3 DEF Revoke
      <3>2. /\ DOMAIN p = {"records"}
            /\ p.records = [s.assignment.records EXCEPT ![g] = "revoked"]
        BY <3>1, ReviseIs DEF IsSet, IsAssignment
      <3>3. DOMAIN p.records = DOMAIN s.assignment.records
        BY <3>2
      <3>4. Range(p.records) \subseteq State
        BY <3>2 DEF IsSet, IsAssignment, Range, State
      <3>5. QED
        BY <3>2, <3>3, <3>4 DEF IsSet, IsAssignment
    <2>4. QED
      BY <2>1, <2>2, <2>3
  <1>2. IsSet(n)
    BY <1>1, OnePart DEF IsPart, Kind
  <1>3. n.entitlement = s.entitlement /\ n.modelRegistry = s.modelRegistry
    BY <1>1 DEF IsSet, Kind
  <1>4. QED
    BY <1>2, <1>3 DEF Resolves, Registered

LEMMA BudgetChangeKeeps ==
    ASSUME NEW s, IsSet(s), NEW n \in BudgetChange(s)
    PROVE  IsSet(n) /\ (Resolves(s) => Resolves(n))
  <1>1. PICK b : n = [s EXCEPT !.budget = b] /\ IsBudget(b)
    <2>1. PICK b : /\ n = [s EXCEPT !.budget = b]
                   /\ \E r \in SUBSET Model : b = Revise(s.budget, r)
      <3>1. s.budget.records \subseteq Model
        BY DEF IsSet, IsBudget
      <3>2. \A m, o \in Model : /\ s.budget.records \cup {m} \in SUBSET Model
                                /\ s.budget.records \ {m} \in SUBSET Model
                                /\ (s.budget.records \ {m}) \cup {o} \in SUBSET Model
        BY <3>1
      <3>3. \A m \in Model : \A b \in AddBudget(s.budget, m) \cup RemoveBudget(s.budget, m) :
                \E r \in SUBSET Model : b = Revise(s.budget, r)
        BY <3>2 DEF AddBudget, RemoveBudget
      <3>4. \A m, o \in Model : \A b \in EditBudget(s.budget, m, o) :
                \E r \in SUBSET Model : b = Revise(s.budget, r)
        BY <3>2 DEF EditBudget
      <3>5. QED
        BY <3>3, <3>4 DEF BudgetChange
    <2>2. IsBudget(b)
      BY <2>1, ReviseIs DEF IsSet, IsBudget
    <2>3. QED
      BY <2>1, <2>2
  <1>2. IsSet(n)
    BY <1>1, OnePart DEF IsPart, Kind
  <1>3. n.entitlement = s.entitlement /\ n.modelRegistry = s.modelRegistry
    BY <1>1 DEF IsSet, Kind
  <1>4. QED
    BY <1>2, <1>3 DEF Resolves, Registered

(* A model leaves the registry only when no binding names it, a revoked one *)
(* neither.                                                                 *)
LEMMA ModelChangeKeeps ==
    ASSUME NEW s, IsSet(s), NEW n \in ModelChange(s)
    PROVE  IsSet(n) /\ (Resolves(s) => Resolves(n))
  <1> DEFINE old == s.modelRegistry
  <1>0. DOMAIN old = {"records"} /\ DOMAIN old.records \subseteq Model /\ Range(old.records) \subseteq Fact
    BY DEF IsSet, IsRegistry
  <1>1. PICK p : /\ n = [s EXCEPT !.modelRegistry = p]
                 /\ \/ \E m \in Model : p \in RemoveModel(old, m, s.entitlement)
                    \/ \E m \in Model, r \in Reading : p \in AddModel(old, m, r)
                    \/ \E r \in Reading : p \in Recapture(old, r)
    BY DEF ModelChange
  <1>2. n.entitlement = s.entitlement /\ n.modelRegistry = p
    BY <1>1 DEF IsSet, Kind
  <1>3. SUFFICES IsRegistry(p) /\ \A t \in DOMAIN s.entitlement.records :
                    s.entitlement.records[t].models \subseteq DOMAIN old.records =>
                    s.entitlement.records[t].models \subseteq DOMAIN p.records
    BY <1>1, <1>2, OnePart DEF IsPart, Kind, Resolves, Registered
  <1> DEFINE Kept(q) == IsRegistry(q) /\ \A t \in DOMAIN s.entitlement.records :
                    s.entitlement.records[t].models \subseteq DOMAIN old.records =>
                    s.entitlement.records[t].models \subseteq DOMAIN q.records
  <1>4. ASSUME NEW m \in Model, p \in RemoveModel(old, m, s.entitlement) PROVE Kept(p)
    <2>1. p = Revise(old, Without(old.records, {m})) /\ ~Entitled(s.entitlement, m)
      BY <1>4 DEF RemoveModel
    <2>2. DOMAIN p = {"records"} /\ p.records = Without(old.records, {m})
      BY <2>1, <1>0, ReviseIs
    <2>3. /\ DOMAIN p.records = DOMAIN old.records \ {m}
          /\ \A o \in DOMAIN old.records \ {m} : p.records[o] = old.records[o]
      BY <2>2 DEF Without, Restrict
    <2>4. IsRegistry(p)
      BY <2>2, <2>3, <1>0 DEF IsRegistry, Range
    <2>5. QED
      BY <2>1, <2>3, <2>4 DEF Entitled
  <1>5. ASSUME NEW m \in Model, NEW r \in Reading, p \in AddModel(old, m, r) PROVE Kept(p)
    <2>1. PICK f \in Fact : p = Revise(old, With(old.records, m, f))
      BY <1>5 DEF AddModel, Capture
    <2>2. DOMAIN p = {"records"} /\ p.records = With(old.records, m, f)
      BY <2>1, <1>0, ReviseIs
    <2>3. /\ DOMAIN p.records = DOMAIN old.records \cup {m} /\ p.records[m] = f
          /\ \A o \in DOMAIN old.records : o # m => p.records[o] = old.records[o]
      BY <2>2 DEF With, Over
    <2>4. IsRegistry(p)
      BY <2>2, <2>3, <1>0 DEF IsRegistry, Range
    <2>5. QED
      BY <2>3, <2>4
  <1>6. ASSUME NEW r \in Reading, p \in Recapture(old, r) PROVE Kept(p)
    <2>1. /\ p = Revise(old, [m \in DOMAIN old.records |-> r[m]])
          /\ \A m \in DOMAIN old.records : r[m] \in Fact
      BY <1>6 DEF Recapture, Capture
    <2>2. DOMAIN p = {"records"} /\ p.records = [m \in DOMAIN old.records |-> r[m]]
      BY <2>1, <1>0, ReviseIs
    <2>3. QED
      BY <2>1, <2>2, <1>0 DEF IsRegistry, Range
  <1>7. QED
    BY <1>1, <1>4, <1>5, <1>6

(* The import binds what it captured.                                       *)
LEMMA InitialSetKeeps ==
    ASSUME NEW input, NEW r, NEW s \in InitialSet(input, r)
    PROVE  IsSet(s) /\ Resolves(s)
  <1>1. IsSet(s)
    BY DEF InitialSet
  <1>2. PICK g \in CaptureModels(input, r), e \in BuildEntitlement(input, input.models) :
          s.entitlement = e /\ s.modelRegistry = g
    BY DEF InitialSet
  <1>3. DOMAIN g.records = input.models
    BY <1>2 DEF CaptureModels, Restrict
  <1>4. \A t \in DOMAIN e.records : e.records[t].models \subseteq input.models
    BY <1>2 DEF BuildEntitlement
  <1>5. QED
    BY <1>1, <1>2, <1>3, <1>4 DEF Resolves, Registered

-----------------------------------------------------------------------------
(* Planned removals.                                                        *)

(* A plan stays a plan without the edges at a model: what led on before     *)
(* leads on still, since each source has one edge.                          *)
LEMMA LeavingIsPlan ==
    ASSUME NEW p, IsPlan(p), NEW m
    PROVE  IsPlan(PlanWithout(p, m))
  <1> DEFINE q == PlanWithout(p, m)
             E == p.edges
             F == Leaving(E, m)
  <1>1. p \in Plan /\ (\A d, e \in E : d[1] = e[1] => d = e) /\ Acyclic(E)
    BY DEF IsPlan
  <1>2. F \subseteq E
    BY DEF Leaving
  <1>3. q \in Plan /\ q.edges = F
    BY <1>1, <1>2 DEF Plan, Edges, PlanWithout
  <1>4. Acyclic(F)
    <2>1. SUFFICES ASSUME NEW S \in SUBSET Sources(F), S # {}
                   PROVE  \E e \in F : e[1] \in S /\ e[2] \notin S
      BY DEF Acyclic
    <2>2. S \in (SUBSET Sources(E)) \ {{}}
      BY <1>2, <2>1 DEF Sources
    <2>3. PICK e \in E : e[1] \in S /\ e[2] \notin S
      BY <1>1, <2>2 DEF Acyclic
    <2>4. PICK d \in F : d[1] = e[1]
      BY <2>1, <2>3 DEF Sources
    <2>5. d = e
      BY <1>1, <1>2, <2>3, <2>4
    <2>6. QED
      BY <2>3, <2>4, <2>5
  <1>5. QED
    BY <1>1, <1>2, <1>3, <1>4 DEF IsPlan

(* What the removal of a team makes of each part.                           *)
TeamGone(s, n, t) ==
    /\ DOMAIN n = Kind /\ IsEntitlement(n.entitlement)
    /\ DOMAIN n.entitlement.teams = DOMAIN s.entitlement.teams \ {t}
    /\ n.entitlement.records = Without(s.entitlement.records, {t})
    /\ DOMAIN n.assignment = {"records"}
    /\ n.assignment.records = Without(s.assignment.records, HeldIn(s.assignment, t))
    /\ DOMAIN n.fallbackPolicy = {"records"}
    /\ n.fallbackPolicy.records = Without(s.fallbackPolicy.records, {t})
    /\ n.modelRegistry = s.modelRegistry /\ n.budget = s.budget

LEMMA TeamRemovalIs ==
    ASSUME NEW s, IsSet(s), NEW t \in Team, NEW n \in TeamRemoval(s, t)
    PROVE  TeamGone(s, n, t)
  <1> DEFINE bare == Revise(s.entitlement, Without(s.entitlement.records, {t}))
             gone == HeldIn(s.assignment, t)
  <1>1. PICK e \in RemoveTeam(bare, t) :
          n = [s EXCEPT !.entitlement    = e,
                        !.assignment     = Revise(@, Without(@.records, HeldIn(@, t))),
                        !.fallbackPolicy = Revise(@, Without(@.records, {t}))]
    BY DEF TeamRemoval
  <1>2. /\ DOMAIN bare = {"teams", "records"} /\ bare.teams = s.entitlement.teams
        /\ bare.records = Without(s.entitlement.records, {t})
    BY DEF Revise, IsSet, IsEntitlement
  <1>3. /\ IsEntitlement(e) /\ e.records = bare.records
        /\ DOMAIN e.teams = DOMAIN bare.teams \ {t}
    <2> HIDE DEF bare
    <2>1. IsEntitlement(e) /\ e = [bare EXCEPT !.teams = Without(@, {t})]
      BY <1>1 DEF RemoveTeam
    <2>2. QED
      BY <2>1, <1>2 DEF Without, Restrict
  <1>4. /\ DOMAIN n = Kind /\ n.entitlement = e
        /\ n.assignment = Revise(s.assignment, Without(s.assignment.records, gone))
        /\ n.fallbackPolicy = Revise(s.fallbackPolicy, Without(s.fallbackPolicy.records, {t}))
        /\ n.modelRegistry = s.modelRegistry /\ n.budget = s.budget
    BY <1>1 DEF IsSet, Kind
  <1>5. DOMAIN s.assignment = {"records"} /\ DOMAIN s.fallbackPolicy = {"records"}
    BY DEF IsSet, IsAssignment, IsFallback
  <1>6. QED
    BY <1>2, <1>3, <1>4, <1>5 DEF Revise, TeamGone

LEMMA TeamRemovalKeeps ==
    ASSUME NEW s, IsSet(s), NEW t \in Team, NEW n \in TeamRemoval(s, t)
    PROVE  IsSet(n) /\ (Resolves(s) => Resolves(n)) /\ ~Names(n, t)
  <1> DEFINE gone == HeldIn(s.assignment, t)
  <1>1. /\ DOMAIN n = Kind /\ IsEntitlement(n.entitlement)
        /\ DOMAIN n.entitlement.teams = DOMAIN s.entitlement.teams \ {t}
        /\ n.entitlement.records = Without(s.entitlement.records, {t})
        /\ DOMAIN n.assignment = {"records"}
        /\ n.assignment.records = Without(s.assignment.records, gone)
        /\ DOMAIN n.fallbackPolicy = {"records"}
        /\ n.fallbackPolicy.records = Without(s.fallbackPolicy.records, {t})
        /\ n.modelRegistry = s.modelRegistry /\ n.budget = s.budget
    <2>1. TeamGone(s, n, t)
      BY TeamRemovalIs
    <2>2. QED
      BY <2>1 DEF TeamGone
  <1>2. /\ DOMAIN n.entitlement.records = DOMAIN s.entitlement.records \ {t}
        /\ \A u \in DOMAIN s.entitlement.records \ {t} :
              n.entitlement.records[u] = s.entitlement.records[u]
    BY <1>1 DEF Without, Restrict
  <1>3. /\ DOMAIN n.fallbackPolicy.records = DOMAIN s.fallbackPolicy.records \ {t}
        /\ \A u \in DOMAIN s.fallbackPolicy.records \ {t} :
              n.fallbackPolicy.records[u] = s.fallbackPolicy.records[u]
    BY <1>1 DEF Without, Restrict
  <1>4. /\ DOMAIN n.assignment.records = DOMAIN s.assignment.records \ gone
        /\ \A g \in DOMAIN s.assignment.records \ gone :
              n.assignment.records[g] = s.assignment.records[g]
    BY <1>1 DEF Without, Restrict
  <1>5. IsAssignment(n.assignment) /\ IsFallback(n.fallbackPolicy)
    <2>1. IsAssignment(s.assignment) /\ IsFallback(s.fallbackPolicy)
      BY DEF IsSet
    <2> HIDE DEF gone
    <2>2. IsAssignment(n.assignment)
      BY <1>1, <1>4, <2>1 DEF IsAssignment, Range
    <2>3. IsFallback(n.fallbackPolicy)
      BY <1>1, <1>3, <2>1 DEF IsFallback
    <2>4. QED
      BY <2>2, <2>3
  <1>6. IsSet(n)
    BY <1>1, <1>5 DEF IsSet
  <1>7. Resolves(s) => Resolves(n)
    BY <1>1, <1>2 DEF Resolves, Registered
  <1>8. ~Names(n, t)
    <2>1. t \notin Model /\ t \notin Teams(n)
      BY <1>1, NamesAssumption DEF Teams
    <2>2. t \notin Registered(n) \cup n.budget.records
      BY <1>6, <2>1 DEF IsSet, IsRegistry, IsBudget, Registered
    <2>3. t \notin DOMAIN n.entitlement.records \cup DOMAIN n.fallbackPolicy.records
      BY <1>2, <1>3
    <2>4. \A u \in DOMAIN n.entitlement.records : n.entitlement.records[u].models \subseteq Model
      BY <1>6 DEF IsSet, IsEntitlement, Range, Binding
    <2>5. \A g \in DOMAIN n.assignment.records : g[2] # t
      BY <1>4 DEF HeldIn
    <2>6. \A e \in PlannedEdges(n) : e[2] \in Model \X Model
      BY <1>6 DEF IsSet, IsFallback, IsPlan, Plan, Edges, PlannedEdges
    <2>7. QED
      BY <2>1, <2>2, <2>3, <2>4, <2>5, <2>6 DEF Names
  <1>9. QED
    BY <1>6, <1>7, <1>8

(* What the removal of a model makes of each part.                          *)
ModelGone(s, n, m) ==
    /\ DOMAIN n = Kind
    /\ DOMAIN n.entitlement = {"teams", "records"} /\ n.entitlement.teams = s.entitlement.teams
    /\ n.entitlement.records =
          [t \in DOMAIN s.entitlement.records |-> Narrowed(s.entitlement.records[t], m)]
    /\ n.assignment = s.assignment
    /\ DOMAIN n.modelRegistry = {"records"}
    /\ n.modelRegistry.records = Without(s.modelRegistry.records, {m})
    /\ DOMAIN n.fallbackPolicy = {"records"}
    /\ n.fallbackPolicy.records =
          [t \in DOMAIN s.fallbackPolicy.records |->
              PlanWithout(s.fallbackPolicy.records[t], m)]
    /\ DOMAIN n.budget = {"records"} /\ n.budget.records = s.budget.records \ {m}

LEMMA ModelRemovalIs ==
    ASSUME NEW s, IsSet(s), NEW m \in Model, NEW n \in ModelRemoval(s, m)
    PROVE  ModelGone(s, n, m)
  <1> DEFINE e == BindingsWithout(s.entitlement, m)
             b == Revise(s.budget, s.budget.records \ {m})
             plans == [t \in DOMAIN s.fallbackPolicy.records |->
                          PlanWithout(s.fallbackPolicy.records[t], m)]
  <1>1. PICK f \in PlansWithout(s.fallbackPolicy, m), g \in RemoveModel(s.modelRegistry, m, e) :
          n = [assignment |-> s.assignment, entitlement |-> e, modelRegistry |-> g,
               fallbackPolicy |-> f, budget |-> b]
    BY DEF ModelRemoval
  <1>2. g = Revise(s.modelRegistry, Without(s.modelRegistry.records, {m}))
    BY <1>1 DEF RemoveModel
  <1>3. f = Revise(s.fallbackPolicy, plans)
    BY <1>1 DEF PlansWithout
  <1>4. /\ DOMAIN s.entitlement = {"teams", "records"} /\ DOMAIN s.budget = {"records"}
        /\ DOMAIN s.fallbackPolicy = {"records"} /\ DOMAIN s.modelRegistry = {"records"}
    BY DEF IsSet, IsEntitlement, IsBudget, IsFallback, IsRegistry
  <1>5. /\ DOMAIN e = {"teams", "records"} /\ e.teams = s.entitlement.teams
        /\ e.records = [t \in DOMAIN s.entitlement.records |-> Narrowed(s.entitlement.records[t], m)]
    BY <1>4 DEF BindingsWithout, Revise
  <1>6. DOMAIN b = {"records"} /\ b.records = s.budget.records \ {m}
    BY <1>4 DEF Revise
  <1>7. DOMAIN f = {"records"} /\ f.records = plans
    <2> HIDE DEF plans
    <2>1. QED
      BY <1>3, <1>4 DEF Revise
  <1>8. DOMAIN g = {"records"} /\ g.records = Without(s.modelRegistry.records, {m})
    BY <1>2, <1>4 DEF Revise
  <1> HIDE DEF e, b
  <1>9. QED
    BY <1>1, <1>5, <1>6, <1>7, <1>8 DEF ModelGone, Kind

(* No binding is left without models when none allowed this one alone.      *)
LEMMA ModelRemovalKeeps ==
    ASSUME NEW s, IsSet(s), NEW m \in Model, NEW n, ModelGone(s, n, m),
           \A t \in DOMAIN s.entitlement.records : s.entitlement.records[t].models # {m}
    PROVE  IsSet(n) /\ (Resolves(s) => Resolves(n)) /\ ~Names(n, m)
  <1> DEFINE old == s.entitlement.records
             new == n.entitlement.records
  <1>0. IsEntitlement(s.entitlement) /\ IsFallback(s.fallbackPolicy) /\ IsRegistry(s.modelRegistry)
    BY DEF IsSet
  <1>1. DOMAIN new = DOMAIN old
    BY DEF ModelGone
  <1>2. ASSUME NEW t \in DOMAIN old
        PROVE  /\ new[t] \in Binding /\ new[t].state = old[t].state
               /\ new[t].models = old[t].models \ {m}
    <2>1. new[t] = Narrowed(old[t], m)
      BY DEF ModelGone
    <2>2. old[t] \in Binding /\ old[t].models # {m}
      BY <1>0, <1>2 DEF IsEntitlement, Range
    <2>3. old[t].models \in SUBSET Model /\ old[t].models # {} /\ old[t].models \ {m} # {}
      BY <2>2 DEF Binding
    <2>4. QED
      BY <2>1, <2>2, <2>3 DEF Binding, Narrowed
  <1>3. IsEntitlement(n.entitlement)
    <2>1. Range(new) \subseteq Binding
      BY <1>1, <1>2 DEF Range
    <2>2. Organization \in DOMAIN new /\ new[Organization].state = "active"
      BY <1>0, <1>1, <1>2 DEF IsEntitlement
    <2>3. QED
      BY <1>0, <1>1, <2>1, <2>2 DEF IsEntitlement, ModelGone
  <1>4. /\ DOMAIN n.fallbackPolicy.records = DOMAIN s.fallbackPolicy.records
        /\ \A t \in DOMAIN s.fallbackPolicy.records :
              /\ IsPlan(n.fallbackPolicy.records[t])
              /\ n.fallbackPolicy.records[t].edges = Leaving(s.fallbackPolicy.records[t].edges, m)
    <2>1. ASSUME NEW t \in DOMAIN s.fallbackPolicy.records
          PROVE  /\ IsPlan(n.fallbackPolicy.records[t])
                 /\ n.fallbackPolicy.records[t].edges = Leaving(s.fallbackPolicy.records[t].edges, m)
      <3> DEFINE p == s.fallbackPolicy.records[t]
      <3>1. n.fallbackPolicy.records[t] = PlanWithout(p, m)
        BY DEF ModelGone
      <3>2. IsPlan(p) /\ p \in Plan
        BY <1>0, <2>1 DEF IsFallback, IsPlan
      <3> HIDE DEF p
      <3>3. IsPlan(PlanWithout(p, m))
        BY <3>2, LeavingIsPlan
      <3>4. PlanWithout(p, m).edges = Leaving(p.edges, m)
        BY <3>2 DEF Plan, PlanWithout
      <3>5. QED
        BY <3>1, <3>3, <3>4 DEF p
    <2>2. QED
      BY <2>1 DEF ModelGone
  <1>5. IsFallback(n.fallbackPolicy)
    BY <1>0, <1>4 DEF IsFallback, ModelGone
  <1>6. /\ DOMAIN n.modelRegistry.records = DOMAIN s.modelRegistry.records \ {m}
        /\ \A o \in DOMAIN s.modelRegistry.records \ {m} :
              n.modelRegistry.records[o] = s.modelRegistry.records[o]
    BY DEF ModelGone, Without, Restrict
  <1>7. IsRegistry(n.modelRegistry)
    <2>1. \A o \in DOMAIN n.modelRegistry.records : n.modelRegistry.records[o] \in Fact
      BY <1>0, <1>6 DEF IsRegistry, Range
    <2>2. DOMAIN n.modelRegistry = {"records"} /\ DOMAIN n.modelRegistry.records \subseteq Model
      BY <1>0, <1>6 DEF IsRegistry, ModelGone
    <2>3. QED
      BY <2>1, <2>2 DEF IsRegistry, Range
  <1>8. IsBudget(n.budget) /\ IsAssignment(n.assignment)
    BY DEF IsSet, IsBudget, ModelGone
  <1>9. IsSet(n)
    BY <1>3, <1>5, <1>7, <1>8 DEF IsSet, ModelGone
  <1>10. Resolves(s) => Resolves(n)
    BY <1>1, <1>2, <1>6 DEF Resolves, Registered
  <1>11. ~Names(n, m)
    <2>1. m \notin Team /\ m \notin Target /\ m \notin Scope
      BY NamesAssumption DEF Target, Scope
    <2>2. m \notin Teams(n) \cup Registered(n) \cup n.budget.records
      BY <1>3, <1>6, <2>1 DEF IsEntitlement, Teams, Registered, ModelGone
    <2>3. m \notin DOMAIN new \cup DOMAIN n.fallbackPolicy.records
      BY <1>3, <1>5, <2>1 DEF IsEntitlement, IsFallback
    <2>4. \A t \in DOMAIN new : m \notin new[t].models
      BY <1>1, <1>2
    <2>5. \A g \in DOMAIN n.assignment.records : g[2] # m
      BY <1>8, <2>1 DEF IsAssignment
    <2>6. \A e \in PlannedEdges(n) : m \notin {e[2][1], e[2][2]}
      BY <1>4 DEF PlannedEdges, Leaving
    <2>7. QED
      BY <2>2, <2>3, <2>4, <2>5, <2>6 DEF Names
  <1>12. QED
    BY <1>9, <1>10, <1>11

(* A removal nothing blocks leaves a valid set without what it removes.     *)
LEMMA RemovalKeeps ==
    ASSUME NEW s, IsSet(s), NEW x \in Team \cup Model, ~Blocked(s, x), NEW n \in Removal(s, x)
    PROVE  IsSet(n) /\ (Resolves(s) => Resolves(n)) /\ ~Names(n, x)
  <1>1. CASE x \in Team
    BY <1>1, TeamRemovalKeeps DEF Removal
  <1>2. CASE x \notin Team
    <2>1. x \in Model /\ n \in ModelRemoval(s, x)
      BY <1>2 DEF Removal
    <2>2. \A t \in DOMAIN s.entitlement.records : s.entitlement.records[t].models # {x}
      BY <2>1 DEF Blocked
    <2>3. ModelGone(s, n, x)
      BY <2>1, ModelRemovalIs
    <2>4. QED
      BY <2>1, <2>2, <2>3, ModelRemovalKeeps
  <1>3. QED
    BY <1>1, <1>2

LEMMA AnotherOne ==
    ASSUME NEW S, IsFiniteSet(S), NEW x \in S, S # {x}
    PROVE  Cardinality(S) > 1
  <1>1. Cardinality(S) \in Nat
    BY FS_CardinalityType
  <1>2. Cardinality(S) # 0
    BY FS_EmptySet
  <1>3. Cardinality(S) # 1
    <2>1. ~\E y : S = {y}
      OBVIOUS
    <2>2. QED
      BY <2>1, FS_Singleton
  <1>4. QED
    BY <1>1, <1>2, <1>3

LEMMA TeamRemovalPossible ==
    ASSUME NEW s, IsSet(s), NEW t \in Team, t \in Teams(s), Agree(Teams(s) \ {t})
    PROVE  TeamRemoval(s, t) # {}
  <1> DEFINE old  == s.entitlement
             bare == Revise(old, Without(old.records, {t}))
             e    == [bare EXCEPT !.teams = Without(@, {t})]
  <1>1. IsEntitlement(old)
    BY DEF IsSet
  <1>2. DOMAIN bare = {"teams", "records"} /\ bare.teams = old.teams /\ bare.records = Without(old.records, {t})
    BY <1>1 DEF Revise, IsEntitlement
  <1>3. /\ DOMAIN e = {"teams", "records"} /\ e.teams = Without(old.teams, {t})
        /\ e.records = Without(old.records, {t})
    <2> HIDE DEF bare
    <2>1. QED
      BY <1>2
  <1>4. /\ DOMAIN e.teams = DOMAIN old.teams \ {t}
        /\ \A u \in DOMAIN old.teams \ {t} : e.teams[u] = old.teams[u]
    BY <1>3 DEF Without, Restrict
  <1>5. /\ DOMAIN e.records = DOMAIN old.records \ {t}
        /\ \A u \in DOMAIN old.records \ {t} : e.records[u] = old.records[u]
    BY <1>3 DEF Without, Restrict
  <1>6. IsEntitlement(e)
    <2> HIDE DEF e
    <2>1. Organization # t
      BY NamesAssumption
    <2>2. Range(e.teams) \subseteq Group /\ Range(e.records) \subseteq Binding
      BY <1>1, <1>4, <1>5 DEF IsEntitlement, Range
    <2>3. \A u, v \in DOMAIN e.teams : e.teams[u] = e.teams[v] => u = v
      BY <1>1, <1>4 DEF IsEntitlement
    <2>4. Organization \in DOMAIN e.records /\ e.records[Organization].state = "active"
      BY <1>1, <1>5, <2>1 DEF IsEntitlement
    <2>5. QED
      BY <1>1, <1>3, <1>4, <1>5, <2>2, <2>3, <2>4 DEF IsEntitlement
  <1>7. t \in DOMAIN bare.teams /\ t \notin DOMAIN bare.records
    <2>1. t \notin DOMAIN Without(old.records, {t})
      BY DEF Without, Restrict
    <2>2. QED
      BY <1>2, <2>1 DEF Teams
  <1>8. e \in RemoveTeam(bare, t)
    <2>1. Agree(DOMAIN e.teams)
      BY <1>4 DEF Teams
    <2> HIDE DEF bare
    <2>2. QED
      BY <1>6, <1>7, <2>1 DEF RemoveTeam
  <1> HIDE DEF e
  <1>9. QED
    BY <1>8 DEF TeamRemoval

LEMMA ModelRemovalPossible ==
    ASSUME NEW s, IsSet(s), NEW m \in Model, m \in Registered(s), Registered(s) # {m}, NoticeKept(s)
    PROVE  ModelRemoval(s, m) # {}
  <1> DEFINE e == BindingsWithout(s.entitlement, m)
  <1>1. PlansWithout(s.fallbackPolicy, m) # {}
    BY DEF PlansWithout, NoticeKept
  <1>2. Cardinality(Registered(s)) > 1
    <2>1. Registered(s) \subseteq Model
      BY DEF IsSet, IsRegistry, Registered
    <2>2. IsFiniteSet(Registered(s))
      BY <2>1, NamesAssumption, FS_Subset
    <2>3. QED
      BY <2>2, AnotherOne
  <1>3. ~Entitled(e, m)
    <2>1. /\ DOMAIN e.records = DOMAIN s.entitlement.records
          /\ \A t \in DOMAIN s.entitlement.records :
                e.records[t] = Narrowed(s.entitlement.records[t], m)
      BY DEF BindingsWithout, Revise, IsSet, IsEntitlement
    <2>2. \A t \in DOMAIN s.entitlement.records : m \notin Narrowed(s.entitlement.records[t], m).models
      <3>1. \A t \in DOMAIN s.entitlement.records : s.entitlement.records[t] \in Binding
        BY DEF IsSet, IsEntitlement, Range
      <3>2. QED
        BY <3>1 DEF Narrowed, Binding
    <2>3. QED
      BY <2>1, <2>2 DEF Entitled
  <1> HIDE DEF e
  <1>4. RemoveModel(s.modelRegistry, m, e) # {}
    BY <1>2, <1>3 DEF RemoveModel, Registered
  <1>5. PICK f \in PlansWithout(s.fallbackPolicy, m), g \in RemoveModel(s.modelRegistry, m, e) : TRUE
    BY <1>1, <1>4
  <1>6. [assignment |-> s.assignment, entitlement |-> e, modelRegistry |-> g, fallbackPolicy |-> f,
         budget |-> Revise(s.budget, s.budget.records \ {m})] \in ModelRemoval(s, m)
    BY <1>5 DEF ModelRemoval, e
  <1>7. QED
    BY <1>6

LEMMA RemovalPossible ==
    ASSUME NEW s, IsSet(s), NEW x \in Team \cup Model, ~Blocked(s, x), NoticeKept(s),
           x \in Team => Agree(Teams(s) \ {x})
    PROVE  \E n \in Removal(s, x) : IsSet(n)
  <1>1. Removal(s, x) # {}
    <2>1. CASE x \in Team
      BY <2>1, TeamRemovalPossible DEF Removal, Blocked, Known
    <2>2. CASE x \notin Team
      BY <2>2, ModelRemovalPossible DEF Removal, Blocked, Known
    <2>3. QED
      BY <2>1, <2>2
  <1>2. QED
    BY <1>1, RemovalKeeps

-----------------------------------------------------------------------------
(* The forms of the page.                                                   *)

LEMMA BindingsAreAccepted ==
    ASSUME NEW s, IsSet(s)
    PROVE  BindingsAccepted(s, Options(s))
  <1> DEFINE o   == Options(s)
             old == s.entitlement
  <1>1. /\ o.models = Registered(s) /\ Registered(s) \subseteq Model
        /\ o.bindings = old.records /\ o.teams = old.teams
    BY DEF Options, IsSet, IsRegistry, Registered
  <1>2. IsEntitlement(old)
    BY DEF IsSet
  <1>3. ASSUME NEW f \in AllowlistForms(o) \cup StateForms(o)
        PROVE  EditBinding(old, f.target, f.change, Registered(s)) # {}
    <2> DEFINE t   == f.target
               rec == Over(f.change, old.records[t])
               e   == Revise(old, [old.records EXCEPT ![t] = rec])
    <2>1. /\ t \in DOMAIN old.records
          /\ \/ /\ DOMAIN f.change = {"models"} /\ f.change.models # {}
                /\ f.change.models \subseteq Registered(s)
             \/ DOMAIN f.change = {"state"} /\ f.change.state \in State /\ t # Organization
      <3>1. CASE f \in AllowlistForms(o)
        BY <1>1, <3>1 DEF AllowlistForms, Editable
      <3>2. CASE f \in StateForms(o)
        BY <1>1, <3>2 DEF StateForms
      <3>3. QED
        BY <1>3, <3>1, <3>2
    <2>2. old.records[t] \in Binding
      BY <1>2, <2>1 DEF IsEntitlement, Range
    <2>3. rec \in Binding /\ (t = Organization => rec.state = old.records[t].state)
      <3>1. /\ DOMAIN old.records[t] = {"models", "state"}
            /\ old.records[t].models \in (SUBSET Model) \ {{}} /\ old.records[t].state \in State
            /\ old.records[t] = [models |-> old.records[t].models, state |-> old.records[t].state]
        BY <2>2 DEF Binding
      <3> HIDE DEF t
      <3>2. CASE DOMAIN f.change = {"models"}
        <4>1. rec = [models |-> f.change.models, state |-> old.records[t].state]
          BY <3>1, <3>2 DEF Over
        <4>2. QED
          BY <1>1, <2>1, <3>1, <3>2, <4>1 DEF Binding
      <3>3. CASE DOMAIN f.change = {"state"}
        <4>1. rec = [models |-> old.records[t].models, state |-> f.change.state]
          BY <3>1, <3>3 DEF Over
        <4>2. QED
          BY <2>1, <3>1, <3>3, <4>1 DEF Binding
      <3>4. QED
        BY <2>1, <3>2, <3>3
    <2> HIDE DEF rec
    <2>4. /\ DOMAIN e = {"teams", "records"} /\ e.teams = old.teams
          /\ e.records = [old.records EXCEPT ![t] = rec]
      BY <1>2 DEF Revise, IsEntitlement
    <2>5. /\ DOMAIN e.records = DOMAIN old.records
          /\ \A u \in DOMAIN old.records : e.records[u] = IF u = t THEN rec ELSE old.records[u]
      BY <2>4
    <2>6. IsEntitlement(e)
      <3> HIDE DEF e
      <3>1. Range(e.records) \subseteq Binding
        BY <1>2, <2>3, <2>5 DEF IsEntitlement, Range
      <3>2. Organization \in DOMAIN e.records /\ e.records[Organization].state = "active"
        BY <1>2, <2>3, <2>5 DEF IsEntitlement
      <3>3. QED
        BY <1>2, <2>4, <2>5, <3>1, <3>2 DEF IsEntitlement
    <2>7. QED
      BY <2>1, <2>6 DEF EditBinding, rec
  <1>4. ASSUME NEW f \in BindingForms(o), NEW a \in Administrator, f.target \notin DOMAIN o.bindings \cup {a},
               Agree(f.models), AgreeIds(DOMAIN old.records \cup {f.target})
        PROVE  AddBinding(old, f.target, f.models, Registered(s), a) # {}
    <2> DEFINE t   == f.target
               rec == [models |-> f.models, state |-> "active"]
               e   == Revise(old, With(old.records, t, rec))
    <2>1. t \in Person \cup DOMAIN old.teams /\ f.models \subseteq Registered(s) /\ f.models # {}
      BY <1>1 DEF BindingForms, Governable
    <2>2. rec \in Binding /\ rec.state = "active"
      BY <1>1, <2>1 DEF Binding, State
    <2>3. t \in Target /\ (t \in Team => t \in DOMAIN old.teams) /\ t \notin DOMAIN old.records \cup {Organization, a}
      BY <1>1, <1>2, <1>4, <2>1, NamesAssumption DEF IsEntitlement, Target
    <2> HIDE DEF rec, t
    <2>4. /\ DOMAIN e = {"teams", "records"} /\ e.teams = old.teams
          /\ e.records = With(old.records, t, rec)
      BY <1>2 DEF Revise, IsEntitlement
    <2>5. /\ DOMAIN e.records = DOMAIN old.records \cup {t} /\ e.records[t] = rec
          /\ \A u \in DOMAIN old.records : u # t => e.records[u] = old.records[u]
      BY <2>4 DEF With, Over
    <2>6. IsEntitlement(e)
      <3> HIDE DEF e
      <3>1. Range(e.records) \subseteq Binding
        BY <1>2, <2>2, <2>5 DEF IsEntitlement, Range
      <3>2. Organization \in DOMAIN e.records /\ e.records[Organization].state = "active"
        BY <1>2, <2>3, <2>5 DEF IsEntitlement
      <3>3. QED
        BY <1>2, <2>3, <2>4, <2>5, <3>1, <3>2 DEF IsEntitlement
    <2>7. Agree(f.models) /\ AgreeIds(DOMAIN e.records)
      BY <1>4, <2>5 DEF t
    <2> HIDE DEF e
    <2>8. e \in AddBinding(old, t, f.models, Registered(s), a)
      BY <2>1, <2>3, <2>6, <2>7 DEF AddBinding, rec, e
    <2>9. QED
      BY <2>8 DEF t
  <1>5. ASSUME NEW f \in BindingForms(o), NEW a \in Administrator, AddBinding(old, f.target, f.models, Registered(s), a) # {}
        PROVE  /\ f.target \notin DOMAIN old.records \cup {a}
               /\ Agree(f.models) /\ AgreeIds(DOMAIN old.records \cup {f.target})
    <2> DEFINE rec == [models |-> f.models, state |-> "active"]
               e   == Revise(old, With(old.records, f.target, rec))
    <2>1. /\ f.target \notin DOMAIN old.records \cup {Organization, a}
          /\ Agree(f.models) /\ AgreeIds(DOMAIN e.records)
      BY <1>5 DEF AddBinding
    <2>2. DOMAIN e.records = DOMAIN old.records \cup {f.target}
      BY <1>2 DEF Revise, With, Over, IsEntitlement
    <2>3. QED
      BY <2>1, <2>2
  <1>6. /\ \A f \in AllowlistForms(o) : "models" \in DOMAIN f.change
        /\ \A f \in StateForms(o) : "models" \notin DOMAIN f.change
    BY DEF AllowlistForms, StateForms
  <1>7. \A f \in AllowlistForms(o) :
          EditAsSent(old, f.target, f.change, Registered(s)) # {} <=> Agree(f.change.models)
    BY <1>3, <1>6 DEF EditAsSent
  <1>8. \A f \in StateForms(o) : EditAsSent(old, f.target, f.change, Registered(s)) # {}
    BY <1>3, <1>6 DEF EditAsSent
  <1>9. \A f \in BindingForms(o), a \in Administrator :
          AddBinding(old, f.target, f.models, Registered(s), a) # {} <=>
             /\ f.target \notin DOMAIN old.records \cup {a}
             /\ Agree(f.models) /\ AgreeIds(DOMAIN old.records \cup {f.target})
    BY <1>1, <1>4, <1>5
  <1> HIDE DEF o
  <1>10. QED
    BY <1>7, <1>8, <1>9 DEF BindingsAccepted, o

LEMMA PlansAreAccepted ==
    ASSUME NEW s, IsSet(s)
    PROVE  PlansAccepted(s, Options(s))
  <1> DEFINE o   == Options(s)
             old == s.fallbackPolicy
  <1>1. o.models = Registered(s) /\ o.teams = s.entitlement.teams
    BY DEF Options
  <1>2. IsFallback(old) /\ DOMAIN o.teams \subseteq Team
    BY <1>1 DEF IsSet, IsEntitlement
  <1>3. ASSUME NEW f \in PlanForms(o), f.target \notin DOMAIN old.records
        PROVE  AddPlan(old, f.target, f.plan, Registered(s), Teams(s)) # {}
    <2> DEFINE n == Revise(old, With(old.records, f.target, f.plan))
    <2>1. /\ f.target \in {Organization} \cup Person \cup DOMAIN o.teams
          /\ IsPlan(f.plan) /\ (f.plan.inline => f.plan.preferred)
          /\ f.plan.edges \subseteq PlanRows(o, {})
      BY DEF PlanForms, PlanOnForm, Governable
    <2>2. f.target \in Target /\ (f.target \in Team => f.target \in Teams(s))
      BY <1>1, <1>2, <2>1, NamesAssumption DEF Target, Teams
    <2>3. (UNION { {e[1], e[2]} : e \in f.plan.edges }) \subseteq Registered(s)
      BY <1>1, <2>1 DEF PlanRows
    <2>4. DOMAIN n = {"records"} /\ n.records = With(old.records, f.target, f.plan)
      BY <1>2 DEF Revise, IsFallback
    <2>5. /\ DOMAIN n.records = DOMAIN old.records \cup {f.target} /\ n.records[f.target] = f.plan
          /\ \A u \in DOMAIN old.records : u # f.target => n.records[u] = old.records[u]
      BY <2>4 DEF With, Over
    <2>6. IsFallback(n)
      <3> HIDE DEF n
      <3>1. QED
        BY <1>2, <2>1, <2>2, <2>4, <2>5 DEF IsFallback
    <2>7. QED
      BY <1>3, <2>1, <2>2, <2>3, <2>6 DEF AddPlan
  <1>4. ASSUME NEW u \in DOMAIN old.records, NEW p \in PlanEditForms(o, old.records[u]), p.inline => p.preferred
        PROVE  EditPlan(old, u, p) # {}
    <2> DEFINE n == Revise(old, [old.records EXCEPT ![u] = p])
    <2>1. IsPlan(p) /\ p \in Plan /\ p # old.records[u] /\ old.records[u] \in Plan
      BY <1>2 DEF PlanEditForms, PlanOnForm, IsPlan, IsFallback
    <2>2. Over(p, old.records[u]) = p
      BY <2>1 DEF Over, Plan
    <2>3. DOMAIN n = {"records"} /\ n.records = [old.records EXCEPT ![u] = p]
      BY <1>2 DEF Revise, IsFallback
    <2>4. IsFallback(n)
      <3> HIDE DEF n
      <3>1. QED
        BY <1>2, <2>1, <2>3 DEF IsFallback
    <2>5. QED
      BY <1>4, <2>1, <2>2, <2>4 DEF EditPlan
  <1>5. \A t : PlanShown(s, t) \subseteq DOMAIN old.records
    BY DEF PlanShown
  <1>6. \A f \in PlanForms(o) : f.target \in DOMAIN old.records =>
          AddPlan(old, f.target, f.plan, Registered(s), Teams(s)) = {}
    BY DEF AddPlan
  <1>7. \A u \in DOMAIN old.records : \A p \in PlanEditForms(o, old.records[u]) :
          EditPlan(old, u, p) # {} => (p.inline => p.preferred)
    <2> SUFFICES ASSUME NEW u \in DOMAIN old.records, NEW p \in PlanEditForms(o, old.records[u]),
                        EditPlan(old, u, p) # {}
                 PROVE  p.inline => p.preferred
      OBVIOUS
    <2>1. p \in Plan /\ old.records[u] \in Plan
      BY <1>2 DEF PlanEditForms, PlanOnForm, IsPlan, IsFallback
    <2>2. Over(p, old.records[u]) = p
      BY <2>1 DEF Over, Plan
    <2>3. QED
      BY <2>2 DEF EditPlan
  <1>8. QED
    BY <1>3, <1>4, <1>5, <1>6, <1>7 DEF PlansAccepted

LEMMA PeopleAreAccepted ==
    ASSUME NEW s, IsSet(s)
    PROVE  PeopleAccepted(s, Options(s))
  <1> DEFINE o    == Options(s)
             old  == s.entitlement
             held == s.assignment
  <1>1. o.teams = old.teams /\ IsEntitlement(old) /\ IsAssignment(held)
    BY DEF Options, IsSet
  <1>2. ASSUME NEW f \in TeamForms, f.team \notin DOMAIN o.teams, f.group \notin Range(o.teams),
               Agree(DOMAIN o.teams \cup {f.team})
        PROVE  AddTeam(old, f.team, f.group) # {}
    <2> DEFINE e == [old EXCEPT !.teams = With(@, f.team, f.group)]
    <2>1. f.team \in Team /\ f.group \in Group
      BY DEF TeamForms
    <2>2. /\ DOMAIN e = {"teams", "records"} /\ e.records = old.records
          /\ e.teams = With(old.teams, f.team, f.group)
      BY <1>1 DEF IsEntitlement
    <2>3. /\ DOMAIN e.teams = DOMAIN old.teams \cup {f.team} /\ e.teams[f.team] = f.group
          /\ \A u \in DOMAIN old.teams : u # f.team => e.teams[u] = old.teams[u]
      BY <2>2 DEF With, Over
    <2>4. \A u \in DOMAIN old.teams : old.teams[u] # f.group
      BY <1>1, <1>2 DEF Range
    <2>5. IsEntitlement(e)
      <3> HIDE DEF e
      <3>1. Range(e.teams) \subseteq Group
        BY <1>1, <2>1, <2>3 DEF IsEntitlement, Range
      <3>2. \A t, u \in DOMAIN e.teams : e.teams[t] = e.teams[u] => t = u
        BY <1>1, <1>2, <2>3, <2>4 DEF IsEntitlement
      <3>3. QED
        BY <1>1, <2>1, <2>2, <2>3, <3>1, <3>2 DEF IsEntitlement
    <2>6. Agree(DOMAIN e.teams)
      BY <1>1, <1>2, <2>3
    <2>7. QED
      BY <1>1, <1>2, <2>5, <2>6 DEF AddTeam
  <1>3. ASSUME NEW f \in GrantForms(o), NEW a \in Administrator,
               f.holder # a, <<f.holder, f.scope>> \notin DOMAIN held.records
        PROVE  Grant(held, f.holder, f.scope, a) # {}
    <2> DEFINE g == <<f.holder, f.scope>>
               n == Revise(held, With(held.records, g, "active"))
    <2>1. g \in (Person \cup Administrator) \X Scope
      BY <1>1 DEF GrantForms, GrantScopes, Scope, IsEntitlement
    <2> HIDE DEF g
    <2>2. DOMAIN n = {"records"} /\ n.records = With(held.records, g, "active")
      BY <1>1 DEF Revise, IsAssignment
    <2>3. /\ DOMAIN n.records = DOMAIN held.records \cup {g} /\ n.records[g] = "active"
          /\ \A u \in DOMAIN held.records : u # g => n.records[u] = held.records[u]
      BY <2>2 DEF With, Over
    <2>4. IsAssignment(n)
      <3> HIDE DEF n
      <3>1. Range(n.records) \subseteq State
        BY <1>1, <2>3 DEF IsAssignment, Range, State
      <3>2. QED
        BY <1>1, <2>1, <2>2, <2>3, <3>1 DEF IsAssignment
    <2>5. QED
      BY <1>3, <2>4 DEF Grant, g
  <1>4. ASSUME NEW f \in TeamForms, AddTeam(old, f.team, f.group) # {}
        PROVE  /\ f.team \notin DOMAIN o.teams /\ f.group \notin Range(o.teams)
               /\ Agree(DOMAIN o.teams \cup {f.team})
    <2> DEFINE e == [old EXCEPT !.teams = With(@, f.team, f.group)]
    <2>1. /\ f.team \notin DOMAIN old.teams /\ f.group \notin Range(old.teams)
          /\ Agree(DOMAIN e.teams)
      BY <1>4 DEF AddTeam
    <2>2. e.teams = With(old.teams, f.team, f.group)
      BY <1>1 DEF IsEntitlement
    <2>3. DOMAIN e.teams = DOMAIN old.teams \cup {f.team}
      BY <2>2 DEF With, Over
    <2>4. QED
      BY <1>1, <2>1, <2>3
  <1>5. \A f \in GrantForms(o), a \in Administrator :
          Grant(held, f.holder, f.scope, a) # {} => (f.holder # a /\ <<f.holder, f.scope>> \notin DOMAIN held.records)
    BY DEF Grant
  <1>6. \A f \in TeamForms :
          AddTeam(old, f.team, f.group) # {} <=>
             /\ f.team \notin DOMAIN o.teams /\ f.group \notin Range(o.teams)
             /\ Agree(DOMAIN o.teams \cup {f.team})
    BY <1>2, <1>4
  <1>7. \A f \in GrantForms(o), a \in Administrator :
          Grant(held, f.holder, f.scope, a) # {} <=>
             f.holder # a /\ <<f.holder, f.scope>> \notin DOMAIN held.records
    BY <1>3, <1>5
  <1> HIDE DEF o
  <1>8. QED
    BY <1>6, <1>7 DEF PeopleAccepted, o

-----------------------------------------------------------------------------
(* The invariant.                                                           *)

LEMMA SeqOfItsRange ==
    ASSUME NEW S, NEW s \in Seq(S)
    PROVE  s \in Seq(Range(s))
  <1>1. Len(s) \in Nat /\ DOMAIN s = 1..Len(s) /\ s \in [1..Len(s) -> S]
    OBVIOUS
  <1>2. s \in [1..Len(s) -> Range(s)]
    BY <1>1 DEF Range
  <1> HIDE DEF Range
  <1>3. QED
    BY <1>1, <1>2, SeqDef

(* A step that stores nothing, or only turns one stored revision into       *)
(* another that is as good.                                                 *)
LEMMA RevisionStored ==
    ASSUME RevisionsInv, NEW r, RevisionInv(r), revisions' = Append(revisions, r)
    PROVE  RevisionsInv'
  <1> DEFINE S == Range(revisions) \cup {r}
  <1>1. revisions \in Seq(S) /\ r \in S
    BY DEF RevisionsInv
  <1>2. /\ revisions' \in Seq(S) /\ DOMAIN revisions' = 1..(Len(revisions) + 1)
        /\ DOMAIN revisions = 1..Len(revisions) /\ Len(revisions) \in Nat
        /\ \A i \in 1..Len(revisions) : revisions'[i] = revisions[i]
        /\ revisions'[Len(revisions) + 1] = r
    <2> HIDE DEF S
    <2>1. QED
      BY <1>1
  <1>3. revisions' \in Seq(Range(revisions'))
    BY <1>2, SeqOfItsRange
  <1>4. \A i \in DOMAIN revisions' : RevisionInv(revisions'[i])
    BY <1>2 DEF RevisionsInv, Numbers
  <1>5. QED
    BY <1>3, <1>4 DEF RevisionsInv, Numbers, RevisionInv

LEMMA RevisionChanged ==
    ASSUME RevisionsInv, NEW i \in Numbers, NEW r, RevisionInv(r), revisions' = [revisions EXCEPT ![i] = r]
    PROVE  RevisionsInv'
  <1>1. /\ DOMAIN revisions' = DOMAIN revisions /\ DOMAIN revisions = 1..Len(revisions) /\ Len(revisions) \in Nat
        /\ \A j \in DOMAIN revisions : revisions'[j] = IF j = i THEN r ELSE revisions[j]
    BY DEF RevisionsInv
  <1>2. revisions' \in Seq(Range(revisions'))
    <2> DEFINE S == Range(revisions) \cup {r}
    <2>1. revisions \in Seq(S) /\ r \in S
      BY DEF RevisionsInv
    <2> HIDE DEF S
    <2>2. [revisions EXCEPT ![i] = r] \in Seq(S)
      BY <2>1 DEF Numbers
    <2>3. QED
      BY <2>2, SeqOfItsRange
  <1>3. \A j \in DOMAIN revisions' : RevisionInv(revisions'[j])
    BY <1>1 DEF RevisionsInv, Numbers
  <1>4. QED
    BY <1>2, <1>3 DEF RevisionsInv, Numbers, RevisionInv

LEMMA FinishedIsFine == \A state \in {"active", "withdrawn"} : RevisionInv(Finished(state))
  BY DEF RevisionInv, Finished, Open

LEMMA LiveIsSet ==
    ASSUME LiveInv, Readable(live)
    PROVE  IsSet(live)
  BY SetParts DEF LiveInv, Readable

LEMMA RequestSet ==
    ASSUME WorkInv, NEW a \in Administrator, NEW r, r = Nothing \/ RequestInv(r),
           request' = [request EXCEPT ![a] = r], review' = review
    PROVE  WorkInv'
  BY DEF WorkInv, RequestInv, ReviewInv

LEMMA ReviewSet ==
    ASSUME WorkInv, NEW a \in Administrator, NEW r, r = Nothing \/ ReviewInv(r),
           review' = [review EXCEPT ![a] = r], request' = request
    PROVE  WorkInv'
  BY DEF WorkInv, RequestInv, ReviewInv

LEMMA NothingStored ==
    ASSUME LiveInv, RevisionsInv, UNCHANGED <<live, revisions, intact>>
    PROVE  LiveInv' /\ RevisionsInv'
  BY DEF LiveInv, RevisionsInv, Numbers

LEMMA AuthoringStarts == AuthoringInit => AuthoringInv
  <1> SUFFICES ASSUME AuthoringInit PROVE AuthoringInv
    OBVIOUS
  <1>1. LiveInv
    <2>1. CASE live \in Standing
      BY <2>1, AuthoringAssumption, StandingAssumption, SetParts DEF LiveInv
    <2>2. CASE live = [k \in Kind |-> Absent] /\ intact = FALSE
      BY <2>2 DEF LiveInv
    <2>3. QED
      BY <2>1, <2>2 DEF AuthoringInit
  <1>2. RevisionsInv
    <2>1. CASE revisions = <<>>
      BY <2>1 DEF RevisionsInv, Numbers, Range
    <2>2. CASE revisions = <<Finished("active")>>
      <3>1. DOMAIN revisions = {1} /\ revisions[1] = Finished("active") /\ Len(revisions) = 1
        BY <2>2
      <3>2. revisions \in Seq(Range(revisions))
        BY <2>2, <3>1 DEF Range
      <3>3. QED
        BY <3>1, <3>2, FinishedIsFine DEF RevisionsInv, Numbers
    <2>3. QED
      BY <2>1, <2>2 DEF AuthoringInit
  <1>3. WorkInv
    BY DEF AuthoringInit, WorkInv
  <1>4. QED
    BY <1>1, <1>2, <1>3 DEF AuthoringInv

(* What is computed from a valid set is valid, and whole where that was.    *)
LEMMA ComputedIsFine ==
    ASSUME WorkInv, NEW a \in Administrator, request[a] # Nothing, NEW s \in Computed(a)
    PROVE  /\ IsSet(s) /\ (request[a].whole => Resolves(s))
           /\ request[a].removes # NoOne => ~Names(s, request[a].removes)
  <1> DEFINE r == request[a]
  <1>1. /\ IsSet(r.base) /\ (r.whole => Resolves(r.base))
        /\ r.removes # NoOne => r.removes \in Team \cup Model /\ ~Blocked(r.base, r.removes)
    BY DEF WorkInv, RequestInv
  <1>2. CASE r.removes # NoOne
    <2>1. s \in Removal(r.base, r.removes)
      BY <1>2 DEF Computed
    <2> HIDE DEF r
    <2>2. IsSet(s) /\ (Resolves(r.base) => Resolves(s)) /\ ~Names(s, r.removes)
      BY <1>1, <1>2, <2>1, RemovalKeeps
    <2>3. QED
      BY <1>1, <2>2 DEF r
  <1>3. CASE r.removes = NoOne
    <2>1. \/ s \in TeamChange(r.base) \/ s \in EntitlementChange(r.base, a) \/ s \in FallbackChange(r.base)
          \/ s \in AssignmentChange(r.base, a) \/ s \in BudgetChange(r.base) \/ s \in ModelChange(r.base)
      BY <1>3 DEF Computed
    <2> HIDE DEF r
    <2>2. IsSet(s) /\ (Resolves(r.base) => Resolves(s))
      BY <1>1, <2>1, TeamChangeKeeps, EntitlementChangeKeeps, FallbackChangeKeeps,
         AssignmentChangeKeeps, BudgetChangeKeeps, ModelChangeKeeps
    <2>3. QED
      BY <1>1, <1>3, <2>2 DEF r
  <1>4. QED
    BY <1>2, <1>3

LEMMA AuthoringSteps == AuthoringInv /\ [AuthoringNext]_authoringVars => AuthoringInv'
  <1> SUFFICES ASSUME AuthoringInv, [AuthoringNext]_authoringVars PROVE AuthoringInv'
    OBVIOUS
  <1>0. LiveInv /\ RevisionsInv /\ WorkInv
    BY DEF AuthoringInv
  <1>1. CASE Initialize
    <2>1. PICK input \in Import, r \in Reading : \E s \in InitialSet(input, r) : Store(s, Importer, NoOne, TRUE)
      BY <1>1 DEF Initialize
    <2>2. PICK s \in InitialSet(input, r) : Store(s, Importer, NoOne, TRUE)
      BY <2>1
    <2> DEFINE new == [content |-> s, author |-> Importer, state |-> "draft",
                       landed |-> {}, removes |-> NoOne, whole |-> TRUE]
    <2>3. RevisionInv(new)
      BY InitialSetKeeps DEF RevisionInv, Open
    <2>4. revisions' = Append(revisions, new)
      BY <2>2 DEF Store
    <2> HIDE DEF new
    <2>5. RevisionsInv'
      BY <1>0, <2>3, <2>4, RevisionStored
    <2>6. LiveInv' /\ WorkInv'
      BY <1>0, <1>1 DEF Initialize, LiveInv, WorkInv
    <2>7. QED
      BY <2>5, <2>6 DEF AuthoringInv
  <1>2. ASSUME NEW a \in Administrator, ReadPublished(a) PROVE AuthoringInv'
    <2> DEFINE r == [step |-> "read", base |-> live, whole |-> intact, removes |-> NoOne]
    <2>1. RequestInv(r)
      BY <1>0, <1>2, LiveIsSet DEF RequestInv, ReadPublished, LiveInv
    <2>2. request' = [request EXCEPT ![a] = r] /\ UNCHANGED <<live, revisions, review, intact>>
      BY <1>2 DEF ReadPublished
    <2> HIDE DEF r
    <2>3. QED
      BY <1>0, <2>1, <2>2, RequestSet, NothingStored DEF AuthoringInv
  <1>3. ASSUME NEW a \in Administrator, LookInFlight(a) PROVE AuthoringInv'
    <2> DEFINE r == [request[a] EXCEPT !.step = "checked"]
    <2>1. RequestInv(r)
      BY <1>0, <1>3 DEF RequestInv, LookInFlight, WorkInv
    <2>2. request' = [request EXCEPT ![a] = r] /\ UNCHANGED <<live, revisions, review, intact>>
      BY <1>3 DEF LookInFlight
    <2> HIDE DEF r
    <2>3. QED
      BY <1>0, <2>1, <2>2, RequestSet, NothingStored DEF AuthoringInv
  <1>4. ASSUME NEW a \in Administrator, Propose(a) PROVE AuthoringInv'
    <2>1. request[a] # Nothing
      BY <1>4 DEF Propose
    <2>2. PICK s \in Computed(a) : Store(s, a, request[a].removes, request[a].whole)
      BY <1>4 DEF Propose
    <2>3. /\ IsSet(s) /\ (request[a].whole => Resolves(s))
          /\ request[a].removes # NoOne => ~Names(s, request[a].removes)
      BY <1>0, <2>1, <2>2, ComputedIsFine
    <2> DEFINE new == [content |-> s, author |-> a, state |-> "draft", landed |-> {},
                       removes |-> request[a].removes, whole |-> request[a].whole]
    <2>4. RevisionInv(new)
      BY <2>3 DEF RevisionInv, Open
    <2>5. revisions' = Append(revisions, new)
      BY <2>2 DEF Store
    <2> HIDE DEF new
    <2>6. RevisionsInv'
      BY <1>0, <2>4, <2>5, RevisionStored
    <2>7. LiveInv' /\ WorkInv'
      BY <1>0, <1>4, RequestSet DEF Propose, LiveInv
    <2>8. QED
      BY <2>6, <2>7 DEF AuthoringInv
  <1>5. ASSUME NEW a \in Administrator, Drop(a) PROVE AuthoringInv'
    BY <1>0, <1>5, RequestSet, NothingStored DEF Drop, AuthoringInv
  <1>6. ASSUME NEW a \in Administrator, NEW x \in Team \cup Model, OpenRemoval(a, x) PROVE AuthoringInv'
    <2> DEFINE r == [target |-> x, base |-> Absent]
    <2>1. ReviewInv(r)
      BY DEF ReviewInv
    <2>2. review' = [review EXCEPT ![a] = r] /\ UNCHANGED <<live, revisions, request, intact>>
      BY <1>6 DEF OpenRemoval
    <2> HIDE DEF r
    <2>3. QED
      BY <1>0, <2>1, <2>2, ReviewSet, NothingStored DEF AuthoringInv
  <1>7. ASSUME NEW a \in Administrator, ShowPlan(a) PROVE AuthoringInv'
    <2> DEFINE r == [review[a] EXCEPT !.base = live]
    <2>1. ReviewInv(r)
      BY <1>0, <1>7, LiveIsSet DEF ReviewInv, ShowPlan, WorkInv
    <2>2. review' = [review EXCEPT ![a] = r] /\ UNCHANGED <<live, revisions, request, intact>>
      BY <1>7 DEF ShowPlan
    <2> HIDE DEF r
    <2>3. QED
      BY <1>0, <2>1, <2>2, ReviewSet, NothingStored DEF AuthoringInv
  <1>8. ASSUME NEW a \in Administrator, CloseRemoval(a) PROVE AuthoringInv'
    BY <1>0, <1>8, ReviewSet, NothingStored DEF CloseRemoval, AuthoringInv
  <1>9. ASSUME NEW a \in Administrator, ConfirmRemoval(a) PROVE AuthoringInv'
    <2> DEFINE x == review[a].target
               r == [step |-> "checked", base |-> live, whole |-> intact, removes |-> x]
    <2>1. /\ review[a] # Nothing /\ review[a].base # Absent /\ ~Blocked(review[a].base, x)
          /\ live = review[a].base
      BY <1>9 DEF ConfirmRemoval, CanPropose, Shown, Digest
    <2>2. ReviewInv(review[a])
      BY <1>0, <2>1 DEF WorkInv
    <2>3. RequestInv(r)
      BY <1>0, <2>1, <2>2 DEF RequestInv, ReviewInv, LiveInv
    <2>4. /\ request' = [request EXCEPT ![a] = r] /\ review' = [review EXCEPT ![a] = Nothing]
          /\ UNCHANGED <<live, revisions, intact>>
      BY <1>9 DEF ConfirmRemoval
    <2> HIDE DEF r
    <2>5. WorkInv'
      BY <1>0, <2>3, <2>4 DEF WorkInv, RequestInv, ReviewInv
    <2>6. QED
      BY <1>0, <2>4, <2>5, NothingStored DEF AuthoringInv
  <1>10. ASSUME NEW i \in Numbers, Resume(i) PROVE AuthoringInv'
    <2> DEFINE same == { k \in Kind : live[k] = revisions[i].content[k] }
               r == [revisions[i] EXCEPT !.state = "publishing", !.landed = @ \cup same]
    <2>1. RevisionInv(revisions[i]) /\ Open(revisions[i])
      BY <1>0, <1>10 DEF RevisionsInv, Resume, LastInFlight, Unfinished, Open
    <2>2. same \subseteq Kind
      OBVIOUS
    <2> HIDE DEF same
    <2>3. RevisionInv(r)
      BY <2>1, <2>2 DEF RevisionInv, Open
    <2>4. revisions' = [revisions EXCEPT ![i] = r] /\ UNCHANGED <<live, request, review, intact>>
      BY <1>0, <1>10 DEF Resume, RevisionsInv, same
    <2> HIDE DEF r
    <2>5. RevisionsInv'
      BY <1>0, <2>3, <2>4, RevisionChanged
    <2>6. QED
      BY <1>0, <2>4, <2>5 DEF AuthoringInv, LiveInv, WorkInv
  <1>11. ASSUME NEW i \in Numbers, NEW k \in Kind, Land(i, k) PROVE AuthoringInv'
    <2> DEFINE r == [revisions[i] EXCEPT !.landed = @ \cup {k}]
    <2>1. RevisionInv(revisions[i]) /\ Open(revisions[i])
      BY <1>0, <1>11 DEF RevisionsInv, Land, Open
    <2>2. RevisionInv(r)
      BY <2>1 DEF RevisionInv, Open
    <2>3. revisions' = [revisions EXCEPT ![i] = r] /\ UNCHANGED <<request, review>>
      BY <1>11 DEF Land
    <2> HIDE DEF r
    <2>4. RevisionsInv' /\ WorkInv'
      BY <1>0, <2>2, <2>3, RevisionChanged DEF WorkInv
    <2>5. IsSet(revisions[i].content) /\ live' = [live EXCEPT ![k] = revisions[i].content[k]]
      BY <1>11, <2>1 DEF RevisionInv, Land
    <2>6. DOMAIN live' = Kind /\ \A j \in Kind : live'[j] = Absent \/ IsPart(j, live'[j])
      BY <1>0, <2>5, SetParts DEF LiveInv
    <2>7. intact' => Resolves(live')
      <3>1. intact' = Whole(live')
        BY <1>11 DEF Land
      <3>2. \A j \in Numbers : revisions[j].whole => Resolves(revisions[j].content)
        BY <1>0 DEF RevisionsInv, RevisionInv
      <3>3. QED
        BY <3>1, <3>2 DEF Whole
    <2>8. LiveInv'
      BY <2>6, <2>7 DEF LiveInv, IsPart, Resolves
    <2>9. QED
      BY <2>4, <2>8 DEF AuthoringInv
  <1>12. ASSUME NEW i \in Numbers, Conclude(i) PROVE AuthoringInv'
    <2> DEFINE r == IF revisions[i].landed = Kind THEN Finished("active")
                    ELSE [revisions[i] EXCEPT !.state = "failed"]
    <2>1. RevisionInv(revisions[i]) /\ Open(revisions[i])
      BY <1>0, <1>12 DEF RevisionsInv, Conclude, Open
    <2>2. RevisionInv(r)
      BY <2>1, FinishedIsFine DEF RevisionInv, Open
    <2>3. revisions' = [revisions EXCEPT ![i] = r] /\ UNCHANGED <<live, request, review, intact>>
      BY <1>12 DEF Conclude
    <2> HIDE DEF r
    <2>4. QED
      BY <1>0, <2>2, <2>3, RevisionChanged DEF AuthoringInv, LiveInv, WorkInv
  <1>13. ASSUME NEW i \in Numbers, Withdraw(i) PROVE AuthoringInv'
    BY <1>0, <1>13, FinishedIsFine, RevisionChanged DEF Withdraw, AuthoringInv, LiveInv, WorkInv
  <1>14. CASE UNCHANGED authoringVars
    BY <1>0, <1>14, NothingStored DEF authoringVars, AuthoringInv, WorkInv
  <1>15. QED
    BY <1>1, <1>2, <1>3, <1>4, <1>5, <1>6, <1>7, <1>8, <1>9, <1>10, <1>11, <1>12, <1>13, <1>14
       DEF AuthoringNext

(* The invariant of all that follows, for any administrators, teams, models *)
(* and offers: what is stored and in flight is valid.                       *)
THEOREM AuthoringInvariant == AuthoringSpec => [](AuthoringInv /\ AuthoringTypeOK)
  <1>1. AuthoringInv => AuthoringTypeOK
    <2> SUFFICES ASSUME AuthoringInv PROVE AuthoringTypeOK
      OBVIOUS
    <2>1. LiveInv /\ RevisionsInv /\ WorkInv
      BY DEF AuthoringInv
    <2>2. Readable(live) => IsSet(live)
      BY <2>1, LiveIsSet
    <2>3. \A i \in Numbers :
            /\ revisions[i].state \in {"draft", "publishing", "failed", "active", "withdrawn"}
            /\ i \in Unfinished => IsSet(revisions[i].content) /\ revisions[i].landed \subseteq Kind
      BY <2>1 DEF RevisionsInv, RevisionInv, Unfinished, Open
    <2>4. \A a \in Administrator : request[a] # Nothing => IsSet(request[a].base)
      BY <2>1 DEF WorkInv, RequestInv
    <2>5. QED
      BY <2>2, <2>3, <2>4 DEF AuthoringTypeOK
  <1>2. QED
    BY <1>1, AuthoringStarts, AuthoringSteps, PTL DEF AuthoringSpec

(* In a set computed from a whole one every active binding allows only      *)
(* registered models.                                                       *)
THEOREM AuthoringResolves == AuthoringSpec => []BindingsResolve
  <1>1. AuthoringInv => BindingsResolve
    BY DEF AuthoringInv, RevisionsInv, RevisionInv, Unfinished, Open, BindingsResolve, Resolves
  <1>2. QED
    BY <1>1, AuthoringInvariant, PTL

(* A removal leaves nothing that names what it removes.                     *)
THEOREM AuthoringRemoves == AuthoringSpec => []RemovalLeavesNothing
  <1>1. AuthoringInv => RemovalLeavesNothing
    BY DEF AuthoringInv, RevisionsInv, RevisionInv, Unfinished, Open, RemovalLeavesNothing
  <1>2. QED
    BY <1>1, AuthoringInvariant, PTL

(* A plan shown without blockers can be carried out, but for the two        *)
(* refusals the property names.                                             *)
THEOREM AuthoringPlans == AuthoringSpec => []PlannedIsPossible
  <1>1. AuthoringInv => PlannedIsPossible
    <2> SUFFICES ASSUME AuthoringInv, NEW a \in Administrator, CanPropose(a), NoticeKept(review[a].base),
                        review[a].target \in Team => Agree(Teams(review[a].base) \ {review[a].target})
                 PROVE  \E s \in Removal(review[a].base, review[a].target) : IsSet(s)
      BY DEF PlannedIsPossible
    <2>1. ReviewInv(review[a]) /\ review[a].base # Absent /\ ~Blocked(review[a].base, review[a].target)
      BY DEF AuthoringInv, WorkInv, CanPropose, Shown
    <2>2. IsSet(review[a].base) /\ review[a].target \in Team \cup Model
      BY <2>1 DEF ReviewInv
    <2>3. QED
      BY <2>1, <2>2, RemovalPossible
  <1>2. QED
    BY <1>1, AuthoringInvariant, PTL

(* What the page lets be sent about the published set, the service accepts  *)
(* but for the refusals the property names, and those it always refuses.    *)
THEOREM AuthoringForms == AuthoringSpec => []FormsAreAccepted
  <1>1. AuthoringInv => FormsAreAccepted
    BY LiveIsSet, BindingsAreAccepted, PlansAreAccepted, PeopleAreAccepted DEF AuthoringInv, FormsAreAccepted
  <1>2. QED
    BY <1>1, AuthoringInvariant, PTL

(***************************************************************************)
(* ScheduleRunner: a window is recorded once, by the holder of the lease.  *)
(***************************************************************************)
Holding(r) == runner[r].phase \in {"claiming", "running", "recording", "releasing"}

\* What a runner's tag says about the stored checkpoint.
Held(r) ==
  /\ runner[r].tag <= version
  /\ Working(r) => 1 <= runner[r].tag
  /\ Working(r) /\ runner[r].tag = version => checkpoint = runner[r].plan
  /\ runner[r].phase # "idle" => runner[r].now <= clock - Lag
  /\ runner[r].phase = "claiming" /\ runner[r].tag = version /\ version # 0 =>
       /\ ~LeaseHeld(checkpoint, r, runner[r].now)
       /\ runner[r].plan.startedFrom = checkpoint.startedFrom
       /\ runner[r].plan.through = checkpoint.through
  /\ InLease(r) => runner[r].tag = version

\* What a runner's plan covers, and what has become of it.
Planned(r) ==
  /\ Holding(r) =>
       /\ runner[r].plan.owner = r
       /\ runner[r].plan.through <= runner[r].first
       /\ runner[r].first <= runner[r].next
       /\ runner[r].next <= runner[r].plan.plannedThrough
       /\ runner[r].plan.through .. (runner[r].first - 1) \subseteq runner[r].plan.skipped
       /\ runner[r].first .. (runner[r].next - 1) \subseteq ran
  /\ Working(r) => runner[r].plan.skipped \subseteq given
  /\ runner[r].phase \in {"claiming", "running"} =>
       runner[r].next < runner[r].plan.plannedThrough
  /\ runner[r].phase = "claiming" /\ runner[r].tag = 0 =>
       runner[r].plan.through = runner[r].plan.startedFrom

ScheduleInv ==
  /\ TypeOK
  /\ \A r \in Runner : Held(r)
  /\ \A r \in Runner : Planned(r)

-----------------------------------------------------------------------------
(* Planning *)

LEMMA PassedType ==
  ASSUME NEW instant \in Int
  PROVE  Passed(instant) \in Int
  BY TimeAssumption DEF Passed

LEMMA FreshType ==
  ASSUME NEW n \in Int
  PROVE  Fresh(n) \in Checkpoint
  BY DEF Fresh, Checkpoint

LEMMA StartType ==
  ASSUME NEW instant \in Int
  PROVE  Start(instant) \in Int
  BY PassedType, OriginAssumption DEF Start

LEMMA IdleType ==
  ASSUME NEW n \in Int
  PROVE  Idle(n) \in Process
  BY FreshType DEF Idle, Process, Phase

\* A plan keeps the checkpoint's origin and position, names its owner, and
\* reports every window between that position and the first it runs.
LEMMA LeasedPlan ==
  ASSUME NEW doc \in Checkpoint, NEW r \in Runner, NEW now \in Int, Due(doc, r, now),
         NEW plan, plan = Leased(doc, r, now),
         NEW first, first = FirstWindow(doc, now)
  PROVE  /\ plan \in Checkpoint
         /\ first \in Int
         /\ plan.owner = r
         /\ plan.startedFrom = doc.startedFrom
         /\ plan.through = doc.through
         /\ plan.through <= first
         /\ first < plan.plannedThrough
         /\ plan.through .. (first - 1) \subseteq plan.skipped
  <1>1. PICK last : last = Passed(now)
    OBVIOUS
  <1>2. last \in Int
    BY <1>1, PassedType
  <1>3. /\ doc.through \in Int /\ doc.startedFrom \in Int /\ doc.skipped \in SUBSET Int
        /\ doc.owner \in Runner \cup {Nobody} /\ doc.expiresAt \in Int
    BY DEF Checkpoint
  <1>4. last - doc.through >= 1
    BY <1>1 DEF Due, Closed
  <1>5. PICK lead : lead = FirstIndex(last - doc.through)
    OBVIOUS
  <1>6. /\ lead \in Int
        /\ 0 <= lead
        /\ lead < last - doc.through
        /\ first = doc.through + lead
    BY <1>1, <1>2, <1>3, <1>4, <1>5, TimeAssumption DEF FirstIndex, FirstWindow, Closed
  <1>7. /\ plan.owner = r
        /\ plan.startedFrom = doc.startedFrom
        /\ plan.through = doc.through
        /\ plan.plannedThrough = last
        /\ plan.expiresAt = now + LeaseLength
        /\ plan.skipped = IF lead = 0 THEN doc.skipped ELSE doc.through .. (first - 1)
        /\ plan = [startedFrom |-> plan.startedFrom, through |-> plan.through,
                   owner |-> plan.owner, expiresAt |-> plan.expiresAt,
                   plannedThrough |-> plan.plannedThrough, skipped |-> plan.skipped]
    BY <1>1, <1>5, <1>6 DEF Leased, Closed, Checkpoint
  <1>8. plan \in Checkpoint
    BY <1>2, <1>3, <1>6, <1>7, TimeAssumption DEF Checkpoint
  <1>9. QED
    BY <1>2, <1>3, <1>6, <1>7, <1>8
-----------------------------------------------------------------------------
(* Initial states *)

LEMMA InitInv == Init => ScheduleInv
  <1> SUFFICES ASSUME Init PROVE ScheduleInv
    OBVIOUS
  <1>1. Start(0) \in Int
    BY StartType
  <1>2. PICK origin \in Int : origin = Start(0)
    BY <1>1
  <1>3. checkpoint \in Checkpoint /\ runner \in [Runner -> Process]
    BY <1>2, FreshType, IdleType DEF Init
  <1>4. \A r \in Runner : runner[r].phase = "idle" /\ runner[r].tag = 0
    BY DEF Init, Idle
  <1>5. TypeOK
    <2>1. \A r \in Runner : InPlan(r)
      BY <1>4 DEF InPlan, Working
    <2>2. /\ 0 \in 0 .. MaxClock /\ 0 \in 0 .. MaxFailure /\ 0 \in 0 .. MaxCrash
          /\ 0 \in Nat /\ {} \subseteq Int
      BY BoundAssumption
    <2>3. QED
      BY <1>3, <2>1, <2>2 DEF Init, TypeOK
  <1>6. \A r \in Runner : Held(r) /\ Planned(r)
    <2>1. version = 0
      BY DEF Init
    <2>2. SUFFICES ASSUME NEW r \in Runner
                   PROVE  Held(r) /\ Planned(r)
      OBVIOUS
    <2>3. runner[r].tag <= version
      BY <1>4, <2>1
    <2>4. ~Working(r) /\ ~Holding(r) /\ runner[r].phase \notin {"claiming", "running"}
      BY <1>4 DEF Working, Holding
    <2>5. Held(r)
      BY <1>4, <2>3, <2>4 DEF Held, InLease
    <2>6. Planned(r)
      BY <2>4 DEF Planned
    <2>7. QED
      BY <2>5, <2>6
  <1>7. QED
    BY <1>5, <1>6 DEF ScheduleInv

-----------------------------------------------------------------------------
(* Runners that a step is not about *)

\* A step that leaves what s knows alone and does not write over a lease of s.
Bystander(s) ==
  /\ runner'[s] = runner[s]
  /\ clock \in Int /\ clock' \in Int /\ clock <= clock'
  /\ ran \subseteq ran' /\ given \subseteq given'
  /\ \/ UNCHANGED <<checkpoint, version>>
     \/ version' = version + 1 /\ ~InLease(s)

LEMMA BystanderKept ==
  ASSUME NEW s \in Runner, ScheduleInv, Bystander(s)
  PROVE  Held(s)' /\ Planned(s)'
  <1>1. PICK p \in Process : p = runner[s]
    BY DEF ScheduleInv, TypeOK
  <1>2. p.tag \in Nat /\ p.now \in Int /\ p.plan.expiresAt \in Int /\ version \in Nat
    BY <1>1 DEF Process, Checkpoint, ScheduleInv, TypeOK
  <1>3. runner'[s] = p /\ Held(s) /\ Planned(s)
    BY <1>1 DEF Bystander, ScheduleInv
  <1>4. InLease(s)' => InLease(s)
    BY <1>1, <1>2, <1>3, TimeAssumption DEF Bystander, InLease, Working
  <1>5. Planned(s)'
    BY <1>1, <1>3 DEF Bystander, Planned, Holding, Working
  <1>6. CASE UNCHANGED <<checkpoint, version>>
    <2>1. LeaseHeld(checkpoint, s, p.now)' <=> LeaseHeld(checkpoint, s, p.now)
      BY <1>6 DEF LeaseHeld
    <2>2. p.phase # "idle" => p.now <= clock' - Lag
      BY <1>1, <1>2, <1>3, TimeAssumption DEF Bystander, Held
    <2>3. QED
      BY <1>1, <1>3, <1>4, <1>5, <1>6, <2>1, <2>2 DEF Held, Working
  <1>7. CASE version' = version + 1 /\ ~InLease(s)
    <2>1. p.tag < version'
      BY <1>1, <1>2, <1>3, <1>7 DEF Held
    <2>2. p.phase # "idle" => p.now <= clock' - Lag
      BY <1>1, <1>2, <1>3, TimeAssumption DEF Bystander, Held
    <2>3. QED
      BY <1>1, <1>2, <1>3, <1>4, <1>5, <1>7, <2>1, <2>2 DEF Held, Working
  <1>8. QED
    BY <1>6, <1>7 DEF Bystander

\* Whoever may write finds no other runner within its lease: a claim was
\* planned on the stored checkpoint after that lease ran out, and two runners
\* at work cannot hold the same tag.
LEMMA NobodyElseInLease ==
  ASSUME NEW r \in Runner, NEW s \in Runner, r # s, ScheduleInv,
         \/ runner[r].phase \in {"claiming", "recording", "releasing"} /\ TagHolds(r)
         \/ version = 0
  PROVE  ~InLease(s)
  <1> SUFFICES ASSUME InLease(s) PROVE FALSE
    OBVIOUS
  <1>1. PICK p \in Process : p = runner[r]
    BY DEF ScheduleInv, TypeOK
  <1>2. PICK q \in Process : q = runner[s]
    BY DEF ScheduleInv, TypeOK
  <1>3. Held(r) /\ Held(s) /\ Planned(r) /\ Planned(s) /\ version \in Nat /\ clock \in Int
    BY DEF ScheduleInv, TypeOK
  <1>4. q.tag = version /\ version # 0 /\ checkpoint = q.plan
    BY <1>2, <1>3 DEF Held, InLease
  <1>5. checkpoint.owner = s
    BY <1>2, <1>3, <1>4 DEF Planned, Holding, InLease, Working
  <1>6. CASE p.phase = "claiming" /\ TagHolds(r)
    <2>1. ~LeaseHeld(checkpoint, r, p.now) /\ p.now <= clock - Lag
      BY <1>1, <1>3, <1>4, <1>6 DEF Held, TagHolds
    <2>2. ~(p.now < q.plan.expiresAt)
      BY <1>4, <1>5, <2>1, RunnerAssumption DEF LeaseHeld
    <2>3. clock - Lag < q.plan.expiresAt /\ q.plan.expiresAt \in Int /\ p.now \in Int
      BY <1>1, <1>2 DEF InLease, Process, Checkpoint
    <2>4. QED
      BY <1>3, <2>1, <2>2, <2>3, TimeAssumption
  <1>7. CASE p.phase \in {"recording", "releasing"} /\ TagHolds(r)
    BY <1>1, <1>3, <1>5, <1>7 DEF Held, Planned, Holding, Working, TagHolds
  <1>8. QED
    BY <1>1, <1>4, <1>6, <1>7
-----------------------------------------------------------------------------
(* Steps *)

\* A step of r: what it owes of the types and of r itself; the other runners
\* are bystanders.
StepOf(r) ==
  /\ \E p \in Process : runner' = [runner EXCEPT ![r] = p]
  /\ clock' = clock
  /\ ran' \subseteq Int /\ ran \subseteq ran'
  /\ given' \subseteq Int /\ given \subseteq given'
  /\ failures' \in 0 .. MaxFailure /\ crashes' \in 0 .. MaxCrash
  /\ \/ UNCHANGED <<checkpoint, version>>
     \/ /\ checkpoint' \in Checkpoint
        /\ version' = version + 1
        /\ \/ runner[r].phase \in {"claiming", "recording", "releasing"} /\ TagHolds(r)
           \/ version = 0
  /\ InPlan(r)' /\ Held(r)' /\ Planned(r)'

LEMMA StepKeepsInv ==
  ASSUME NEW r \in Runner, ScheduleInv, StepOf(r)
  PROVE  ScheduleInv'
  <1>1. PICK p \in Process : runner' = [runner EXCEPT ![r] = p]
    BY DEF StepOf
  <1>2. clock \in Int /\ version \in Nat /\ runner \in [Runner -> Process]
    BY DEF ScheduleInv, TypeOK
  <1>3. ASSUME NEW s \in Runner, s # r
        PROVE  InPlan(s)' /\ Held(s)' /\ Planned(s)'
    <2>1. runner'[s] = runner[s]
      BY <1>1, <1>2, <1>3
    <2>2. UNCHANGED <<checkpoint, version>> \/ (version' = version + 1 /\ ~InLease(s))
      BY <1>3, NobodyElseInLease DEF StepOf
    <2>3. Bystander(s)
      BY <1>2, <2>1, <2>2 DEF Bystander, StepOf
    <2>4. InPlan(s)'
      BY <2>1 DEF InPlan, Working, ScheduleInv, TypeOK
    <2>5. QED
      BY <2>3, <2>4, BystanderKept
  <1>4. \A s \in Runner : InPlan(s)' /\ Held(s)' /\ Planned(s)'
    BY <1>3 DEF StepOf
  <1>5. runner' \in [Runner -> Process] /\ checkpoint' \in Checkpoint /\ version' \in Nat
    BY <1>1, <1>2 DEF StepOf, ScheduleInv, TypeOK
  <1>6. TypeOK'
    BY <1>4, <1>5 DEF StepOf, ScheduleInv, TypeOK
  <1>7. QED
    BY <1>4, <1>6 DEF ScheduleInv

\* A tick that ends leaves nothing to hold.
LEMMA IdleHolds ==
  ASSUME NEW r \in Runner, NEW seed \in Int, runner' = [runner EXCEPT ![r] = Idle(seed)],
         runner \in [Runner -> Process], version' \in Nat
  PROVE  /\ \E p \in Process : runner' = [runner EXCEPT ![r] = p]
         /\ InPlan(r)' /\ Held(r)' /\ Planned(r)'
  <1>1. PICK p \in Process : p = Idle(seed)
    BY IdleType
  <1>2. runner'[r] = p /\ p.phase = "idle" /\ p.tag = 0
    BY <1>1 DEF Idle
  <1>3. InPlan(r)' /\ Planned(r)'
    BY <1>2 DEF InPlan, Planned, Holding, Working
  <1>4. Held(r)'
    BY <1>2 DEF Held, Working, InLease
  <1>5. QED
    BY <1>1, <1>3, <1>4
LEMMA TickStep ==
  ASSUME NEW r \in Runner, ScheduleInv, Tick(r)
  PROVE  StepOf(r)
  <1>1. PICK p \in Process : p = runner[r]
    BY DEF ScheduleInv, TypeOK
  <1>2. clock \in Int /\ version \in Nat /\ runner \in [Runner -> Process] /\ clock - Lag \in Int
    BY TimeAssumption DEF ScheduleInv, TypeOK
  <1>3. PICK q : q = [p EXCEPT !.phase = "reading", !.now = clock - Lag]
    OBVIOUS
  <1>4. q \in Process /\ q.phase = "reading" /\ q.now = clock - Lag /\ q.tag = p.tag
    BY <1>2, <1>3 DEF Process, Phase
  <1>5. runner' = [runner EXCEPT ![r] = q]
    BY <1>1, <1>3 DEF Tick
  <1>6. runner'[r] = q
    BY <1>2, <1>5
  <1>7. clock' = clock /\ version' = version
    BY DEF Tick, Unstored
  <1>8. InPlan(r)' /\ Planned(r)'
    BY <1>4, <1>6 DEF InPlan, Planned, Holding, Working
  <1>9. Held(r)'
    <2>1. p.tag <= version
      BY <1>1 DEF ScheduleInv, Held
    <2>2. ~Working(r)'
      BY <1>4, <1>6 DEF Working
    <2>3. QED
      BY <1>2, <1>4, <1>6, <1>7, <2>1, <2>2 DEF Held, InLease
  <1>10. QED
    BY <1>4, <1>5, <1>8, <1>9 DEF Tick, Unstored, StepOf, ScheduleInv, TypeOK

\* What a runner that finds work has planned.
LEMMA ReadPlans ==
  ASSUME NEW r \in Runner, NEW doc, Read(r),
         doc = IF version = 0 THEN Fresh(runner[r].seed) ELSE checkpoint,
         Due(doc, r, runner[r].now)
  PROVE  runner' = [runner EXCEPT ![r].phase = "claiming", ![r].tag = version,
                                  ![r].plan = Leased(doc, r, runner[r].now),
                                  ![r].first = FirstWindow(doc, runner[r].now),
                                  ![r].next = FirstWindow(doc, runner[r].now)]
  BY DEF Read

LEMMA ReadStep ==
  ASSUME NEW r \in Runner, ScheduleInv, Read(r)
  PROVE  StepOf(r)
  <1>1. PICK p \in Process : p = runner[r]
    BY DEF ScheduleInv, TypeOK
  <1>2. /\ version \in Nat /\ runner \in [Runner -> Process] /\ checkpoint \in Checkpoint
        /\ p.now \in Int /\ p.seed \in Int
    BY DEF ScheduleInv, TypeOK, Process
  <1>3. p.phase = "reading" /\ p.now <= clock - Lag
    BY <1>1 DEF Read, ScheduleInv, Held
  <1>4. PICK doc \in Checkpoint : doc = IF version = 0 THEN Fresh(p.seed) ELSE checkpoint
    BY <1>2, FreshType
  <1>5. clock' = clock /\ version' = version /\ checkpoint' = checkpoint /\ ran' = ran /\ given' = given
    BY DEF Read, Unstored
  <1>6. CASE Due(doc, r, p.now)
    <2>1. PICK plan, first : plan = Leased(doc, r, p.now) /\ first = FirstWindow(doc, p.now)
      OBVIOUS
    <2>2. /\ plan \in Checkpoint /\ first \in Int /\ plan.owner = r
          /\ plan.startedFrom = doc.startedFrom /\ plan.through = doc.through
          /\ plan.through <= first /\ first < plan.plannedThrough
          /\ plan.through .. (first - 1) \subseteq plan.skipped
      BY <1>2, <1>6, <2>1, LeasedPlan
    <2>3. PICK q : q = [p EXCEPT !.phase = "claiming", !.tag = version, !.plan = plan,
                                 !.first = first, !.next = first]
      OBVIOUS
    <2>4. /\ q \in Process /\ q.phase = "claiming" /\ q.tag = version /\ q.plan = plan
          /\ q.first = first /\ q.next = first /\ q.now = p.now
      BY <1>2, <2>2, <2>3 DEF Process, Phase
    <2>5. runner' = [runner EXCEPT ![r] = q]
      <3>1. /\ doc = IF version = 0 THEN Fresh(runner[r].seed) ELSE checkpoint
            /\ Due(doc, r, runner[r].now)
        BY <1>1, <1>4, <1>6
      <3>2. runner' = [runner EXCEPT ![r].phase = "claiming", ![r].tag = version,
                                     ![r].plan = Leased(doc, r, runner[r].now),
                                     ![r].first = FirstWindow(doc, runner[r].now),
                                     ![r].next = FirstWindow(doc, runner[r].now)]
        BY <3>1, ReadPlans
      <3>3. runner' = [runner EXCEPT ![r].phase = "claiming", ![r].tag = version, ![r].plan = plan,
                                     ![r].first = first, ![r].next = first]
        BY <1>1, <2>1, <3>2
      <3>4. QED
        BY <1>1, <2>3, <3>3
    <2>6. runner'[r] = q
      BY <1>2, <2>5
    <2>7. ~Working(r)' /\ InPlan(r)'
      BY <2>4, <2>6 DEF Working, InPlan
    <2>8. Held(r)'
      <3>1. version # 0 => doc = checkpoint
        BY <1>4
      <3>2. ~LeaseHeld(doc, r, p.now)
        BY <1>6 DEF Due
      <3>3. version # 0 => ~LeaseHeld(checkpoint, r, q.now)' /\ ~LeaseHeld(checkpoint', r, p.now)
        BY <1>5, <2>4, <3>1, <3>2 DEF LeaseHeld
      <3>4. QED
        BY <1>2, <1>3, <1>5, <2>2, <2>4, <2>6, <2>7, <3>1, <3>3 DEF Held, InLease
    <2>9. Planned(r)'
      <3>1. version = 0 => doc.through = doc.startedFrom
        BY <1>4 DEF Fresh
      <3>2. first .. (first - 1) = {}
        BY <2>2
      <3>3. plan.plannedThrough \in Int /\ plan.through \in Int
        BY <2>2 DEF Checkpoint
      <3>4. first <= plan.plannedThrough
        BY <2>2, <3>3
      <3>5. QED
        BY <2>2, <2>4, <2>6, <2>7, <3>1, <3>2, <3>4, <1>5 DEF Planned
    <2>10. QED
      BY <2>4, <2>5, <2>7, <2>8, <2>9 DEF Read, Unstored, StepOf, ScheduleInv, TypeOK
  <1>7. CASE ~Due(doc, r, p.now) /\ version = 0
    <2>1. PICK q : q = [p EXCEPT !.phase = "seeding"]
      OBVIOUS
    <2>2. q \in Process /\ q.phase = "seeding" /\ q.now = p.now /\ q.tag = p.tag
      BY <2>1 DEF Process, Phase
    <2>3. runner' = [runner EXCEPT ![r] = q]
      BY <1>1, <1>4, <1>7, <2>1 DEF Read, Goto
    <2>4. runner'[r] = q
      BY <1>2, <2>3
    <2>5. ~Working(r)' /\ InPlan(r)' /\ Planned(r)'
      BY <2>2, <2>4 DEF Working, InPlan, Planned, Holding
    <2>6. Held(r)'
      <3>1. p.tag <= version
        BY <1>1 DEF ScheduleInv, Held
      <3>2. QED
        BY <1>3, <1>5, <2>2, <2>4, <2>5, <3>1 DEF Held, InLease
    <2>7. QED
      BY <2>2, <2>3, <2>5, <2>6 DEF Read, Unstored, StepOf, ScheduleInv, TypeOK
  <1>8. CASE ~Due(doc, r, p.now) /\ version # 0
    <2>1. runner' = [runner EXCEPT ![r] = Idle(p.seed)]
      BY <1>1, <1>4, <1>8 DEF Read, EndTick
    <2>2. QED
      BY <1>2, <1>5, <2>1, IdleHolds DEF Read, Unstored, StepOf, ScheduleInv, TypeOK
  <1>9. QED
    BY <1>6, <1>7, <1>8
LEMMA SeedStep ==
  ASSUME NEW r \in Runner, ScheduleInv, Seed(r)
  PROVE  StepOf(r)
  <1>1. PICK p \in Process : p = runner[r]
    BY DEF ScheduleInv, TypeOK
  <1>2. /\ version \in Nat /\ runner \in [Runner -> Process] /\ checkpoint \in Checkpoint
        /\ p.seed \in Int /\ p.plan \in Checkpoint /\ p.tag \in Nat
        /\ p.now \in Int /\ p.first \in Int /\ p.next \in Int
        /\ ran \subseteq Int /\ given \subseteq Int
    BY <1>1 DEF ScheduleInv, TypeOK, Process
  <1>3. runner' = [runner EXCEPT ![r] = Idle(p.seed)] /\ clock' = clock
    BY <1>1 DEF Seed, EndTick
  <1>4. CASE version = 0
    <2>1. checkpoint' = Fresh(p.seed) /\ version' = version + 1 /\ given' = given \cup Fresh(p.seed).skipped
      BY <1>1, <1>4 DEF Seed, Put
    <2>2. Fresh(p.seed) \in Checkpoint /\ Fresh(p.seed).skipped = {}
      BY <1>2, FreshType DEF Fresh
    <2>3. version' \in Nat /\ given' = given
      BY <1>2, <2>1, <2>2
    <2>4. /\ \E q \in Process : runner' = [runner EXCEPT ![r] = q]
          /\ InPlan(r)' /\ Held(r)' /\ Planned(r)'
      BY <1>2, <1>3, <2>3, IdleHolds
    <2>5. /\ ran' = ran
          /\ failures' \in 0 .. MaxFailure /\ crashes' \in 0 .. MaxCrash
      BY DEF Seed, ScheduleInv, TypeOK
    <2>6. QED
      BY <1>2, <1>3, <1>4, <2>1, <2>2, <2>3, <2>4, <2>5 DEF StepOf
  <1>5. CASE version # 0
    BY <1>2, <1>3, <1>5, IdleHolds DEF Seed, Unstored, StepOf, ScheduleInv, TypeOK
  <1>6. QED
    BY <1>4, <1>5

LEMMA ClaimStep ==
  ASSUME NEW r \in Runner, ScheduleInv, Claim(r)
  PROVE  StepOf(r)
  <1>1. PICK p \in Process : p = runner[r]
    BY DEF ScheduleInv, TypeOK
  <1>2. /\ version \in Nat /\ runner \in [Runner -> Process] /\ checkpoint \in Checkpoint
        /\ p.seed \in Int /\ p.plan \in Checkpoint /\ p.tag \in Nat
        /\ p.now \in Int /\ p.first \in Int /\ p.next \in Int
        /\ ran \subseteq Int /\ given \subseteq Int
    BY <1>1 DEF ScheduleInv, TypeOK, Process
  <1>3. p.phase = "claiming" /\ clock' = clock /\ ran' = ran
    BY <1>1 DEF Claim
  <1>4. CASE TagHolds(r)
    <2>1. checkpoint' = p.plan /\ version' = version + 1 /\ given' = given \cup p.plan.skipped
      BY <1>1, <1>4 DEF Claim, Put
    <2>2. PICK q : q = [p EXCEPT !.phase = "running", !.tag = version + 1]
      OBVIOUS
    <2>3. /\ q \in Process /\ q.phase = "running" /\ q.tag = version + 1 /\ q.plan = p.plan
          /\ q.first = p.first /\ q.next = p.next /\ q.now = p.now
      <3>1. version + 1 \in Nat
        BY <1>2
      <3>2. QED
        BY <1>2, <2>2, <3>1 DEF Process, Phase
    <2>4. runner' = [runner EXCEPT ![r] = q]
      BY <1>1, <1>4, <2>2 DEF Claim
    <2>5. runner'[r] = q
      BY <1>2, <2>4
    <2>6. p.now <= clock - Lag
      BY <1>1, <1>3 DEF ScheduleInv, Held
    <2>7. Held(r)'
      BY <1>2, <1>3, <2>1, <2>3, <2>5, <2>6 DEF Held
    <2>8. /\ p.plan.owner = r /\ p.plan.through <= p.first /\ p.first <= p.next
          /\ p.next <= p.plan.plannedThrough /\ p.next < p.plan.plannedThrough
          /\ p.plan.through .. (p.first - 1) \subseteq p.plan.skipped
          /\ p.first .. (p.next - 1) \subseteq ran
      BY <1>1, <1>3 DEF ScheduleInv, Planned, Holding
    <2>9. Planned(r)' /\ InPlan(r)'
      BY <1>3, <2>1, <2>3, <2>5, <2>8 DEF Planned, InPlan
    <2>10. p.plan.skipped \subseteq Int
      BY <1>2 DEF Checkpoint
    <2>11. QED
      BY <1>1, <1>2, <1>3, <1>4, <2>1, <2>3, <2>4, <2>7, <2>9, <2>10
         DEF Claim, StepOf, ScheduleInv, TypeOK
  <1>5. CASE ~TagHolds(r)
    <2>1. runner' = [runner EXCEPT ![r] = Idle(p.seed)]
      BY <1>1, <1>5 DEF Claim, EndTick
    <2>2. QED
      BY <1>2, <1>5, <2>1, IdleHolds DEF Claim, Unstored, StepOf, ScheduleInv, TypeOK
  <1>6. QED
    BY <1>4, <1>5

\* A step within a run that stores nothing: the runner stays at work on the
\* plan it claimed.
LEMMA StillWorking ==
  ASSUME NEW r \in Runner, ScheduleInv, Unstored, clock' = clock, ran \subseteq ran',
         NEW p \in Process, p = runner[r], p.phase = "running",
         NEW q \in Process, runner' = [runner EXCEPT ![r] = q],
         q.tag = p.tag, q.now = p.now, q.plan = p.plan, q.first = p.first,
         q.phase \in {"running", "recording", "releasing"},
         p.next <= q.next, q.next <= q.plan.plannedThrough,
         q.phase = "running" => q.next < q.plan.plannedThrough,
         q.first .. (q.next - 1) \subseteq ran'
  PROVE  InPlan(r)' /\ Held(r)' /\ Planned(r)'
  <1>1. runner'[r] = q /\ checkpoint' = checkpoint /\ version' = version /\ given' = given
    BY DEF ScheduleInv, TypeOK, Unstored
  <1>2. Held(r) /\ Planned(r) /\ Working(r) /\ Working(r)'
    BY <1>1 DEF ScheduleInv, Working
  <1>3. InLease(r)' => InLease(r)
    BY <1>1, <1>2 DEF InLease
  <1>4. Held(r)'
    BY <1>1, <1>2, <1>3 DEF Held
  <1>5. /\ p.plan.owner = r /\ p.plan.through <= p.first /\ p.first <= p.next
        /\ p.plan.through .. (p.first - 1) \subseteq p.plan.skipped
        /\ p.plan.skipped \subseteq given
    BY <1>2 DEF Planned, Holding
  <1>6. p.first \in Int /\ p.next \in Int /\ q.next \in Int
    BY DEF Process
  <1>7. q.first <= q.next
    BY <1>5, <1>6
  <1>8. Planned(r)' /\ InPlan(r)'
    BY <1>1, <1>5, <1>7 DEF Planned, InPlan
  <1>9. QED
    BY <1>4, <1>8

LEMMA RunWindowStep ==
  ASSUME NEW r \in Runner, ScheduleInv, RunWindow(r)
  PROVE  StepOf(r)
  <1>1. PICK p \in Process : p = runner[r]
    BY DEF ScheduleInv, TypeOK
  <1>2. /\ version \in Nat /\ runner \in [Runner -> Process] /\ checkpoint \in Checkpoint
        /\ p.seed \in Int /\ p.plan \in Checkpoint /\ p.tag \in Nat
        /\ p.now \in Int /\ p.first \in Int /\ p.next \in Int
        /\ ran \subseteq Int /\ given \subseteq Int
    BY <1>1 DEF ScheduleInv, TypeOK, Process
  <1>3. p.phase = "running" /\ clock' = clock /\ ran' = ran \cup {p.next} /\ Unstored
    BY <1>1 DEF RunWindow
  <1>4. /\ p.plan.plannedThrough \in Int /\ p.next < p.plan.plannedThrough
        /\ p.first <= p.next /\ p.first .. (p.next - 1) \subseteq ran
    BY <1>1, <1>2, <1>3 DEF ScheduleInv, Planned, Holding, Checkpoint
  <1>5. PICK q : q = [p EXCEPT !.next = p.next + 1,
                               !.phase = IF p.next + 1 = p.plan.plannedThrough
                                           THEN "recording" ELSE "running"]
    OBVIOUS
  <1>6. /\ q \in Process /\ q.tag = p.tag /\ q.now = p.now /\ q.plan = p.plan /\ q.first = p.first
        /\ q.next = p.next + 1
        /\ q.phase = IF p.next + 1 = p.plan.plannedThrough THEN "recording" ELSE "running"
    <2>1. PICK next \in Int : next = p.next + 1
      BY <1>2
    <2>2. PICK phase \in {"recording", "running"} :
            phase = IF next = p.plan.plannedThrough THEN "recording" ELSE "running"
      OBVIOUS
    <2>3. q = [p EXCEPT !.next = next, !.phase = phase]
      BY <1>5, <2>1, <2>2
    <2>4. QED
      BY <1>2, <2>1, <2>2, <2>3 DEF Process, Phase
  <1>7. runner' = [runner EXCEPT ![r] = q]
    BY <1>1, <1>5 DEF RunWindow
  <1>8. q.first .. (q.next - 1) \subseteq ran'
    BY <1>2, <1>3, <1>4, <1>6
  <1>9. InPlan(r)' /\ Held(r)' /\ Planned(r)'
    <2>1. q.phase \in {"running", "recording", "releasing"}
      BY <1>6
    <2>2. /\ p.next <= q.next /\ q.next <= q.plan.plannedThrough
          /\ q.phase = "running" => q.next < q.plan.plannedThrough
      BY <1>2, <1>4, <1>6
    <2>3. ran \subseteq ran'
      BY <1>3
    <2>4. QED
      BY <1>1, <1>3, <1>6, <1>7, <1>8, <2>1, <2>2, <2>3, StillWorking
  <1>10. QED
    BY <1>2, <1>3, <1>6, <1>7, <1>9 DEF RunWindow, Unstored, StepOf, ScheduleInv, TypeOK

LEMMA FailWindowStep ==
  ASSUME NEW r \in Runner, ScheduleInv, FailWindow(r)
  PROVE  StepOf(r)
  <1>1. PICK p \in Process : p = runner[r]
    BY DEF ScheduleInv, TypeOK
  <1>2. /\ version \in Nat /\ runner \in [Runner -> Process] /\ checkpoint \in Checkpoint
        /\ p.seed \in Int /\ p.plan \in Checkpoint /\ p.tag \in Nat
        /\ p.now \in Int /\ p.first \in Int /\ p.next \in Int
        /\ ran \subseteq Int /\ given \subseteq Int
    BY <1>1 DEF ScheduleInv, TypeOK, Process
  <1>3. p.phase = "running" /\ clock' = clock /\ ran' = ran /\ Unstored
    BY <1>1 DEF FailWindow
  <1>4. p.next <= p.plan.plannedThrough /\ p.first .. (p.next - 1) \subseteq ran
    BY <1>1, <1>3 DEF ScheduleInv, Planned, Holding
  <1>5. PICK phase \in {"releasing", "recording"} :
          phase = IF p.next = p.first THEN "releasing" ELSE "recording"
    OBVIOUS
  <1>6. PICK q : q = [p EXCEPT !.phase = phase]
    OBVIOUS
  <1>7. /\ q \in Process /\ q.tag = p.tag /\ q.now = p.now /\ q.plan = p.plan /\ q.first = p.first
        /\ q.next = p.next /\ q.phase = phase
    BY <1>2, <1>6 DEF Process, Phase
  <1>8. runner' = [runner EXCEPT ![r] = q]
    BY <1>1, <1>5, <1>6 DEF FailWindow, Goto
  <1>9. InPlan(r)' /\ Held(r)' /\ Planned(r)'
    <2>1. q.phase \in {"running", "recording", "releasing"} /\ q.phase # "running"
      BY <1>5, <1>7
    <2>2. p.next <= q.next /\ q.next <= q.plan.plannedThrough /\ q.first .. (q.next - 1) \subseteq ran'
      BY <1>2, <1>3, <1>4, <1>7
    <2>3. ran \subseteq ran'
      BY <1>3
    <2>4. QED
      BY <1>1, <1>3, <1>7, <1>8, <2>1, <2>2, <2>3, StillWorking
  <1>10. failures' \in 0 .. MaxFailure
    BY BoundAssumption DEF FailWindow, ScheduleInv, TypeOK
  <1>11. QED
    BY <1>2, <1>3, <1>7, <1>8, <1>9, <1>10 DEF FailWindow, Unstored, StepOf, ScheduleInv, TypeOK
LEMMA RecordStep ==
  ASSUME NEW r \in Runner, ScheduleInv, Record(r)
  PROVE  StepOf(r)
  <1>1. PICK p \in Process : p = runner[r]
    BY DEF ScheduleInv, TypeOK
  <1>2. /\ version \in Nat /\ runner \in [Runner -> Process] /\ checkpoint \in Checkpoint
        /\ p.seed \in Int /\ p.plan \in Checkpoint /\ p.tag \in Nat
        /\ p.now \in Int /\ p.first \in Int /\ p.next \in Int
        /\ ran \subseteq Int /\ given \subseteq Int
    BY <1>1 DEF ScheduleInv, TypeOK, Process
  <1>3. runner' = [runner EXCEPT ![r] = Idle(p.seed)] /\ clock' = clock /\ ran' = ran
    BY <1>1 DEF Record, EndTick
  <1>4. /\ failures' \in 0 .. MaxFailure /\ crashes' \in 0 .. MaxCrash
        /\ p.phase = "recording"
    BY <1>1 DEF Record, ScheduleInv, TypeOK
  <1>5. PICK doc \in Checkpoint : doc = Completed(p.plan, p.next) /\ doc.skipped \subseteq given
    <2>1. p.plan.skipped \subseteq given
      BY <1>1, <1>4 DEF ScheduleInv, Planned, Working
    <2>2. PICK doc : doc = Completed(p.plan, p.next)
      OBVIOUS
    <2>3. doc \in Checkpoint /\ doc.skipped = p.plan.skipped
      BY <1>2, <2>2 DEF Checkpoint, Completed, Unleased
    <2>4. QED
      BY <2>1, <2>2, <2>3
  <1>6. \/ Unstored
        \/ TagHolds(r) /\ checkpoint' = doc /\ version' = version + 1 /\ given' = given \cup doc.skipped
    BY <1>1, <1>5 DEF Record, Put
  <1>7. /\ given' = given /\ version' \in Nat
        /\ \/ UNCHANGED <<checkpoint, version>>
           \/ checkpoint' \in Checkpoint /\ version' = version + 1 /\ TagHolds(r)
    <2>1. given' = given
      BY <1>5, <1>6 DEF Unstored
    <2>2. QED
      BY <1>2, <1>5, <1>6, <2>1 DEF Unstored
  <1>8. /\ \E q \in Process : runner' = [runner EXCEPT ![r] = q]
        /\ InPlan(r)' /\ Held(r)' /\ Planned(r)'
    BY <1>2, <1>3, <1>7, IdleHolds
  <1>9. QED
    BY <1>1, <1>2, <1>3, <1>4, <1>7, <1>8 DEF StepOf

LEMMA ReleaseStep ==
  ASSUME NEW r \in Runner, ScheduleInv, Release(r)
  PROVE  StepOf(r)
  <1>1. PICK p \in Process : p = runner[r]
    BY DEF ScheduleInv, TypeOK
  <1>2. /\ version \in Nat /\ runner \in [Runner -> Process] /\ checkpoint \in Checkpoint
        /\ p.seed \in Int /\ p.plan \in Checkpoint /\ p.tag \in Nat
        /\ p.now \in Int /\ p.first \in Int /\ p.next \in Int
        /\ ran \subseteq Int /\ given \subseteq Int
    BY <1>1 DEF ScheduleInv, TypeOK, Process
  <1>3. runner' = [runner EXCEPT ![r] = Idle(p.seed)] /\ clock' = clock /\ ran' = ran
    BY <1>1 DEF Release, EndTick
  <1>4. /\ failures' \in 0 .. MaxFailure /\ crashes' \in 0 .. MaxCrash
        /\ p.phase = "releasing"
    BY <1>1 DEF Release, ScheduleInv, TypeOK
  <1>5. PICK doc \in Checkpoint : doc = Unleased(p.plan) /\ doc.skipped \subseteq given
    <2>1. p.plan.skipped \subseteq given
      BY <1>1, <1>4 DEF ScheduleInv, Planned, Working
    <2>2. PICK doc : doc = Unleased(p.plan)
      OBVIOUS
    <2>3. doc \in Checkpoint /\ doc.skipped = p.plan.skipped
      BY <1>2, <2>2 DEF Checkpoint, Unleased
    <2>4. QED
      BY <2>1, <2>2, <2>3
  <1>6. \/ Unstored
        \/ TagHolds(r) /\ checkpoint' = doc /\ version' = version + 1 /\ given' = given \cup doc.skipped
    BY <1>1, <1>5 DEF Release, Put
  <1>7. /\ given' = given /\ version' \in Nat
        /\ \/ UNCHANGED <<checkpoint, version>>
           \/ checkpoint' \in Checkpoint /\ version' = version + 1 /\ TagHolds(r)
    <2>1. given' = given
      BY <1>5, <1>6 DEF Unstored
    <2>2. QED
      BY <1>2, <1>5, <1>6, <2>1 DEF Unstored
  <1>8. /\ \E q \in Process : runner' = [runner EXCEPT ![r] = q]
        /\ InPlan(r)' /\ Held(r)' /\ Planned(r)'
    BY <1>2, <1>3, <1>7, IdleHolds
  <1>9. QED
    BY <1>1, <1>2, <1>3, <1>4, <1>7, <1>8 DEF StepOf

LEMMA CrashStep ==
  ASSUME NEW r \in Runner, ScheduleInv, Crash(r)
  PROVE  StepOf(r)
  <1>1. Start(clock) \in Int
    BY StartType DEF ScheduleInv, TypeOK
  <1>2. /\ \E q \in Process : runner' = [runner EXCEPT ![r] = q]
        /\ InPlan(r)' /\ Held(r)' /\ Planned(r)'
    BY <1>1, IdleHolds DEF Crash, Unstored, ScheduleInv, TypeOK
  <1>3. crashes' \in 0 .. MaxCrash
    BY BoundAssumption DEF Crash, ScheduleInv, TypeOK
  <1>4. QED
    BY <1>2, <1>3 DEF Crash, Unstored, StepOf, ScheduleInv, TypeOK

LEMMA AdvanceKeepsInv ==
  ASSUME ScheduleInv, Advance
  PROVE  ScheduleInv'
  <1>1. clock' \in 0 .. MaxClock /\ clock \in Int /\ clock' \in Int /\ clock <= clock'
    BY BoundAssumption DEF Advance, ScheduleInv, TypeOK
  <1>2. /\ runner' = runner /\ checkpoint' = checkpoint /\ version' = version
        /\ ran' = ran /\ given' = given /\ failures' = failures /\ crashes' = crashes
    BY DEF Advance, Unstored
  <1>3. ASSUME NEW s \in Runner
        PROVE  InPlan(s)' /\ Held(s)' /\ Planned(s)'
    <2>1. Bystander(s)
      BY <1>1, <1>2 DEF Bystander
    <2>2. InPlan(s)'
      BY <1>2 DEF InPlan, Working, ScheduleInv, TypeOK
    <2>3. QED
      BY <2>1, <2>2, BystanderKept
  <1>4. TypeOK'
    BY <1>1, <1>2, <1>3 DEF ScheduleInv, TypeOK
  <1>5. QED
    BY <1>3, <1>4 DEF ScheduleInv

LEMMA NextKeepsInv ==
  ASSUME ScheduleInv, [Next]_vars
  PROVE  ScheduleInv'
  <1>1. CASE Advance
    BY <1>1, AdvanceKeepsInv
  <1>2. ASSUME NEW r \in Runner, Tick(r) \/ Step(r) \/ FailWindow(r) \/ Crash(r)
        PROVE  ScheduleInv'
    <2>1. StepOf(r)
      BY <1>2, TickStep, ReadStep, SeedStep, ClaimStep, RunWindowStep, RecordStep, ReleaseStep,
         FailWindowStep, CrashStep DEF Step
    <2>2. QED
      BY <2>1, StepKeepsInv
  <1>3. CASE UNCHANGED vars
    <2>1. ASSUME NEW s \in Runner
          PROVE  InPlan(s)' /\ Held(s)' /\ Planned(s)'
      <3>1. Bystander(s)
        BY <1>3 DEF vars, Bystander, ScheduleInv, TypeOK
      <3>2. InPlan(s)'
        BY <1>3 DEF vars, InPlan, Working, ScheduleInv, TypeOK
      <3>3. QED
        BY <3>1, <3>2, BystanderKept
    <2>2. TypeOK'
      BY <1>3, <2>1 DEF vars, ScheduleInv, TypeOK
    <2>3. QED
      BY <2>1, <2>2 DEF ScheduleInv
  <1>4. QED
    BY <1>1, <1>2, <1>3 DEF Next

-----------------------------------------------------------------------------
(* Theorems *)

\* The inductive invariant holds in every reachable state of the runners.
THEOREM ScheduleInvariant == Spec => []ScheduleInv
  BY InitInv, NextKeepsInv, PTL DEF Spec

\* The checkpoint and what each runner knows keep their types, and a runner
\* stays within the plan it claimed.
THEOREM ScheduleTypes == Spec => []TypeOK
  <1>1. ScheduleInv => TypeOK
    BY DEF ScheduleInv
  <1>2. QED
    BY <1>1, ScheduleInvariant, PTL

\* A lease excludes every other runner while it lasts: its plan stays the
\* stored checkpoint and no second runner is within a lease of its own.
THEOREM ScheduleLease == Spec => []LeaseHolderKeepsClaim
  <1>1. ScheduleInv => LeaseHolderKeepsClaim
    <2> SUFFICES ASSUME ScheduleInv, NEW r \in Runner, InLease(r)
                 PROVE  /\ version = runner[r].tag
                        /\ checkpoint = runner[r].plan
                        /\ \A s \in Runner \ {r} : ~InLease(s)
      BY DEF LeaseHolderKeepsClaim
    <2>1. \A s \in Runner : InLease(s) =>
            /\ version = runner[s].tag
            /\ checkpoint = runner[s].plan
            /\ checkpoint.owner = s
      BY DEF ScheduleInv, Held, Planned, Holding, InLease, Working
    <2>2. QED
      BY <2>1
  <1>2. QED
    BY <1>1, ScheduleInvariant, PTL

\* Within its lease a runner never repeats a window recorded as completed.
THEOREM ScheduleNoRepeat == Spec => []RecordedIsNotRepeated
  <1>1. ScheduleInv => RecordedIsNotRepeated
    <2> SUFFICES ASSUME ScheduleInv, NEW r \in Runner, InLease(r)
                 PROVE  checkpoint.through <= runner[r].next
      BY DEF RecordedIsNotRepeated
    <2>1. PICK p \in Process : p = runner[r]
      BY DEF ScheduleInv, TypeOK
    <2>2. checkpoint = p.plan /\ p.plan.through <= p.first /\ p.first <= p.next
      BY <2>1 DEF ScheduleInv, Held, Planned, Holding, InLease, Working
    <2>3. p.plan.through \in Int /\ p.first \in Int /\ p.next \in Int
      BY DEF Process, Checkpoint
    <2>4. QED
      BY <2>1, <2>2, <2>3
  <1>2. QED
    BY <1>1, ScheduleInvariant, PTL
-----------------------------------------------------------------------------
(* Refinement *)

LEMMA DutyInit == Init => Duty!Init
  <1> SUFFICES ASSUME Init PROVE Duty!Init
    OBVIOUS
  <1>1. PICK origin \in Int : origin = Start(0)
    BY StartType
  <1>2. checkpoint.through \in Int
    BY <1>1 DEF Init, Fresh
  <1>3. QED
    BY <1>2 DEF Init, Duty!Init

\* Storing a checkpoint of the same origin and position gives up windows.
LEMMA DutyPut ==
  ASSUME ScheduleInv, version # 0, version' = version + 1, ran' = ran,
         NEW doc \in Checkpoint, checkpoint' = doc, given' = given \cup doc.skipped,
         doc.startedFrom = checkpoint.startedFrom, doc.through = checkpoint.through
  PROVE  Duty!GiveUp
  <1>1. version \in Nat /\ version' # 0 /\ checkpoint.startedFrom \in Int
    BY DEF ScheduleInv, TypeOK, Checkpoint
  <1>2. given \subseteq given' /\ given' \subseteq Int
    BY DEF ScheduleInv, TypeOK, Checkpoint
  <1>3. QED
    BY <1>1, <1>2, OriginAssumption DEF Duty!GiveUp

\* Storing the first checkpoint records the origin.
LEMMA DutyCreate ==
  ASSUME ScheduleInv, version = 0, version' = version + 1, ran' = ran,
         NEW doc \in Checkpoint, checkpoint' = doc, given' = given \cup doc.skipped,
         doc.through = doc.startedFrom
  PROVE  Duty!Establish
  <1>1. version' # 0
    OBVIOUS
  <1>2. doc.startedFrom \in Int /\ doc.skipped \subseteq Int /\ given \subseteq Int
    BY DEF ScheduleInv, TypeOK, Checkpoint
  <1>3. given' \subseteq Int
    BY <1>2
  <1>4. QED
    BY <1>1, <1>2, <1>3 DEF Duty!Establish

LEMMA DutyStutter ==
  ASSUME Unstored, ran' = ran
  PROVE  UNCHANGED Duty!duty
  BY DEF Unstored, Duty!duty

LEMMA DutyClaim ==
  ASSUME NEW r \in Runner, ScheduleInv, Claim(r)
  PROVE  [Duty!Next]_(Duty!duty)
  <1>1. PICK p \in Process : p = runner[r]
    BY DEF ScheduleInv, TypeOK
  <1>2. p.phase = "claiming" /\ ran' = ran /\ Held(r) /\ Planned(r) /\ p.plan \in Checkpoint
    BY <1>1 DEF Claim, ScheduleInv, Process
  <1>3. CASE TagHolds(r)
    <2>1. checkpoint' = p.plan /\ version' = version + 1 /\ given' = given \cup p.plan.skipped
      BY <1>1, <1>3 DEF Claim, Put
    <2>2. CASE version = 0
      <3>1. p.plan.through = p.plan.startedFrom
        BY <1>1, <1>2, <1>3, <2>2 DEF Planned, TagHolds
      <3>2. QED
        BY <1>2, <2>1, <2>2, <3>1, DutyCreate DEF Duty!Next
    <2>3. CASE version # 0
      <3>1. /\ p.plan.startedFrom = checkpoint.startedFrom
            /\ p.plan.through = checkpoint.through
        BY <1>1, <1>2, <1>3, <2>3 DEF Held, TagHolds
      <3>2. QED
        BY <1>2, <2>1, <2>3, <3>1, DutyPut DEF Duty!Next
    <2>4. QED
      BY <2>2, <2>3
  <1>4. CASE ~TagHolds(r)
    BY <1>2, <1>4, DutyStutter DEF Claim
  <1>5. QED
    BY <1>3, <1>4

LEMMA DutySeed ==
  ASSUME NEW r \in Runner, ScheduleInv, Seed(r)
  PROVE  [Duty!Next]_(Duty!duty)
  <1>1. PICK seed \in Int : seed = runner[r].seed
    BY DEF ScheduleInv, TypeOK, Process
  <1>2. PICK doc \in Checkpoint : doc = Fresh(seed)
    BY FreshType
  <1>3. doc.through = doc.startedFrom /\ ran' = ran
    BY <1>2 DEF Fresh, Seed
  <1>4. CASE version = 0
    BY <1>1, <1>2, <1>3, <1>4, DutyCreate DEF Seed, Put, Duty!Next
  <1>5. CASE version # 0
    BY <1>3, <1>5, DutyStutter DEF Seed
  <1>6. QED
    BY <1>4, <1>5

LEMMA DutyRunWindow ==
  ASSUME NEW r \in Runner, ScheduleInv, RunWindow(r)
  PROVE  Duty!Perform
  <1>1. PICK p \in Process : p = runner[r]
    BY DEF ScheduleInv, TypeOK
  <1>2. p.phase = "running" /\ ran' = ran \cup {p.next} /\ p.next \in Int /\ Unstored
    BY <1>1 DEF RunWindow, Process
  <1>3. version # 0
    BY <1>1, <1>2 DEF ScheduleInv, TypeOK, Held, Working, Process
  <1>4. checkpoint.startedFrom \in Int
    BY DEF ScheduleInv, TypeOK, Checkpoint
  <1>5. QED
    BY <1>2, <1>3, <1>4, OriginAssumption DEF Duty!Perform, Unstored

LEMMA DutyRecord ==
  ASSUME NEW r \in Runner, ScheduleInv, Record(r)
  PROVE  [Duty!Next]_(Duty!duty)
  <1>1. PICK p \in Process : p = runner[r]
    BY DEF ScheduleInv, TypeOK
  <1>2. /\ p.phase = "recording" /\ ran' = ran /\ Held(r) /\ Planned(r)
        /\ version \in Nat /\ p.tag \in Nat
        /\ p.plan \in Checkpoint /\ p.next \in Int /\ p.first \in Int
        /\ p.plan.through \in Int /\ p.plan.startedFrom \in Int
    BY <1>1 DEF Record, ScheduleInv, TypeOK, Process, Checkpoint
  <1>3. CASE TagHolds(r) /\ MayComplete(p.plan, r, p.next, p.now)
    <2>1. PICK doc : doc = Completed(p.plan, p.next)
      OBVIOUS
    <2>2. /\ doc.startedFrom = p.plan.startedFrom
          /\ doc.through = p.next
          /\ doc.skipped = p.plan.skipped
      BY <1>2, <2>1 DEF Completed, Unleased, Checkpoint
    <2>3. checkpoint' = doc /\ version' = version + 1 /\ given' = given \cup doc.skipped
      BY <1>1, <1>3, <2>1 DEF Record, Put
    <2>4. checkpoint = p.plan /\ version # 0 /\ version' # 0
      BY <1>1, <1>2, <1>3, <2>3 DEF Held, Working, TagHolds
    <2>5. /\ p.plan.through <= p.first /\ p.first <= p.next
          /\ p.plan.through .. (p.first - 1) \subseteq given
          /\ p.first .. (p.next - 1) \subseteq ran
          /\ p.plan.skipped \subseteq given
      BY <1>1, <1>2 DEF Planned, Holding, Working
    <2>6. checkpoint.through .. (doc.through - 1) \subseteq ran \cup given
      BY <1>2, <2>2, <2>4, <2>5
    <2>7. given' = given
      BY <2>2, <2>3, <2>5
    <2>8. Duty!Settle
      BY <1>2, <2>2, <2>3, <2>4, <2>5, <2>6, <2>7, OriginAssumption DEF Duty!Settle
    <2>9. QED
      BY <2>8 DEF Duty!Next
  <1>4. CASE ~(TagHolds(r) /\ MayComplete(p.plan, r, p.next, p.now))
    BY <1>1, <1>2, <1>4, DutyStutter DEF Record
  <1>5. QED
    BY <1>3, <1>4

LEMMA DutyRelease ==
  ASSUME NEW r \in Runner, ScheduleInv, Release(r)
  PROVE  [Duty!Next]_(Duty!duty)
  <1>1. PICK p \in Process : p = runner[r]
    BY DEF ScheduleInv, TypeOK
  <1>2. /\ p.phase = "releasing" /\ ran' = ran /\ Held(r)
        /\ version \in Nat /\ p.tag \in Nat /\ p.plan \in Checkpoint
    BY <1>1 DEF Release, ScheduleInv, TypeOK, Process
  <1>3. CASE TagHolds(r)
    <2>1. PICK doc : doc = Unleased(p.plan)
      OBVIOUS
    <2>2. /\ doc \in Checkpoint
          /\ doc.startedFrom = p.plan.startedFrom
          /\ doc.through = p.plan.through
      BY <1>2, <2>1 DEF Unleased, Checkpoint
    <2>3. checkpoint' = doc /\ version' = version + 1 /\ given' = given \cup doc.skipped
      BY <1>1, <1>3, <2>1 DEF Release, Put
    <2>4. checkpoint = p.plan /\ version # 0
      BY <1>1, <1>2, <1>3 DEF Held, Working, TagHolds
    <2>5. QED
      BY <1>2, <2>2, <2>3, <2>4, DutyPut DEF Duty!Next
  <1>4. CASE ~TagHolds(r)
    BY <1>2, <1>4, DutyStutter DEF Release
  <1>5. QED
    BY <1>3, <1>4

LEMMA DutyStep ==
  ASSUME ScheduleInv, [Next]_vars
  PROVE  [Duty!Next]_(Duty!duty)
  <1>1. CASE UNCHANGED vars
    BY <1>1 DEF vars, Duty!duty
  <1>2. CASE Advance
    BY <1>2, DutyStutter DEF Advance
  <1>3. ASSUME NEW r \in Runner, Tick(r) \/ Step(r) \/ FailWindow(r) \/ Crash(r)
        PROVE  [Duty!Next]_(Duty!duty)
    <2>1. CASE Tick(r) \/ Read(r) \/ FailWindow(r) \/ Crash(r)
      BY <2>1, DutyStutter DEF Tick, Read, FailWindow, Crash
    <2>2. CASE RunWindow(r)
      BY <2>2, DutyRunWindow DEF Duty!Next
    <2>3. QED
      BY <1>3, <2>1, <2>2, DutySeed, DutyClaim, DutyRecord, DutyRelease DEF Step
  <1>4. QED
    BY <1>1, <1>2, <1>3 DEF Next

\* The runners keep the schedule's duty: the origin is recorded once, and the
\* checkpoint moves forward only past windows that ran or were given up.
THEOREM ScheduleKeepsDuty == Spec => KeepsDuty
  BY DutyInit, DutyStep, ScheduleInvariant, PTL DEF Spec, KeepsDuty, Duty!Spec

=============================================================================
