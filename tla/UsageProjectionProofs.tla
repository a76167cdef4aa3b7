------------------------ MODULE UsageProjectionProofs ------------------------
(***************************************************************************)
(* What the documents of UsageProjection claim, for every set of requests, *)
(* windows, keys and runs and every lag and row limit.  ProjectionInv is   *)
(* inductive: a run that began once its window had settled holds what the  *)
(* log will always say of the window.  ReadersInv adds what the readers of *)
(* the documents need: what adds up over windows and rows is what was      *)
(* used, so the screens of UsageScreens, the warnings and the comparison   *)
(* of UsageDrift say what their properties claim.  The sums serve for      *)
(* BudgetCounters too: a counter is a sum of charges.                      *)
(***************************************************************************)
EXTENDS UsageScreens, UsageDrift, BudgetCounters, FiniteSetTheorems, WellFoundedInduction, TLAPS

Phases == {"idle", "read", "rollups", "query", "records"}

HeldType == [phase : Phases, window : Window \cup {Nobody}, at : Nat \cup {Nobody},
             source : {Nobody, "complete", "unavailable"}, rows : SUBSET Row,
             metered : SUBSET Row, todo : SUBSET (Keys \cup Row),
             version : Versions \cup {Nobody}]

Types ==
  /\ clock \in Nat /\ catalogue \in Versions
  /\ requested \subseteq Row
  /\ delivered \subseteq requested
  /\ metered \subseteq delivered \cap Reported
  /\ rollup = [k \in Keys |-> [w \in Window |-> rollup[k][w]]]
  /\ record = [r \in Row |-> record[r]]
  /\ worker \in [Projector -> HeldType]

\* What the log has of a settled window, it has of every request of it.
LogInv == DeliveredIn(clock)

AfterRead(h) == h.phase \in {"rollups", "query", "records"}

\* What a run holds once it has read, of the requests that were made.
ReadInv(h, made) ==
  /\ h.rows \subseteq RowsOf(made, h.window)
  /\ h.at >= Settled(h.window) => h.metered = Reported \cap h.rows
  /\ h.source = "complete" /\ h.at >= Settled(h.window) /\ Cardinality(h.rows) < RowLimit =>
       h.rows = RowsOf(made, h.window)
  /\ h.phase = "rollups" => h.source \in {"complete", "unavailable"}
  /\ h.source = "unavailable" => h.rows = {}
  /\ h.phase \in {"query", "records"} => h.version \in Versions
  /\ h.phase = "records" => h.todo \subseteq h.rows

HeldInv(h, now, made) ==
  /\ h.phase # "idle" => h.window \in Window /\ h.at \in Nat /\ h.at <= now
  /\ h.phase = "read" => h.rows = {} /\ h.metered = {}
  /\ AfterRead(h) => ReadInv(h, made)

\* A record made once its window had settled says what the whole log says.
Final(r, d) ==
  d.at >= Settled(RowData[r].window) => d = Record(Reported, d.version, d.at, r)

IsRecord(d) == \E m \in SUBSET Row, v \in Versions, at \in Nat, r \in Row : d = Record(m, v, at, r)

ProjectionInv ==
  /\ Types
  /\ LogInv
  /\ \A p \in Projector : HeldInv(worker[p], clock, requested)
  /\ CompleteIsExact
  /\ \A r \in Row : record[r] # Absent => IsRecord(record[r]) /\ Final(r, record[r])
  /\ \A w \in Window : \A k \in Keys : rollup[k][w] # Absent /\ rollup[k][w].completeness = "complete"
       => clock >= Settled(w)

-----------------------------------------------------------------------------
(* Windows *)

LEMMA SettledFacts ==
  ASSUME NEW w \in Window
  PROVE  /\ Start(w) \in Nat /\ End(w) \in Nat /\ Settled(w) \in Nat
         /\ Start(w) < End(w) /\ End(w) <= Settled(w)
  <1>1. w \in Nat /\ WindowLength \in Nat \ {0} /\ IngestionLag \in Nat
    BY UsageAssumption, FS_CardinalityType
  <1>2. QED
    BY <1>1 DEF Start, End, Settled

LEMMA CompleteMeans ==
  ASSUME NEW w \in Window, NEW at \in Nat, NEW source, NEW n,
         Completeness(w, at, source, n) = "complete"
  PROVE  source # "unavailable" /\ ~(n >= RowLimit) /\ at >= Settled(w)
  <1>1. source # "unavailable" /\ ~(n >= RowLimit)
    BY DEF Completeness
  <1>2. ~(at < End(w)) /\ ~(at - End(w) < IngestionLag)
    BY <1>1 DEF Completeness
  <1>3. QED
    BY <1>1, <1>2, SettledFacts, UsageAssumption DEF Settled

\* A step that changes no log keeps what is said of it.
LEMMA LogUntouched ==
  ASSUME UNCHANGED logVars, LogInv
  PROVE  LogInv'
  BY DEF logVars, LogInv, DeliveredIn

\* A settled window gets no further request.
LEMMA SettledIsClosed ==
  ASSUME Types, [Next]_vars, NEW w \in Window, clock >= Settled(w)
  PROVE  RowsOf(requested', w) = RowsOf(requested, w)
  <1>1. CASE \E r \in Row : Request(r)
    <2>1. PICK r \in Row : Request(r)
      BY <1>1
    <2>2. RowData[r].window # w
      BY <2>1, SettledFacts, UsageAssumption DEF Request, Types
    <2>3. QED
      BY <2>1, <2>2 DEF Request, RowsOf
  <1>2. CASE ~\E r \in Row : Request(r)
    <2>1. requested' = requested
      BY <1>2 DEF Next, vars, logVars, storeVars, workVars, sweepVars, Tick, Deliver, Meter,
         PublishCatalogue, Begin, Read, PutRollup, ReadRegistry, QueryRecords, PutRecord,
         Finish, Lose, SweepRead, SweepRaise
    <2>2. QED
      BY <2>1
  <1>3. QED
    BY <1>1, <1>2

-----------------------------------------------------------------------------
(* Records *)

\* A count made once the window had settled is the final one.
LEMMA RecordIsFinal ==
  ASSUME NEW r \in Row, NEW v, NEW at, NEW m, r \in m <=> r \in Reported
  PROVE  Record(m, v, at, r) = Record(Reported, v, at, r)
  <1>1. QualityIn(m, r) = QualityIn(Reported, r) /\ TokensIn(m, r) = TokensIn(Reported, r)
    BY DEF QualityIn, TokensIn
  <1>2. QED
    BY <1>1 DEF Record

LEMMA RecordFields ==
  ASSUME NEW m, NEW v, NEW at, NEW r
  PROVE  Record(m, v, at, r).version = v /\ Record(m, v, at, r).at = at
  BY DEF Record

\* Two final records of a request under one catalogue differ in their instant only.
LEMMA FinalAgree ==
  ASSUME NEW r, NEW v, NEW i, NEW j
  PROVE  ~Disagree(Record(Reported, v, i, r), Record(Reported, v, j, r))
  BY DEF Disagree, Record

-----------------------------------------------------------------------------
(* One conjunct at a time *)

LEMMA InitInv == Init => ProjectionInv
  <1> SUFFICES ASSUME Init PROVE ProjectionInv
    OBVIOUS
  <1>1. Types
    <2>1. worker \in [Projector -> HeldType]
      BY DEF Init, Idle, HeldType, Phases
    <2>2. QED
      BY <2>1, UsageAssumption DEF Init, Types
  <1>2. LogInv
    BY DEF Init, LogInv, DeliveredIn
  <1>3. \A p \in Projector : HeldInv(worker[p], clock, requested)
    BY DEF Init, HeldInv, AfterRead, Idle
  <1>4. \A k \in Keys : \A w \in Window : rollup[k][w] = Absent
    BY DEF Init
  <1>5. QED
    BY <1>1, <1>2, <1>3, <1>4 DEF Init, ProjectionInv, CompleteIsExact

LEMMA TypesStep ==
  ASSUME Types, [Next]_vars
  PROVE  Types'
  <1> USE DEF Types
  <1>1. CASE UNCHANGED vars
    BY <1>1 DEF vars, logVars, storeVars, workVars, sweepVars
  <1>2. CASE Tick \/ PublishCatalogue
    BY <1>2 DEF Tick, PublishCatalogue, storeVars, workVars, sweepVars
  <1>3. CASE \E r \in Row : Request(r) \/ Deliver(r) \/ Meter(r)
    BY <1>3 DEF Request, Deliver, Meter, storeVars, workVars, sweepVars
  <1>4. ASSUME NEW p \in Projector, NEW w \in Window, Begin(p, w)
        PROVE Types'
    <2>1. [Idle EXCEPT !.phase = "read", !.window = w, !.at = clock] \in HeldType
      BY DEF Idle, HeldType, Phases
    <2>2. QED
      BY <1>4, <2>1 DEF Begin, logVars, storeVars, sweepVars
  <1>5. ASSUME NEW p \in Projector, Read(p)
        PROVE Types'
    <2>1. worker[p] \in HeldType
      OBVIOUS
    <2>2. \A rows \in Answers(worker[p].window) : rows \subseteq Row
      BY DEF Answers, RowsOf, kSubset
    <2>3. \A rows : Written(rows) \subseteq Keys \cup Row
      BY DEF Written, Keys
    <2>4. \A rows \in Answers(worker[p].window) :
            [worker[p] EXCEPT !.phase = "rollups", !.source = "complete", !.rows = rows,
                              !.metered = rows \cap metered, !.todo = Written(rows)] \in HeldType
      BY <2>1, <2>2, <2>3 DEF HeldType, Phases
    <2>5. [worker[p] EXCEPT !.phase = "rollups", !.source = "unavailable", !.todo = Written({})] \in HeldType
      BY <2>1, <2>3 DEF HeldType, Phases
    <2>6. worker' \in [Projector -> HeldType]
      BY <1>5, <2>4, <2>5 DEF Read
    <2>7. QED
      BY <1>5, <2>6 DEF Read, logVars, storeVars, sweepVars
  <1>6. ASSUME NEW p \in Projector, NEW k \in Keys, PutRollup(p, k)
        PROVE Types'
    <2>1. worker[p] \in HeldType
      OBVIOUS
    <2>2. [worker[p] EXCEPT !.todo = @ \ {k}] \in HeldType
      BY <2>1 DEF HeldType
    <2>3. worker' \in [Projector -> HeldType]
      BY <1>6, <2>2 DEF PutRollup
    <2>4. rollup' = [j \in Keys |-> [w \in Window |-> rollup'[j][w]]]
      <3>1. PICK d : rollup' = [rollup EXCEPT ![k][worker[p].window] = d]
        BY <1>6 DEF PutRollup
      <3>2. QED
        BY <3>1
    <2>5. QED
      BY <1>6, <2>3, <2>4 DEF PutRollup, logVars, sweepVars
  <1>7. ASSUME NEW p \in Projector, ReadRegistry(p) \/ QueryRecords(p) \/ Finish(p) \/ Lose(p)
        PROVE Types'
    <2>1. worker[p] \in HeldType
      OBVIOUS
    <2>2. /\ Idle \in HeldType
          /\ [worker[p] EXCEPT !.phase = "query", !.version = catalogue] \in HeldType
          /\ [worker[p] EXCEPT !.phase = "records",
                  !.todo = worker[p].rows \ {r \in worker[p].rows : record[r] # Absent}] \in HeldType
      BY <2>1 DEF HeldType, Phases, Idle
    <2>3. worker' \in [Projector -> HeldType]
      BY <1>7, <2>2 DEF ReadRegistry, QueryRecords, Finish, Lose
    <2>4. QED
      BY <1>7, <2>3 DEF ReadRegistry, QueryRecords, Finish, Lose, logVars, storeVars, sweepVars
  <1>8. ASSUME NEW p \in Projector, NEW r \in Row, PutRecord(p, r)
        PROVE Types'
    <2>1. worker[p] \in HeldType
      OBVIOUS
    <2>2. [worker[p] EXCEPT !.todo = @ \ {r}] \in HeldType
      BY <2>1 DEF HeldType
    <2>3. worker' \in [Projector -> HeldType]
      BY <1>8, <2>2 DEF PutRecord
    <2>4. QED
      BY <1>8, <2>3 DEF PutRecord, logVars, sweepVars
  <1>9. CASE SweepRead \/ \E done \in SUBSET sweep.plan : SweepRaise(done)
    BY <1>9 DEF SweepRead, SweepRaise, logVars, storeVars, workVars
  <1>10. QED
    BY <1>1, <1>2, <1>3, <1>4, <1>5, <1>6, <1>7, <1>8, <1>9 DEF Next

LEMMA LogStep ==
  ASSUME Types, LogInv, [Next]_vars
  PROVE  LogInv'
  <1>1. CASE Tick
    BY <1>1 DEF Tick, LogInv, DeliveredIn
  <1>2. ASSUME NEW r \in Row, Request(r)
        PROVE LogInv'
    <2>1. ~(clock >= Settled(RowData[r].window))
      BY <1>2, SettledFacts, UsageAssumption DEF Request, Types
    <2>2. QED
      BY <1>2, <2>1 DEF Request, LogInv, DeliveredIn
  <1>3. ASSUME NEW r \in Row, Deliver(r) \/ Meter(r)
        PROVE LogInv'
    BY <1>3 DEF Deliver, Meter, LogInv, DeliveredIn
  <1>4. CASE PublishCatalogue
    BY <1>4 DEF PublishCatalogue, LogInv, DeliveredIn
  <1>5. CASE UNCHANGED logVars
    BY <1>5, LogUntouched
  <1>6. QED
    BY <1>1, <1>2, <1>3, <1>4, <1>5 DEF Next, vars, Begin, Read, PutRollup, ReadRegistry,
       QueryRecords, PutRecord, Finish, Lose, SweepRead, SweepRaise

\* Requests are only added and the clock only advances.
LEMMA LogGrows ==
  ASSUME Types, [Next]_vars
  PROVE  requested \subseteq requested' /\ clock <= clock' /\ clock' \in Nat
  <1>1. \/ requested' = requested
        \/ \E r \in Row : requested' = requested \cup {r}
    BY DEF Next, vars, logVars, storeVars, workVars, sweepVars, Tick, Request, Deliver,
       Meter, PublishCatalogue, Begin, Read, PutRollup, ReadRegistry, QueryRecords, PutRecord,
       Finish, Lose, SweepRead, SweepRaise
  <1>2. clock' = clock \/ clock' = clock + 1
    BY DEF Next, vars, logVars, storeVars, workVars, sweepVars, Tick, Request, Deliver,
       Meter, PublishCatalogue, Begin, Read, PutRollup, ReadRegistry, QueryRecords, PutRecord,
       Finish, Lose, SweepRead, SweepRaise
  <1>3. QED
    BY <1>1, <1>2 DEF Types

\* What a run holds stays true while others work and the log fills.
LEMMA HeldStays ==
  ASSUME Types, [Next]_vars, NEW p \in Projector, HeldInv(worker[p], clock, requested)
  PROVE  HeldInv(worker[p], clock', requested')
  <1> DEFINE h == worker[p]
  <1>1. CASE h.phase = "idle"
    BY <1>1 DEF HeldInv, AfterRead
  <1>2. CASE h.phase # "idle"
    <2>1. h.window \in Window /\ h.at \in Nat /\ h.at <= clock /\ h.at <= clock'
      BY <1>2, LogGrows DEF HeldInv, Types
    <2>2. RowsOf(requested, h.window) \subseteq RowsOf(requested', h.window)
      BY LogGrows DEF RowsOf
    <2>3. h.at >= Settled(h.window) => RowsOf(requested', h.window) = RowsOf(requested, h.window)
      <3>1. h.at >= Settled(h.window) => clock >= Settled(h.window)
        BY <2>1, SettledFacts DEF Types
      <3>2. QED
        BY <2>1, <3>1, SettledIsClosed
    <2>4. QED
      BY <1>2, <2>1, <2>2, <2>3 DEF HeldInv, ReadInv
  <1>3. QED
    BY <1>1, <1>2

LEMMA ReadHeld ==
  ASSUME Types, LogInv, NEW p \in Projector, HeldInv(worker[p], clock, requested), Read(p)
  PROVE  HeldInv(worker'[p], clock, requested)
  <1> DEFINE h == worker[p]
  <1>1. h \in HeldType /\ h.phase = "read" /\ h.window \in Window /\ h.at \in Nat /\ h.at <= clock
    BY DEF Types, Read, HeldInv
  <1>2. ASSUME NEW rows \in Answers(h.window)
        PROVE HeldInv([h EXCEPT !.phase = "rollups", !.source = "complete", !.rows = rows,
                          !.metered = rows \cap metered, !.todo = Written(rows)], clock, requested)
    <2>1. rows \subseteq RowsOf(delivered, h.window)
      BY DEF Answers, kSubset
    <2>2. RowsOf(delivered, h.window) \subseteq RowsOf(requested, h.window)
      BY DEF Types, RowsOf
    <2>3. ASSUME h.at >= Settled(h.window)
          PROVE /\ RowsOf(delivered, h.window) = RowsOf(requested, h.window)
                /\ rows \cap metered = Reported \cap rows
      <3>1. clock >= Settled(h.window)
        BY <1>1, <2>3, SettledFacts DEF Types
      <3>2. \A r \in RowsOf(requested, h.window) : r \in delivered /\ (r \in Reported => r \in metered)
        BY <3>1 DEF LogInv, DeliveredIn, RowsOf
      <3>3. QED
        BY <2>1, <2>2, <3>2 DEF RowsOf, Types
    <2>4. Cardinality(rows) < RowLimit => rows = RowsOf(delivered, h.window)
      <3>1. ASSUME rows # RowsOf(delivered, h.window)
            PROVE Cardinality(rows) = RowLimit
        BY <3>1 DEF Answers, kSubset
      <3>2. QED
        BY <3>1, UsageAssumption
    <2> DEFINE g == [h EXCEPT !.phase = "rollups", !.source = "complete", !.rows = rows,
                          !.metered = rows \cap metered, !.todo = Written(rows)]
    <2>5. /\ g.phase = "rollups" /\ g.source = "complete" /\ g.rows = rows /\ g.window = h.window
          /\ g.at = h.at /\ g.metered = rows \cap metered
      BY <1>1 DEF HeldType
    <2> HIDE DEF g
    <2>6. ReadInv(g, requested)
      BY <2>1, <2>2, <2>3, <2>4, <2>5 DEF ReadInv
    <2>7. HeldInv(g, clock, requested)
      BY <1>1, <2>5, <2>6 DEF HeldInv
    <2>8. QED
      BY <2>7 DEF g
  <1>3. HeldInv([h EXCEPT !.phase = "rollups", !.source = "unavailable", !.todo = Written({})],
                clock, requested)
    <2> DEFINE g == [h EXCEPT !.phase = "rollups", !.source = "unavailable", !.todo = Written({})]
    <2>1. h.rows = {} /\ h.metered = {}
      BY <1>1 DEF HeldInv
    <2>2. QED
      BY <1>1, <2>1 DEF HeldInv, ReadInv, HeldType
  <1>4. \/ \E rows \in Answers(h.window) :
             worker'[p] = [h EXCEPT !.phase = "rollups", !.source = "complete", !.rows = rows,
                              !.metered = rows \cap metered, !.todo = Written(rows)]
        \/ worker'[p] = [h EXCEPT !.phase = "rollups", !.source = "unavailable", !.todo = Written({})]
    BY DEF Read, Types
  <1>5. QED
    BY <1>2, <1>3, <1>4

\* Each step of a run leaves it holding what the log says.
LEMMA HeldStep ==
  ASSUME Types, LogInv, [Next]_vars, NEW p \in Projector, HeldInv(worker[p], clock, requested)
  PROVE  HeldInv(worker'[p], clock', requested')
  <1>1. CASE worker'[p] = worker[p]
    BY <1>1, HeldStays
  <1>2. CASE worker'[p] = Idle
    BY <1>2 DEF HeldInv, AfterRead, Idle
  <1>3. ASSUME NEW w \in Window, Begin(p, w)
        PROVE HeldInv(worker'[p], clock', requested')
    <2>1. worker'[p] = [Idle EXCEPT !.phase = "read", !.window = w, !.at = clock]
      BY <1>3 DEF Begin, Types
    <2>2. QED
      BY <1>3, <2>1 DEF Begin, logVars, HeldInv, AfterRead, Idle, Types
  <1>4. CASE Read(p)
    BY <1>4, ReadHeld DEF Read, logVars
  <1>5. ASSUME NEW k \in Keys, PutRollup(p, k)
        PROVE HeldInv(worker'[p], clock', requested')
    <2>1. worker'[p] = [worker[p] EXCEPT !.todo = @ \ {k}]
      BY <1>5 DEF PutRollup, Types
    <2>2. QED
      BY <1>5, <2>1 DEF PutRollup, HeldInv, ReadInv, AfterRead, logVars, Types, HeldType
  <1>6. CASE ReadRegistry(p)
    <2>1. worker'[p] = Idle \/ worker'[p] = [worker[p] EXCEPT !.phase = "query", !.version = catalogue]
      BY <1>6 DEF ReadRegistry, Types
    <2>2. CASE worker'[p] = [worker[p] EXCEPT !.phase = "query", !.version = catalogue]
      <3> DEFINE h == worker[p]
      <3> DEFINE g == worker'[p]
      <3>1. h.phase = "rollups" /\ clock' = clock /\ requested' = requested /\ h \in HeldType
        BY <1>6 DEF ReadRegistry, logVars, Types
      <3>2. /\ g.phase = "query" /\ g.version \in Versions /\ g.window = h.window /\ g.at = h.at
            /\ g.source = h.source /\ g.rows = h.rows /\ g.metered = h.metered
        BY <2>2, <3>1 DEF HeldType, Types
      <3> HIDE DEF g, h
      <3>3. HeldInv(h, clock, requested)
        BY DEF h
      <3>4. HeldInv(g, clock, requested)
        BY <3>1, <3>2, <3>3 DEF HeldInv, ReadInv, AfterRead
      <3>5. QED
        BY <3>1, <3>4 DEF g
    <2>3. QED
      BY <1>2, <2>1, <2>2
  <1>7. CASE QueryRecords(p)
    <2>1. worker'[p] = [worker[p] EXCEPT !.phase = "records",
              !.todo = worker[p].rows \ {r \in worker[p].rows : record[r] # Absent}]
      BY <1>7 DEF QueryRecords, Types
    <2>2. QED
      BY <1>7, <2>1 DEF QueryRecords, HeldInv, ReadInv, AfterRead, logVars, Types, HeldType
  <1>8. ASSUME NEW r \in Row, PutRecord(p, r)
        PROVE HeldInv(worker'[p], clock', requested')
    <2>1. worker'[p] = [worker[p] EXCEPT !.todo = @ \ {r}]
      BY <1>8 DEF PutRecord, Types
    <2>2. QED
      BY <1>8, <2>1 DEF PutRecord, HeldInv, ReadInv, AfterRead, logVars, Types, HeldType
  <1>9. \/ worker'[p] = worker[p] \/ worker'[p] = Idle
        \/ \E w \in Window : Begin(p, w)
        \/ Read(p) \/ ReadRegistry(p) \/ QueryRecords(p)
        \/ \E k \in Keys : PutRollup(p, k)
        \/ \E r \in Row : PutRecord(p, r)
    <2>1. CASE worker' = worker
      BY <2>1
    <2>2. ASSUME NEW q \in Projector,
                 \/ \E w \in Window : Begin(q, w)
                 \/ Read(q) \/ ReadRegistry(q) \/ QueryRecords(q) \/ Finish(q) \/ Lose(q)
                 \/ \E k \in Keys : PutRollup(q, k)
                 \/ \E r \in Row : PutRecord(q, r)
          PROVE \/ worker'[p] = worker[p] \/ worker'[p] = Idle
                \/ \E w \in Window : Begin(p, w)
                \/ Read(p) \/ ReadRegistry(p) \/ QueryRecords(p)
                \/ \E k \in Keys : PutRollup(p, k)
                \/ \E r \in Row : PutRecord(p, r)
      <3>1. CASE q = p
        BY <2>2, <3>1 DEF Finish, Lose, Types
      <3>2. CASE q # p
        BY <2>2, <3>2 DEF Begin, Read, ReadRegistry, QueryRecords, Finish, Lose, PutRollup,
           PutRecord, Types
      <3>3. QED
        BY <3>1, <3>2
    <2>3. QED
      BY <2>1, <2>2 DEF Next, vars, workVars, Tick, Request, Deliver, Meter, PublishCatalogue,
         SweepRead, SweepRaise
  <1>10. QED
    BY <1>1, <1>2, <1>3, <1>4, <1>5, <1>6, <1>7, <1>8, <1>9

\* A complete document is written by a run that began once its window settled.
LEMMA CompleteStep ==
  ASSUME ProjectionInv, [Next]_vars
  PROVE  /\ CompleteIsExact'
         /\ \A w \in Window : \A k \in Keys :
              rollup'[k][w] # Absent /\ rollup'[k][w].completeness = "complete" => clock' >= Settled(w)
  <1> SUFFICES ASSUME NEW k \in Keys, NEW w \in Window,
                      rollup'[k][w] # Absent, rollup'[k][w].completeness = "complete"
               PROVE  /\ rollup'[k][w] = Rollup(Reported \cap RowsOf(requested', w),
                                               Attributed(RowsOf(requested', w), k), "complete")
                      /\ clock' >= Settled(w)
    BY DEF CompleteIsExact
  <1> USE DEF ProjectionInv
  <1>1. CASE rollup'[k][w] = rollup[k][w]
    <2>1. clock >= Settled(w) /\ clock' >= Settled(w)
      BY <1>1, LogGrows, SettledFacts DEF Types
    <2>2. RowsOf(requested', w) = RowsOf(requested, w)
      BY <2>1, SettledIsClosed
    <2>3. QED
      BY <1>1, <2>1, <2>2 DEF CompleteIsExact
  <1>2. CASE rollup'[k][w] # rollup[k][w]
    <2>1. PICK p \in Projector, j \in Keys : PutRollup(p, j)
      BY <1>2 DEF Next, vars, storeVars, Tick, Request, Deliver, Meter, PublishCatalogue, Begin,
         Read, ReadRegistry, QueryRecords, PutRecord, Finish, Lose, SweepRead, SweepRaise
    <2> DEFINE h == worker[p]
    <2>2. /\ h \in HeldType /\ h.phase = "rollups" /\ ReadInv(h, requested)
          /\ h.window \in Window /\ h.at \in Nat /\ h.at <= clock
          /\ requested' = requested /\ clock' = clock
      BY <2>1 DEF PutRollup, HeldInv, AfterRead, Types, logVars
    <2> DEFINE c == Completeness(h.window, h.at, h.source, Cardinality(h.rows))
    <2>3. j = k /\ h.window = w
      <3>1. rollup' = [rollup EXCEPT ![j][h.window] = Rollup(h.metered, Attributed(h.rows, j), c)]
        BY <2>1 DEF PutRollup
      <3> HIDE DEF h, c
      <3>2. QED
        BY <1>2, <2>2, <3>1 DEF Types
    <2>4. rollup'[k][w] = Rollup(h.metered, Attributed(h.rows, k), c)
      <3>1. rollup' = [rollup EXCEPT ![k][w] = Rollup(h.metered, Attributed(h.rows, k), c)]
        BY <2>1, <2>3 DEF PutRollup
      <3> HIDE DEF h, c
      <3>2. QED
        BY <3>1 DEF Types
    <2>5. c = "complete"
      BY <2>4 DEF Rollup
    <2>6. h.source # "unavailable" /\ ~(Cardinality(h.rows) >= RowLimit) /\ h.at >= Settled(h.window)
      BY <2>2, <2>5, CompleteMeans
    <2>7. h.rows = RowsOf(requested, w)
      <3>1. Cardinality(h.rows) \in Nat
        <4>1. IsFiniteSet(h.rows)
          BY <2>2, FS_Subset, UsageAssumption DEF HeldType
        <4>2. QED
          BY <4>1, FS_CardinalityType
      <3>2. Cardinality(h.rows) < RowLimit /\ h.source = "complete"
        BY <2>2, <2>6, <3>1, UsageAssumption DEF ReadInv
      <3>3. QED
        BY <2>2, <2>3, <2>6, <3>2 DEF ReadInv
    <2>8. h.metered = Reported \cap RowsOf(requested, w)
      BY <2>2, <2>6, <2>7 DEF ReadInv
    <2>9. clock >= Settled(w)
      BY <2>2, <2>3, <2>6, SettledFacts DEF Types
    <2>10. QED
      BY <2>2, <2>4, <2>5, <2>7, <2>8, <2>9
  <1>3. QED
    BY <1>1, <1>2

\* What a run would record of one of its rows.
LEMMA RunRecord ==
  ASSUME ProjectionInv, NEW p \in Projector, worker[p].phase \in {"query", "records"},
         NEW r \in worker[p].rows
  PROVE  LET d == Record(worker[p].metered, worker[p].version, worker[p].at, r)
         IN  r \in Row /\ IsRecord(d) /\ Final(r, d)
  <1> DEFINE h == worker[p]
  <1> DEFINE d == Record(h.metered, h.version, h.at, r)
  <1>1. h \in HeldType /\ ReadInv(h, requested) /\ h.window \in Window /\ h.at \in Nat
    BY DEF ProjectionInv, Types, HeldInv, AfterRead
  <1>2. r \in Row /\ RowData[r].window = h.window /\ h.version \in Versions
    BY <1>1 DEF ReadInv, RowsOf, HeldType
  <1>3. d.version = h.version /\ d.at = h.at
    BY RecordFields
  <1>4. h.at >= Settled(h.window) => (r \in h.metered <=> r \in Reported)
    BY <1>1 DEF ReadInv
  <1>5. Final(r, d)
    BY <1>2, <1>3, <1>4, RecordIsFinal DEF Final
  <1>6. IsRecord(d)
    BY <1>1, <1>2 DEF IsRecord, HeldType
  <1>7. QED
    BY <1>2, <1>5, <1>6

LEMMA RecordStep ==
  ASSUME ProjectionInv, [Next]_vars
  PROVE  (\A r \in Row : record[r] # Absent => IsRecord(record[r]) /\ Final(r, record[r]))'
  <1> SUFFICES ASSUME NEW r \in Row, record'[r] # Absent
               PROVE  IsRecord(record'[r]) /\ Final(r, record'[r])
    BY DEF Final, IsRecord, Record, QualityIn, TokensIn, Settled, End, Start
  <1>1. CASE record'[r] = record[r]
    BY <1>1 DEF ProjectionInv
  <1>2. CASE record'[r] # record[r]
    <2>1. PICK p \in Projector, q \in Row : PutRecord(p, q)
      BY <1>2 DEF Next, vars, storeVars, Tick, Request, Deliver, Meter, PublishCatalogue, Begin,
         Read, PutRollup, ReadRegistry, QueryRecords, Finish, Lose, SweepRead, SweepRaise
    <2>2. /\ q = r
          /\ record'[r] = Record(worker[p].metered, worker[p].version, worker[p].at, r)
      BY <1>2, <2>1 DEF PutRecord, ProjectionInv, Types
    <2>3. r \in worker[p].rows /\ worker[p].phase = "records"
      BY <2>1, <2>2 DEF PutRecord, ProjectionInv, HeldInv, AfterRead, ReadInv
    <2>4. QED
      BY <2>2, <2>3, RunRecord
  <1>3. QED
    BY <1>1, <1>2

\* Both sides of a conflict are records of one request, and they differ.
ConflictInv ==
  \A c \in conflict :
    /\ c[1] \in Row /\ IsRecord(c[2]) /\ IsRecord(c[3])
    /\ Final(c[1], c[2]) /\ Final(c[1], c[3])
    /\ Disagree(c[2], c[3])

LEMMA ConflictStep ==
  ASSUME ProjectionInv, ConflictInv, [Next]_vars
  PROVE  ConflictInv'
  <1> SUFFICES ASSUME NEW c \in conflict'
               PROVE  /\ c[1] \in Row /\ IsRecord(c[2]) /\ IsRecord(c[3])
                      /\ Final(c[1], c[2]) /\ Final(c[1], c[3])
                      /\ Disagree(c[2], c[3])
    BY DEF ConflictInv, Final, IsRecord, Record, QualityIn, TokensIn, Settled, End, Start, Disagree
  <1>1. CASE c \in conflict
    BY <1>1 DEF ConflictInv
  <1>2. CASE c \notin conflict
    <2>1. PICK p \in Projector : QueryRecords(p)
      BY <1>2 DEF Next, vars, storeVars, Tick, Request, Deliver, Meter, PublishCatalogue, Begin,
         Read, PutRollup, ReadRegistry, PutRecord, Finish, Lose, SweepRead, SweepRaise
    <2> DEFINE h == worker[p]
    <2>2. PICK r \in h.rows :
            /\ record[r] # Absent
            /\ Disagree(record[r], Record(h.metered, h.version, h.at, r))
            /\ c = <<r, record[r], Record(h.metered, h.version, h.at, r)>>
      BY <1>2, <2>1 DEF QueryRecords
    <2>3. /\ r \in Row /\ IsRecord(Record(h.metered, h.version, h.at, r))
          /\ Final(r, Record(h.metered, h.version, h.at, r))
      BY <2>1, RunRecord DEF QueryRecords
    <2>4. IsRecord(record[r]) /\ Final(r, record[r])
      BY <2>2, <2>3 DEF ProjectionInv
    <2> HIDE DEF h
    <2>5. c[1] = r /\ c[2] = record[r] /\ c[3] = Record(h.metered, h.version, h.at, r)
      BY <2>2
    <2>6. QED
      BY <2>2, <2>3, <2>4, <2>5
  <1>3. QED
    BY <1>1, <1>2

LEMMA ConflictMeans == ConflictInv => ReprojectionAgrees
  <1> SUFFICES ASSUME ConflictInv, NEW c \in conflict, c[2].version = c[3].version,
                      ~(c[2].at < Settled(RowData[c[1]].window)),
                      ~(c[3].at < Settled(RowData[c[1]].window))
               PROVE  FALSE
    BY DEF ReprojectionAgrees
  <1>1. c[1] \in Row /\ RowData[c[1]].window \in Window
    BY UsageAssumption DEF ConflictInv
  <1>2. c[2].at \in Nat /\ c[3].at \in Nat
    BY RecordFields DEF ConflictInv, IsRecord
  <1>3. /\ c[2] = Record(Reported, c[2].version, c[2].at, c[1])
        /\ c[3] = Record(Reported, c[2].version, c[3].at, c[1])
    BY <1>1, <1>2, SettledFacts DEF ConflictInv, Final
  <1>4. Disagree(c[2], c[3])
    BY DEF ConflictInv
  <1>5. QED
    BY <1>3, <1>4, FinalAgree

-----------------------------------------------------------------------------
(* Sums over finite sets.  The library's induction takes an operator; what it *)
(* would prove follows from a smallest set that is a counterexample.          *)

SumOver(f, S) == MapThenSumSet(LAMBDA x : f[x], S)

LEMMA Least ==
  ASSUME NEW T \in SUBSET Nat, T # {}
  PROVE  \E n \in T : \A m \in T : n <= m
  <1>1. PICK n \in T : \A m \in T : ~(<<m, n>> \in OpToRel(<, Nat))
    BY WFMin, NatLessThanWellFounded
  <1>2. \A m \in T : ~(m < n)
    BY <1>1 DEF OpToRel
  <1>3. QED
    BY <1>2

\* Of a family of finite sets some one is smallest.
LEMMA Smallest ==
  ASSUME NEW F, F # {}, \A s \in F : IsFiniteSet(s)
  PROVE  \E s \in F : \A t \in F : Cardinality(s) <= Cardinality(t)
  <1> DEFINE T == {Cardinality(s) : s \in F}
  <1>1. T \in SUBSET Nat /\ T # {}
    BY FS_CardinalityType
  <1>2. PICK n \in T : \A m \in T : n <= m
    BY <1>1, Least
  <1>3. QED
    BY <1>2

Pick(s) == CHOOSE x \in s : TRUE

LEMMA PickIn == ASSUME NEW s, s # {} PROVE Pick(s) \in s
  BY DEF Pick

\* h adds f up, one element after the other.
AddsUp(f, S, h) ==
  h = [s \in SUBSET S |-> IF s = {} THEN 0 ELSE f[Pick(s)] + h[s \ {Pick(s)}]]

LEMMA SumUnfold ==
  ASSUME NEW f, NEW S, NEW g, AddsUp(f, S, g)
  PROVE  \E h : AddsUp(f, S, h) /\ SumOver(f, S) = h[S]
  BY DEF SumOver, MapThenSumSet, MapThenFoldSet, AddsUp, Pick

\* Removing one element makes a finite set smaller by one.
LEMMA Smaller ==
  ASSUME NEW s, IsFiniteSet(s), NEW x \in s
  PROVE  IsFiniteSet(s \ {x}) /\ Cardinality(s \ {x}) < Cardinality(s)
         /\ Cardinality(s) = Cardinality(s \ {x}) + 1 /\ Cardinality(s \ {x}) \in Nat
  <1>1. Cardinality(s \ {x}) = Cardinality(s) - 1 /\ IsFiniteSet(s \ {x})
    BY FS_RemoveElement
  <1>2. Cardinality(s) \in Nat /\ Cardinality(s \ {x}) \in Nat
    BY <1>1, FS_CardinalityType
  <1>3. QED
    BY <1>1, <1>2

\* Two ways of adding up agree where both are defined.
LEMMA AddsUpOnce ==
  ASSUME NEW f, NEW S, NEW T, IsFiniteSet(T), NEW g, NEW h, AddsUp(f, S, g), AddsUp(f, T, h),
         T \subseteq S
  PROVE  \A s \in SUBSET T : g[s] = h[s]
  <1> DEFINE Bad == {s \in SUBSET T : g[s] # h[s]}
  <1> SUFFICES ASSUME Bad # {} PROVE FALSE
    OBVIOUS
  <1>1. \A s \in Bad : IsFiniteSet(s)
    BY FS_Subset
  <1>2. PICK s \in Bad : \A t \in Bad : Cardinality(s) <= Cardinality(t)
    BY <1>1, Smallest
  <1>3. s \in SUBSET T /\ s \in SUBSET S /\ IsFiniteSet(s) /\ g[s] # h[s]
    BY <1>1, <1>2
  <1>4. /\ g[s] = IF s = {} THEN 0 ELSE f[Pick(s)] + g[s \ {Pick(s)}]
        /\ h[s] = IF s = {} THEN 0 ELSE f[Pick(s)] + h[s \ {Pick(s)}]
    BY <1>3 DEF AddsUp
  <1>5. s # {} /\ g[s \ {Pick(s)}] # h[s \ {Pick(s)}]
    BY <1>3, <1>4
  <1>6. s \ {Pick(s)} \in Bad
    BY <1>3, <1>5
  <1>7. Cardinality(s \ {Pick(s)}) < Cardinality(s) /\ Cardinality(s) \in Nat
        /\ Cardinality(s \ {Pick(s)}) \in Nat
    BY <1>3, <1>5, PickIn, Smaller, FS_CardinalityType
  <1>8. QED
    BY <1>2, <1>6, <1>7

\* There is a way of adding up.
LEMMA AddsUpExists ==
  ASSUME NEW f, NEW S, IsFiniteSet(S)
  PROVE  \E h : AddsUp(f, S, h)
  <1> DEFINE Lone == {T \in SUBSET S : ~\E h : AddsUp(f, T, h)}
  <1> SUFFICES ASSUME Lone # {} PROVE FALSE
    OBVIOUS
  <1>1. \A T \in Lone : IsFiniteSet(T)
    BY FS_Subset
  <1>2. PICK T \in Lone : \A U \in Lone : Cardinality(T) <= Cardinality(U)
    BY <1>1, Smallest
  <1>3. T \in SUBSET S /\ IsFiniteSet(T) /\ ~\E h : AddsUp(f, T, h)
    BY <1>1, <1>2
  <1>4. ASSUME NEW x \in T PROVE \E h : AddsUp(f, T \ {x}, h)
    <2>1. Cardinality(T \ {x}) < Cardinality(T) /\ Cardinality(T) \in Nat
          /\ Cardinality(T \ {x}) \in Nat
      BY <1>3, Smaller, FS_CardinalityType
    <2>2. QED
      BY <1>2, <1>3, <2>1
  <1> DEFINE part(U) == CHOOSE h : AddsUp(f, U, h)
             less(s) == s \ {Pick(s)}
             g == [s \in SUBSET T |-> IF s = {} THEN 0 ELSE f[Pick(s)] + part(less(s))[less(s)]]
  <1>5. ASSUME NEW U \in SUBSET T, U # T PROVE AddsUp(f, U, part(U))
    <2>1. PICK x \in T : x \notin U
      BY <1>5
    <2>2. PICK h : AddsUp(f, T \ {x}, h)
      BY <1>4
    <2> DEFINE k == [s \in SUBSET U |-> h[s]]
    <2>3. ASSUME NEW s \in SUBSET U
          PROVE  k[s] = IF s = {} THEN 0 ELSE f[Pick(s)] + k[s \ {Pick(s)}]
      <3>1. s \in SUBSET (T \ {x}) /\ s \ {Pick(s)} \in SUBSET U
        BY <2>1
      <3>2. h[s] = IF s = {} THEN 0 ELSE f[Pick(s)] + h[s \ {Pick(s)}]
        BY <2>2, <3>1 DEF AddsUp
      <3>3. QED
        BY <3>1, <3>2
    <2>4. AddsUp(f, U, k)
      <3>1. k = [s \in SUBSET U |-> k[s]]
        OBVIOUS
      <3> HIDE DEF k
      <3>2. QED
        BY <2>3, <3>1 DEF AddsUp
    <2>5. QED
      BY <2>4
  <1>6. ASSUME NEW s \in SUBSET T, s # {}
        PROVE  g[less(s)] = part(less(s))[less(s)]
    <2>1. less(s) \in SUBSET T /\ less(s) # T /\ Pick(s) \in s
      BY <1>6, PickIn
    <2>2. AddsUp(f, less(s), part(less(s)))
      BY <1>5, <2>1
    <2> DEFINE u == less(s)
    <2>3. part(u)[u] = IF u = {} THEN 0 ELSE f[Pick(u)] + part(u)[less(u)]
      <3> HIDE DEF part
      <3>1. u \in SUBSET u
        OBVIOUS
      <3>2. QED
        BY <2>2, <3>1 DEF AddsUp
    <2>4. g[u] = IF u = {} THEN 0 ELSE f[Pick(u)] + part(less(u))[less(u)]
      BY <2>1
    <2>5. u # {} => part(u)[less(u)] = part(less(u))[less(u)]
      <3>1. SUFFICES ASSUME u # {} PROVE part(u)[less(u)] = part(less(u))[less(u)]
        OBVIOUS
      <3>2. Pick(u) \in u
        BY <3>1, PickIn
      <3>3. less(u) \in SUBSET T /\ less(u) # T /\ less(u) \subseteq u
        BY <2>1, <3>2
      <3>4. AddsUp(f, less(u), part(less(u)))
        BY <1>5, <3>3
      <3>5. IsFiniteSet(less(u))
        BY <1>3, <3>3, FS_Subset
      <3> HIDE DEF part, u, less
      <3>6. less(u) \in SUBSET less(u)
        OBVIOUS
      <3>7. QED
        BY <2>2, <3>3, <3>4, <3>5, <3>6, AddsUpOnce DEF u
    <2>6. QED
      BY <2>3, <2>4, <2>5
  <1>7. AddsUp(f, T, g)
    <2>1. ASSUME NEW s \in SUBSET T
          PROVE  g[s] = IF s = {} THEN 0 ELSE f[Pick(s)] + g[s \ {Pick(s)}]
      <3>1. g[s] = IF s = {} THEN 0 ELSE f[Pick(s)] + part(less(s))[less(s)]
        OBVIOUS
      <3>2. s # {} => g[less(s)] = part(less(s))[less(s)]
        BY <1>6
      <3> HIDE DEF part, g
      <3>3. QED
        BY <3>1, <3>2
    <2>2. g = [s \in SUBSET T |-> g[s]]
      OBVIOUS
    <2> HIDE DEF g
    <2>3. QED
      BY <2>1, <2>2 DEF AddsUp
  <1>8. QED
    BY <1>3, <1>7

\* What there is to add up to nothing and to one element more.
LEMMA SumDef ==
  ASSUME NEW f, NEW S, IsFiniteSet(S)
  PROVE  SumOver(f, S) = IF S = {} THEN 0 ELSE f[Pick(S)] + SumOver(f, S \ {Pick(S)})
  <1>1. PICK h : AddsUp(f, S, h) /\ SumOver(f, S) = h[S]
    BY AddsUpExists, SumUnfold
  <1>2. CASE S = {}
    BY <1>1, <1>2 DEF AddsUp
  <1>3. CASE S # {}
    <2>1. PICK T \in SUBSET S : T = S \ {Pick(S)}
      OBVIOUS
    <2>2. IsFiniteSet(T)
      BY <2>1, FS_Subset
    <2>3. PICK k : AddsUp(f, T, k) /\ SumOver(f, T) = k[T]
      BY <2>2, AddsUpExists, SumUnfold
    <2>4. h[T] = k[T]
      BY <1>1, <2>2, <2>3, AddsUpOnce
    <2>5. h[S] = f[Pick(S)] + h[T]
      BY <1>1, <1>3, <2>1 DEF AddsUp
    <2>6. QED
      BY <1>1, <1>3, <2>1, <2>3, <2>4, <2>5
  <1>4. QED
    BY <1>2, <1>3

LEMMA SumEmpty == ASSUME NEW f PROVE SumOver(f, {}) = 0
  BY SumDef, FS_EmptySet

LEMMA SumType ==
  ASSUME NEW f, NEW S, IsFiniteSet(S), \A x \in S : f[x] \in Nat
  PROVE  SumOver(f, S) \in Nat
  <1> DEFINE Bad == {T \in SUBSET S : SumOver(f, T) \notin Nat}
  <1> SUFFICES ASSUME Bad # {} PROVE FALSE
    OBVIOUS
  <1>1. \A T \in Bad : IsFiniteSet(T)
    BY FS_Subset
  <1>2. PICK T \in Bad : \A U \in Bad : Cardinality(T) <= Cardinality(U)
    BY <1>1, Smallest
  <1>3. T \in SUBSET S /\ IsFiniteSet(T) /\ SumOver(f, T) \notin Nat
    BY <1>1, <1>2
  <1>4. T # {}
    BY <1>3, SumEmpty
  <1>5. PICK U \in SUBSET S : U = T \ {Pick(T)}
    BY <1>3
  <1>6. /\ Cardinality(U) < Cardinality(T) /\ Cardinality(T) \in Nat /\ Cardinality(U) \in Nat
        /\ f[Pick(T)] \in Nat
    BY <1>3, <1>4, <1>5, PickIn, Smaller, FS_CardinalityType
  <1>7. SumOver(f, T) = f[Pick(T)] + SumOver(f, U)
    BY <1>3, <1>4, <1>5, SumDef
  <1>8. SumOver(f, U) \in Nat
    BY <1>2, <1>5, <1>6
  <1>9. QED
    BY <1>3, <1>6, <1>7, <1>8

\* The order of adding up does not matter.
LEMMA SumRemove ==
  ASSUME NEW f, NEW S, IsFiniteSet(S), \A x \in S : f[x] \in Nat, NEW x \in S
  PROVE  SumOver(f, S) = f[x] + SumOver(f, S \ {x})
  <1> DEFINE Bad == {T \in SUBSET S : \E y \in T : SumOver(f, T) # f[y] + SumOver(f, T \ {y})}
  <1> SUFFICES ASSUME Bad # {} PROVE FALSE
    OBVIOUS
  <1>1. \A T \in Bad : IsFiniteSet(T)
    BY FS_Subset
  <1>2. PICK T \in Bad : \A U \in Bad : Cardinality(T) <= Cardinality(U)
    BY <1>1, Smallest
  <1>3. T \in SUBSET S /\ IsFiniteSet(T)
    BY <1>1, <1>2
  <1>4. PICK y \in T : SumOver(f, T) # f[y] + SumOver(f, T \ {y})
    BY <1>2
  <1>5. PICK c : c = Pick(T)
    OBVIOUS
  <1>6. c \in T /\ SumOver(f, T) = f[c] + SumOver(f, T \ {c})
    BY <1>3, <1>5, PickIn, SumDef
  <1>7. c # y
    BY <1>4, <1>6
  <1>8. ASSUME NEW z \in T PROVE /\ IsFiniteSet(T \ {z})
                                 /\ \A u \in T \ {z} : SumOver(f, T \ {z}) = f[u] + SumOver(f, (T \ {z}) \ {u})
    <2>1. /\ Cardinality(T \ {z}) < Cardinality(T) /\ Cardinality(T) \in Nat
          /\ Cardinality(T \ {z}) \in Nat /\ IsFiniteSet(T \ {z})
      BY <1>3, Smaller, FS_CardinalityType
    <2>2. T \ {z} \in SUBSET S /\ T \ {z} \notin Bad
      BY <1>2, <1>3, <2>1
    <2>3. QED
      BY <2>1, <2>2
  <1>9. PICK R \in SUBSET T : R = (T \ {c}) \ {y}
    OBVIOUS
  <1>10. R = (T \ {y}) \ {c}
    BY <1>9
  <1>11. SumOver(f, T \ {c}) = f[y] + SumOver(f, R)
    BY <1>7, <1>6, <1>8, <1>9
  <1>12. SumOver(f, T \ {y}) = f[c] + SumOver(f, R)
    BY <1>7, <1>6, <1>8, <1>10
  <1>13. SumOver(f, R) \in Nat /\ f[c] \in Nat /\ f[y] \in Nat
    BY <1>3, <1>6, SumType, FS_Subset
  <1>14. QED
    BY <1>4, <1>6, <1>11, <1>12, <1>13

\* Functions that agree on a set have one sum over it.
LEMMA SumSame ==
  ASSUME NEW f, NEW g, NEW S, IsFiniteSet(S), \A x \in S : f[x] = g[x]
  PROVE  SumOver(f, S) = SumOver(g, S)
  <1> DEFINE Bad == {T \in SUBSET S : SumOver(f, T) # SumOver(g, T)}
  <1> SUFFICES ASSUME Bad # {} PROVE FALSE
    OBVIOUS
  <1>1. \A T \in Bad : IsFiniteSet(T)
    BY FS_Subset
  <1>2. PICK T \in Bad : \A U \in Bad : Cardinality(T) <= Cardinality(U)
    BY <1>1, Smallest
  <1>3. T \in SUBSET S /\ IsFiniteSet(T) /\ SumOver(f, T) # SumOver(g, T)
    BY <1>1, <1>2
  <1>4. T # {}
    BY <1>3, SumEmpty
  <1>5. PICK U \in SUBSET S : U = T \ {Pick(T)}
    BY <1>3
  <1>6. /\ Cardinality(U) < Cardinality(T) /\ Cardinality(T) \in Nat /\ Cardinality(U) \in Nat
        /\ f[Pick(T)] = g[Pick(T)]
    BY <1>3, <1>4, <1>5, PickIn, Smaller, FS_CardinalityType
  <1>7. /\ SumOver(f, T) = f[Pick(T)] + SumOver(f, U)
        /\ SumOver(g, T) = g[Pick(T)] + SumOver(g, U)
    BY <1>3, <1>4, <1>5, SumDef
  <1>8. SumOver(f, U) = SumOver(g, U)
    BY <1>2, <1>5, <1>6
  <1>9. QED
    BY <1>3, <1>6, <1>7, <1>8

\* Disjoint parts add up to the whole.
LEMMA SumUnion ==
  ASSUME NEW f, NEW A, NEW B, IsFiniteSet(A), IsFiniteSet(B), A \cap B = {},
         \A x \in A \cup B : f[x] \in Nat
  PROVE  SumOver(f, A \cup B) = SumOver(f, A) + SumOver(f, B)
  <1> DEFINE Bad == {T \in SUBSET A : SumOver(f, T \cup B) # SumOver(f, T) + SumOver(f, B)}
  <1> SUFFICES ASSUME Bad # {} PROVE FALSE
    OBVIOUS
  <1>1. \A T \in Bad : IsFiniteSet(T)
    BY FS_Subset
  <1>2. PICK T \in Bad : \A U \in Bad : Cardinality(T) <= Cardinality(U)
    BY <1>1, Smallest
  <1>3. T \in SUBSET A /\ IsFiniteSet(T) /\ SumOver(f, T \cup B) # SumOver(f, T) + SumOver(f, B)
    BY <1>1, <1>2
  <1>4. SumOver(f, B) \in Nat
    BY SumType
  <1>5. T # {}
    BY <1>3, <1>4, SumEmpty
  <1>6. PICK x \in T : TRUE
    BY <1>5
  <1>7. PICK U \in SUBSET A : U = T \ {x}
    BY <1>3
  <1>8. /\ Cardinality(U) < Cardinality(T) /\ Cardinality(T) \in Nat /\ Cardinality(U) \in Nat
        /\ f[x] \in Nat /\ IsFiniteSet(U) /\ IsFiniteSet(T \cup B)
    BY <1>3, <1>6, <1>7, Smaller, FS_CardinalityType, FS_Union
  <1>9. SumOver(f, T) = f[x] + SumOver(f, U)
    BY <1>3, <1>6, <1>7, SumRemove
  <1>10. (T \cup B) \ {x} = U \cup B
    BY <1>3, <1>6, <1>7
  <1>11. SumOver(f, T \cup B) = f[x] + SumOver(f, U \cup B)
    BY <1>3, <1>6, <1>8, <1>10, SumRemove
  <1>12. SumOver(f, U \cup B) = SumOver(f, U) + SumOver(f, B)
    BY <1>2, <1>7, <1>8
  <1>13. SumOver(f, U) \in Nat
    BY <1>3, <1>7, <1>8, SumType
  <1>14. QED
    BY <1>3, <1>4, <1>8, <1>9, <1>11, <1>12, <1>13

\* A part is no more than the whole.
LEMMA SumSubset ==
  ASSUME NEW f, NEW S, IsFiniteSet(S), \A x \in S : f[x] \in Nat, NEW T \in SUBSET S
  PROVE  SumOver(f, T) <= SumOver(f, S)
  <1>1. IsFiniteSet(T) /\ IsFiniteSet(S \ T) /\ T \cup (S \ T) = S
    BY FS_Subset
  <1>2. SumOver(f, S) = SumOver(f, T) + SumOver(f, S \ T)
    BY <1>1, SumUnion
  <1>3. SumOver(f, T) \in Nat /\ SumOver(f, S \ T) \in Nat
    BY <1>1, SumType
  <1>4. QED
    BY <1>2, <1>3

\* What is no more element by element is no more in sum.
LEMMA SumLeq ==
  ASSUME NEW f, NEW g, NEW S, IsFiniteSet(S),
         \A x \in S : f[x] \in Nat /\ g[x] \in Nat /\ f[x] <= g[x]
  PROVE  SumOver(f, S) <= SumOver(g, S)
  <1> DEFINE Bad == {T \in SUBSET S : ~(SumOver(f, T) <= SumOver(g, T))}
  <1> SUFFICES ASSUME Bad # {} PROVE FALSE
    OBVIOUS
  <1>1. \A T \in Bad : IsFiniteSet(T)
    BY FS_Subset
  <1>2. PICK T \in Bad : \A U \in Bad : Cardinality(T) <= Cardinality(U)
    BY <1>1, Smallest
  <1>3. T \in SUBSET S /\ IsFiniteSet(T) /\ ~(SumOver(f, T) <= SumOver(g, T))
    BY <1>1, <1>2
  <1>4. T # {}
    BY <1>3, SumEmpty
  <1>5. PICK x \in T : TRUE
    BY <1>4
  <1>6. PICK U \in SUBSET S : U = T \ {x}
    BY <1>3
  <1>7. /\ Cardinality(U) < Cardinality(T) /\ Cardinality(T) \in Nat /\ Cardinality(U) \in Nat
        /\ IsFiniteSet(U) /\ f[x] \in Nat /\ g[x] \in Nat /\ f[x] <= g[x]
    BY <1>3, <1>5, <1>6, Smaller, FS_CardinalityType
  <1>8. SumOver(f, T) = f[x] + SumOver(f, U) /\ SumOver(g, T) = g[x] + SumOver(g, U)
    BY <1>3, <1>5, <1>6, SumRemove
  <1>9. SumOver(f, U) <= SumOver(g, U)
    BY <1>2, <1>6, <1>7
  <1>10. SumOver(f, U) \in Nat /\ SumOver(g, U) \in Nat
    BY <1>6, <1>7, SumType
  <1>11. QED
    BY <1>3, <1>7, <1>8, <1>9, <1>10

\* The members of S that part puts into one of W.
Parts(part, S, W) == {x \in S : part[x] \in W}

\* g has the sum of each of the parts.
PartSums(f, S, part, W, g) == \A w \in W : g[w] = SumOver(f, Parts(part, S, {w}))

\* A whole is the sum of its parts.
LEMMA SumOfParts ==
  ASSUME NEW f, NEW S, IsFiniteSet(S), \A x \in S : f[x] \in Nat, NEW part,
         NEW W, IsFiniteSet(W), NEW g, PartSums(f, S, part, W, g)
  PROVE  SumOver(g, W) = SumOver(f, Parts(part, S, W))
  <1> DEFINE Bad == {V \in SUBSET W : SumOver(g, V) # SumOver(f, Parts(part, S, V))}
  <1> SUFFICES ASSUME Bad # {} PROVE FALSE
    OBVIOUS
  <1>1. \A V \in Bad : IsFiniteSet(V)
    BY FS_Subset
  <1>2. PICK V \in Bad : \A U \in Bad : Cardinality(V) <= Cardinality(U)
    BY <1>1, Smallest
  <1>3. V \in SUBSET W /\ IsFiniteSet(V) /\ SumOver(g, V) # SumOver(f, Parts(part, S, V))
    BY <1>1, <1>2
  <1>4. V # {}
    <2>1. Parts(part, S, {}) = {}
      BY DEF Parts
    <2>2. QED
      BY <1>3, <2>1, SumEmpty
  <1>5. PICK w \in V : TRUE
    BY <1>4
  <1>6. PICK U \in SUBSET W : U = V \ {w}
    BY <1>3
  <1>7. Cardinality(U) < Cardinality(V) /\ Cardinality(V) \in Nat /\ Cardinality(U) \in Nat
    BY <1>3, <1>5, <1>6, Smaller, FS_CardinalityType
  <1>8. /\ Parts(part, S, V) = Parts(part, S, U) \cup Parts(part, S, {w})
        /\ Parts(part, S, U) \cap Parts(part, S, {w}) = {}
        /\ \A X : Parts(part, S, X) \subseteq S
    BY <1>5, <1>6 DEF Parts
  <1>9. \A X : IsFiniteSet(Parts(part, S, X)) /\ SumOver(f, Parts(part, S, X)) \in Nat
    BY <1>8, FS_Subset, SumType
  <1>10. SumOver(f, Parts(part, S, V)) = SumOver(f, Parts(part, S, U)) + SumOver(f, Parts(part, S, {w}))
    <2>1. PICK A, B : A = Parts(part, S, U) /\ B = Parts(part, S, {w})
      OBVIOUS
    <2>2. /\ IsFiniteSet(A) /\ IsFiniteSet(B) /\ A \cap B = {} /\ A \cup B = Parts(part, S, V)
          /\ \A x \in A \cup B : f[x] \in Nat
      BY <1>8, <1>9, <2>1
    <2>3. SumOver(f, A \cup B) = SumOver(f, A) + SumOver(f, B)
      BY <2>2, SumUnion
    <2>4. QED
      BY <2>1, <2>2, <2>3
  <1>11. \A x \in V : g[x] \in Nat
    BY <1>3, <1>9 DEF PartSums
  <1>12. SumOver(g, V) = g[w] + SumOver(g, U)
    BY <1>3, <1>5, <1>6, <1>11, SumRemove
  <1>13. SumOver(g, U) = SumOver(f, Parts(part, S, U))
    BY <1>2, <1>6, <1>7
  <1>14. g[w] = SumOver(f, Parts(part, S, {w}))
    BY <1>3, <1>5 DEF PartSums
  <1>15. QED
    BY <1>3, <1>9, <1>10, <1>12, <1>13, <1>14

\* Counting is adding ones.
LEMMA SumOfOnes ==
  ASSUME NEW f, NEW S, IsFiniteSet(S), \A x \in S : f[x] = 1
  PROVE  SumOver(f, S) = Cardinality(S)
  <1> DEFINE Bad == {T \in SUBSET S : SumOver(f, T) # Cardinality(T)}
  <1> SUFFICES ASSUME Bad # {} PROVE FALSE
    OBVIOUS
  <1>1. \A T \in Bad : IsFiniteSet(T)
    BY FS_Subset
  <1>2. PICK T \in Bad : \A U \in Bad : Cardinality(T) <= Cardinality(U)
    BY <1>1, Smallest
  <1>3. T \in SUBSET S /\ IsFiniteSet(T) /\ SumOver(f, T) # Cardinality(T)
    BY <1>1, <1>2
  <1>4. T # {}
    BY <1>3, SumEmpty, FS_EmptySet
  <1>5. PICK x \in T : TRUE
    BY <1>4
  <1>6. PICK U \in SUBSET S : U = T \ {x}
    BY <1>3
  <1>7. /\ Cardinality(U) < Cardinality(T) /\ Cardinality(T) = Cardinality(U) + 1
        /\ Cardinality(T) \in Nat /\ Cardinality(U) \in Nat /\ f[x] = 1
    BY <1>3, <1>5, <1>6, Smaller, FS_CardinalityType
  <1>8. SumOver(f, T) = f[x] + SumOver(f, U)
    BY <1>3, <1>5, <1>6, SumRemove
  <1>9. SumOver(f, U) = Cardinality(U)
    BY <1>2, <1>6, <1>7
  <1>10. QED
    BY <1>3, <1>7, <1>8, <1>9

-----------------------------------------------------------------------------
(* The sums of the model *)

Count(m) == [r \in Row |-> TokensIn(m, r)]
One      == [r \in Row |-> 1]
WindowOf == [r \in Row |-> RowData[r].window]
ModelOf  == [r \in Row |-> RowData[r].model]

LEMMA CountType ==
  ASSUME NEW m
  PROVE  \A r \in Row : Count(m)[r] \in Nat
  BY UsageAssumption DEF Count, TokensIn

\* The way a value was added up does not matter.
LEMMA AddedUpOnce ==
  ASSUME NEW f, NEW S, IsFiniteSet(S), NEW v, \E h : AddsUp(f, S, h) /\ v = h[S]
  PROVE  v = SumOver(f, S)
  <1>1. PICK h : AddsUp(f, S, h) /\ v = h[S]
    OBVIOUS
  <1>2. PICK k : AddsUp(f, S, k) /\ SumOver(f, S) = k[S]
    BY <1>1, SumUnfold
  <1>3. h[S] = k[S]
    BY <1>1, <1>2, AddsUpOnce
  <1>4. QED
    BY <1>1, <1>2, <1>3

LEMMA SumTokensIs ==
  ASSUME NEW m, NEW rows \in SUBSET Row
  PROVE  SumTokens(m, rows) = SumOver(Count(m), rows) /\ SumTokens(m, rows) \in Nat
  <1> DEFINE f == Count(m)
             sums(h) == h = [s \in SUBSET rows |->
                               IF s = {} THEN 0 ELSE TokensIn(m, Pick(s)) + h[s \ {Pick(s)}]]
  <1>1. IsFiniteSet(rows)
    BY UsageAssumption, FS_Subset
  <1>2. \A s \in SUBSET rows : s # {} => f[Pick(s)] = TokensIn(m, Pick(s))
    BY PickIn DEF Count
  <1>3. \A r \in rows : f[r] \in Nat
    BY CountType
  <1> HIDE DEF f
  <1>4. \A h : AddsUp(f, rows, h) <=> sums(h)
    BY <1>2 DEF AddsUp
  <1>5. PICK g : sums(g)
    BY <1>1, <1>4, AddsUpExists
  <1>6. \E h : sums(h) /\ SumTokens(m, rows) = h[rows]
    BY <1>5 DEF SumTokens, MapThenSumSet, MapThenFoldSet, Pick
  <1>7. SumTokens(m, rows) = SumOver(f, rows) /\ SumOver(f, rows) \in Nat
    BY <1>1, <1>3, <1>4, <1>6, AddedUpOnce, SumType
  <1>8. QED
    BY <1>7 DEF f

Spent(b, k) == [w \in Window |-> TokensOf(rollup[k][w], b.model)]

LEMMA ObservedIs ==
  ASSUME NEW b, NEW k, NEW n, Covered(k, n) \in SUBSET Window
  PROVE  Observed(b, k, n) = SumOver(Spent(b, k), Covered(k, n))
  <1> DEFINE f == Spent(b, k)
             S == Covered(k, n)
             sums(h) == h = [s \in SUBSET S |->
                 IF s = {} THEN 0 ELSE TokensOf(rollup[k][Pick(s)], b.model) + h[s \ {Pick(s)}]]
  <1>1. IsFiniteSet(S)
    BY UsageAssumption, FS_Subset
  <1>2. \A s \in SUBSET S : s # {} => f[Pick(s)] = TokensOf(rollup[k][Pick(s)], b.model)
    BY PickIn DEF Spent
  <1> HIDE DEF f, S
  <1>3. \A h : AddsUp(f, S, h) <=> sums(h)
    BY <1>2 DEF AddsUp
  <1>4. PICK g : sums(g)
    BY <1>1, <1>3, AddsUpExists
  <1>5. \E h : sums(h) /\ Observed(b, k, n) = h[S]
    BY <1>4 DEF Observed, MapThenSumSet, MapThenFoldSet, Pick, S
  <1>6. Observed(b, k, n) = SumOver(f, S)
    BY <1>1, <1>3, <1>5, AddedUpOnce
  <1>7. QED
    BY <1>6 DEF f, S

Shown(k, name) == [w \in Window |-> rollup[k][w].totals[name]]

LEMMA FigureIs ==
  ASSUME NEW k, NEW ws \in SUBSET Window, NEW name, WorstCompleteness(k, ws) # "degraded"
  PROVE  Figure(k, ws, name) = SumOver(Shown(k, name), ws)
  <1> DEFINE f == Shown(k, name)
             sums(h) == h = [s \in SUBSET ws |->
                 IF s = {} THEN 0 ELSE rollup[k][Pick(s)].totals[name] + h[s \ {Pick(s)}]]
  <1>1. IsFiniteSet(ws)
    BY UsageAssumption, FS_Subset
  <1>2. \A s \in SUBSET ws : s # {} => f[Pick(s)] = rollup[k][Pick(s)].totals[name]
    BY PickIn DEF Shown
  <1> HIDE DEF f
  <1>3. \A h : AddsUp(f, ws, h) <=> sums(h)
    BY <1>2 DEF AddsUp
  <1>4. PICK g : sums(g)
    BY <1>1, <1>3, AddsUpExists
  <1>5. \E h : sums(h) /\ Figure(k, ws, name) = h[ws]
    BY <1>4 DEF Figure, Total, MapThenSumSet, MapThenFoldSet, Pick
  <1>6. Figure(k, ws, name) = SumOver(f, ws)
    BY <1>1, <1>3, <1>5, AddedUpOnce
  <1>7. QED
    BY <1>6 DEF f

ServedBy == [m \in ModelRows |-> Cardinality({r \in Counted : RowData[r].model = m})]

LEMMA ModelsTotalIs ==
  ASSUME IsFiniteSet(ModelRows)
  PROVE  Total(LAMBDA m : ModelsScreen[m].usage.requests, DOMAIN ModelsScreen)
           = SumOver(ServedBy, ModelRows)
  <1> DEFINE f == ServedBy
             S == DOMAIN ModelsScreen
             total == Total(LAMBDA m : ModelsScreen[m].usage.requests, S)
             sums(h) == h = [s \in SUBSET S |->
                 IF s = {} THEN 0 ELSE ModelsScreen[Pick(s)].usage.requests + h[s \ {Pick(s)}]]
  <1>1. S = ModelRows
    BY DEF ModelsScreen
  <1>2. \A s \in SUBSET S : s # {} => f[Pick(s)] = ModelsScreen[Pick(s)].usage.requests
    BY PickIn DEF ServedBy, ModelsScreen, Bucket
  <1> HIDE DEF f, S
  <1>3. \A h : AddsUp(f, S, h) <=> sums(h)
    BY <1>2 DEF AddsUp
  <1>4. PICK g : sums(g)
    BY <1>1, <1>3, AddsUpExists
  <1>5. \E h : sums(h) /\ total = h[S]
    BY <1>4 DEF Total, MapThenSumSet, MapThenFoldSet, Pick
  <1> HIDE DEF total, sums
  <1>6. IsFiniteSet(S) /\ \E h : AddsUp(f, S, h) /\ total = h[S]
    BY <1>1, <1>3, <1>5
  <1>7. total = SumOver(f, S)
    BY <1>6, AddedUpOnce
  <1>8. QED
    BY <1>1, <1>7 DEF f, S, total

-----------------------------------------------------------------------------
(* What stored documents say of the requests that were made *)

Completenesses == {"complete", "partial", "degraded"}

\* A document holds some of the requests of its window.
HoldsPart(d, k, w, made) ==
  \E rows \in SUBSET RowsOf(made, w), m \in SUBSET Row, c \in Completenesses :
    d = Rollup(m, Attributed(rows, k), c)

RollupInv ==
  \A k \in Keys : \A w \in Window :
    rollup[k][w] # Absent => HoldsPart(rollup[k][w], k, w, requested)

\* A run that goes on to its records has left a document for each key.
LeftBehind(h, stored) ==
  AfterRead(h) => \A k \in Written(h.rows) :
                    \/ stored[k][h.window] # Absent
                    \/ h.phase = "rollups" /\ k \in h.todo

WrittenInv == \A p \in Projector : LeftBehind(worker[p], rollup)

RecordedInv ==
  \A r \in Row : record[r] # Absent =>
    /\ r \in requested
    /\ \A k \in Keys \cap {Org, RowData[r].team} : rollup[k][RowData[r].window] # Absent

EarnedThrough(notice, n) ==
  /\ notice.budget.scope = "organization" => notice.key = Org
  /\ \A w \in Period(n) : rollup[notice.key][w] # Absent
  /\ notice.kind \in Earned(notice.budget, Consumed(notice.budget, notice.key, n))

NoticeInv ==
  \A notice \in raised \cup sweep.plan :
    /\ notice \in Notices
    /\ notice.kind # "aggregate-stale" =>
         \E n \in 0..Cardinality(Window) : EarnedThrough(notice, n)

LEMMA WindowFacts ==
  /\ Cardinality(Window) \in Nat /\ IsFiniteSet(Window) /\ Window \subseteq Nat
  /\ \A n \in Nat : Period(n) \subseteq Window <=> n <= Cardinality(Window)
  <1>1. Cardinality(Window) \in Nat /\ IsFiniteSet(Window) /\ Window = 0..(Cardinality(Window) - 1)
    BY UsageAssumption, FS_CardinalityType
  <1>2. PICK c \in Nat : c = Cardinality(Window)
    BY <1>1
  <1>3. Window = 0..(c - 1)
    BY <1>1, <1>2
  <1>4. ASSUME NEW n \in Nat PROVE Period(n) \subseteq Window <=> n <= c
    <2>1. CASE n = 0
      BY <1>2, <1>3, <2>1 DEF Period
    <2>2. CASE n # 0
      <3>1. n - 1 \in Period(n)
        BY <2>2 DEF Period
      <3>2. Window = {w \in Int : 0 <= w /\ w < c} /\ Period(n) = {w \in Int : 0 <= w /\ w < n}
        BY <1>3 DEF Period
      <3>3. ASSUME Period(n) \subseteq Window PROVE n <= c
        <4>1. n - 1 \in Window
          BY <3>1, <3>3
        <4>2. QED
          BY <3>2, <4>1
      <3>4. ASSUME n <= c, NEW w \in Period(n) PROVE w \in Window
        BY <3>2, <3>4
      <3>5. QED
        BY <1>2, <3>3, <3>4
    <2>3. QED
      BY <2>1, <2>2
  <1>5. QED
    BY <1>1, <1>2, <1>3, <1>4

LEMMA KeysFacts ==
  ASSUME NEW made \in SUBSET Row, NEW k
  PROVE  /\ Attributed(made, k) \subseteq made
         /\ \A r \in made : r \in Attributed(made, k) <=> k \in {Org, RowData[r].team}
         /\ \A w : Attributed(RowsOf(made, w), k) = RowsOf(Attributed(made, k), w)
  BY DEF Attributed, RowsOf

\* What is written over a document is a document.
LEMMA PutIsDocument ==
  ASSUME ProjectionInv, NEW p \in Projector, NEW k \in Keys, PutRollup(p, k)
  PROVE  \E d : /\ d # Absent /\ HoldsPart(d, k, worker[p].window, requested)
                /\ rollup' = [rollup EXCEPT ![k][worker[p].window] = d]
  <1> DEFINE h == worker[p]
             c == Completeness(h.window, h.at, h.source, Cardinality(h.rows))
  <1>1. /\ h \in HeldType /\ h.phase = "rollups" /\ ReadInv(h, requested) /\ h.window \in Window
    BY DEF PutRollup, ProjectionInv, HeldInv, AfterRead, Types
  <1>2. /\ h.rows \in SUBSET RowsOf(requested, h.window) /\ h.metered \in SUBSET Row
        /\ h.rows \in SUBSET Row
    BY <1>1 DEF ReadInv, HeldType
  <1>3. c \in Completenesses
    BY DEF Completeness, Completenesses
  <1>4. Attributed(h.rows, k) \in SUBSET Row
    BY <1>2, KeysFacts
  <1> HIDE DEF h, c
  <1>5. Rollup(h.metered, Attributed(h.rows, k), c) # Absent
    BY <1>2, <1>3, <1>4, DocumentAssumption DEF Completenesses
  <1>6. HoldsPart(Rollup(h.metered, Attributed(h.rows, k), c), k, h.window, requested)
    BY <1>2, <1>3 DEF HoldsPart
  <1>7. rollup' = [rollup EXCEPT ![k][h.window] = Rollup(h.metered, Attributed(h.rows, k), c)]
    BY DEF PutRollup, h, c
  <1>8. QED
    BY <1>1, <1>5, <1>6, <1>7 DEF h, c

LEMMA RollupChange ==
  ASSUME ProjectionInv, [Next]_vars, NEW k \in Keys, NEW w \in Window, rollup'[k][w] # rollup[k][w]
  PROVE  \E p \in Projector : PutRollup(p, k) /\ worker[p].window = w
  <1>1. PICK p \in Projector, j \in Keys : PutRollup(p, j)
    BY DEF Next, vars, storeVars, Tick, Request, Deliver, Meter, PublishCatalogue, Begin,
       Read, ReadRegistry, QueryRecords, PutRecord, Finish, Lose, SweepRead, SweepRaise
  <1>2. PICK d : rollup' = [rollup EXCEPT ![j][worker[p].window] = d]
    BY <1>1 DEF PutRollup
  <1>3. rollup = [i \in Keys |-> [v \in Window |-> rollup[i][v]]]
    BY DEF ProjectionInv, Types
  <1>4. j = k /\ worker[p].window = w
    BY <1>2, <1>3
  <1>5. QED
    BY <1>1, <1>4

\* A document is replaced, never taken back.
LEMMA StaysHeld ==
  ASSUME ProjectionInv, [Next]_vars, NEW k \in Keys, NEW w \in Window, rollup[k][w] # Absent
  PROVE  rollup'[k][w] # Absent
  <1>1. CASE rollup'[k][w] = rollup[k][w]
    BY <1>1
  <1>2. CASE rollup'[k][w] # rollup[k][w]
    <2>1. PICK p \in Projector : PutRollup(p, k) /\ worker[p].window = w
      BY <1>2, RollupChange
    <2>2. PICK d : d # Absent /\ rollup' = [rollup EXCEPT ![k][worker[p].window] = d]
      BY <2>1, PutIsDocument
    <2>3. QED
      BY <2>1, <2>2 DEF ProjectionInv, Types
  <1>3. QED
    BY <1>1, <1>2

LEMMA RollupStep ==
  ASSUME ProjectionInv, RollupInv, [Next]_vars
  PROVE  RollupInv'
  <1> SUFFICES ASSUME NEW k \in Keys, NEW w \in Window, rollup'[k][w] # Absent
               PROVE  HoldsPart(rollup'[k][w], k, w, requested')
    BY DEF RollupInv
  <1>1. RowsOf(requested, w) \subseteq RowsOf(requested', w)
    BY LogGrows DEF RowsOf, ProjectionInv
  <1>2. CASE rollup'[k][w] = rollup[k][w]
    BY <1>1, <1>2 DEF RollupInv, HoldsPart
  <1>3. CASE rollup'[k][w] # rollup[k][w]
    <2>1. PICK p \in Projector : PutRollup(p, k) /\ worker[p].window = w
      BY <1>3, RollupChange
    <2>2. PICK d : rollup' = [rollup EXCEPT ![k][w] = d] /\ HoldsPart(d, k, w, requested)
      BY <2>1, PutIsDocument
    <2>3. rollup'[k][w] = d
      BY <2>2 DEF ProjectionInv, Types
    <2>4. QED
      BY <1>1, <2>2, <2>3 DEF HoldsPart
  <1>4. QED
    BY <1>2, <1>3

\* A run's own steps alone change what it holds.
LEMMA WorkerChange ==
  ASSUME Types, [Next]_vars, NEW p \in Projector
  PROVE  \/ worker'[p] = worker[p]
         \/ Read(p) \/ ReadRegistry(p) \/ QueryRecords(p) \/ Finish(p) \/ Lose(p)
         \/ \E w \in Window : Begin(p, w)
         \/ \E k \in Keys : PutRollup(p, k)
         \/ \E r \in Row : PutRecord(p, r)
  <1> DEFINE Own(q) ==
        \/ Read(q) \/ ReadRegistry(q) \/ QueryRecords(q) \/ Finish(q) \/ Lose(q)
        \/ \E w \in Window : Begin(q, w)
        \/ \E k \in Keys : PutRollup(q, k)
        \/ \E r \in Row : PutRecord(q, r)
  <1>1. CASE worker' = worker
    BY <1>1
  <1>2. ASSUME NEW q \in Projector, Own(q) PROVE worker'[p] = worker[p] \/ Own(p)
    <2>1. CASE q = p
      BY <1>2, <2>1
    <2>2. CASE q # p
      BY <1>2, <2>2 DEF Begin, Read, ReadRegistry, QueryRecords, Finish, Lose, PutRollup,
         PutRecord, Types
    <2>3. QED
      BY <2>1, <2>2
  <1>3. worker' = worker \/ \E q \in Projector : Own(q)
    BY DEF Next, vars, workVars, Tick, Request, Deliver, Meter, PublishCatalogue,
       SweepRead, SweepRaise
  <1>4. QED
    BY <1>1, <1>2, <1>3

\* What others write leaves the documents of a run in place.
LEMMA WrittenStays ==
  ASSUME ProjectionInv, WrittenInv, [Next]_vars, NEW p \in Projector,
         \/ worker'[p] = worker[p]
         \/ /\ worker'[p].rows = worker[p].rows /\ worker'[p].window = worker[p].window
            /\ AfterRead(worker[p])
            /\ worker[p].phase = "rollups" => worker[p].todo = {}
         \/ ~AfterRead(worker'[p])
  PROVE  LeftBehind(worker'[p], rollup')
  <1> SUFFICES ASSUME AfterRead(worker'[p]), NEW k \in Written(worker'[p].rows)
               PROVE  \/ rollup'[k][worker'[p].window] # Absent
                      \/ worker'[p].phase = "rollups" /\ k \in worker'[p].todo
    BY DEF LeftBehind
  <1>1. /\ AfterRead(worker[p]) /\ k \in Written(worker[p].rows)
        /\ worker'[p].window = worker[p].window
    OBVIOUS
  <1>2. k \in Keys
    BY DEF Written, Keys
  <1>3. worker[p].window \in Window
    BY <1>1 DEF ProjectionInv, HeldInv, AfterRead
  <1>4. CASE rollup[k][worker[p].window] # Absent
    BY <1>1, <1>2, <1>3, <1>4, StaysHeld
  <1>5. CASE worker[p].phase = "rollups" /\ k \in worker[p].todo
    BY <1>5
  <1>6. QED
    BY <1>1, <1>4, <1>5 DEF WrittenInv, LeftBehind

LEMMA WrittenStep ==
  ASSUME ProjectionInv, WrittenInv, [Next]_vars
  PROVE  WrittenInv'
  <1> SUFFICES ASSUME NEW p \in Projector PROVE LeftBehind(worker'[p], rollup')
    BY DEF WrittenInv
  <1>1. worker \in [Projector -> HeldType] /\ worker[p] \in HeldType
    BY DEF ProjectionInv, Types
  <1>2. CASE worker'[p] = worker[p]
    BY <1>2, WrittenStays
  <1>3. CASE ~AfterRead(worker'[p])
    BY <1>3, WrittenStays
  <1>4. CASE Read(p)
    <2>1. PICK rows : /\ worker'[p].rows = rows /\ worker'[p].todo = Written(rows)
                      /\ worker'[p].phase = "rollups"
      <3>1. ASSUME NEW rows,
                   worker' = [worker EXCEPT ![p] = [worker[p] EXCEPT !.phase = "rollups",
                       !.source = "complete", !.rows = rows, !.metered = rows \cap metered,
                       !.todo = Written(rows)]]
            PROVE  /\ worker'[p].rows = rows /\ worker'[p].todo = Written(rows)
                   /\ worker'[p].phase = "rollups"
        BY <1>1, <3>1 DEF HeldType
      <3>2. ASSUME worker' = [worker EXCEPT ![p] = [worker[p] EXCEPT !.phase = "rollups",
                       !.source = "unavailable", !.todo = Written({})]]
            PROVE  /\ worker'[p].rows = {} /\ worker'[p].todo = Written({})
                   /\ worker'[p].phase = "rollups"
        <4>1. worker[p].rows = {}
          BY <1>4 DEF Read, ProjectionInv, HeldInv
        <4>2. QED
          BY <1>1, <3>2, <4>1 DEF HeldType
      <3>3. QED
        BY <1>4, <3>1, <3>2 DEF Read
    <2>2. QED
      BY <2>1 DEF LeftBehind
  <1>5. ASSUME NEW k \in Keys, PutRollup(p, k) PROVE LeftBehind(worker'[p], rollup')
    <2>1. /\ worker'[p] = [worker[p] EXCEPT !.todo = @ \ {k}]
          /\ worker[p].phase = "rollups" /\ AfterRead(worker[p])
      BY <1>1, <1>5 DEF PutRollup, AfterRead
    <2>2. /\ worker'[p].rows = worker[p].rows /\ worker'[p].window = worker[p].window
          /\ worker'[p].phase = "rollups" /\ worker'[p].todo = worker[p].todo \ {k}
      BY <1>1, <2>1 DEF HeldType
    <2>3. rollup'[k][worker[p].window] # Absent
      <3>1. PICK d : d # Absent /\ rollup' = [rollup EXCEPT ![k][worker[p].window] = d]
        BY <1>5, PutIsDocument
      <3>2. worker[p].window \in Window
        BY <2>1 DEF ProjectionInv, HeldInv, AfterRead
      <3>3. QED
        BY <3>1, <3>2 DEF ProjectionInv, Types
    <2>4. ASSUME NEW j \in Written(worker[p].rows), j # k
          PROVE  rollup'[j][worker[p].window] # Absent \/ j \in worker'[p].todo
      <3>1. j \in Keys /\ worker[p].window \in Window
        BY <2>1 DEF Written, Keys, ProjectionInv, HeldInv, AfterRead
      <3>2. CASE j \in worker[p].todo
        BY <2>2, <2>4, <3>2
      <3>3. CASE rollup[j][worker[p].window] # Absent
        BY <3>1, <3>3, StaysHeld
      <3>4. QED
        BY <2>1, <3>2, <3>3 DEF WrittenInv, LeftBehind
    <2>5. QED
      BY <2>2, <2>3, <2>4 DEF LeftBehind
  <1>6. ASSUME worker'[p] = Idle PROVE LeftBehind(worker'[p], rollup')
    BY <1>6 DEF Idle, AfterRead, LeftBehind
  <1>7. CASE ReadRegistry(p)
    <2>1. /\ worker[p].phase = "rollups" /\ worker[p].todo = {}
          /\ \/ worker'[p] = Idle
             \/ worker'[p] = [worker[p] EXCEPT !.phase = "query", !.version = catalogue]
      BY <1>1, <1>7 DEF ReadRegistry
    <2>2. ASSUME worker'[p] = [worker[p] EXCEPT !.phase = "query", !.version = catalogue]
          PROVE worker'[p].rows = worker[p].rows /\ worker'[p].window = worker[p].window
      BY <1>1, <2>2 DEF HeldType
    <2>3. AfterRead(worker[p])
      BY <2>1 DEF AfterRead
    <2>4. QED
      BY <1>6, <2>1, <2>2, <2>3, WrittenStays
  <1>8. CASE QueryRecords(p)
    <2>1. /\ worker[p].phase = "query"
          /\ \E left : worker'[p] = [worker[p] EXCEPT !.phase = "records", !.todo = left]
      BY <1>1, <1>8 DEF QueryRecords
    <2>2. worker'[p].rows = worker[p].rows /\ worker'[p].window = worker[p].window
      BY <1>1, <2>1 DEF HeldType
    <2>3. AfterRead(worker[p])
      BY <2>1 DEF AfterRead
    <2>4. QED
      BY <2>1, <2>2, <2>3, WrittenStays
  <1>9. ASSUME NEW r \in Row, PutRecord(p, r) PROVE LeftBehind(worker'[p], rollup')
    <2>1. /\ AfterRead(worker[p]) /\ worker[p].phase # "rollups"
          /\ worker'[p].rows = worker[p].rows /\ worker'[p].window = worker[p].window
      BY <1>1, <1>9 DEF PutRecord, AfterRead, HeldType
    <2>2. QED
      BY <2>1, WrittenStays
  <1>10. CASE Finish(p) \/ Lose(p)
    BY <1>1, <1>6, <1>10 DEF Finish, Lose
  <1>11. ASSUME NEW w \in Window, Begin(p, w) PROVE LeftBehind(worker'[p], rollup')
    <2>1. worker'[p] = [Idle EXCEPT !.phase = "read", !.window = w, !.at = clock]
      BY <1>1, <1>11 DEF Begin
    <2>2. QED
      BY <2>1 DEF Idle, AfterRead, LeftBehind
  <1>12. \/ worker'[p] = worker[p]
         \/ Read(p) \/ ReadRegistry(p) \/ QueryRecords(p) \/ Finish(p) \/ Lose(p)
         \/ \E w \in Window : Begin(p, w)
         \/ \E k \in Keys : PutRollup(p, k)
         \/ \E r \in Row : PutRecord(p, r)
    <2>1. Types
      BY DEF ProjectionInv
    <2>2. QED
      BY <2>1, WorkerChange
  <1>13. QED
    BY <1>2, <1>4, <1>5, <1>7, <1>8, <1>9, <1>10, <1>11, <1>12

LEMMA RecordedStep ==
  ASSUME ProjectionInv, WrittenInv, RecordedInv, [Next]_vars
  PROVE  RecordedInv'
  <1> SUFFICES ASSUME NEW r \in Row, record'[r] # Absent
               PROVE  /\ r \in requested'
                      /\ \A k \in Keys \cap {Org, RowData[r].team} :
                           rollup'[k][RowData[r].window] # Absent
    BY DEF RecordedInv
  <1>1. RowData[r].window \in Window
    BY UsageAssumption
  <1>2. requested \subseteq requested'
    BY LogGrows DEF ProjectionInv
  <1>3. CASE record'[r] = record[r]
    BY <1>1, <1>2, <1>3, StaysHeld DEF RecordedInv
  <1>4. CASE record'[r] # record[r]
    <2>1. PICK p \in Projector, q \in Row : PutRecord(p, q)
      BY <1>4 DEF Next, vars, storeVars, Tick, Request, Deliver, Meter, PublishCatalogue, Begin,
         Read, PutRollup, ReadRegistry, QueryRecords, Finish, Lose, SweepRead, SweepRaise
    <2>2. q = r
      BY <1>4, <2>1 DEF PutRecord, ProjectionInv, Types
    <2>3. /\ AfterRead(worker[p]) /\ worker[p].phase = "records" /\ r \in worker[p].todo
          /\ worker[p].todo \subseteq worker[p].rows
          /\ worker[p].rows \subseteq RowsOf(requested, worker[p].window)
      BY <2>1, <2>2 DEF PutRecord, ProjectionInv, HeldInv, AfterRead, ReadInv
    <2>4. r \in requested /\ worker[p].window = RowData[r].window /\ r \in worker[p].rows
      BY <2>3 DEF RowsOf
    <2>5. ASSUME NEW k \in Keys \cap {Org, RowData[r].team}
          PROVE  rollup'[k][RowData[r].window] # Absent
      <3>1. k \in Written(worker[p].rows)
        BY <2>4 DEF Written, Keys, Attributed
      <3>2. rollup[k][RowData[r].window] # Absent
        BY <2>3, <2>4, <3>1 DEF WrittenInv, LeftBehind
      <3>3. QED
        BY <1>1, <3>2, StaysHeld
    <2>6. QED
      BY <1>2, <2>4, <2>5
  <1>5. QED
    BY <1>3, <1>4

-----------------------------------------------------------------------------
(* What a complete document adds to a sum *)

\* The requests of a key that count towards a budget.
Billed(b, k, made) == {r \in Attributed(made, k) : b.model \in {AllModels, RowData[r].model}}

ConsumedOf(b, k, n, made) == SumTokens(Reported, Parts(WindowOf, Billed(b, k, made), Period(n)))

LEMMA ConsumedIs ==
  ASSUME NEW b, NEW k, NEW n, requested \in SUBSET Row
  PROVE  Consumed(b, k, n) = ConsumedOf(b, k, n, requested)
  <1>1. {r \in Attributed(requested, k) :
           RowData[r].window \in Period(n) /\ b.model \in {AllModels, RowData[r].model}}
          = Parts(WindowOf, Billed(b, k, requested), Period(n))
    BY DEF Parts, WindowOf, Billed, Attributed
  <1>2. QED
    BY <1>1 DEF Consumed, ConsumedOf

\* The counts that are missing elsewhere do not change a window's sum.
LEMMA SameTokens ==
  ASSUME NEW m, NEW j, NEW rows \in SUBSET Row, \A r \in rows : r \in m <=> r \in j
  PROVE  SumTokens(m, rows) = SumTokens(j, rows)
  <1> DEFINE f == Count(m)
             g == Count(j)
  <1>1. IsFiniteSet(rows)
    BY UsageAssumption, FS_Subset
  <1>2. \A r \in rows : f[r] = g[r]
    BY DEF Count, TokensIn
  <1> HIDE DEF f, g
  <1>3. SumOver(f, rows) = SumOver(g, rows)
    BY <1>1, <1>2, SumSame
  <1>4. SumTokens(m, rows) = SumOver(f, rows) /\ SumTokens(j, rows) = SumOver(g, rows)
    BY SumTokensIs DEF f, g
  <1>5. QED
    BY <1>3, <1>4

LEMMA ConsumedGrows ==
  ASSUME NEW b, NEW k, NEW n \in Nat, NEW n2 \in Nat, n <= n2,
         NEW made \in SUBSET Row, NEW made2 \in SUBSET Row, made \subseteq made2
  PROVE  /\ ConsumedOf(b, k, n, made) \in Nat /\ ConsumedOf(b, k, n2, made2) \in Nat
         /\ ConsumedOf(b, k, n, made) <= ConsumedOf(b, k, n2, made2)
  <1>1. PICK S \in SUBSET Row : S = Parts(WindowOf, Billed(b, k, made), Period(n))
    BY DEF Parts, Billed, Attributed
  <1>2. PICK T \in SUBSET Row : T = Parts(WindowOf, Billed(b, k, made2), Period(n2))
    BY DEF Parts, Billed, Attributed
  <1>3. Period(n) \subseteq Period(n2)
    BY DEF Period
  <1>4. S \in SUBSET T
    BY <1>1, <1>2, <1>3 DEF Parts, Billed, Attributed
  <1>5. IsFiniteSet(T) /\ \A r \in T : Count(Reported)[r] \in Nat
    BY UsageAssumption, FS_Subset, CountType
  <1>6. SumOver(Count(Reported), S) <= SumOver(Count(Reported), T)
    BY <1>4, <1>5, SumSubset
  <1>7. QED
    BY <1>1, <1>2, <1>6, SumTokensIs DEF ConsumedOf

LEMMA RollupSays ==
  ASSUME NEW m, NEW rows, NEW c
  PROVE  LET d == Rollup(m, rows, c)
         IN  /\ d.completeness = c
             /\ d.totals.requests = Cardinality(rows) /\ d.totals.tokens = SumTokens(m, rows)
             /\ DOMAIN d.byModel = {RowData[r].model : r \in rows}
             /\ \A x \in DOMAIN d.byModel :
                  d.byModel[x].tokens = SumTokens(m, {r \in rows : RowData[r].model = x})
  BY DEF Rollup, Measures

\* A complete document has what the window spent of a budget.
LEMMA SpentExact ==
  ASSUME ProjectionInv, NEW b \in Budget, NEW k \in Keys, NEW w \in Window,
         rollup[k][w] # Absent, rollup[k][w].completeness = "complete"
  PROVE  TokensOf(rollup[k][w], b.model)
           = SumTokens(Reported, Parts(WindowOf, Billed(b, k, requested), {w}))
  <1> DEFINE rows == Attributed(RowsOf(requested, w), k)
             m == Reported \cap RowsOf(requested, w)
             ofModel == {r \in rows : RowData[r].model = b.model}
             billed == Parts(WindowOf, Billed(b, k, requested), {w})
  <1>1. requested \in SUBSET Row /\ rollup[k][w] = Rollup(m, rows, "complete")
    BY DEF ProjectionInv, Types, CompleteIsExact
  <1>2. rows \in SUBSET Row /\ rows \subseteq RowsOf(requested, w)
    BY <1>1 DEF Attributed, RowsOf
  <1>3. \A s \in SUBSET rows : SumTokens(m, s) = SumTokens(Reported, s)
    <2> HIDE DEF rows
    <2>1. \A s \in SUBSET rows : s \in SUBSET Row /\ \A r \in s : r \in m <=> r \in Reported
      BY <1>2
    <2> HIDE DEF m
    <2>2. QED
      BY <2>1, SameTokens
  <1>4. billed = IF b.model = AllModels THEN rows ELSE ofModel
    BY <1>1 DEF Parts, WindowOf, Billed, Attributed, RowsOf
  <1> DEFINE d == rollup[k][w]
  <1>5. /\ d.totals.tokens = SumTokens(m, rows)
        /\ DOMAIN d.byModel = {RowData[r].model : r \in rows}
        /\ b.model \in DOMAIN d.byModel => d.byModel[b.model].tokens = SumTokens(m, ofModel)
    BY <1>1, RollupSays
  <1> HIDE DEF d, m, rows, ofModel, billed
  <1>6. CASE b.model = AllModels
    <2>1. TokensOf(d, b.model) = SumTokens(m, rows)
      BY <1>6, <1>5 DEF TokensOf
    <2>2. QED
      BY <1>3, <1>4, <1>6, <2>1 DEF d, billed
  <1>7. CASE b.model # AllModels /\ b.model \in {RowData[r].model : r \in rows}
    <2>1. TokensOf(d, b.model) = SumTokens(m, ofModel)
      BY <1>7, <1>5 DEF TokensOf
    <2>2. QED
      BY <1>3, <1>4, <1>7, <2>1 DEF d, billed, ofModel
  <1>8. CASE b.model # AllModels /\ b.model \notin {RowData[r].model : r \in rows}
    <2>1. TokensOf(d, b.model) = 0
      BY <1>8, <1>5 DEF TokensOf
    <2>2. billed = {}
      BY <1>4, <1>8 DEF ofModel
    <2>3. SumTokens(Reported, {}) = 0
      BY SumTokensIs, SumEmpty
    <2>4. QED
      BY <2>1, <2>2, <2>3 DEF d, billed
  <1>9. QED
    BY <1>6, <1>7, <1>8

\* A judgeable period was spent as observed.
LEMMA ObservedExact ==
  ASSUME ProjectionInv, NEW b \in Budget, NEW k \in Keys, NEW n \in Nat,
         Period(n) \subseteq Window, Judgeable(k, n)
  PROVE  Observed(b, k, n) = Consumed(b, k, n)
  <1> DEFINE f == Count(Reported)
             g == Spent(b, k)
             W == Period(n)
             whole == Billed(b, k, requested)
  <1>1. requested \in SUBSET Row
    BY DEF ProjectionInv, Types
  <1>2. Covered(k, n) = W /\ \A w \in W : rollup[k][w] # Absent /\ rollup[k][w].completeness = "complete"
    BY DEF Judgeable, Covered
  <1>3. whole \in SUBSET Row
    BY <1>1 DEF Billed, Attributed
  <1>4. IsFiniteSet(whole) /\ IsFiniteSet(W)
    BY <1>3, UsageAssumption, FS_Subset
  <1>5. \A x \in whole : f[x] \in Nat
    BY <1>3, CountType
  <1>6. \A V : Parts(WindowOf, whole, V) \in SUBSET Row
    BY <1>3 DEF Parts
  <1>7. \A V : SumTokens(Reported, Parts(WindowOf, whole, V)) = SumOver(f, Parts(WindowOf, whole, V))
    BY <1>6, SumTokensIs
  <1>8. PartSums(f, whole, WindowOf, W, g)
    <2> SUFFICES ASSUME NEW w \in W PROVE g[w] = SumOver(f, Parts(WindowOf, whole, {w}))
      BY DEF PartSums
    <2>1. g[w] = TokensOf(rollup[k][w], b.model)
      BY DEF Spent
    <2>2. TokensOf(rollup[k][w], b.model) = SumTokens(Reported, Parts(WindowOf, whole, {w}))
      BY <1>2, SpentExact
    <2>3. QED
      BY <1>7, <2>1, <2>2
  <1>9. Observed(b, k, n) = SumOver(g, W)
    BY <1>2, ObservedIs
  <1>10. Consumed(b, k, n) = SumOver(f, Parts(WindowOf, whole, W))
    BY <1>1, <1>7, ConsumedIs DEF ConsumedOf
  <1> HIDE DEF f, g, W, whole
  <1>11. SumOver(g, W) = SumOver(f, Parts(WindowOf, whole, W))
    BY <1>4, <1>5, <1>8, SumOfParts
  <1>12. QED
    BY <1>9, <1>10, <1>11

-----------------------------------------------------------------------------
(* Notices *)

LEMMA DivGrows ==
  ASSUME NEW q \in Nat \ {0}, NEW x \in Nat, NEW y \in Nat, x <= y
  PROVE  x \div q <= y \div q
  <1> DEFINE i == x \div q
             j == y \div q
  <1>1. /\ i \in Int /\ j \in Int
        /\ q * i <= x /\ x < q * i + q /\ q * j <= y /\ y < q * j + q
    OBVIOUS
  <1> HIDE DEF i, j
  <1>2. ASSUME i > j PROVE FALSE
    <2>1. i >= j + 1
      BY <1>1, <1>2
    <2>2. q * i >= q * (j + 1)
      BY <1>1, <2>1
    <2>3. q * (j + 1) = q * j + q
      BY <1>1
    <2>4. QED
      BY <1>1, <2>2, <2>3
  <1>3. i <= j
    BY <1>1, <1>2
  <1>4. QED
    BY <1>3 DEF i, j

\* What is earned stays earned when more is consumed.
LEMMA EarnedGrows ==
  ASSUME NEW b \in Budget, NEW x \in Nat, NEW y \in Nat, x <= y
  PROVE  Earned(b, x) \subseteq Earned(b, y)
  <1>1. b.quota \in Nat \ {0} /\ b.warn \in (0..99) \cup {NoWarning}
    BY UsageAssumption
  <1>2. x >= b.quota => y >= b.quota
    BY <1>1
  <1>3. (x * 10000) \div b.quota <= (y * 10000) \div b.quota
    <2>1. x * 10000 \in Nat /\ y * 10000 \in Nat /\ x * 10000 <= y * 10000
      OBVIOUS
    <2>2. QED
      BY <1>1, <2>1, DivGrows
  <1>4. (x * 10000) \div b.quota \in Int /\ (y * 10000) \div b.quota \in Int
    BY <1>1
  <1> DEFINE i == (x * 10000) \div b.quota
             j == (y * 10000) \div b.quota
  <1>5. i \in Int /\ j \in Int /\ i <= j
    BY <1>3, <1>4
  <1>6. /\ Earned(b, x) = (IF x >= b.quota THEN {"budget-exhausted"} ELSE {})
             \cup (IF b.warn # NoWarning /\ i >= b.warn * 100 THEN {"budget-threshold-reached"} ELSE {})
        /\ Earned(b, y) = (IF y >= b.quota THEN {"budget-exhausted"} ELSE {})
             \cup (IF b.warn # NoWarning /\ j >= b.warn * 100 THEN {"budget-threshold-reached"} ELSE {})
    BY DEF Earned
  <1> HIDE DEF i, j
  <1>7. b.warn # NoWarning /\ i >= b.warn * 100 => j >= b.warn * 100
    BY <1>1, <1>5
  <1>8. QED
    BY <1>2, <1>6, <1>7

LEMMA EarnedThroughStays ==
  ASSUME ProjectionInv, [Next]_vars, NEW notice \in Notices,
         NEW n \in 0..Cardinality(Window), EarnedThrough(notice, n)
  PROVE  EarnedThrough(notice, n)'
  <1> DEFINE b == notice.budget
             k == notice.key
  <1>1. n \in Nat /\ Period(n) \subseteq Window
    BY WindowFacts
  <1>2. b \in Budget /\ k \in Keys
    BY DEF Notices
  <1>3. \A w \in Period(n) : rollup'[k][w] # Absent
    BY <1>1, <1>2, StaysHeld DEF EarnedThrough
  <1>4. requested \in SUBSET Row /\ requested' \in SUBSET Row /\ requested \subseteq requested'
    BY LogGrows, TypesStep DEF ProjectionInv, Types
  <1>5. Consumed(b, k, n) = ConsumedOf(b, k, n, requested)
    BY <1>4, ConsumedIs
  <1>6. Consumed(b, k, n)' = ConsumedOf(b, k, n, requested')
    <2>1. {r \in Attributed(requested', k) :
             RowData[r].window \in Period(n) /\ b.model \in {AllModels, RowData[r].model}}
            = Parts(WindowOf, Billed(b, k, requested'), Period(n))
      BY <1>4 DEF Parts, WindowOf, Billed, Attributed
    <2>2. QED
      BY <2>1 DEF Consumed, ConsumedOf
  <1>7. ConsumedOf(b, k, n, requested) \in Nat /\ ConsumedOf(b, k, n, requested') \in Nat
        /\ ConsumedOf(b, k, n, requested) <= ConsumedOf(b, k, n, requested')
    BY <1>1, <1>4, ConsumedGrows
  <1>8. Earned(b, ConsumedOf(b, k, n, requested)) \subseteq Earned(b, ConsumedOf(b, k, n, requested'))
    BY <1>2, <1>7, EarnedGrows
  <1>9. QED
    BY <1>3, <1>5, <1>6, <1>8 DEF EarnedThrough

LEMMA ThroughType ==
  ASSUME ProjectionInv
  PROVE  Through(clock) \in Nat
  <1>1. clock \in Nat /\ WindowLength \in Nat \ {0} /\ SweepLag \in Nat
    BY UsageAssumption DEF ProjectionInv, Types, SweepLag
  <1>2. CASE clock < SweepLag
    BY <1>2 DEF Through
  <1>3. CASE ~(clock < SweepLag)
    BY <1>1, <1>3 DEF Through
  <1>4. QED
    BY <1>2, <1>3

\* What the comparison plans was earned by the period it read.
LEMMA PlannedIsEarned ==
  ASSUME ProjectionInv, SweepRead, NEW notice \in sweep'.plan
  PROVE  /\ notice \in Notices
         /\ notice.kind # "aggregate-stale" =>
              \E n \in 0..Cardinality(Window) : EarnedThrough(notice, n)
  <1> DEFINE n == Through(clock)
             b == notice.budget
             k == notice.key
  <1>1. /\ Period(n) \subseteq Window /\ notice \in Notices
        /\ k \in KeysOf(b, n) /\ notice.kind \in Planned(b, k, n)
    BY DEF SweepRead
  <1>2. n \in Nat /\ n \in 0..Cardinality(Window)
    BY <1>1, ThroughType, WindowFacts
  <1>3. b \in Budget /\ k \in Keys
    BY <1>1 DEF Notices
  <1> HIDE DEF n
  <1>4. ASSUME notice.kind # "aggregate-stale" PROVE EarnedThrough(notice, n)
    <2>1. Judgeable(k, n) /\ notice.kind \in Earned(b, Observed(b, k, n))
      BY <1>1, <1>4 DEF Planned
    <2>2. Observed(b, k, n) = Consumed(b, k, n)
      BY <1>1, <1>2, <1>3, <2>1, ObservedExact
    <2>3. \A w \in Period(n) : rollup[k][w] # Absent
      BY <2>1 DEF Judgeable, Covered
    <2>4. b.scope = "organization" => k = Org
      BY <1>1 DEF KeysOf
    <2>5. QED
      BY <2>1, <2>2, <2>3, <2>4 DEF EarnedThrough
  <1>5. QED
    BY <1>1, <1>2, <1>4

LEMMA NoticeStep ==
  ASSUME ProjectionInv, NoticeInv, [Next]_vars
  PROVE  NoticeInv'
  <1> SUFFICES ASSUME NEW notice \in raised' \cup sweep'.plan
               PROVE  /\ notice \in Notices
                      /\ notice.kind # "aggregate-stale" =>
                           \E n \in 0..Cardinality(Window) : EarnedThrough(notice, n)'
    BY DEF NoticeInv
  <1>1. CASE notice \in raised \cup sweep.plan
    BY <1>1, EarnedThroughStays DEF NoticeInv
  <1>2. CASE notice \notin raised \cup sweep.plan
    <2>1. \/ UNCHANGED sweepVars
          \/ SweepRead
          \/ \E done \in SUBSET sweep.plan : SweepRaise(done)
      BY DEF Next, vars, Tick, Request, Deliver, Meter, PublishCatalogue, Begin,
         Read, PutRollup, ReadRegistry, QueryRecords, PutRecord, Finish, Lose
    <2>2. CASE UNCHANGED sweepVars
      BY <1>2, <2>2 DEF sweepVars
    <2>3. ASSUME NEW done \in SUBSET sweep.plan, SweepRaise(done) PROVE FALSE
      BY <1>2, <2>3 DEF SweepRaise, Resting
    <2>4. CASE SweepRead
      <3>1. notice \in sweep'.plan
        BY <1>2, <2>4 DEF SweepRead
      <3>2. QED
        BY <2>4, <3>1, PlannedIsEarned, EarnedThroughStays
    <2>5. QED
      BY <2>1, <2>2, <2>3, <2>4
  <1>3. QED
    BY <1>1, <1>2

-----------------------------------------------------------------------------
(* The theorems *)

\* The inductive invariant of the projection.
THEOREM ProjectionInvariant == Spec => [](ProjectionInv /\ ConflictInv)
  <1>1. Init => ProjectionInv /\ ConflictInv
    BY InitInv DEF Init, ConflictInv
  <1>2. ProjectionInv /\ ConflictInv /\ [Next]_vars => (ProjectionInv /\ ConflictInv)'
    <2> SUFFICES ASSUME ProjectionInv, ConflictInv, [Next]_vars
                 PROVE  ProjectionInv' /\ ConflictInv'
      OBVIOUS
    <2>1. Types' /\ LogInv'
      BY TypesStep, LogStep DEF ProjectionInv
    <2>2. (\A p \in Projector : HeldInv(worker[p], clock, requested))'
      <3>1. \A p \in Projector : HeldInv(worker'[p], clock', requested')
        BY HeldStep DEF ProjectionInv
      <3>2. QED
        BY <3>1 DEF HeldInv, ReadInv, AfterRead, RowsOf, Reported, Settled, End, Start
    <2>3. /\ CompleteIsExact'
          /\ (\A w \in Window : \A k \in Keys :
               rollup[k][w] # Absent /\ rollup[k][w].completeness = "complete" => clock >= Settled(w))'
      BY CompleteStep DEF Settled, End, Start
    <2>4. (\A r \in Row : record[r] # Absent => IsRecord(record[r]) /\ Final(r, record[r]))'
      BY RecordStep
    <2>5. ConflictInv'
      BY ConflictStep
    <2>6. QED
      BY <2>1, <2>2, <2>3, <2>4, <2>5 DEF ProjectionInv
  <1>3. QED
    BY <1>1, <1>2, PTL DEF Spec

\* Whatever overlaps, repeats or is lost, a rollup that says complete holds
\* exactly what its window consumed.
THEOREM ProjectionExact == Spec => []CompleteIsExact
  <1>1. ProjectionInv /\ ConflictInv => CompleteIsExact
    BY DEF ProjectionInv
  <1>2. QED
    BY <1>1, ProjectionInvariant, PTL

\* Two runs disagree about a request only when the catalogue changed or the log
\* had not settled.
THEOREM ProjectionAgrees == Spec => []ReprojectionAgrees
  <1>1. ProjectionInv /\ ConflictInv => ReprojectionAgrees
    BY ConflictMeans
  <1>2. QED
    BY <1>1, ProjectionInvariant, PTL

\* What the screens and the comparison rest on.
ReadersInv ==
  /\ ProjectionInv /\ ConflictInv
  /\ RollupInv /\ WrittenInv /\ RecordedInv /\ NoticeInv

THEOREM ReadersInvariant == Spec => []ReadersInv
  <1>1. Init => RollupInv /\ WrittenInv /\ RecordedInv /\ NoticeInv
    <2> SUFFICES ASSUME Init PROVE RollupInv /\ WrittenInv /\ RecordedInv /\ NoticeInv
      OBVIOUS
    <2>1. /\ \A k \in Keys : \A w \in Window : rollup[k][w] = Absent
          /\ \A r \in Row : record[r] = Absent
          /\ \A p \in Projector : ~AfterRead(worker[p])
          /\ raised \cup sweep.plan = {}
      BY DEF Init, Idle, AfterRead, Resting
    <2>2. QED
      BY <2>1 DEF RollupInv, WrittenInv, LeftBehind, RecordedInv, NoticeInv
  <1>2. /\ ProjectionInv /\ RollupInv /\ WrittenInv /\ RecordedInv /\ NoticeInv /\ [Next]_vars
        => (RollupInv /\ WrittenInv /\ RecordedInv /\ NoticeInv)'
    BY RollupStep, WrittenStep, RecordedStep, NoticeStep
  <1>3. QED
    BY <1>1, <1>2, ProjectionInvariant, PTL DEF Spec, ReadersInv

\* What a notice says was earned was spent.
LEMMA NoticesAreTrue == ReadersInv => WarningsAreEarned
  <1> SUFFICES ASSUME ReadersInv, NEW notice \in raised, notice.kind # "aggregate-stale"
               PROVE  notice.kind \in Earned(notice.budget,
                        Consumed(notice.budget, notice.key, Cardinality(Window)))
    BY DEF WarningsAreEarned
  <1> DEFINE b == notice.budget
             k == notice.key
             c == Cardinality(Window)
  <1>1. b \in Budget /\ k \in Keys
    BY DEF ReadersInv, NoticeInv, Notices
  <1>2. PICK n \in 0..c : EarnedThrough(notice, n)
    BY DEF ReadersInv, NoticeInv
  <1>3. n \in Nat /\ c \in Nat /\ n <= c /\ requested \in SUBSET Row
    BY WindowFacts DEF ReadersInv, ProjectionInv, Types
  <1>4. Consumed(b, k, n) = ConsumedOf(b, k, n, requested) /\ Consumed(b, k, c) = ConsumedOf(b, k, c, requested)
    BY <1>3, ConsumedIs
  <1>5. /\ Consumed(b, k, n) \in Nat /\ Consumed(b, k, c) \in Nat
        /\ Consumed(b, k, n) <= Consumed(b, k, c)
    BY <1>3, <1>4, ConsumedGrows
  <1>6. QED
    BY <1>1, <1>2, <1>5, EarnedGrows DEF EarnedThrough

\* Whatever ran before or beside the comparison, nobody is warned of
\* consumption that did not happen.
THEOREM ProjectionWarnings == Spec => []WarningsAreEarned
  BY ReadersInvariant, NoticesAreTrue, PTL

-----------------------------------------------------------------------------
(* The screens *)

LEMMA AnyOf ==
  ASSUME NEW k \in Keys, NEW ws \in SUBSET Held(k), WorstCompleteness(k, ws) # "degraded"
  PROVE  /\ ws # {} /\ \A w \in ws : rollup[k][w].completeness # "degraded"
         /\ WorstCompleteness(k, ws) = "complete" =>
              \A w \in ws : rollup[k][w].completeness # "partial"
  BY DEF WorstCompleteness, States

LEMMA CountOnes ==
  ASSUME NEW rows \in SUBSET Row
  PROVE  /\ SumOver(One, rows) = Cardinality(rows) /\ Cardinality(rows) \in Nat
         /\ IsFiniteSet(rows)
         /\ \A r \in rows : One[r] \in Nat
  <1>1. IsFiniteSet(rows)
    BY UsageAssumption, FS_Subset
  <1>2. \A r \in rows : One[r] = 1
    BY DEF One
  <1>3. QED
    BY <1>1, <1>2, SumOfOnes, FS_CardinalityType

\* What was made in the windows ws, of all that was made.
MadeIn(k, ws) == Parts(WindowOf, Attributed(requested, k), ws)

LEMMA MadeInIs ==
  ASSUME ReadersInv, NEW k, NEW ws
  PROVE  /\ requested \in SUBSET Row /\ Attributed(requested, k) \in SUBSET Row
         /\ MadeIn(k, ws) \in SUBSET Row
         /\ MadeIn(k, ws) = {r \in Attributed(requested, k) : RowData[r].window \in ws}
         /\ \A w : MadeIn(k, {w}) = Attributed(RowsOf(requested, w), k)
  BY DEF ReadersInv, ProjectionInv, Types, MadeIn, Parts, WindowOf, Attributed, RowsOf

\* A window's document counts no more requests than were made.
LEMMA ShownIsMade ==
  ASSUME ReadersInv, NEW k \in Keys, NEW w \in Window, rollup[k][w] # Absent
  PROVE  /\ rollup[k][w].totals.requests \in Nat
         /\ rollup[k][w].totals.requests <= Cardinality(MadeIn(k, {w}))
         /\ rollup[k][w].completeness \in Completenesses
         /\ rollup[k][w].completeness = "complete" =>
              /\ rollup[k][w].totals.requests = Cardinality(MadeIn(k, {w}))
              /\ rollup[k][w].totals.tokens = SumTokens(Reported, MadeIn(k, {w}))
  <1> DEFINE d == rollup[k][w]
  <1>1. PICK rows \in SUBSET RowsOf(requested, w), m \in SUBSET Row, c \in Completenesses :
          d = Rollup(m, Attributed(rows, k), c)
    BY DEF ReadersInv, RollupInv, HoldsPart
  <1>2. d.totals.requests = Cardinality(Attributed(rows, k)) /\ d.completeness = c
    BY <1>1, RollupSays
  <1>3. /\ Attributed(rows, k) \subseteq MadeIn(k, {w}) /\ IsFiniteSet(MadeIn(k, {w}))
        /\ Attributed(rows, k) \in SUBSET Row
    <2>1. Attributed(rows, k) \subseteq Attributed(RowsOf(requested, w), k)
      BY <1>1 DEF Attributed
    <2>2. MadeIn(k, {w}) = Attributed(RowsOf(requested, w), k) /\ MadeIn(k, {w}) \in SUBSET Row
      BY MadeInIs
    <2>3. IsFiniteSet(Row)
      BY UsageAssumption
    <2>4. QED
      BY <2>1, <2>2, <2>3, FS_Subset
  <1>4. /\ Cardinality(Attributed(rows, k)) <= Cardinality(MadeIn(k, {w}))
        /\ Cardinality(Attributed(rows, k)) \in Nat
    BY <1>3, FS_Subset, FS_CardinalityType
  <1>5. ASSUME d.completeness = "complete"
        PROVE  /\ d.totals.requests = Cardinality(MadeIn(k, {w}))
               /\ d.totals.tokens = SumTokens(Reported, MadeIn(k, {w}))
    <2> DEFINE some == Reported \cap RowsOf(requested, w)
    <2>1. d = Rollup(some, MadeIn(k, {w}), "complete")
      BY <1>5, MadeInIs DEF ReadersInv, ProjectionInv, CompleteIsExact
    <2>2. d.totals.requests = Cardinality(MadeIn(k, {w})) /\ d.totals.tokens = SumTokens(some, MadeIn(k, {w}))
      BY <2>1, RollupSays
    <2>3. MadeIn(k, {w}) \in SUBSET Row /\ \A r \in MadeIn(k, {w}) : r \in some <=> r \in Reported
      <3>1. MadeIn(k, {w}) \in SUBSET Row /\ MadeIn(k, {w}) = Attributed(RowsOf(requested, w), k)
        BY MadeInIs
      <3>2. Attributed(RowsOf(requested, w), k) \subseteq RowsOf(requested, w)
        BY DEF Attributed
      <3>3. QED
        BY <3>1, <3>2
    <2>4. SumTokens(some, MadeIn(k, {w})) = SumTokens(Reported, MadeIn(k, {w}))
      BY <2>3, SameTokens
    <2>5. QED
      BY <2>2, <2>4
  <1>6. QED
    BY <1>2, <1>4, <1>5

\* The figures of a reading that is not degraded.
LEMMA FigureExact ==
  ASSUME ReadersInv, NEW k \in Keys, NEW ws \in SUBSET Held(k),
         WorstCompleteness(k, ws) # "degraded"
  PROVE  /\ Figure(k, ws, "requests") \in Nat
         /\ Figure(k, ws, "requests") <= Cardinality(MadeIn(k, ws))
         /\ WorstCompleteness(k, ws) = "complete" =>
              /\ Figure(k, ws, "requests") = Cardinality(MadeIn(k, ws))
              /\ Figure(k, ws, "tokens") = SumTokens(Reported, MadeIn(k, ws))
  <1> DEFINE asked == Shown(k, "requests")
             sums == Shown(k, "tokens")
             all == Attributed(requested, k)
             made == [w \in Window |-> Cardinality(MadeIn(k, {w}))]
             f == Count(Reported)
  <1>1. ws \in SUBSET Window /\ \A w \in ws : rollup[k][w] # Absent
    BY DEF Held
  <1>2. IsFiniteSet(ws) /\ all \in SUBSET Row /\ IsFiniteSet(all) /\ MadeIn(k, ws) \in SUBSET Row
    BY <1>1, UsageAssumption, FS_Subset, MadeInIs
  <1>3. /\ Figure(k, ws, "requests") = SumOver(asked, ws)
        /\ Figure(k, ws, "tokens") = SumOver(sums, ws)
    BY <1>1, FigureIs
  <1>4. \A w \in ws : asked[w] \in Nat /\ made[w] \in Nat /\ asked[w] <= made[w]
    <2> TAKE w \in ws
    <2>1. MadeIn(k, {w}) \in SUBSET Row
      BY MadeInIs
    <2>2. asked[w] = rollup[k][w].totals.requests /\ made[w] = Cardinality(MadeIn(k, {w}))
      BY <1>1 DEF Shown
    <2>3. QED
      BY <1>1, <2>1, <2>2, ShownIsMade, CountOnes
  <1>5. \A w \in ws : made[w] = SumOver(One, MadeIn(k, {w}))
    BY <1>1, MadeInIs, CountOnes
  <1>6. Cardinality(MadeIn(k, ws)) = SumOver(One, MadeIn(k, ws))
    BY <1>2, CountOnes
  <1>7. SumTokens(Reported, MadeIn(k, ws)) = SumOver(f, MadeIn(k, ws))
    BY <1>2, SumTokensIs
  <1>8. ASSUME WorstCompleteness(k, ws) = "complete", NEW w \in ws
        PROVE  asked[w] = made[w] /\ sums[w] = SumOver(f, MadeIn(k, {w}))
    <2>1. rollup[k][w].completeness = "complete"
      BY <1>1, <1>8, AnyOf, ShownIsMade DEF Completenesses
    <2>2. asked[w] = rollup[k][w].totals.requests /\ sums[w] = rollup[k][w].totals.tokens
          /\ made[w] = Cardinality(MadeIn(k, {w}))
      BY <1>1 DEF Shown
    <2>3. SumTokens(Reported, MadeIn(k, {w})) = SumOver(f, MadeIn(k, {w}))
      BY MadeInIs, SumTokensIs
    <2>4. QED
      BY <1>1, <2>1, <2>2, <2>3, ShownIsMade
  <1>9. \A r \in all : f[r] \in Nat /\ One[r] \in Nat
    BY <1>2, CountType, CountOnes
  <1> HIDE DEF asked, sums, all, made, f
  <1>10. SumOver(made, ws) = SumOver(One, MadeIn(k, ws))
    <2>1. PartSums(One, all, WindowOf, ws, made)
      BY <1>5 DEF PartSums, MadeIn, all
    <2>2. SumOver(made, ws) = SumOver(One, Parts(WindowOf, all, ws))
      BY <1>2, <1>9, <2>1, SumOfParts
    <2>3. QED
      BY <2>2 DEF MadeIn, all
  <1>11. SumOver(asked, ws) <= SumOver(made, ws) /\ SumOver(asked, ws) \in Nat
    BY <1>2, <1>4, SumLeq, SumType
  <1>12. ASSUME WorstCompleteness(k, ws) = "complete"
         PROVE  /\ SumOver(asked, ws) = SumOver(made, ws)
                /\ SumOver(sums, ws) = SumOver(f, MadeIn(k, ws))
    <2>1. SumOver(asked, ws) = SumOver(made, ws)
      BY <1>2, <1>8, <1>12, SumSame
    <2>2. PartSums(f, all, WindowOf, ws, sums)
      BY <1>8, <1>12 DEF PartSums, MadeIn, all
    <2>3. SumOver(sums, ws) = SumOver(f, Parts(WindowOf, all, ws))
      BY <1>2, <1>9, <2>2, SumOfParts
    <2>4. QED
      BY <2>1, <2>3 DEF MadeIn, all
  <1>13. QED
    BY <1>3, <1>6, <1>7, <1>10, <1>11, <1>12

LEMMA OverviewMeans == ReadersInv => OverviewIsExact
  <1> SUFFICES ASSUME ReadersInv, NEW k \in Keys, NEW range \in Reach
               PROVE  LET shown == OverviewScreen(k, range)
                          made == {r \in Attributed(requested, k) : RowData[r].window \in shown.windows}
                      IN  /\ shown.state = "complete" =>
                               shown.requests = Cardinality(made) /\ shown.tokens = SumTokens(Reported, made)
                          /\ shown.requests # Withheld => shown.requests <= Cardinality(made)
    BY DEF OverviewIsExact
  <1> DEFINE shown == OverviewScreen(k, range)
             ws == Selected(k, clock, range)
  <1>1. /\ shown.windows = ws /\ shown.state = WorstCompleteness(k, ws)
        /\ shown.requests = Figure(k, ws, "requests") /\ shown.tokens = Figure(k, ws, "tokens")
    BY DEF OverviewScreen, Overview
  <1>2. ws \in SUBSET Held(k)
    BY DEF Selected
  <1>3. WorstCompleteness(k, ws) = "degraded" => Figure(k, ws, "requests") = Withheld
    BY DEF Figure
  <1>4. {r \in Attributed(requested, k) : RowData[r].window \in ws} = MadeIn(k, ws)
    BY MadeInIs
  <1> HIDE DEF shown, ws
  <1>5. QED
    BY <1>1, <1>2, <1>3, <1>4, FigureExact DEF shown

\* A complete overview is exact whatever the runs that wrote it did.
THEOREM ScreensOverview == Spec => []OverviewIsExact
  BY ReadersInvariant, OverviewMeans, PTL

LEMMA MaxIs ==
  ASSUME NEW S \in SUBSET Window, S # {}
  PROVE  /\ Max(S) \in S /\ \A w \in S : w <= Max(S)
         /\ Max(S) \in Nat /\ Period(Max(S) + 1) \subseteq Window
  <1> DEFINE above == {m \in Nat : \A w \in S : w <= m}
  <1>1. Window \subseteq Nat /\ Cardinality(Window) \in Nat /\ Window = 0..(Cardinality(Window) - 1)
    BY WindowFacts, UsageAssumption
  <1>2. Cardinality(Window) \in above
    BY <1>1
  <1>3. PICK m \in above : \A j \in above : m <= j
    BY <1>2, Least
  <1>4. m \in S
    <2> SUFFICES ASSUME m \notin S PROVE FALSE
      OBVIOUS
    <2>1. \A w \in S : w <= m - 1
      BY <1>1, <1>3
    <2>2. m - 1 \in Nat
      <3>1. PICK w \in S : w \in Nat
        BY <1>1
      <3>2. w <= m - 1 /\ m \in Nat
        BY <1>3, <2>1
      <3>3. QED
        BY <3>1, <3>2
    <2>3. QED
      BY <1>3, <2>1, <2>2
  <1>5. \E x \in S : \A y \in S : x >= y
    BY <1>1, <1>3, <1>4
  <1>6. Max(S) \in S /\ \A y \in S : Max(S) >= y
    BY <1>5 DEF Max
  <1>7. Max(S) \in Nat /\ \A w \in S : w <= Max(S)
    BY <1>1, <1>6
  <1>8. Max(S) + 1 \in Nat /\ Max(S) + 1 <= Cardinality(Window)
    BY <1>1, <1>6, <1>7
  <1>9. QED
    BY <1>6, <1>7, <1>8, WindowFacts

LEMMA RecordsLag ==
  ASSUME ReadersInv, NEW k \in Keys
  PROVE  Attributed(Recorded, k) \subseteq MadeIn(k, Held(k)) /\ Recorded \in SUBSET Row
  <1>1. ASSUME NEW r \in Attributed(Recorded, k)
        PROVE  r \in MadeIn(k, Held(k))
    <2>1. r \in Recorded /\ k \in {Org, RowData[r].team}
      BY DEF Attributed
    <2>2. r \in requested /\ rollup[k][RowData[r].window] # Absent /\ RowData[r].window \in Window
      BY <2>1, UsageAssumption DEF Recorded, ReadersInv, RecordedInv
    <2>3. r \in Attributed(requested, k)
      BY <2>1, <2>2 DEF Attributed
    <2>4. QED
      BY <2>1, <2>2, <2>3, MadeInIs DEF Held
  <1>2. QED
    BY <1>1 DEF Recorded

LEMMA ModelsAgree ==
  ASSUME ReadersInv, UsageScreen(Org) # Withheld
  PROVE  Total(LAMBDA m : ModelsScreen[m].usage.requests, DOMAIN ModelsScreen)
           = UsageScreen(Org).requests
  <1> DEFINE S == Counted
             W == ModelRows
             g == ServedBy
  <1>1. S \in SUBSET Row /\ \A r \in S : One[r] \in Nat
    BY CountOnes DEF Counted, Recorded
  <1>2. Registry[catalogue] \in SUBSET Model
    BY UsageAssumption DEF ReadersInv, ProjectionInv, Types
  <1>3. IsFiniteSet(S) /\ IsFiniteSet(W)
    <2>1. W \in SUBSET Model
      BY <1>1, <1>2, UsageAssumption DEF ModelRows
    <2>2. QED
      BY <1>1, <2>1, UsageAssumption, FS_Subset
  <1>4. Parts(ModelOf, S, W) = S
    BY <1>1 DEF Parts, ModelOf, ModelRows
  <1>5. PartSums(One, S, ModelOf, W, g)
    <2> SUFFICES ASSUME NEW m \in W PROVE g[m] = SumOver(One, Parts(ModelOf, S, {m}))
      BY DEF PartSums
    <2>1. Parts(ModelOf, S, {m}) = {r \in S : RowData[r].model = m}
      BY <1>1 DEF Parts, ModelOf
    <2>2. g[m] = Cardinality(Parts(ModelOf, S, {m}))
      BY <2>1 DEF ServedBy
    <2>3. Parts(ModelOf, S, {m}) \in SUBSET Row
      BY <1>1, <2>1
    <2>4. QED
      BY <2>2, <2>3, CountOnes
  <1>6. UsageScreen(Org).requests = Cardinality(S)
    BY DEF UsageScreen, Usage, Bucket, Attributed
  <1>7. Cardinality(S) = SumOver(One, S)
    BY <1>1, CountOnes
  <1>8. Total(LAMBDA m : ModelsScreen[m].usage.requests, DOMAIN ModelsScreen) = SumOver(g, W)
    BY <1>3, ModelsTotalIs
  <1> HIDE DEF S, W, g
  <1>9. SumOver(g, W) = SumOver(One, Parts(ModelOf, S, W))
    BY <1>1, <1>3, <1>5, SumOfParts
  <1>10. QED
    BY <1>4, <1>6, <1>7, <1>8, <1>9

LEMMA UsageWithinOverview ==
  ASSUME ReadersInv, NEW k \in Keys, NEW range \in Reach,
         Selected(k, clock, range) = Held(k), OverviewScreen(k, range).state = "complete"
  PROVE  UsageScreen(k).requests <= OverviewScreen(k, range).requests
  <1> DEFINE ws == Held(k)
  <1>1. /\ WorstCompleteness(k, ws) = "complete"
        /\ OverviewScreen(k, range).requests = Figure(k, ws, "requests")
    BY DEF OverviewScreen, Overview
  <1>2. ws # {}
    BY <1>1 DEF WorstCompleteness
  <1>3. AllHeld # {}
    BY <1>2 DEF AllHeld
  <1>4. UsageScreen(k).requests = Cardinality(Attributed(Recorded, k))
    BY <1>3 DEF UsageScreen, UsageWindow, Counted, Usage, Bucket
  <1>5. Figure(k, ws, "requests") = Cardinality(MadeIn(k, ws))
    BY <1>1, FigureExact
  <1>6. IsFiniteSet(MadeIn(k, ws))
    BY MadeInIs, UsageAssumption, FS_Subset
  <1>7. Cardinality(Attributed(Recorded, k)) <= Cardinality(MadeIn(k, ws))
    BY <1>6, RecordsLag, FS_Subset
  <1>8. QED
    BY <1>1, <1>4, <1>5, <1>7

LEMMA ScreensMean == ReadersInv => ScreensAgree
  BY ModelsAgree, UsageWithinOverview DEF ScreensAgree

\* The screens account for the same requests.
THEOREM ScreensConsistent == Spec => []ScreensAgree
  BY ReadersInvariant, ScreensMean, PTL

LEMMA ExhaustedMeans ==
  ASSUME NEW b \in Budget, NEW x, "budget-exhausted" \in Earned(b, x)
  PROVE  x >= b.quota
  BY DEF Earned

\* Room that is shown is room up to the newest window.
LEMMA RoomMeans == ReadersInv => RoomIsReal
  <1> SUFFICES ASSUME ReadersInv, NEW b \in Budget, Consumption(b).remaining # Withheld
               PROVE  /\ Consumption(b).consumed = Consumed(b, Org, ScreenThrough)
                      /\ (\E notice \in raised : notice.budget = b /\ notice.kind = "budget-exhausted")
                           => Consumption(b).remaining = 0
    BY DEF RoomIsReal, BudgetsScreen
  <1> DEFINE n == ScreenThrough
             taken == Observed(b, Org, n)
  <1>1. n # 0 /\ Found(b) # {}
    BY DEF Consumption
  <1>2. /\ Consumption(b).consumed = taken /\ WholePeriod(n)
        /\ Consumption(b).remaining = IF taken > b.quota THEN 0 ELSE b.quota - taken
    BY <1>1 DEF Consumption
  <1>3. b.scope = "organization" /\ Org \in Keys
    BY <1>1, UsageAssumption DEF Found, KeysOf, Keys
  <1>4. AllHeld # {} /\ AllHeld \in SUBSET Window /\ n = Max(AllHeld) + 1
    BY <1>1 DEF ScreenThrough, AllHeld, Held
  <1>5. n \in Nat /\ Period(n) \subseteq Window /\ \A w \in AllHeld : w < n
    BY <1>4, MaxIs, WindowFacts
  <1>6. requested \in SUBSET Row
    BY DEF ReadersInv, ProjectionInv, Types
  <1> HIDE DEF n
  <1>7. taken = Consumed(b, Org, n)
    BY <1>2, <1>3, <1>5, ObservedExact DEF WholePeriod, ReadersInv
  <1>8. ASSUME NEW notice \in raised, notice.budget = b, notice.kind = "budget-exhausted"
        PROVE  Consumption(b).remaining = 0
    <2>1. PICK i \in 0..Cardinality(Window) : EarnedThrough(notice, i)
      BY <1>8 DEF ReadersInv, NoticeInv
    <2>2. notice.key = Org /\ \A w \in Period(i) : rollup[Org][w] # Absent
      BY <1>3, <1>8, <2>1 DEF EarnedThrough
    <2>3. i \in Nat /\ Period(i) \subseteq Window
      BY WindowFacts
    <2>4. i <= n
      <3>1. CASE i = 0
        BY <1>5, <3>1
      <3>2. CASE i # 0
        <4>1. i - 1 \in Period(i)
          BY <2>3, <3>2 DEF Period
        <4>2. i - 1 \in AllHeld
          BY <1>3, <2>2, <2>3, <4>1 DEF AllHeld, Held
        <4>3. QED
          BY <1>5, <2>3, <4>2
      <3>3. QED
        BY <3>1, <3>2
    <2>5. /\ Consumed(b, Org, i) = ConsumedOf(b, Org, i, requested)
          /\ Consumed(b, Org, n) = ConsumedOf(b, Org, n, requested)
      BY <1>6, ConsumedIs
    <2>6. Consumed(b, Org, i) \in Nat /\ Consumed(b, Org, n) \in Nat
          /\ Consumed(b, Org, i) <= Consumed(b, Org, n)
      BY <1>5, <1>6, <2>3, <2>4, <2>5, ConsumedGrows
    <2>7. Consumed(b, Org, i) >= b.quota
      BY <1>8, <2>1, <2>2, ExhaustedMeans DEF EarnedThrough
    <2>8. b.quota \in Nat
      BY UsageAssumption
    <2>9. QED
      BY <1>2, <1>7, <2>6, <2>7, <2>8
  <1>9. QED
    BY <1>2, <1>7, <1>8 DEF n

\* Room shown under a budget is room the organization has, and an exhausted
\* budget has none.
THEOREM ScreensRoom == Spec => []RoomIsReal
  BY ReadersInvariant, RoomMeans, PTL

-----------------------------------------------------------------------------
(* Drift *)

LEMMA NoVariance ==
  ASSUME NEW x \in Nat
  PROVE  Variance(x, x) = 0
  <1>1. CASE x = 0
    BY <1>1 DEF Variance
  <1>2. CASE x # 0
    <2>1. x \div (2 * x) = 0
      BY <1>2
    <2>2. (x - x) * 20000 + x = x
      OBVIOUS
    <2>3. QED
      BY <1>2, <2>1, <2>2 DEF Variance
  <1>3. QED
    BY <1>1, <1>2

LEMMA EqualAgree ==
  ASSUME NEW internal, NEW provider, internal.requests \in Nat, internal.tokens \in Nat,
         internal.requests = provider.requests, internal.tokens = provider.tokens
  PROVE  ~Disagrees(internal, provider)
  <1>1. /\ Variance(internal.tokens, provider.tokens) = 0
        /\ Variance(internal.requests, provider.requests) = 0
    BY NoVariance
  <1>2. 0 # Undefined /\ ~Exceeds(0)
    BY DriftAssumption DEF Exceeds
  <1>3. QED
    BY <1>1, <1>2 DEF Disagrees

\* What a usable document of a window says of it.
LEMMA InternalExact ==
  ASSUME ReadersInv, NEW w \in Window, InternalSide(w).usable
  PROVE  LET all == RowsOf(requested, w)
         IN  /\ InternalSide(w).requests = Cardinality(all)
             /\ InternalSide(w).tokens = SumTokens(Reported, all)
             /\ Cardinality(all) \in Nat /\ SumTokens(Reported, all) \in Nat
  <1> DEFINE all == RowsOf(requested, w)
             d == rollup[Org][w]
  <1>1. d # Absent /\ d.completeness = "complete"
    BY DEF InternalSide
  <1>2. InternalSide(w).requests = d.totals.requests /\ InternalSide(w).tokens = d.totals.tokens
    BY <1>1 DEF InternalSide
  <1>3. all \in SUBSET Row /\ MadeIn(Org, {w}) = all
    <2>1. MadeIn(Org, {w}) \in SUBSET Row /\ MadeIn(Org, {w}) = Attributed(all, Org)
      BY MadeInIs
    <2>2. QED
      BY <2>1 DEF Attributed
  <1>4. Org \in Keys
    BY DEF Keys
  <1>5. d.totals.requests = Cardinality(all) /\ d.totals.tokens = SumTokens(Reported, all)
    BY <1>1, <1>3, <1>4, ShownIsMade
  <1>6. QED
    BY <1>2, <1>3, <1>5, CountOnes, SumTokensIs

LEMMA DriftMeans == ReadersInv => DriftIsReal
  <1> SUFFICES ASSUME ReadersInv, NEW w \in Window,
                      NEW provider \in {Metered(w, aside) : aside \in Aside} \cup {OutOfReach}
               PROVE  LET warning == Warning(w, provider)
                          past    == provider.requests - Cardinality(RowsOf(requested, w))
                      IN  /\ warning = "usage-drift-detected" /\ Measurable(w) => past > 0
                          /\ warning = "none" => provider.usable /\ (Measurable(w) => past = 0)
    BY DEF DriftIsReal
  <1> DEFINE internal == InternalSide(w)
             all == RowsOf(requested, w)
             outcome == Comparison(internal, provider)
  <1>1. outcome \in {"indeterminate", "disputed", "agreed"}
    BY DEF Comparison
  <1>2. /\ Warning(w, provider) = "usage-drift-detected" => outcome = "disputed"
        /\ Warning(w, provider) = "none" => outcome = "agreed"
    BY <1>1 DEF Warning
  <1>3. outcome # "indeterminate" => internal.usable /\ provider.usable
    BY DEF Comparison
  <1>4. outcome = "disputed" <=> internal.usable /\ provider.usable /\ Disagrees(internal, provider)
    BY DEF Comparison
  <1>5. requested \in SUBSET Row /\ all \in SUBSET Row
    BY DEF ReadersInv, ProjectionInv, Types, RowsOf
  <1> HIDE DEF internal, outcome
  <1>6. ASSUME internal.usable
        PROVE  /\ internal.requests = Cardinality(all) /\ Cardinality(all) \in Nat
               /\ internal.tokens = SumTokens(Reported, all) /\ SumTokens(Reported, all) \in Nat
    BY <1>6, InternalExact DEF internal
  <1>7. provider.usable => \E aside \in Aside : provider = Metered(w, aside)
    BY DEF OutOfReach
  <1>8. ASSUME Measurable(w), NEW aside \in Aside, provider = Metered(w, aside)
        PROVE  /\ provider.requests = Cardinality(all) + aside.requests
               /\ provider.tokens = SumTokens(Reported, all) + aside.tokens
    <2>1. Served(w) = all
      BY <1>8 DEF Served, Measurable
    <2>2. \A r \in all : r \in Row <=> r \in Reported
      BY <1>5, <1>8 DEF Measurable
    <2>3. SumTokens(Row, all) = SumTokens(Reported, all)
      BY <1>5, <2>2, SameTokens
    <2>4. QED
      BY <1>8, <2>1, <2>3 DEF Metered
  <1>9. ASSUME outcome = "disputed", Measurable(w)
        PROVE  provider.requests - Cardinality(all) > 0
    <2>1. PICK aside \in Aside : provider = Metered(w, aside)
      BY <1>3, <1>7, <1>9
    <2>2. aside.requests \in Nat /\ (aside.requests = 0 => aside.tokens = 0)
      BY DriftAssumption
    <2>3. /\ provider.requests = Cardinality(all) + aside.requests
          /\ provider.tokens = SumTokens(Reported, all) + aside.tokens
      BY <1>8, <1>9, <2>1
    <2>4. /\ internal.requests = Cardinality(all) /\ Cardinality(all) \in Nat
          /\ internal.tokens = SumTokens(Reported, all) /\ SumTokens(Reported, all) \in Nat
      BY <1>3, <1>6, <1>9
    <2>5. aside.requests # 0
      <3> SUFFICES ASSUME aside.requests = 0 PROVE FALSE
        OBVIOUS
      <3>1. internal.requests = provider.requests /\ internal.tokens = provider.tokens
        BY <2>2, <2>3, <2>4
      <3>2. QED
        BY <1>4, <1>9, <2>4, <3>1, EqualAgree
    <2>6. QED
      BY <2>2, <2>3, <2>4, <2>5
  <1>10. ASSUME outcome = "agreed"
         PROVE  provider.usable /\ provider.requests - Cardinality(all) = 0
    <2>1. internal.usable /\ provider.usable /\ ~Disagrees(internal, provider)
      BY <1>3, <1>4, <1>10
    <2>2. internal.requests = provider.requests
      BY <2>1 DEF Disagrees
    <2>3. QED
      BY <1>6, <2>1, <2>2
  <1>11. QED
    BY <1>2, <1>9, <1>10

\* The drift alarm is about drift.
THEOREM DriftAlarm == Spec => []DriftIsReal
  BY ReadersInvariant, DriftMeans, PTL

(***************************************************************************)
(* BudgetCounters: what a counter holds and by how much a quota is passed. *)
(***************************************************************************)
ChargeKeys(x) == {Key(y[1], y[2], x[1]) : y \in x[3]}
Kept(n, k, H) == {x \in DOMAIN n : x[1] = k /\ x[2] \in H}
ChargedTo(m, k, H) == {x \in DOMAIN m : x[4] \in H /\ k \in ChargeKeys(x)}
SpentOf(m, space, l, c, H) ==
  {x \in DOMAIN m :
      /\ x[1] \in Sharing(l.scope, c) /\ x[4] \in H
      /\ l.model \in {AnyModel, x[2]}
      /\ \E y \in x[3] : y[1] = space /\ SameBudget(y[2], l)}

LimitSet == [scope : Scope, model : ModelKey \cup {AnyModel}, quota : Nat \ {0}, period : Span,
             budget : (BudgetId \X (Nat \ {0})) \cup {NoBudget}]

BudgetSets ==
  /\ IsBudgetSet(published)
  /\ proposal = NoSet \/ IsBudgetSet(proposal)
  /\ DOMAIN base = Administrator /\ DOMAIN cache = Caller
  /\ \A a \in Administrator : base[a] = NoSet \/ IsBudgetSet(base[a])
  /\ \A c \in Caller : cache[c] = NoSet \/ IsBudgetSet(cache[c])

\* What a request holds a limit for, the model that serves it is under.
Serves(r) ==
  /\ r.caller \in Caller /\ {r.asked, r.serving} \subseteq r.caller.models
  /\ \A l \in r.quotas \cup r.meters : l \in LimitSet /\ l.model \in {AnyModel, r.serving}
SlotInv ==
  /\ DOMAIN slot = Slot
  /\ \A s \in Slot : slot[s] # Unused => Serves(slot[s])

IsCharge(x, now) ==
  /\ x = <<x[1], x[2], x[3], x[4]>>
  /\ x[1] \in Caller /\ x[4] \in 0..now
  /\ \A y \in x[3] : y[2] \in LimitSet /\ y[2].model \in {AnyModel, x[2]}
SpentHolds(m, now) ==
  /\ IsFiniteSet(DOMAIN m)
  /\ \A x \in DOMAIN m : m[x] \in Nat /\ IsCharge(x, now)

\* A counter exists for what was charged to it, and holds that.
CounterHolds(n, m) ==
  /\ DOMAIN n = UNION {ChargeKeys(x) \X {x[4]} : x \in DOMAIN m}
  /\ \A x \in DOMAIN n : n[x] \in Nat
  /\ \A k \in {x[1] : x \in DOMAIN n}, H \in SUBSET (0..MaxHour) :
        SumOver(n, Kept(n, k, H)) = SumOver(m, ChargedTo(m, k, H))

\* The limits charged so far as one version of a budget, the requests that
\* will be charged to a limit, and the hours of one period.
PastContents(m, l) == {y[2] : y \in {z \in UNION {x[3] : x \in DOMAIN m} : SameBudget(z[2], l)}}
InFlight(w, l, c) == {s \in Slot : w[s] # Unused /\ l \in w[s].quotas
                                   /\ w[s].caller \in Sharing(l.scope, c)}
HoursOf(l, h) == StartOf(l.period, h)..(StartOf(l.period, h) + Hours[l.period] - 1)
Ceiling(l) == l.quota + MaxTokens * Cardinality(Slot)

\* What was spent in a period, and in the current one what may still come.
Pending(now, w, l, c, h) ==
  IF StartOf(l.period, h) = StartOf(l.period, now)
  THEN MaxTokens * Cardinality(InFlight(w, l, c)) ELSE 0
HasCeiling(now, m, w, l, c, h) ==
  SumOver(m, SpentOf(m, "quota", l, c, HoursOf(l, h))) + Pending(now, w, l, c, h) < Ceiling(l)
RoomHolds(now, m, w) ==
  \A l \in LimitSet, c \in Caller, h \in 0..now :
    PastContents(m, l) \subseteq {l} => HasCeiling(now, m, w, l, c, h)

CountersInv ==
  /\ hour \in 0..MaxHour /\ edits \in 0..MaxEdits
  /\ BudgetSets /\ SlotInv /\ SpentHolds(spent, hour)
  /\ CounterHolds(counter, spent) /\ RoomHolds(hour, spent, slot)

-----------------------------------------------------------------------------
(* The hours of a period.                                                    *)

LEMMA Remainder ==
  ASSUME NEW n \in Nat \ {0}, NEW q \in Int, NEW r \in 0..(n - 1)
  PROVE  (n * q + r) % n = r
  OBVIOUS

LEMMA StartIs ==
  ASSUME NEW p \in Span, NEW t \in Nat
  PROVE  /\ Hours[p] \in Nat \ {0} /\ StartOf(p, t) \in Nat
         /\ StartOf(p, t) <= t /\ t <= StartOf(p, t) + Hours[p] - 1
         /\ StartOf(p, t) = Hours[p] * (t \div Hours[p])
  <1>1. Hours[p] \in Nat \ {0}
    BY BudgetAssumption
  <1> DEFINE n == Hours[p]
  <1> HIDE DEF n
  <1>2. n \in Nat \ {0}
    BY <1>1 DEF n
  <1>3. t = n * (t \div n) + (t % n)
    BY <1>2
  <1>a. t % n \in 0..(n - 1)
    BY <1>2
  <1>b. t \div n \in Int
    BY <1>2
  <1>c. t \div n >= 0
    BY <1>2
  <1>4. n * (t \div n) \in Int /\ n * (t \div n) >= 0
    BY <1>2, <1>b, <1>c
  <1>5. StartOf(p, t) = n * (t \div n)
    BY <1>2, <1>3, <1>4 DEF StartOf, n
  <1>6. PICK a \in Nat : a = n * (t \div n)
    BY <1>4
  <1>7. PICK r \in 0..(n - 1) : r = t % n
    BY <1>a
  <1>8. t = a + r
    BY <1>3, <1>6, <1>7
  <1>9. a \in Nat /\ a <= t /\ t <= a + n - 1
    BY <1>2, <1>7, <1>8
  <1>10. StartOf(p, t) = a
    BY <1>5, <1>6
  <1>11. QED
    BY <1>1, <1>5, <1>9, <1>10 DEF n

LEMMA StartOnce ==
  ASSUME NEW p \in Span, NEW t \in Nat, NEW u \in StartOf(p, t)..(StartOf(p, t) + Hours[p] - 1)
  PROVE  StartOf(p, u) = StartOf(p, t)
  <1>1. /\ Hours[p] \in Nat \ {0} /\ StartOf(p, t) \in Nat /\ t \div Hours[p] \in Int
        /\ StartOf(p, t) = Hours[p] * (t \div Hours[p])
    BY StartIs
  <1>2. PICK q \in Int : StartOf(p, t) = Hours[p] * q
    BY <1>1
  <1>3. PICK r \in 0..(Hours[p] - 1) : u = StartOf(p, t) + r
    <2>1. u - StartOf(p, t) \in 0..(Hours[p] - 1) /\ u = StartOf(p, t) + (u - StartOf(p, t))
      BY <1>1
    <2>2. QED
      BY <2>1
  <1>4. u % Hours[p] = r
    BY <1>1, <1>2, <1>3, Remainder
  <1>5. QED
    BY <1>1, <1>3, <1>4 DEF StartOf

\* A later hour begins a period or goes on with the one before.
LEMMA NextHour ==
  ASSUME NEW p \in Span, NEW t \in Nat
  PROVE  StartOf(p, t + 1) = StartOf(p, t) \/ StartOf(p, t + 1) = t + 1
  <1>1. t + 1 \in Nat
    OBVIOUS
  <1>2. /\ StartOf(p, t + 1) \in Nat /\ StartOf(p, t + 1) <= t + 1 /\ Hours[p] \in Nat
        /\ t + 1 <= StartOf(p, t + 1) + Hours[p] - 1
    BY <1>1, StartIs
  <1>3. StartOf(p, t + 1) <= t => t \in StartOf(p, t + 1)..(StartOf(p, t + 1) + Hours[p] - 1)
    BY <1>2
  <1>4. QED
    BY <1>1, <1>2, <1>3, StartOnce

-----------------------------------------------------------------------------
(* Adding to a function.                                                     *)

LEMMA AddIs ==
  ASSUME NEW f, NEW S, NEW n
  PROVE  /\ DOMAIN Add(f, S, n) = DOMAIN f \cup S
         /\ \A x \in DOMAIN f \cup S : Add(f, S, n)[x] =
              (IF x \in DOMAIN f THEN f[x] ELSE 0) + (IF x \in S THEN n ELSE 0)
  BY DEF Add

\* A sum grows by what was added to the one element it has of those added to.
LEMMA AddSum ==
  ASSUME NEW f, NEW S, NEW n \in Nat, \A x \in DOMAIN f : f[x] \in Nat,
         NEW T, IsFiniteSet(T), T \subseteq DOMAIN f \cup S, NEW e, T \cap S \subseteq {e}
  PROVE  SumOver(Add(f, S, n), T) =
           SumOver(f, T \cap DOMAIN f) + (IF e \in T \cap S THEN n ELSE 0)
  <1>0. PICK g : g = Add(f, S, n)
    OBVIOUS
  <1>d. PICK D : D = DOMAIN f
    OBVIOUS
  <1>v. PICK V : V = T \cap D
    OBVIOUS
  <1> SUFFICES SumOver(g, T) = SumOver(f, V) + (IF e \in T /\ e \in S THEN n ELSE 0)
    BY <1>0, <1>d, <1>v
  <1>1. \A x \in D \cup S : g[x] = (IF x \in D THEN f[x] ELSE 0) + (IF x \in S THEN n ELSE 0)
    BY <1>0, <1>d, AddIs
  <1>2. (\A x \in T : g[x] \in Nat) /\ T \subseteq D \cup S /\ \A x \in D : f[x] \in Nat
    BY <1>1, <1>d
  <1>3. IsFiniteSet(V) /\ V \subseteq D
    BY <1>v, FS_Subset
  <1>4. SumOver(f, V) \in Nat
    BY <1>2, <1>3, SumType
  <1>5. ASSUME NEW U \in SUBSET T, U \cap S = {} PROVE SumOver(g, U) = SumOver(f, U) /\ U \subseteq D
    <2>1. U \subseteq D /\ IsFiniteSet(U)
      BY <1>2, <1>5, FS_Subset
    <2>2. \A x \in U : g[x] = f[x]
      BY <1>1, <1>5, <2>1
    <2>3. QED
      BY <2>1, <2>2, SumSame
  <1>6. CASE ~(e \in T /\ e \in S)
    <2>1. T \cap S = {} /\ T \in SUBSET T
      BY <1>6
    <2>2. SumOver(g, T) = SumOver(f, T) /\ V = T
      BY <1>5, <1>v, <2>1
    <2>3. QED
      BY <1>4, <1>6, <2>2
  <1>7. CASE e \in T /\ e \in S
    <2> DEFINE U == T \ {e}
    <2>1. e \in T /\ e \in S /\ U \in SUBSET T /\ U \cap S = {} /\ IsFiniteSet(U)
      BY <1>7, FS_Subset
    <2>2. SumOver(g, T) = g[e] + SumOver(g, U)
      BY <1>2, <2>1, SumRemove
    <2>3. SumOver(g, U) = SumOver(f, U) /\ U \subseteq D
      BY <1>5, <2>1
    <2>4. SumOver(f, U) \in Nat
      BY <1>2, <2>1, <2>3, SumType
    <2>g. g[e] \in Nat
      BY <1>2, <2>1
    <2> HIDE DEF U
    <2>5. CASE e \in D
      <3>1. g[e] = f[e] + n /\ f[e] \in Nat /\ V = T /\ T \subseteq D
        BY <1>1, <1>v, <1>2, <2>1, <2>3, <2>5
      <3>2. SumOver(f, T) = f[e] + SumOver(f, U)
        BY <1>2, <2>1, <2>5, <3>1, SumRemove DEF U
      <3>3. QED
        BY <1>7, <2>2, <2>3, <2>4, <3>1, <3>2
    <2>6. CASE e \notin D
      <3>0. V = U
        BY <1>v, <2>1, <2>3, <2>6 DEF U
      <3>1. g[e] = 0 + n /\ V = U
        BY <1>1, <2>1, <2>6, <3>0
      <3>2. QED
        BY <1>7, <2>2, <2>3, <2>4, <3>1
    <2>7. QED
      BY <2>5, <2>6
  <1>8. QED
    BY <1>6, <1>7

-----------------------------------------------------------------------------
(* Limits and budgets.                                                       *)

LEMMA BudgetFields ==
  ASSUME NEW b, IsBudget(b)
  PROVE  /\ b.id \in BudgetId /\ b.version \in Nat \ {0} /\ b.scope \in Scope
         /\ b.model \in ModelKey \cup {AnyModel} /\ b.action \in Action /\ b.amount \in Nat \ {0}
         /\ b.period \in Span /\ b.warn \in 0..99 /\ b.grace \in 0..100 /\ Sound(b)
  <1> DEFINE t == [f \in DOMAIN b \ {"id", "version"} |-> b[f]]
  <1>1. t \in Term /\ DOMAIN b = {"id", "version", "scope", "model", "action", "amount", "period", "warn", "grace"}
        /\ b.id \in BudgetId /\ b.version \in Nat \ {0} /\ Sound(b)
    BY DEF IsBudget
  <1>2. /\ t.scope = b.scope /\ t.model = b.model /\ t.action = b.action /\ t.amount = b.amount
        /\ t.period = b.period /\ t.warn = b.warn /\ t.grace = b.grace
    BY <1>1
  <1> HIDE DEF t
  <1>3. QED
    BY <1>1, <1>2 DEF Term

LEMMA EnforcedIs ==
  ASSUME NEW b, IsBudget(b)
  PROVE  /\ Enforced(b) \in Nat \ {0} /\ b.amount <= Enforced(b)
         /\ b.action = "SOFT_WARNING" => Enforced(b) <= 2 * b.amount
  <1>1. b.amount \in Nat \ {0} /\ b.grace \in 0..100
    BY BudgetFields
  <1>2. CASE b.action # "SOFT_WARNING"
    BY <1>1, <1>2 DEF Enforced
  <1>3. CASE b.action = "SOFT_WARNING"
    <2>1. PICK a \in Nat \ {0} : a = b.amount
      BY <1>1
    <2>2. PICK g \in 0..100 : g = b.grace
      BY <1>1
    <2>3. PICK x \in Nat : x = a * g
      BY <2>1, <2>2
    <2>4. a * (100 + g) = 100 * a + x
      BY <2>1, <2>2, <2>3
    <2>5. x <= 100 * a
      BY <2>1, <2>2, <2>3
    <2>6. (100 * a + x) \div 100 >= a /\ (100 * a + x) \div 100 <= 2 * a
      BY <2>1, <2>3, <2>5
    <2>7. (100 * a + x) \div 100 \in Nat
      BY <2>1, <2>3
    <2>8. Enforced(b) = (100 * a + x) \div 100
      BY <1>3, <2>1, <2>2, <2>4 DEF Enforced
    <2>9. QED
      BY <2>1, <2>6, <2>7, <2>8
  <1>4. QED
    BY <1>2, <1>3

LEMMA AsLimitType ==
  ASSUME NEW b, IsBudget(b)
  PROVE  AsLimit(b) \in LimitSet
  BY BudgetFields, EnforcedIs DEF AsLimit, LimitSet

LEMMA EntitledType ==
  ASSUME NEW c PROVE Entitled(c) \subseteq LimitSet
  <1>1. ASSUME NEW scope \in Scope, NEW target PROVE Plain(scope, target) \subseteq LimitSet
    BY BudgetAssumption DEF Plain, LimitSet
  <1>2. {"organization", "team", "subject", "application"} \subseteq Scope
    BY DEF Scope
  <1>3. PICK scope \in Scope : scope = (IF SoleTeam(c) = NoTeamKey THEN "subject" ELSE "team")
    BY <1>2
  <1>4. UNION {Plain(scope, t) : t \in c.teams} \subseteq LimitSet
    BY <1>1
  <1>5. QED
    BY <1>1, <1>2, <1>3, <1>4 DEF Entitled

LEMMA LimitsType ==
  ASSUME NEW c, NEW B, IsBudgetSet(B), NEW m
  PROVE  /\ \A l \in Declared(c, B, m) : l \in LimitSet /\ l.model \in {AnyModel, Effective(c, B, m)}
         /\ \A l \in Running(Measured(c, B), c, {AnyModel, Effective(c, B, m)}) :
              l \in LimitSet /\ l.model \in {AnyModel, Effective(c, B, m)}
  <1>1. \A b \in B : AsLimit(b) \in LimitSet
    BY AsLimitType DEF IsBudgetSet
  <1>2. Budgeted(c, B) \subseteq LimitSet /\ Measured(c, B) \subseteq LimitSet
    BY <1>1 DEF Budgeted, Measured
  <1>3. Limits(c, B) \subseteq LimitSet
    BY <1>2, EntitledType DEF Limits
  <1>4. QED
    BY <1>2, <1>3 DEF Declared, Running

-----------------------------------------------------------------------------
(* What is read, proposed and published.                                     *)

LEMMA CountersStart == CountersInit => CountersInv
  <1> SUFFICES ASSUME CountersInit PROVE CountersInv
    OBVIOUS
  <1>1. DOMAIN counter = {} /\ DOMAIN spent = {}
    BY DEF CountersInit
  <1>2. hour \in 0..MaxHour /\ edits \in 0..MaxEdits /\ hour = 0
    BY BudgetAssumption DEF CountersInit
  <1>3. BudgetSets
    BY BudgetAssumption DEF CountersInit, BudgetSets
  <1>4. SlotInv
    BY DEF CountersInit, SlotInv
  <1>5. SpentHolds(spent, hour)
    BY <1>1, FS_EmptySet DEF SpentHolds
  <1>6. CounterHolds(counter, spent)
    BY <1>1 DEF CounterHolds
  <1>7. RoomHolds(hour, spent, slot)
    <2> SUFFICES ASSUME NEW l \in LimitSet, NEW c \in Caller, NEW h \in 0..hour
                 PROVE  HasCeiling(hour, spent, slot, l, c, h)
      BY DEF RoomHolds
    <2>1. SpentOf(spent, "quota", l, c, HoursOf(l, h)) = {}
      BY <1>1 DEF SpentOf
    <2>2. SumOver(spent, SpentOf(spent, "quota", l, c, HoursOf(l, h))) = 0
      BY <2>1, SumEmpty
    <2>3. InFlight(slot, l, c) = {}
      BY DEF InFlight, CountersInit
    <2>5. MaxTokens \in Nat /\ Cardinality(Slot) \in Nat /\ l.quota \in Nat \ {0}
      BY BudgetAssumption, FS_CardinalityType DEF LimitSet
    <2>4. Pending(hour, slot, l, c, h) = 0
      BY <2>3, <2>5, FS_EmptySet DEF Pending
    <2>6. MaxTokens * Cardinality(Slot) \in Nat
      BY <2>5
    <2>7. QED
      BY <2>2, <2>4, <2>5, <2>6 DEF Ceiling, HasCeiling
  <1>8. QED
    BY <1>2, <1>3, <1>4, <1>5, <1>6, <1>7 DEF CountersInv

LEMMA AuthoredIs ==
  ASSUME NEW id \in BudgetId, NEW v \in Nat \ {0}, NEW t \in Terms, Sound(Authored(id, v, t))
  PROVE  IsBudget(Authored(id, v, t)) /\ Authored(id, v, t).id = id
  <1> DEFINE b == Authored(id, v, t)
  <1>1. t \in Term /\ DOMAIN t = {"scope", "model", "action", "amount", "period", "warn", "grace"}
    BY BudgetAssumption DEF Term
  <1>2. DOMAIN b = {"id", "version", "scope", "model", "action", "amount", "period", "warn", "grace"}
    BY <1>1 DEF Authored
  <1>3. b.id = id /\ b.version = v /\ \A f \in DOMAIN t : b[f] = t[f]
    BY <1>1 DEF Authored
  <1> HIDE DEF b
  <1>4. DOMAIN b \ {"id", "version"} = DOMAIN t
    BY <1>1, <1>2
  <1>5. [f \in DOMAIN b \ {"id", "version"} |-> b[f]] = [f \in DOMAIN t |-> t[f]]
    BY <1>3, <1>4
  <1>6. t = [f \in DOMAIN t |-> t[f]]
    BY <1>1 DEF Term
  <1>7. QED
    BY <1>1, <1>2, <1>3, <1>5, <1>6 DEF IsBudget, b

\* A budget that is free of the others joins them.
LEMMA FreeJoins ==
  ASSUME NEW B, IsBudgetSet(B), NEW b, IsBudget(b), Free(B, b)
  PROVE  IsBudgetSet(B \cup {b})
  BY DEF IsBudgetSet, Free

LEMMA FewerBudgets ==
  ASSUME NEW B, IsBudgetSet(B), NEW D \in SUBSET B
  PROVE  IsBudgetSet(D)
  BY DEF IsBudgetSet

\* A proposal is a set the validator accepts.
LEMMA ProposeKeeps ==
  ASSUME BudgetSets, edits \in 0..MaxEdits, NEW a \in Administrator, NEW B, IsBudgetSet(B), Propose(a, B)
  PROVE  BudgetSets' /\ edits' \in 0..MaxEdits
  <1>1. proposal' = B /\ edits' = edits + 1 /\ edits < MaxEdits /\ base' = [base EXCEPT ![a] = NoSet]
        /\ published' = published /\ cache' = cache
    BY DEF Propose
  <1>2. BudgetSets'
    BY <1>1 DEF BudgetSets
  <1>3. QED
    BY <1>1, <1>2, BudgetAssumption

\* What only administrators do leaves the counters and the slots alone.
LEMMA AuthoringKeeps ==
  ASSUME CountersInv, BudgetSets', edits' \in 0..MaxEdits,
         UNCHANGED <<hour, slot, counter, spent>>
  PROVE  CountersInv'
  <1>1. SlotInv'
    BY DEF CountersInv, SlotInv
  <1>2. /\ SpentHolds(spent, hour)' /\ CounterHolds(counter, spent)'
        /\ RoomHolds(hour, spent, slot)' /\ (hour \in 0..MaxHour)'
    BY DEF CountersInv
  <1>3. QED
    BY <1>1, <1>2 DEF CountersInv

LEMMA AdministratorKeeps ==
  ASSUME CountersInv, NEW a \in Administrator,
         \/ ReadBudgets(a) \/ Conflict(a)
         \/ \E id \in BudgetId, t \in Terms : AddBudget(a, id, t)
         \/ \E held \in Known(a) : RemoveBudget(a, held) \/ \E t \in Terms : EditBudget(a, held, t)
  PROVE  CountersInv'
  <1>0. BudgetSets /\ edits \in 0..MaxEdits
    BY DEF CountersInv
  <1>1. CASE ReadBudgets(a)
    <2>1. BudgetSets' /\ edits' \in 0..MaxEdits /\ UNCHANGED <<hour, slot, counter, spent>>
      BY <1>0, <1>1 DEF ReadBudgets, BudgetSets
    <2>2. QED
      BY <2>1, AuthoringKeeps
  <1>2. CASE Conflict(a)
    <2>1. BudgetSets' /\ edits' \in 0..MaxEdits /\ UNCHANGED <<hour, slot, counter, spent>>
      BY <1>0, <1>2 DEF Conflict, BudgetSets
    <2>2. QED
      BY <2>1, AuthoringKeeps
  <1>3. ASSUME NEW B, IsBudgetSet(B), Propose(a, B) PROVE CountersInv'
    <2>1. BudgetSets' /\ edits' \in 0..MaxEdits
      BY <1>0, <1>3, ProposeKeeps
    <2>2. UNCHANGED <<hour, slot, counter, spent>>
      BY <1>3 DEF Propose
    <2>3. QED
      BY <2>1, <2>2, AuthoringKeeps
  <1>4. base[a] # NoSet => IsBudgetSet(base[a])
    BY <1>0 DEF BudgetSets
  <1>5. ASSUME NEW id \in BudgetId, NEW t \in Terms, AddBudget(a, id, t) PROVE CountersInv'
    <2>1. base[a] # NoSet /\ Sound(Authored(id, 1, t)) /\ Free(base[a], Authored(id, 1, t))
          /\ Propose(a, base[a] \cup {Authored(id, 1, t)})
      BY <1>5 DEF AddBudget
    <2>2. IsBudget(Authored(id, 1, t))
      BY <2>1, AuthoredIs
    <2>3. IsBudgetSet(base[a] \cup {Authored(id, 1, t)})
      BY <1>4, <2>1, <2>2, FreeJoins
    <2>4. QED
      BY <1>3, <2>1, <2>3
  <1>6. ASSUME NEW held \in Known(a), RemoveBudget(a, held) PROVE CountersInv'
    <2>1. held \in base[a] /\ base[a] # NoSet /\ Propose(a, base[a] \ {held})
      BY <1>6 DEF RemoveBudget, Known
    <2>2. IsBudgetSet(base[a] \ {held})
      BY <1>4, <2>1, FewerBudgets
    <2>3. QED
      BY <1>3, <2>1, <2>2
  <1>7. ASSUME NEW held \in Known(a), NEW t \in Terms, EditBudget(a, held, t) PROVE CountersInv'
    <2> DEFINE b == Authored(held.id, held.version + 1, t)
    <2>1. /\ held \in base[a] /\ base[a] # NoSet
          /\ Sound(b) /\ Free(base[a] \ {held}, b)
          /\ Propose(a, (base[a] \ {held}) \cup {b})
      BY <1>7 DEF EditBudget, Known
    <2>2. held.id \in BudgetId /\ held.version + 1 \in Nat \ {0}
      <3>1. IsBudget(held)
        BY <1>4, <2>1 DEF IsBudgetSet
      <3>2. QED
        BY <3>1, BudgetFields
    <2>3. IsBudget(b)
      BY <2>1, <2>2, AuthoredIs
    <2> HIDE DEF b
    <2>4. IsBudgetSet(base[a] \ {held})
      BY <1>4, <2>1, FewerBudgets
    <2>5. IsBudgetSet((base[a] \ {held}) \cup {b})
      BY <2>1, <2>3, <2>4, FreeJoins
    <2>6. QED
      BY <1>3, <2>1, <2>5
  <1>8. QED
    BY <1>1, <1>2, <1>5, <1>6, <1>7

LEMMA PublicationKeeps ==
  ASSUME CountersInv, Publish \/ Withdraw \/ \E c \in Caller : Resolve(c)
  PROVE  CountersInv'
  <1>0. BudgetSets /\ edits \in 0..MaxEdits
    BY DEF CountersInv
  <1>1. CASE Publish \/ Withdraw
    <2>1. BudgetSets' /\ edits' \in 0..MaxEdits /\ UNCHANGED <<hour, slot, counter, spent>>
      BY <1>0, <1>1 DEF Publish, Withdraw, BudgetSets
    <2>2. QED
      BY <2>1, AuthoringKeeps
  <1>2. ASSUME NEW c \in Caller, Resolve(c) PROVE CountersInv'
    <2>1. BudgetSets' /\ edits' \in 0..MaxEdits /\ UNCHANGED <<hour, slot, counter, spent>>
      BY <1>0, <1>2 DEF Resolve, authoring, BudgetSets
    <2>2. QED
      BY <2>1, AuthoringKeeps
  <1>3. QED
    BY <1>1, <1>2

-----------------------------------------------------------------------------
(* Admission.                                                                *)

\* Nothing else is admitted under a budget's name than what it is charged as.
LEMMA SpentIsCharged ==
  ASSUME NEW m, NEW now, SpentHolds(m, now), NEW space, NEW l, NEW c \in Caller, NEW H
  PROVE  SpentOf(m, space, l, c, H) = ChargedTo(m, Key(space, l, c), H)
  <1>1. ASSUME NEW x \in DOMAIN m, NEW y \in x[3]
        PROVE  Key(y[1], y[2], x[1]) = Key(space, l, c) <=>
                 /\ y[1] = space /\ SameBudget(y[2], l) /\ Whose(l.scope, x[1]) = Whose(l.scope, c)
    BY DEF Key, SameBudget
  <1>2. ASSUME NEW x \in DOMAIN m
        PROVE  /\ x[1] \in Caller
               /\ \A y \in x[3] : SameBudget(y[2], l) => l.model \in {AnyModel, x[2]}
    BY DEF SpentHolds, IsCharge, SameBudget
  <1>3. ASSUME NEW x \in DOMAIN m
        PROVE  x \in SpentOf(m, space, l, c, H) <=> x \in ChargedTo(m, Key(space, l, c), H)
    BY <1>1, <1>2 DEF SpentOf, ChargedTo, ChargeKeys, Sharing
  <1>4. QED
    BY <1>3 DEF SpentOf, ChargedTo

\* The gateway's figure is what those who share the limit spent.
LEMMA UsedIs ==
  ASSUME CountersInv, NEW space, NEW l \in LimitSet, NEW c \in Caller
  PROVE  /\ Used(space, l, c) = SumOver(spent, SpentOf(spent, space, l, c, HoursOf(l, hour)))
         /\ Used(space, l, c) \in Nat
  <1>1. hour \in 0..MaxHour /\ SpentHolds(spent, hour) /\ CounterHolds(counter, spent)
    BY DEF CountersInv
  <1>2. hour \in Nat /\ l.period \in Span
    BY <1>1, BudgetAssumption DEF LimitSet
  <1> DEFINE k == Key(space, l, c)
             H == StartOf(l.period, hour)..hour
  <1>3. /\ StartOf(l.period, hour) \in Nat /\ Hours[l.period] \in Nat
        /\ hour <= StartOf(l.period, hour) + Hours[l.period] - 1
    BY <1>2, StartIs
  <1>4. H \in SUBSET (0..MaxHour)
    BY <1>1, <1>2, <1>3, BudgetAssumption
  <1>5. Used(space, l, c) = SumOver(counter, Kept(counter, k, H))
    BY DEF Used, UsedIn, SumOver, Kept
  <1>6. SpentOf(spent, space, l, c, HoursOf(l, hour)) = ChargedTo(spent, k, H)
    <2>1. \A x \in DOMAIN spent : x[4] \in 0..hour
      BY <1>1 DEF SpentHolds, IsCharge
    <2>2. \A x \in DOMAIN spent : x[4] \in HoursOf(l, hour) <=> x[4] \in H
      BY <1>2, <1>3, <2>1 DEF HoursOf
    <2>3. SpentOf(spent, space, l, c, HoursOf(l, hour)) = ChargedTo(spent, k, HoursOf(l, hour))
      BY <1>1, SpentIsCharged
    <2> HIDE DEF k, H
    <2>4. QED
      BY <2>2, <2>3 DEF ChargedTo
  <1> HIDE DEF k, H
  <1>7. SumOver(counter, Kept(counter, k, H)) = SumOver(spent, ChargedTo(spent, k, H))
    <2>1. CASE k \in {x[1] : x \in DOMAIN counter}
      BY <1>1, <1>4, <2>1 DEF CounterHolds
    <2>2. CASE k \notin {x[1] : x \in DOMAIN counter}
      <3>1. Kept(counter, k, H) = {}
        BY <2>2 DEF Kept
      <3>2. ChargedTo(spent, k, H) = {}
        <4>1. ASSUME NEW x \in DOMAIN spent, k \in ChargeKeys(x) PROVE FALSE
          <5>1. <<k, x[4]>> \in ChargeKeys(x) \X {x[4]}
            BY <4>1
          <5>2. <<k, x[4]>> \in DOMAIN counter
            BY <1>1, <5>1 DEF CounterHolds
          <5>3. QED
            BY <2>2, <5>2
        <4>2. QED
          BY <4>1 DEF ChargedTo
      <3>3. QED
        BY <3>1, <3>2, SumEmpty
    <2>3. QED
      BY <2>1, <2>2
  <1>8. SumOver(spent, ChargedTo(spent, k, H)) \in Nat
    <2>1. IsFiniteSet(ChargedTo(spent, k, H))
      BY <1>1, FS_Subset DEF SpentHolds, ChargedTo
    <2>2. \A x \in ChargedTo(spent, k, H) : spent[x] \in Nat
      BY <1>1 DEF SpentHolds, ChargedTo
    <2>3. QED
      BY <2>1, <2>2, SumType
  <1>9. QED
    BY <1>5, <1>6, <1>7, <1>8

LEMMA SlotsAreFinite ==
  ASSUME NEW w, NEW l, NEW c
  PROVE  /\ IsFiniteSet(InFlight(w, l, c)) /\ Cardinality(InFlight(w, l, c)) \in Nat
         /\ Cardinality(Slot) \in Nat /\ Cardinality(InFlight(w, l, c)) <= Cardinality(Slot)
         /\ MaxTokens \in Nat /\ MaxTokens * Cardinality(Slot) \in Nat
         /\ MaxTokens * Cardinality(InFlight(w, l, c)) \in Nat
         /\ MaxTokens * Cardinality(InFlight(w, l, c)) <= MaxTokens * Cardinality(Slot)
  <1>1. IsFiniteSet(Slot) /\ MaxTokens \in Nat /\ InFlight(w, l, c) \subseteq Slot
    BY BudgetAssumption DEF InFlight
  <1>2. /\ IsFiniteSet(InFlight(w, l, c)) /\ Cardinality(InFlight(w, l, c)) \in Nat
        /\ Cardinality(Slot) \in Nat /\ Cardinality(InFlight(w, l, c)) <= Cardinality(Slot)
    BY <1>1, FS_Subset, FS_CardinalityType
  <1>3. ASSUME NEW i \in Nat, NEW j \in Nat, i <= j, NEW n \in Nat
        PROVE  n * i \in Nat /\ n * j \in Nat /\ n * i <= n * j
    <2>1. PICK d \in Nat : j = i + d
      <3>1. j - i \in Nat /\ j = i + (j - i)
        BY <1>3
      <3>2. QED
        BY <3>1
    <2>2. n * j = n * i + n * d
      BY <2>1
    <2>3. n * d \in Nat /\ n * i \in Nat
      OBVIOUS
    <2>4. QED
      BY <2>2, <2>3
  <1>4. QED
    BY <1>1, <1>2, <1>3

\* What was spent by those who share a limit is the same whoever of them asks.
LEMMA SharedIsSame ==
  ASSUME NEW m, NEW space, NEW l, NEW c \in Caller, NEW d \in Sharing(l.scope, c), NEW H
  PROVE  SpentOf(m, space, l, d, H) = SpentOf(m, space, l, c, H)
  <1>1. Sharing(l.scope, d) = Sharing(l.scope, c)
    BY DEF Sharing
  <1>2. QED
    BY <1>1 DEF SpentOf

LEMMA ServedIsAllowed ==
  ASSUME NEW c, NEW B, NEW m \in c.models
  PROVE  Effective(c, B, m) \in c.models
  BY DEF Effective, Substitutable

\* Admitting a request: every quota it will be charged to has room.
LEMMA AdmitKeeps ==
  ASSUME CountersInv, NEW s \in Slot, NEW c \in Caller, NEW m \in ModelKey, Admit(s, c, m)
  PROVE  CountersInv'
  <1> DEFINE Q == Declared(c, cache[c], m)
             r == [caller |-> c, asked |-> m, serving |-> Effective(c, cache[c], m), quotas |-> Q,
                   meters |-> Running(Measured(c, cache[c]), c, {AnyModel, Effective(c, cache[c], m)})]
  <1>1. /\ slot[s] = Unused /\ cache[c] # NoSet /\ m \in c.models /\ HasRoom(Q, c)
        /\ slot' = [slot EXCEPT ![s] = r]
        /\ UNCHANGED <<hour, published, base, proposal, edits, cache, counter, spent>>
    BY DEF Admit, authoring
  <1>2. /\ BudgetSets /\ SlotInv /\ SpentHolds(spent, hour) /\ CounterHolds(counter, spent)
        /\ RoomHolds(hour, spent, slot) /\ hour \in 0..MaxHour /\ edits \in 0..MaxEdits
    BY DEF CountersInv
  <1>3. IsBudgetSet(cache[c])
    BY <1>1, <1>2 DEF BudgetSets
  <1>4. Serves(r)
    <2>1. Effective(c, cache[c], m) \in c.models
      BY <1>1, ServedIsAllowed
    <2>2. QED
      BY <1>1, <1>3, <2>1, LimitsType DEF Serves
  <1>5. r.quotas = Q /\ r.caller = c
    OBVIOUS
  <1> HIDE DEF r, Q
  <1>6. DOMAIN slot = Slot /\ slot'[s] = r /\ \A t \in Slot \ {s} : slot'[t] = slot[t]
    BY <1>1, <1>2 DEF SlotInv
  <1>7. SlotInv'
    BY <1>1, <1>2, <1>4, <1>6 DEF SlotInv
  <1>8. ASSUME NEW l \in LimitSet, NEW d \in Caller, NEW h \in 0..hour,
               HasCeiling(hour, spent, slot, l, d, h)
        PROVE  HasCeiling(hour, spent, slot', l, d, h)
    <2> DEFINE S == SumOver(spent, SpentOf(spent, "quota", l, d, HoursOf(l, h)))
    <2>1. CASE l \in Q /\ c \in Sharing(l.scope, d) /\ StartOf(l.period, h) = StartOf(l.period, hour)
      <3>1. Used("quota", l, c) < l.quota
        BY <1>1, <2>1 DEF HasRoom
      <3>2. SpentOf(spent, "quota", l, c, HoursOf(l, hour)) = SpentOf(spent, "quota", l, d, HoursOf(l, h))
        <4>1. HoursOf(l, h) = HoursOf(l, hour)
          BY <2>1 DEF HoursOf
        <4>2. QED
          BY <2>1, <4>1, SharedIsSame
      <3>3. S \in Nat /\ S < l.quota
        BY <3>1, <3>2, UsedIs
      <3>4. /\ MaxTokens * Cardinality(Slot) \in Nat
            /\ MaxTokens * Cardinality(InFlight(slot', l, d)) \in Nat
            /\ MaxTokens * Cardinality(InFlight(slot', l, d)) <= MaxTokens * Cardinality(Slot)
        BY SlotsAreFinite
      <3>5. Pending(hour, slot', l, d, h) = MaxTokens * Cardinality(InFlight(slot', l, d))
        BY <2>1 DEF Pending
      <3>6. l.quota \in Nat
        BY DEF LimitSet
      <3> HIDE DEF S
      <3>7. S + Pending(hour, slot', l, d, h) < Ceiling(l)
        BY <3>3, <3>4, <3>5, <3>6 DEF Ceiling
      <3>8. QED
        BY <3>7 DEF HasCeiling, S
    <2>2. CASE ~(l \in Q /\ c \in Sharing(l.scope, d))
      <3>1. InFlight(slot', l, d) = InFlight(slot, l, d)
        BY <1>1, <1>5, <1>6, <2>2 DEF InFlight
      <3>2. QED
        BY <1>8, <3>1 DEF HasCeiling, Pending
    <2>3. CASE StartOf(l.period, h) # StartOf(l.period, hour)
      BY <1>8, <2>3 DEF HasCeiling, Pending
    <2>4. QED
      BY <2>1, <2>2, <2>3
  <1>9. RoomHolds(hour, spent, slot)'
    BY <1>1, <1>2, <1>8 DEF RoomHolds
  <1>10. BudgetSets'
    BY <1>1, <1>2 DEF BudgetSets
  <1>11. SpentHolds(spent, hour)' /\ CounterHolds(counter, spent)'
    BY <1>1, <1>2
  <1>12. QED
    BY <1>1, <1>2, <1>7, <1>9, <1>10, <1>11 DEF CountersInv

-----------------------------------------------------------------------------
(* The turn of the hour.                                                     *)

LEMMA TurnKeeps ==
  ASSUME CountersInv, TurnHour
  PROVE  CountersInv'
  <1>1. /\ hour < MaxHour /\ hour' = hour + 1 /\ cache' = [c \in Caller |-> NoSet]
        /\ UNCHANGED <<published, base, proposal, edits, slot, counter, spent>>
    BY DEF TurnHour, authoring
  <1>2. /\ BudgetSets /\ SlotInv /\ SpentHolds(spent, hour) /\ CounterHolds(counter, spent)
        /\ RoomHolds(hour, spent, slot) /\ hour \in 0..MaxHour /\ edits \in 0..MaxEdits
    BY DEF CountersInv
  <1>3. hour \in Nat /\ hour' \in Nat /\ hour' \in 0..MaxHour /\ 0..hour \subseteq 0..hour'
    BY <1>1, <1>2, BudgetAssumption
  <1>4. BudgetSets' /\ SlotInv'
    BY <1>1, <1>2 DEF BudgetSets, SlotInv
  <1>5. SpentHolds(spent, hour)' /\ CounterHolds(counter, spent)'
    BY <1>1, <1>2, <1>3 DEF SpentHolds, IsCharge
  <1>6. ASSUME NEW l \in LimitSet, NEW c \in Caller, NEW h \in 0..hour', PastContents(spent, l) \subseteq {l}
        PROVE  HasCeiling(hour', spent, slot, l, c, h)
    <2>1. l.period \in Span /\ h \in Nat
      BY <1>3 DEF LimitSet
    <2>2. CASE h \in 0..hour /\ StartOf(l.period, h) # StartOf(l.period, hour')
      <3>1. HasCeiling(hour, spent, slot, l, c, h)
        BY <1>2, <1>6, <2>2 DEF RoomHolds
      <3> DEFINE S == SumOver(spent, SpentOf(spent, "quota", l, c, HoursOf(l, h)))
      <3>2. S \in Nat
        <4>1. IsFiniteSet(SpentOf(spent, "quota", l, c, HoursOf(l, h)))
          BY <1>2, FS_Subset DEF SpentHolds, SpentOf
        <4>2. \A x \in SpentOf(spent, "quota", l, c, HoursOf(l, h)) : spent[x] \in Nat
          BY <1>2 DEF SpentHolds, SpentOf
        <4>3. QED
          BY <4>1, <4>2, SumType
      <3>3. Pending(hour, slot, l, c, h) \in Nat /\ Pending(hour', slot, l, c, h) = 0
        BY <2>2, SlotsAreFinite DEF Pending
      <3>4. Ceiling(l) \in Nat
        BY SlotsAreFinite DEF Ceiling, LimitSet
      <3> HIDE DEF S
      <3>5. S + Pending(hour, slot, l, c, h) < Ceiling(l)
        BY <3>1 DEF HasCeiling, S
      <3>6. S + Pending(hour', slot, l, c, h) < Ceiling(l)
        BY <3>2, <3>3, <3>4, <3>5
      <3>7. QED
        BY <3>6 DEF HasCeiling, S
    <2>3. CASE StartOf(l.period, h) = StartOf(l.period, hour') /\ StartOf(l.period, hour') = StartOf(l.period, hour)
      <3>1. HasCeiling(hour, spent, slot, l, c, hour)
        BY <1>2, <1>3, <1>6 DEF RoomHolds
      <3>2. HoursOf(l, h) = HoursOf(l, hour)
        BY <2>3 DEF HoursOf
      <3>3. QED
        BY <2>3, <3>1, <3>2 DEF HasCeiling, Pending
    <2>4. CASE StartOf(l.period, h) = StartOf(l.period, hour') /\ StartOf(l.period, hour') = hour'
      <3>1. \A x \in DOMAIN spent : x[4] \in 0..hour
        BY <1>2 DEF SpentHolds, IsCharge
      <3>2. SpentOf(spent, "quota", l, c, HoursOf(l, h)) = {}
        BY <1>1, <1>3, <2>4, <3>1 DEF SpentOf, HoursOf
      <3>3. SumOver(spent, SpentOf(spent, "quota", l, c, HoursOf(l, h))) = 0
        BY <3>2, SumEmpty
      <3>4. /\ MaxTokens * Cardinality(Slot) \in Nat
            /\ MaxTokens * Cardinality(InFlight(slot, l, c)) \in Nat
            /\ MaxTokens * Cardinality(InFlight(slot, l, c)) <= MaxTokens * Cardinality(Slot)
        BY SlotsAreFinite
      <3>5. Pending(hour', slot, l, c, h) = MaxTokens * Cardinality(InFlight(slot, l, c))
        BY <2>4 DEF Pending
      <3>6. l.quota \in Nat \ {0}
        BY DEF LimitSet
      <3>7. 0 + Pending(hour', slot, l, c, h) < Ceiling(l)
        BY <3>4, <3>5, <3>6 DEF Ceiling
      <3>8. QED
        BY <3>3, <3>7 DEF HasCeiling
    <2>5. StartOf(l.period, hour') = StartOf(l.period, hour) \/ StartOf(l.period, hour') = hour'
      BY <1>1, <1>3, <2>1, NextHour
    <2>6. h \in 0..hour \/ h = hour'
      BY <1>1, <1>3
    <2>7. QED
      BY <2>2, <2>3, <2>4, <2>5, <2>6
  <1>7. RoomHolds(hour, spent, slot)'
    BY <1>1, <1>6 DEF RoomHolds
  <1>8. QED
    BY <1>1, <1>2, <1>3, <1>4, <1>5, <1>7 DEF CountersInv

-----------------------------------------------------------------------------
(* A request ends.                                                           *)

\* Both histories grow alike.
LEMMA ChargeKeepsCounters ==
  ASSUME hour \in 0..MaxHour, SpentHolds(spent, hour), CounterHolds(counter, spent),
         NEW n \in Nat, NEW x, IsCharge(x, hour), x[4] = hour
  PROVE  LET m == Add(spent, {x}, n) IN
         /\ SpentHolds(m, hour)
         /\ CounterHolds(Add(counter, ChargeKeys(x) \X {hour}, n), m)
  <1>1. PICK m : m = Add(spent, {x}, n)
    OBVIOUS
  <1>k. PICK K : K = ChargeKeys(x) \X {hour}
    OBVIOUS
  <1>2. PICK f : f = Add(counter, K, n)
    OBVIOUS
  <1>3. /\ DOMAIN m = DOMAIN spent \cup {x}
        /\ \A u \in DOMAIN m : m[u] = (IF u \in DOMAIN spent THEN spent[u] ELSE 0) + (IF u \in {x} THEN n ELSE 0)
    BY <1>1 DEF Add
  <1>4. /\ DOMAIN f = DOMAIN counter \cup K
        /\ \A u \in DOMAIN f : f[u] = (IF u \in DOMAIN counter THEN counter[u] ELSE 0)
                                      + (IF u \in K THEN n ELSE 0)
    BY <1>2 DEF Add
  <1>5. (\A u \in DOMAIN spent : spent[u] \in Nat) /\ \A u \in DOMAIN counter : counter[u] \in Nat
    BY DEF SpentHolds, CounterHolds
  <1>6. SpentHolds(m, hour)
    <2>1. IsFiniteSet(DOMAIN m)
      BY <1>3, FS_AddElement DEF SpentHolds
    <2>2. ASSUME NEW u \in DOMAIN m PROVE m[u] \in Nat /\ IsCharge(u, hour)
      BY <1>3, <1>5, <2>2 DEF SpentHolds
    <2>3. QED
      BY <2>1, <2>2 DEF SpentHolds
  <1>7. DOMAIN f = UNION {ChargeKeys(u) \X {u[4]} : u \in DOMAIN m}
    <2>1. DOMAIN counter = UNION {ChargeKeys(u) \X {u[4]} : u \in DOMAIN spent}
      BY DEF CounterHolds
    <2>2. QED
      BY <1>3, <1>4, <1>k, <2>1
  <1>8. \A u \in DOMAIN f : f[u] \in Nat
    BY <1>4, <1>5
  <1>9. ASSUME NEW k \in {u[1] : u \in DOMAIN f}, NEW H \in SUBSET (0..MaxHour)
        PROVE  SumOver(f, Kept(f, k, H)) = SumOver(m, ChargedTo(m, k, H))
    <2>1. \A u \in DOMAIN f : u = <<u[1], u[2]>>
      BY <1>7
    <2>2. IsFiniteSet(Kept(f, k, H))
      <3>1. ASSUME NEW u \in Kept(f, k, H) PROVE u \in {k} \X (0..MaxHour)
        <4>1. u \in DOMAIN f /\ u[1] = k /\ u[2] \in 0..MaxHour
          BY DEF Kept
        <4>2. u = <<k, u[2]>>
          BY <2>1, <4>1
        <4>3. QED
          BY <4>1, <4>2
      <3>2. IsFiniteSet({k}) /\ IsFiniteSet(0..MaxHour)
        <4>1. 0 \in Int /\ MaxHour \in Int
          BY BudgetAssumption
        <4>2. QED
          BY <4>1, FS_Singleton, FS_Interval
      <3>3. QED
        BY <3>1, <3>2, FS_Product, FS_Subset
    <2>3. PICK T : T = Kept(f, k, H)
      OBVIOUS
    <2>4. T \subseteq DOMAIN counter \cup K /\ T \cap K \subseteq {<<k, hour>>} /\ IsFiniteSet(T)
      <3>1. ASSUME NEW u \in T, u \in K PROVE u = <<k, hour>>
        <4>1. u \in DOMAIN f /\ u[1] = k
          BY <2>3 DEF Kept
        <4>2. u = <<u[1], u[2]>>
          BY <2>1, <4>1
        <4>3. u[2] = hour
          BY <1>k, <3>1
        <4>4. QED
          BY <4>1, <4>2, <4>3
      <3>2. T \subseteq DOMAIN f
        BY <2>3 DEF Kept
      <3>3. QED
        BY <1>4, <2>2, <2>3, <3>1, <3>2
    <2>5. T \cap DOMAIN counter = Kept(counter, k, H)
      BY <1>4, <2>3 DEF Kept
    <2>6. PICK e : e = <<k, hour>>
      OBVIOUS
    <2>e. T \cap K \subseteq {e}
      BY <2>4, <2>6
    <2>a. SumOver(f, T) = SumOver(counter, T \cap DOMAIN counter) + (IF e \in T \cap K THEN n ELSE 0)
      BY <1>2, <1>5, <2>4, <2>e, AddSum
    <2>7. PICK U : U = ChargedTo(m, k, H)
      OBVIOUS
    <2>8. IsFiniteSet(U) /\ U \subseteq DOMAIN spent \cup {x} /\ U \cap {x} \subseteq {x}
      BY <1>3, <1>6, <2>7, FS_Subset DEF ChargedTo, SpentHolds
    <2>9. U \cap DOMAIN spent = ChargedTo(spent, k, H)
      BY <1>3, <2>7 DEF ChargedTo
    <2>10. SumOver(m, U) = SumOver(spent, U \cap DOMAIN spent) + (IF x \in U \cap {x} THEN n ELSE 0)
      BY <1>1, <1>5, <2>8, AddSum
    <2>11. e \in T \cap K <=> x \in U \cap {x}
      BY <1>3, <1>4, <1>k, <2>3, <2>6, <2>7 DEF Kept, ChargedTo
    <2>12. SumOver(counter, Kept(counter, k, H)) = SumOver(spent, ChargedTo(spent, k, H))
      <3>1. CASE k \in {u[1] : u \in DOMAIN counter}
        BY <3>1 DEF CounterHolds
      <3>2. CASE k \notin {u[1] : u \in DOMAIN counter}
        <4>1. Kept(counter, k, H) = {}
          BY <3>2 DEF Kept
        <4>2. ASSUME NEW u \in DOMAIN spent, k \in ChargeKeys(u) PROVE FALSE
          <5>1. <<k, u[4]>> \in ChargeKeys(u) \X {u[4]}
            BY <4>2
          <5>2. <<k, u[4]>> \in DOMAIN counter
            BY <5>1 DEF CounterHolds
          <5>3. QED
            BY <3>2, <5>2
        <4>3. ChargedTo(spent, k, H) = {}
          BY <4>2 DEF ChargedTo
        <4>4. QED
          BY <4>1, <4>3, SumEmpty
      <3>3. QED
        BY <3>1, <3>2
    <2>13. QED
      BY <2>3, <2>5, <2>a, <2>7, <2>9, <2>10, <2>11, <2>12
  <1>10. CounterHolds(f, m)
    BY <1>7, <1>8, <1>9 DEF CounterHolds
  <1>11. QED
    BY <1>1, <1>2, <1>k, <1>6, <1>10

LEMMA FewerInFlight ==
  ASSUME NEW l, NEW c, NEW s \in InFlight(slot, l, c), DOMAIN slot = Slot,
         NEW w, w = [slot EXCEPT ![s] = Unused]
  PROVE  MaxTokens * Cardinality(InFlight(w, l, c)) + MaxTokens
           = MaxTokens * Cardinality(InFlight(slot, l, c))
  <1>1. s \in Slot /\ w[s] = Unused /\ \A t \in Slot \ {s} : w[t] = slot[t]
    BY DEF InFlight
  <1>2. InFlight(w, l, c) = InFlight(slot, l, c) \ {s}
    BY <1>1 DEF InFlight
  <1>3. IsFiniteSet(InFlight(slot, l, c)) /\ MaxTokens \in Nat
    BY SlotsAreFinite
  <1>4. PICK i \in Nat : i = Cardinality(InFlight(w, l, c))
    BY SlotsAreFinite
  <1>5. Cardinality(InFlight(slot, l, c)) = i + 1
    BY <1>2, <1>3, <1>4, Smaller
  <1>6. MaxTokens * (i + 1) = MaxTokens * i + MaxTokens
    BY <1>3
  <1>7. QED
    BY <1>4, <1>5, <1>6

\* What a request that ends adds to a period was pending in it.
LEMMA ChargeKeepsCeiling ==
  ASSUME CountersInv, NEW s \in Slot, slot[s] # Unused,
         NEW w, w = [slot EXCEPT ![s] = Unused], NEW n \in 1..MaxTokens,
         NEW x, x[1] = slot[s].caller, x[4] = hour,
         x[3] = ({"quota"} \X slot[s].quotas) \cup ({"throttle"} \X slot[s].meters),
         NEW m, m = Add(spent, {x}, n), SpentHolds(m, hour),
         NEW l \in LimitSet, NEW c \in Caller, NEW h \in 0..hour, PastContents(m, l) \subseteq {l}
  PROVE  HasCeiling(hour, m, w, l, c, h)
  <1>1. /\ SpentHolds(spent, hour) /\ RoomHolds(hour, spent, slot) /\ hour \in 0..MaxHour
        /\ DOMAIN slot = Slot
    BY DEF CountersInv, SlotInv
  <1>2. DOMAIN m = DOMAIN spent \cup {x} /\ n \in Nat /\ n <= MaxTokens /\ MaxTokens \in Nat
    BY BudgetAssumption DEF Add
  <1>3. PastContents(spent, l) \subseteq PastContents(m, l)
    BY <1>2 DEF PastContents
  <1>4. HasCeiling(hour, spent, slot, l, c, h)
    BY <1>1, <1>3 DEF RoomHolds
  <1>5. hour \in Nat /\ h \in Nat /\ l.period \in Span
    BY <1>1, BudgetAssumption DEF LimitSet
  <1> DEFINE Y == SpentOf(m, "quota", l, c, HoursOf(l, h))
             Z == SpentOf(spent, "quota", l, c, HoursOf(l, h))
  <1>6. IsFiniteSet(Y) /\ Y \subseteq DOMAIN spent \cup {x} /\ Y \cap {x} \subseteq {x}
    BY <1>2, FS_Subset DEF SpentHolds, SpentOf
  <1>7. Y \cap DOMAIN spent = Z
    BY <1>2 DEF SpentOf
  <1>8. \A u \in DOMAIN spent : spent[u] \in Nat
    BY <1>1 DEF SpentHolds
  <1>9. SumOver(spent, Z) \in Nat
    <2>1. IsFiniteSet(Z) /\ \A u \in Z : spent[u] \in Nat
      BY <1>1, <1>8, FS_Subset DEF SpentOf, SpentHolds
    <2>2. QED
      BY <2>1, SumType
  <1>10. x \in Y => s \in InFlight(slot, l, c) /\ StartOf(l.period, h) = StartOf(l.period, hour)
    <2> SUFFICES ASSUME x \in Y PROVE s \in InFlight(slot, l, c) /\ StartOf(l.period, h) = StartOf(l.period, hour)
      OBVIOUS
    <2>1. PICK y \in x[3] : y[1] = "quota" /\ SameBudget(y[2], l)
      BY DEF SpentOf
    <2>2. y[2] \in PastContents(m, l)
      BY <1>2, <2>1 DEF PastContents
    <2>3. y[2] = l
      BY <2>2
    <2>4. l \in slot[s].quotas
      BY <2>1, <2>3
    <2>5. slot[s].caller \in Sharing(l.scope, c) /\ hour \in HoursOf(l, h)
      BY DEF SpentOf
    <2>6. StartOf(l.period, hour) = StartOf(l.period, h)
      BY <1>5, <2>5, StartOnce DEF HoursOf
    <2>7. QED
      BY <2>4, <2>5, <2>6 DEF InFlight
  <1> HIDE DEF Y, Z
  <1>11. SumOver(m, Y) = SumOver(spent, Z) + (IF x \in Y \cap {x} THEN n ELSE 0)
    BY <1>2, <1>6, <1>7, <1>8, AddSum
  <1>12. SumOver(spent, Z) + Pending(hour, slot, l, c, h) < Ceiling(l)
    BY <1>4 DEF HasCeiling, Z
  <1>13. Ceiling(l) \in Nat /\ Pending(hour, slot, l, c, h) \in Nat /\ Pending(hour, w, l, c, h) \in Nat
    BY SlotsAreFinite DEF Ceiling, Pending, LimitSet
  <1>14. CASE x \in Y
    <2>1. Pending(hour, w, l, c, h) + MaxTokens = Pending(hour, slot, l, c, h)
      BY <1>1, <1>10, <1>14, FewerInFlight DEF Pending
    <2>2. SumOver(m, Y) = SumOver(spent, Z) + n
      BY <1>11, <1>14
    <2>3. SumOver(m, Y) + Pending(hour, w, l, c, h) < Ceiling(l)
      BY <1>2, <1>9, <1>12, <1>13, <2>1, <2>2
    <2>4. QED
      BY <2>3 DEF HasCeiling, Y
  <1>15. CASE x \notin Y
    <2>1. Pending(hour, w, l, c, h) <= Pending(hour, slot, l, c, h)
      <3>1. CASE s \in InFlight(slot, l, c)
        <4>1. MaxTokens * Cardinality(InFlight(w, l, c)) + MaxTokens
                = MaxTokens * Cardinality(InFlight(slot, l, c))
          BY <1>1, <3>1, FewerInFlight
        <4>2. MaxTokens * Cardinality(InFlight(w, l, c)) \in Nat
          BY SlotsAreFinite
        <4>3. QED
          BY <1>2, <4>1, <4>2 DEF Pending
      <3>2. CASE s \notin InFlight(slot, l, c)
        <4>1. w[s] = Unused /\ \A t \in Slot \ {s} : w[t] = slot[t]
          BY <1>1
        <4>2. InFlight(w, l, c) = InFlight(slot, l, c)
          BY <3>2, <4>1 DEF InFlight
        <4>3. QED
          BY <1>13, <4>2 DEF Pending
      <3>3. QED
        BY <3>1, <3>2
    <2>2. SumOver(m, Y) = SumOver(spent, Z)
      BY <1>9, <1>11, <1>15
    <2>3. SumOver(m, Y) + Pending(hour, w, l, c, h) < Ceiling(l)
      BY <1>9, <1>12, <1>13, <2>1, <2>2
    <2>4. QED
      BY <2>3 DEF HasCeiling, Y
  <1>16. QED
    BY <1>14, <1>15

LEMMA AnswerKeeps ==
  ASSUME CountersInv, NEW s \in Slot, NEW n \in 0..MaxTokens, Answer(s, n)
  PROVE  CountersInv'
  <1> DEFINE r == slot[s]
             charged == ({"quota"} \X r.quotas) \cup ({"throttle"} \X r.meters)
             x == <<r.caller, r.serving, charged, hour>>
  <1>1. /\ slot[s] # Unused /\ slot' = [slot EXCEPT ![s] = Unused]
        /\ counter' = IF n = 0 THEN counter
                      ELSE Add(counter, {Key(y[1], y[2], r.caller) : y \in charged} \X {hour}, n)
        /\ spent' = IF n = 0 THEN spent ELSE Add(spent, {x}, n)
        /\ UNCHANGED <<hour, published, base, proposal, edits, cache>>
    BY DEF Answer, authoring
  <1>2. /\ BudgetSets /\ SlotInv /\ SpentHolds(spent, hour) /\ CounterHolds(counter, spent)
        /\ RoomHolds(hour, spent, slot) /\ hour \in 0..MaxHour /\ edits \in 0..MaxEdits
        /\ DOMAIN slot = Slot
    BY DEF CountersInv, SlotInv
  <1>3. slot'[s] = Unused /\ \A t \in Slot \ {s} : slot'[t] = slot[t]
    BY <1>1, <1>2
  <1>4. SlotInv' /\ BudgetSets'
    BY <1>1, <1>2, <1>3 DEF SlotInv, BudgetSets
  <1>5. CASE n = 0
    <2>1. spent' = spent /\ counter' = counter
      BY <1>1, <1>5
    <2>2. ASSUME NEW l \in LimitSet, NEW c \in Caller, NEW h \in 0..hour,
                 HasCeiling(hour, spent, slot, l, c, h)
          PROVE  HasCeiling(hour, spent, slot', l, c, h)
      <3> DEFINE S == SumOver(spent, SpentOf(spent, "quota", l, c, HoursOf(l, h)))
      <3>1. InFlight(slot', l, c) \subseteq InFlight(slot, l, c)
        BY <1>3 DEF InFlight
      <3>2. S \in Nat
        <4>1. /\ IsFiniteSet(SpentOf(spent, "quota", l, c, HoursOf(l, h)))
              /\ \A u \in SpentOf(spent, "quota", l, c, HoursOf(l, h)) : spent[u] \in Nat
          BY <1>2, FS_Subset DEF SpentHolds, SpentOf
        <4>2. QED
          BY <4>1, SumType
      <3> HIDE DEF S
      <3>3. MaxTokens * Cardinality(InFlight(slot', l, c)) <= MaxTokens * Cardinality(InFlight(slot, l, c))
        <4>1. CASE s \in InFlight(slot, l, c)
          <5>1. MaxTokens * Cardinality(InFlight(slot', l, c)) + MaxTokens
                  = MaxTokens * Cardinality(InFlight(slot, l, c))
            BY <1>1, <1>2, <4>1, FewerInFlight
          <5>2. MaxTokens * Cardinality(InFlight(slot', l, c)) \in Nat /\ MaxTokens \in Nat
            BY SlotsAreFinite
          <5>3. QED
            BY <5>1, <5>2
        <4>2. CASE s \notin InFlight(slot, l, c)
          <5>1. InFlight(slot', l, c) = InFlight(slot, l, c)
            BY <1>3, <4>2 DEF InFlight
          <5>2. MaxTokens * Cardinality(InFlight(slot, l, c)) \in Nat
            BY SlotsAreFinite
          <5>3. QED
            BY <5>1, <5>2
        <4>3. QED
          BY <4>1, <4>2
      <3>4. /\ Pending(hour, slot', l, c, h) <= Pending(hour, slot, l, c, h)
            /\ Pending(hour, slot', l, c, h) \in Nat /\ Pending(hour, slot, l, c, h) \in Nat
            /\ Ceiling(l) \in Nat
        BY <3>3, SlotsAreFinite DEF Pending, Ceiling, LimitSet
      <3>5. S + Pending(hour, slot, l, c, h) < Ceiling(l)
        BY <2>2 DEF HasCeiling, S
      <3>6. S + Pending(hour, slot', l, c, h) < Ceiling(l)
        BY <3>2, <3>4, <3>5
      <3>7. QED
        BY <3>6 DEF HasCeiling, S
    <2>3. RoomHolds(hour, spent, slot)'
      BY <1>1, <1>2, <2>1, <2>2 DEF RoomHolds
    <2>4. SpentHolds(spent, hour)' /\ CounterHolds(counter, spent)'
      BY <1>1, <1>2, <2>1
    <2>5. QED
      BY <1>1, <1>2, <1>4, <2>3, <2>4 DEF CountersInv
  <1>6. CASE n # 0
    <2>1. n \in 1..MaxTokens /\ n \in Nat
      BY <1>6, BudgetAssumption
    <2>2. Serves(r)
      BY <1>1, <1>2 DEF SlotInv
    <2>3. x[1] = r.caller /\ x[2] = r.serving /\ x[3] = charged /\ x[4] = hour
      OBVIOUS
    <2>4. IsCharge(x, hour)
      <3>1. \A y \in charged : y[2] \in r.quotas \cup r.meters
        OBVIOUS
      <3>2. hour \in 0..hour
        BY <1>2, BudgetAssumption
      <3> HIDE DEF charged, r
      <3>3. QED
        BY <2>2, <2>3, <3>1, <3>2 DEF IsCharge, Serves
    <2>5. ChargeKeys(x) = {Key(y[1], y[2], r.caller) : y \in charged}
      BY <2>3 DEF ChargeKeys
    <2> HIDE DEF x
    <2>6. /\ spent' = Add(spent, {x}, n)
          /\ counter' = Add(counter, ChargeKeys(x) \X {hour}, n)
      BY <1>1, <1>6, <2>5
    <2>7. SpentHolds(spent', hour) /\ CounterHolds(counter', spent')
      BY <1>2, <2>1, <2>3, <2>4, <2>6, ChargeKeepsCounters
    <2>8. RoomHolds(hour, spent', slot')
      BY <1>1, <2>1, <2>3, <2>6, <2>7, ChargeKeepsCeiling DEF RoomHolds
    <2>9. QED
      BY <1>1, <1>2, <1>4, <2>7, <2>8 DEF CountersInv
  <1>7. QED
    BY <1>5, <1>6

-----------------------------------------------------------------------------
(* The invariant, and what follows from it.                                  *)

LEMMA CountersSteps ==
  ASSUME CountersInv, [CountersNext]_countersVars
  PROVE  CountersInv'
  <1>1. CASE UNCHANGED countersVars
    <2>1. /\ UNCHANGED <<hour, slot, counter, spent>>
          /\ UNCHANGED <<published, base, proposal, edits, cache>>
      BY <1>1 DEF countersVars, authoring
    <2>2. BudgetSets' /\ edits' \in 0..MaxEdits
      BY <2>1 DEF CountersInv, BudgetSets
    <2>3. QED
      BY <2>1, <2>2, AuthoringKeeps
  <1>2. CASE CountersNext
    <2>1. CASE \E a \in Administrator :
                 \/ ReadBudgets(a) \/ Conflict(a)
                 \/ \E id \in BudgetId, t \in Terms : AddBudget(a, id, t)
                 \/ \E held \in Known(a) : RemoveBudget(a, held) \/ \E t \in Terms : EditBudget(a, held, t)
      BY <2>1, AdministratorKeeps
    <2>2. CASE Publish \/ Withdraw \/ \E c \in Caller : Resolve(c)
      BY <2>2, PublicationKeeps
    <2>3. CASE TurnHour
      BY <2>3, TurnKeeps
    <2>4. CASE \E c \in Caller, s \in Slot, m \in ModelKey : Admit(s, c, m)
      BY <2>4, AdmitKeeps
    <2>5. CASE \E s \in Slot, n \in 0..MaxTokens : Answer(s, n)
      BY <2>5, AnswerKeeps
    <2>6. QED
      BY <1>2, <2>1, <2>2, <2>3, <2>4, <2>5 DEF CountersNext
  <1>3. QED
    BY <1>1, <1>2

\* Every set of budgets that is read, proposed, published or cached is one the
\* validator accepts, every request in flight is served under limits on its own
\* model, and the counters hold what was charged to them (budget-edit.mjs,
\* inference.xml).
THEOREM CountersInvariant == CountersSpec => [](CountersInv /\ CountersTypeOK)
  <1>1. CountersInv => CountersTypeOK
    <2> SUFFICES ASSUME CountersInv PROVE CountersTypeOK
      OBVIOUS
    <2>1. BudgetSets /\ SlotInv /\ CounterHolds(counter, spent) /\ SpentHolds(spent, hour)
          /\ hour \in 0..MaxHour /\ edits \in 0..MaxEdits
      BY DEF CountersInv
    <2>2. ASSUME NEW x \in DOMAIN counter PROVE x[2] \in 0..MaxHour /\ counter[x] \in Nat
      <3>1. PICK u \in DOMAIN spent : x \in ChargeKeys(u) \X {u[4]}
        BY <2>1 DEF CounterHolds
      <3>2. x[2] = u[4] /\ u[4] \in 0..hour
        BY <2>1, <3>1 DEF SpentHolds, IsCharge
      <3>3. QED
        BY <2>1, <3>2, BudgetAssumption DEF CounterHolds
    <2>3. ASSUME NEW s \in Slot, slot[s] # Unused
          PROVE  slot[s].caller \in Caller /\ {slot[s].asked, slot[s].serving} \subseteq slot[s].caller.models
      BY <2>1, <2>3 DEF SlotInv, Serves
    <2>4. QED
      BY <2>1, <2>2, <2>3 DEF CountersTypeOK, BudgetSets
  <1>2. QED
    BY <1>1, CountersStart, CountersSteps, PTL DEF CountersSpec

LEMMA SumOne ==
  ASSUME NEW f, NEW e, f[e] \in Nat
  PROVE  SumOver(f, {e}) = f[e]
  <1>1. IsFiniteSet({e}) /\ {e} \ {e} = {} /\ e \in {e} /\ \A x \in {e} : f[x] \in Nat
    BY FS_Singleton
  <1>2. SumOver(f, {e}) = f[e] + SumOver(f, {e} \ {e})
    BY <1>1, SumRemove
  <1>3. QED
    BY <1>1, <1>2, SumEmpty

-----------------------------------------------------------------------------
(* One version of a budget has one content, as long as its id never comes     *)
(* back: what is in force is the latest version of each.                     *)

\* A limit of a request is an entitlement's or that of a budget once in force.
LimitOf(l) == l.budget = NoBudget \/ \E b \in authored : l = AsLimit(b)

VersionsInv ==
  /\ published \subseteq authored /\ \A b \in authored : IsBudget(b)
  /\ \A b, d \in authored :
       (b.id = d.id /\ b.id \notin restarted /\ b.version = d.version) => b = d
  /\ \A b \in authored, p \in published :
       (b.id = p.id /\ b.id \notin restarted) => b.version <= p.version
  /\ \A c \in Caller : cache[c] = NoSet \/ cache[c] \subseteq authored
  /\ \A s \in Slot : slot[s] # Unused => \A l \in slot[s].quotas \cup slot[s].meters : LimitOf(l)
  /\ \A x \in DOMAIN spent : \A y \in x[3] : y = <<y[1], y[2]>> /\ LimitOf(y[2])

LEMMA VersionsStart == CountersInit => VersionsInv
  <1> SUFFICES ASSUME CountersInit PROVE VersionsInv
    OBVIOUS
  <1>1. IsBudgetSet(published) /\ authored = published /\ restarted = {}
    BY BudgetAssumption DEF CountersInit
  <1>2. \A b \in authored : IsBudget(b)
    BY <1>1 DEF IsBudgetSet
  <1>3. \A b, d \in authored : b.id = d.id => b = d
    BY <1>1 DEF IsBudgetSet
  <1>4. \A b \in authored : b.version <= b.version
    BY <1>2, BudgetFields
  <1>5. DOMAIN spent = {} /\ (\A c \in Caller : cache[c] = NoSet) /\ (\A s \in Slot : slot[s] = Unused)
    BY DEF CountersInit
  <1>6. QED
    BY <1>1, <1>2, <1>3, <1>4, <1>5 DEF VersionsInv

LEMMA PublishVersions ==
  ASSUME CountersInv, VersionsInv, Publish
  PROVE  VersionsInv'
  <1>1. /\ IsBudgetSet(proposal) /\ published' = proposal /\ authored' = authored \cup proposal
        /\ restarted' = restarted \cup {b.id : b \in {x \in proposal : Restarts(x)}}
        /\ UNCHANGED <<cache, slot, spent>>
    BY DEF Publish, CountersInv, BudgetSets
  <1>2. \A b \in authored' : IsBudget(b) /\ b.version \in Nat
    BY <1>1, BudgetFields DEF VersionsInv, IsBudgetSet
  <1>3. ASSUME NEW x \in proposal, x.id \notin restarted', NEW b \in authored, b.id = x.id
        PROVE  b.version <= x.version /\ (b.version = x.version => b = x)
    <2>1. ~Restarts(x) /\ b.id \notin restarted
      BY <1>1, <1>3
    <2>2. CASE x \in published
      BY <1>3, <2>1, <2>2 DEF VersionsInv
    <2>3. CASE x \notin published
      <3>1. PICK d \in published : d.id = x.id /\ x.version = d.version + 1
        BY <1>3, <2>1, <2>3 DEF Restarts
      <3>2. b.version <= d.version /\ b.version \in Nat /\ d.version \in Nat
        BY <1>1, <1>2, <1>3, <2>1, <3>1 DEF VersionsInv
      <3>3. QED
        BY <3>1, <3>2
    <2>4. QED
      BY <2>2, <2>3
  <1>4. ASSUME NEW x \in proposal, NEW b \in proposal, b.id = x.id PROVE b = x
    BY <1>1, <1>4 DEF IsBudgetSet
  <1>5. ASSUME NEW b \in authored', NEW d \in authored',
               b.id = d.id, b.id \notin restarted', b.version = d.version
        PROVE  b = d
    <2>1. CASE b \in proposal /\ d \in proposal
      BY <1>4, <1>5, <2>1
    <2>2. CASE b \in proposal /\ d \in authored
      BY <1>3, <1>5, <2>2
    <2>3. CASE b \in authored /\ d \in proposal
      BY <1>3, <1>5, <2>3
    <2>4. CASE b \in authored /\ d \in authored
      BY <1>1, <1>5, <2>4 DEF VersionsInv
    <2>5. QED
      BY <1>1, <1>5, <2>1, <2>2, <2>3, <2>4
  <1>6. ASSUME NEW b \in authored', NEW x \in published', b.id = x.id, b.id \notin restarted'
        PROVE  b.version <= x.version
    <2>1. CASE b \in proposal
      BY <1>1, <1>2, <1>4, <1>6, <2>1
    <2>2. CASE b \in authored
      BY <1>1, <1>3, <1>6, <2>2
    <2>3. QED
      BY <1>1, <1>6, <2>1, <2>2
  <1>7. \A c \in Caller : cache'[c] = NoSet \/ cache'[c] \subseteq authored'
    BY <1>1 DEF VersionsInv
  <1>8. \A l : LimitOf(l) => LimitOf(l)'
    BY <1>1 DEF LimitOf
  <1>9. QED
    BY <1>1, <1>2, <1>5, <1>6, <1>7, <1>8 DEF VersionsInv

\* A document limits a caller by entitlements and by its own budgets.
LEMMA LimitsAreOfBudgets ==
  ASSUME NEW c, NEW B \in SUBSET authored, NEW m
  PROVE  \A l \in Declared(c, B, m) \cup Running(Measured(c, B), c, {AnyModel, Effective(c, B, m)}) : LimitOf(l)
  <1>1. \A scope, target : \A l \in Plain(scope, target) : l.budget = NoBudget
    BY DEF Plain
  <1>2. \A l \in Entitled(c) : l.budget = NoBudget
    BY <1>1 DEF Entitled
  <1>3. \A l \in Budgeted(c, B) \cup Measured(c, B) : \E b \in authored : l = AsLimit(b)
    BY DEF Budgeted, Measured
  <1>4. Limits(c, B) \subseteq Entitled(c) \cup Budgeted(c, B)
    BY DEF Limits
  <1>5. QED
    BY <1>2, <1>3, <1>4 DEF Declared, Running, LimitOf

LEMMA AdmitVersions ==
  ASSUME CountersInv, VersionsInv, NEW s \in Slot, NEW c \in Caller, NEW m \in ModelKey, Admit(s, c, m)
  PROVE  VersionsInv'
  <1> DEFINE B == cache[c]
             r == [caller |-> c, asked |-> m, serving |-> Effective(c, B, m), quotas |-> Declared(c, B, m),
                   meters |-> Running(Measured(c, B), c, {AnyModel, Effective(c, B, m)})]
  <1>1. /\ B # NoSet /\ slot' = [slot EXCEPT ![s] = r]
        /\ UNCHANGED <<published, authored, restarted, cache, spent>>
    BY DEF Admit, authoring
  <1>2. B \in SUBSET authored
    BY <1>1 DEF VersionsInv
  <1>3. \A l \in r.quotas \cup r.meters : LimitOf(l)
    BY <1>2, LimitsAreOfBudgets
  <1>4. DOMAIN slot = Slot
    BY DEF CountersInv, SlotInv
  <1> HIDE DEF r, B
  <1>5. slot'[s] = r /\ \A t \in Slot \ {s} : slot'[t] = slot[t]
    BY <1>1, <1>4
  <1>6. \A l : LimitOf(l) => LimitOf(l)'
    BY <1>1 DEF LimitOf
  <1>7. \A t \in Slot : slot'[t] # Unused => \A l \in slot'[t].quotas \cup slot'[t].meters : LimitOf(l)'
    BY <1>3, <1>5, <1>6 DEF VersionsInv
  <1>8. QED
    BY <1>1, <1>6, <1>7 DEF VersionsInv

LEMMA AnswerVersions ==
  ASSUME CountersInv, VersionsInv, NEW s \in Slot, NEW n \in 0..MaxTokens, Answer(s, n)
  PROVE  VersionsInv'
  <1> DEFINE r == slot[s]
             charged == ({"quota"} \X r.quotas) \cup ({"throttle"} \X r.meters)
             x == <<r.caller, r.serving, charged, hour>>
  <1>1. /\ r # Unused /\ slot' = [slot EXCEPT ![s] = Unused]
        /\ spent' = IF n = 0 THEN spent ELSE Add(spent, {x}, n)
        /\ UNCHANGED <<published, authored, restarted, cache>>
    BY DEF Answer, authoring
  <1>2. \A y \in charged : y = <<y[1], y[2]>> /\ y[2] \in r.quotas \cup r.meters
    OBVIOUS
  <1>3. \A l \in r.quotas \cup r.meters : LimitOf(l)
    BY <1>1 DEF VersionsInv
  <1>4. x[3] = charged
    OBVIOUS
  <1>5. DOMAIN slot = Slot
    BY DEF CountersInv, SlotInv
  <1> HIDE DEF x, charged, r
  <1>6. \A t \in Slot : slot'[t] # Unused => slot'[t] = slot[t]
    BY <1>1, <1>5
  <1>7. DOMAIN spent' \subseteq DOMAIN spent \cup {x}
    BY <1>1 DEF Add
  <1>8. \A l : LimitOf(l)' <=> LimitOf(l)
    BY <1>1 DEF LimitOf
  <1>9. \A z \in DOMAIN spent' : \A y \in z[3] : y = <<y[1], y[2]>> /\ LimitOf(y[2])'
    BY <1>2, <1>3, <1>4, <1>7, <1>8 DEF VersionsInv
  <1>10. \A t \in Slot : slot'[t] # Unused => \A l \in slot'[t].quotas \cup slot'[t].meters : LimitOf(l)'
    BY <1>6, <1>8 DEF VersionsInv
  <1>11. QED
    BY <1>1, <1>8, <1>9, <1>10 DEF VersionsInv

LEMMA VersionsSteps ==
  ASSUME CountersInv, VersionsInv, [CountersNext]_countersVars
  PROVE  VersionsInv'
  <1>1. ASSUME UNCHANGED <<published, authored, restarted, slot, spent>>,
               \A c \in Caller : cache'[c] \in {cache[c], published, NoSet}
        PROVE  VersionsInv'
    <2>1. \A l : LimitOf(l)' <=> LimitOf(l)
      BY <1>1 DEF LimitOf
    <2>2. \A c \in Caller : cache'[c] = NoSet \/ cache'[c] \subseteq authored'
      BY <1>1 DEF VersionsInv
    <2>3. QED
      BY <1>1, <2>1, <2>2 DEF VersionsInv
  <1>2. DOMAIN cache = Caller
    BY DEF CountersInv, BudgetSets
  <1>3. CASE UNCHANGED countersVars
    BY <1>1, <1>3 DEF countersVars, authoring
  <1>4. ASSUME NEW a \in Administrator, NEW B, Propose(a, B) PROVE VersionsInv'
    BY <1>1, <1>4 DEF Propose
  <1>5. CASE \E a \in Administrator :
               \/ ReadBudgets(a) \/ Conflict(a)
               \/ \E id \in BudgetId, t \in Terms : AddBudget(a, id, t)
               \/ \E held \in Known(a) : RemoveBudget(a, held) \/ \E t \in Terms : EditBudget(a, held, t)
    <2>1. ASSUME NEW a \in Administrator, ReadBudgets(a) \/ Conflict(a) PROVE VersionsInv'
      BY <1>1, <2>1 DEF ReadBudgets, Conflict
    <2>2. QED
      BY <1>4, <1>5, <2>1 DEF AddBudget, RemoveBudget, EditBudget
  <1>6. CASE Publish
    BY <1>6, PublishVersions
  <1>7. CASE Withdraw
    BY <1>1, <1>7 DEF Withdraw
  <1>8. CASE \E c \in Caller : Resolve(c)
    <2>1. PICK c \in Caller : Resolve(c)
      BY <1>8
    <2>2. /\ cache' = [cache EXCEPT ![c] = published]
          /\ UNCHANGED <<published, authored, restarted, slot, spent>>
      BY <2>1 DEF Resolve, authoring
    <2>3. QED
      BY <1>1, <1>2, <2>2
  <1>9. CASE TurnHour
    BY <1>1, <1>9 DEF TurnHour, authoring
  <1>10. CASE \E c \in Caller, s \in Slot, m \in ModelKey : Admit(s, c, m)
    BY <1>10, AdmitVersions
  <1>11. CASE \E s \in Slot, n \in 0..MaxTokens : Answer(s, n)
    BY <1>11, AnswerVersions
  <1>12. QED
    BY <1>3, <1>5, <1>6, <1>7, <1>8, <1>9, <1>10, <1>11 DEF CountersNext

\* The versions of a budget and the limits charged are what they were authored as.
THEOREM VersionsInvariant == CountersSpec => []VersionsInv
  <1>1. CountersInv /\ VersionsInv /\ [CountersNext]_countersVars => VersionsInv'
    BY VersionsSteps
  <1>2. QED
    BY <1>1, VersionsStart, CountersInvariant, PTL DEF CountersSpec

\* A counter holds exactly what those who share it spent under its budget as that
\* was authored, unless the budget's id came back.
THEOREM CountersOwn == CountersSpec => []CountersAreOwn
  <1>1. CountersInv /\ VersionsInv => CountersAreOwn
    <2> SUFFICES ASSUME CountersInv, VersionsInv, NEW x \in DOMAIN spent, NEW y \in x[3],
                        y[2].budget # NoBudget, y[2].budget[1] \notin restarted
                 PROVE  counter[<<Key(y[1], y[2], x[1]), x[4]>>] =
                          SumOver(spent, {u \in DOMAIN spent :
                            /\ u[4] = x[4] /\ u[1] \in Sharing(y[2].scope, x[1])
                            /\ y[2].model \in {AnyModel, u[2]} /\ y \in u[3]})
      BY DEF CountersAreOwn, SumOver
    <2>1. SpentHolds(spent, hour) /\ CounterHolds(counter, spent) /\ hour \in 0..MaxHour
      BY DEF CountersInv
    <2>2. x[1] \in Caller /\ x[4] \in 0..hour
      BY <2>1 DEF SpentHolds, IsCharge
    <2>3. PICK k : k = Key(y[1], y[2], x[1])
      OBVIOUS
    <2>4. PICK e : e = <<k, x[4]>>
      OBVIOUS
    <2>5. e \in DOMAIN counter /\ counter[e] \in Nat
      <3>1. k \in ChargeKeys(x)
        BY <2>3 DEF ChargeKeys
      <3>2. e \in ChargeKeys(x) \X {x[4]}
        BY <2>4, <3>1
      <3>3. QED
        BY <2>1, <3>2 DEF CounterHolds
    <2>6. PICK H : H = {x[4]}
      OBVIOUS
    <2>7. H \in SUBSET (0..MaxHour)
      BY <2>1, <2>2, <2>6, BudgetAssumption
    <2>8. Kept(counter, k, H) = {e}
      <3>1. ASSUME NEW u \in DOMAIN counter PROVE u = <<u[1], u[2]>>
        <4>1. PICK v \in DOMAIN spent : u \in ChargeKeys(v) \X {v[4]}
          BY <2>1 DEF CounterHolds
        <4>2. QED
          BY <4>1
      <3>2. ASSUME NEW u \in Kept(counter, k, H) PROVE u = e
        <4>1. u \in DOMAIN counter /\ u[1] = k /\ u[2] = x[4]
          BY <2>6 DEF Kept
        <4>2. u = <<u[1], u[2]>>
          BY <3>1, <4>1
        <4>3. QED
          BY <2>4, <4>1, <4>2
      <3>3. e \in Kept(counter, k, H)
        BY <2>4, <2>5, <2>6 DEF Kept
      <3>4. QED
        BY <3>2, <3>3
    <2>9. k \in {u[1] : u \in DOMAIN counter}
      BY <2>4, <2>5
    <2>10. SumOver(counter, Kept(counter, k, H)) = SumOver(spent, ChargedTo(spent, k, H))
      BY <2>1, <2>7, <2>9 DEF CounterHolds
    <2>11. SumOver(counter, Kept(counter, k, H)) = counter[e]
      BY <2>5, <2>8, SumOne
    <2>12. PICK l : l = y[2]
      OBVIOUS
    <2>13. ASSUME NEW u \in DOMAIN spent, NEW z \in u[3], z[1] = y[1], SameBudget(z[2], l)
           PROVE  z = y
      <3>1. y = <<y[1], y[2]>> /\ z = <<z[1], z[2]>> /\ LimitOf(y[2]) /\ LimitOf(z[2])
        BY DEF VersionsInv
      <3>2. l.budget # NoBudget /\ z[2].budget = l.budget /\ l.budget[1] \notin restarted
        BY <2>12, <2>13 DEF SameBudget
      <3>3. PICK b \in authored : l = AsLimit(b)
        BY <2>12, <3>1, <3>2 DEF LimitOf
      <3>4. PICK d \in authored : z[2] = AsLimit(d)
        BY <3>1, <3>2 DEF LimitOf
      <3>5. l.budget = <<b.id, b.version>> /\ z[2].budget = <<d.id, d.version>>
        BY <3>3, <3>4 DEF AsLimit
      <3>6. b = d
        BY <3>2, <3>5 DEF VersionsInv
      <3>7. z[2] = y[2]
        BY <2>12, <3>3, <3>4, <3>6
      <3>8. QED
        BY <2>13, <3>1, <3>7
    <2>14. SpentOf(spent, y[1], l, x[1], H) = {u \in DOMAIN spent :
                            /\ u[4] = x[4] /\ u[1] \in Sharing(l.scope, x[1])
                            /\ l.model \in {AnyModel, u[2]} /\ y \in u[3]}
      <3>1. ASSUME NEW u \in DOMAIN spent
            PROVE  (\E z \in u[3] : z[1] = y[1] /\ SameBudget(z[2], l)) <=> y \in u[3]
        BY <2>12, <2>13 DEF SameBudget
      <3>2. QED
        BY <2>6, <3>1 DEF SpentOf
    <2>15. SpentOf(spent, y[1], l, x[1], H) = ChargedTo(spent, Key(y[1], l, x[1]), H)
      BY <2>1, <2>2, SpentIsCharged
    <2>16. QED
      BY <2>3, <2>4, <2>10, <2>11, <2>12, <2>14, <2>15
  <1>2. QED
    BY <1>1, CountersInvariant, VersionsInvariant, PTL

\* No period of a quota is overspent by more than the requests that were in
\* flight when it ran out.
THEOREM CountersCeiling == CountersSpec => []OvershootIsInFlight
  <1>1. CountersInv => OvershootIsInFlight
    <2> SUFFICES ASSUME CountersInv, NEW x \in DOMAIN spent, NEW y \in x[3],
                        y[1] = "quota", Contents(y[2]) = {y[2]}
                 PROVE  SpentUnder("quota", y[2], x[1],
                                   StartOf(y[2].period, x[4])..(StartOf(y[2].period, x[4]) + Hours[y[2].period] - 1))
                          < y[2].quota + MaxTokens * Cardinality(Slot)
      BY DEF OvershootIsInFlight
    <2>1. SpentHolds(spent, hour) /\ RoomHolds(hour, spent, slot)
      BY DEF CountersInv
    <2>2. PICK l : l = y[2]
      OBVIOUS
    <2>3. x[1] \in Caller /\ x[4] \in 0..hour /\ l \in LimitSet
      BY <2>1, <2>2 DEF SpentHolds, IsCharge
    <2>4. PastContents(spent, l) \subseteq {l}
      BY <2>2 DEF PastContents, Contents
    <2>5. HasCeiling(hour, spent, slot, l, x[1], x[4])
      BY <2>1, <2>3, <2>4 DEF RoomHolds
    <2> DEFINE S == SumOver(spent, SpentOf(spent, "quota", l, x[1], HoursOf(l, x[4])))
    <2>6. S \in Nat
      <3>1. /\ IsFiniteSet(SpentOf(spent, "quota", l, x[1], HoursOf(l, x[4])))
            /\ \A u \in SpentOf(spent, "quota", l, x[1], HoursOf(l, x[4])) : spent[u] \in Nat
        BY <2>1, FS_Subset DEF SpentHolds, SpentOf
      <3>2. QED
        BY <3>1, SumType
    <2>7. SpentUnder("quota", l, x[1], HoursOf(l, x[4])) = S
      BY DEF SpentUnder, SumOver, SpentOf
    <2>8. S + Pending(hour, slot, l, x[1], x[4]) < Ceiling(l)
      BY <2>5 DEF HasCeiling
    <2> HIDE DEF S
    <2>9. Pending(hour, slot, l, x[1], x[4]) \in Nat /\ Ceiling(l) \in Nat
      BY <2>3, SlotsAreFinite DEF Pending, Ceiling, LimitSet
    <2>10. S < Ceiling(l)
      BY <2>6, <2>8, <2>9
    <2>11. QED
      BY <2>2, <2>7, <2>10 DEF Ceiling, HoursOf
  <1>2. QED
    BY <1>1, CountersInvariant, PTL

\* The warning point of a caller is no later than any soft budget of his asks.
LEMMA WarnsFirst ==
  ASSUME NEW c, NEW B, IsBudgetSet(B), NEW b \in B, b.action = "SOFT_WARNING", b.model = AnyModel
  PROVE  /\ WarnAt(c, B) \in 1..99
         /\ WarnAt(c, B) <= Percent(b) /\ Percent(b) * Enforced(b) <= 100 * b.amount
         /\ Percent(b) \in Nat
  <1>1. IsBudget(b)
    BY DEF IsBudgetSet
  <1>2. PICK a \in Nat \ {0} : a = b.amount
    BY <1>1, BudgetFields
  <1>3. PICK q \in Nat \ {0} : q = Enforced(b)
    BY <1>1, EnforcedIs
  <1>4. a <= q /\ q <= 2 * a
    BY <1>1, <1>2, <1>3, EnforcedIs
  <1>5. Percent(b) = (a * 100) \div q
    BY <1>2, <1>3 DEF Percent
  <1>6. PICK p \in Int : p = (a * 100) \div q
    BY <1>2, <1>3
  <1>7. PICK z \in 0..(q - 1) : a * 100 = q * p + z
    <2>1. a * 100 \in Nat
      BY <1>2
    <2>2. PICK n \in Nat : n = a * 100
      BY <2>1
    <2>3. n = q * (n \div q) + (n % q)
      OBVIOUS
    <2>4. (n % q) \in 0..(q - 1)
      OBVIOUS
    <2>5. QED
      BY <1>6, <2>2, <2>3, <2>4
  <1>8. p >= 1
    <2>1. PICK w \in Int : w = q * p
      BY <1>3, <1>6
    <2>2. w > 0
      BY <1>2, <1>3, <1>4, <1>7, <2>1
    <2>3. QED
      BY <1>3, <1>6, <2>1, <2>2
  <1>9. DefaultWarn \in 1..99
    BY BudgetAssumption
  <1>10. PICK W : W = {DefaultWarn} \cup
             ({Percent(d) : d \in {x \in B : x.action # "THROTTLE" /\ Enforceable(x, c)}} \cap 1..99)
    OBVIOUS
  <1>11. WarnAt(c, B) = Min(W) /\ W \in SUBSET Nat /\ W # {} /\ W \subseteq 1..99
    BY <1>9, <1>10 DEF WarnAt
  <1>12. Min(W) \in W /\ \A n \in W : Min(W) <= n
    <2>1. \E n \in W : \A m \in W : n <= m
      BY <1>11, Least
    <2>2. QED
      BY <2>1 DEF Min
  <1>13. WarnAt(c, B) \in 1..99 /\ WarnAt(c, B) <= DefaultWarn
    BY <1>10, <1>11, <1>12
  <1>14. WarnAt(c, B) <= p
    <2>1. CASE p \in 1..99
      <3>1. Percent(b) \in W
        BY <1>5, <1>6, <1>10, <2>1 DEF Enforceable
      <3>2. QED
        BY <1>5, <1>6, <1>11, <1>12, <3>1
    <2>2. CASE p \notin 1..99
      BY <1>8, <1>9, <1>13, <2>2
    <2>3. QED
      BY <2>1, <2>2
  <1>15. p * q <= 100 * a
    <2>1. PICK w \in Int : w = q * p
      BY <1>3, <1>6
    <2>2. w = p * q
      BY <1>3, <1>6, <2>1
    <2>3. QED
      BY <1>2, <1>7, <2>1, <2>2
  <1>16. QED
    BY <1>2, <1>3, <1>5, <1>6, <1>8, <1>13, <1>14, <1>15

LEMMA SignOf ==
  ASSUME NEW y \in Nat \ {0}, NEW d \in Int, NEW w \in Nat, d * y = w
  PROVE  d >= 0 /\ (d = 0 <=> w = 0)
  <1>1. CASE d < 0
    <2>1. PICK e \in Nat : d = -1 - e
      <3>1. -1 - d \in Nat /\ d = -1 - (-1 - d)
        BY <1>1
      <3>2. QED
        BY <3>1
    <2>2. d * y = (-y) - e * y
      BY <2>1
    <2>3. PICK v \in Nat : v = e * y
      BY <2>1
    <2>4. QED
      BY <2>2, <2>3
  <1>2. CASE d = 0
    BY <1>2
  <1>3. CASE d > 0
    <2>1. PICK e \in Nat : d = 1 + e
      <3>1. d - 1 \in Nat /\ d = 1 + (d - 1)
        BY <1>3
      <3>2. QED
        BY <3>1
    <2>2. d * y = y + e * y
      BY <2>1
    <2>3. PICK v \in Nat : v = e * y
      BY <2>1
    <2>4. QED
      BY <1>3, <2>2, <2>3
  <1>4. QED
    BY <1>1, <1>2, <1>3

\* One of three rates is in order with the second, and so with the third.
LEMMA RatesChain ==
  ASSUME NEW a \in Nat, NEW b \in Nat, NEW c \in Nat,
         NEW x \in Nat \ {0}, NEW y \in Nat \ {0}, NEW z \in Nat \ {0},
         a * y <= b * x, b * z <= c * y
  PROVE  a * z <= c * x /\ (a * z = c * x => (a * y = b * x /\ b * z = c * y))
  <1>1. PICK ay \in Nat : ay = a * y
    OBVIOUS
  <1>2. PICK bx \in Nat : bx = b * x
    OBVIOUS
  <1>3. PICK bz \in Nat : bz = b * z
    OBVIOUS
  <1>4. PICK cy \in Nat : cy = c * y
    OBVIOUS
  <1>5. PICK p \in Nat : bx = ay + p
    <2>1. bx - ay \in Nat /\ bx = ay + (bx - ay)
      BY <1>1, <1>2
    <2>2. QED
      BY <2>1
  <1>6. PICK q \in Nat : cy = bz + q
    <2>1. cy - bz \in Nat /\ cy = bz + (cy - bz)
      BY <1>3, <1>4
    <2>2. QED
      BY <2>1
  <1>7. PICK pz \in Nat : pz = p * z
    OBVIOUS
  <1>8. PICK qx \in Nat : qx = q * x
    OBVIOUS
  <1>9. PICK d \in Int : d = c * x - a * z
    OBVIOUS
  <1>10. d * y = pz + qx
    <2>1. d * y = (c * y) * x - (a * y) * z
      BY <1>9
    <2>2. d * y = cy * x - ay * z
      BY <1>1, <1>4, <2>1
    <2>3. cy * x = bz * x + qx
      BY <1>6, <1>8
    <2>4. bx * z = ay * z + pz
      BY <1>5, <1>7
    <2>5. bz * x = bx * z
      BY <1>2, <1>3
    <2>6. PICK u \in Int, v \in Int : u = bz * x /\ v = ay * z
      OBVIOUS
    <2>7. QED
      BY <2>2, <2>3, <2>4, <2>5, <2>6
  <1>11. d >= 0 /\ (d = 0 <=> pz + qx = 0)
    BY <1>10, SignOf
  <1>12. pz = 0 <=> p = 0
    BY <1>7, SignOf
  <1>13. qx = 0 <=> q = 0
    BY <1>8, SignOf
  <1>14. PICK g \in Int, h \in Int : g = c * x /\ h = a * z
    OBVIOUS
  <1>15. QED
    BY <1>1, <1>2, <1>3, <1>4, <1>5, <1>6, <1>9, <1>11, <1>12, <1>13, <1>14

\* Limits are ordered by their rate, then by their amount.
LEMMA RateOrder ==
  ASSUME NEW i \in LimitSet, NEW j \in LimitSet, NEW k \in LimitSet
  PROVE  /\ Tighter(i, j) => ~Tighter(j, i)
         /\ (Tighter(i, j) /\ ~Tighter(k, j)) => Tighter(i, k)
  <1>1. PICK a \in Nat \ {0}, b \in Nat \ {0}, c \in Nat \ {0} : a = i.quota /\ b = j.quota /\ c = k.quota
    BY DEF LimitSet
  <1>2. PICK x \in Nat \ {0}, y \in Nat \ {0}, z \in Nat \ {0} :
          x = Hours[i.period] /\ y = Hours[j.period] /\ z = Hours[k.period]
    BY BudgetAssumption DEF LimitSet
  <1>3. /\ Tighter(i, j) <=> (a * y < b * x \/ (a * y = b * x /\ a < b))
        /\ Tighter(j, i) <=> (b * x < a * y \/ (b * x = a * y /\ b < a))
        /\ Tighter(k, j) <=> (c * y < b * z \/ (c * y = b * z /\ c < b))
        /\ Tighter(i, k) <=> (a * z < c * x \/ (a * z = c * x /\ a < c))
    BY <1>1, <1>2 DEF Tighter
  <1>4. a * y \in Nat /\ b * x \in Nat
    BY <1>1, <1>2
  <1>5. c * y \in Nat /\ b * z \in Nat
    BY <1>1, <1>2
  <1>6. a * z \in Nat /\ c * x \in Nat
    BY <1>1, <1>2
  <1>7. Tighter(i, j) => ~Tighter(j, i)
    BY <1>1, <1>3, <1>4
  <1>8. ASSUME Tighter(i, j), ~Tighter(k, j) PROVE Tighter(i, k)
    <2>1. a * y <= b * x /\ b * z <= c * y
      BY <1>3, <1>4, <1>5, <1>8
    <2>2. a * z <= c * x /\ (a * z = c * x => (a * y = b * x /\ b * z = c * y))
      BY <1>1, <1>2, <2>1, RatesChain
    <2>3. PICK ay \in Nat, bx \in Nat, cy \in Nat : ay = a * y /\ bx = b * x /\ cy = c * y
      BY <1>4, <1>5
    <2>4. PICK bz \in Nat, az \in Nat, cx \in Nat : bz = b * z /\ az = a * z /\ cx = c * x
      BY <1>5, <1>6
    <2>5. (ay < bx \/ (ay = bx /\ a < b)) /\ ~(cy < bz \/ (cy = bz /\ c < b))
          /\ az <= cx /\ (az = cx => (ay = bx /\ bz = cy))
      BY <1>3, <1>8, <2>2, <2>3, <2>4
    <2>6. az < cx \/ (az = cx /\ a < c)
      BY <1>1, <2>5
    <2>7. QED
      BY <1>3, <2>4, <2>6
  <1>9. QED
    BY <1>7, <1>8

LEMMA SomeTightest ==
  ASSUME NEW P \in SUBSET LimitSet, IsFiniteSet(P), P # {}
  PROVE  \E l \in P : \A k \in P : ~Tighter(k, l)
  <1> DEFINE Below(l) == {k \in P : Tighter(k, l)}
             F == {Below(l) : l \in P}
  <1>1. \A l \in P : IsFiniteSet(Below(l))
    BY FS_Subset
  <1>2. PICK l \in P : \A k \in P : Cardinality(Below(l)) <= Cardinality(Below(k))
    <2>1. PICK s \in F : \A t \in F : Cardinality(s) <= Cardinality(t)
      <3>1. F # {} /\ \A s \in F : IsFiniteSet(s)
        BY <1>1
      <3> HIDE DEF F
      <3>2. QED
        BY <3>1, Smallest
    <2>2. QED
      BY <2>1
  <1>3. ASSUME NEW k \in P, Tighter(k, l) PROVE FALSE
    <2>1. Below(k) \subseteq Below(l) /\ k \in Below(l) /\ k \notin Below(k)
      <3>1. ASSUME NEW j \in P, Tighter(j, k) PROVE Tighter(j, l)
        <4>1. ~Tighter(l, k)
          BY <1>3, RateOrder
        <4>2. QED
          BY <3>1, <4>1, RateOrder
      <3>2. ~Tighter(k, k)
        BY RateOrder
      <3>3. QED
        BY <1>3, <3>1, <3>2
    <2> HIDE DEF Below
    <2>2. IsFiniteSet(Below(l)) /\ IsFiniteSet(Below(k))
      BY <1>1
    <2>3. Cardinality(Below(k)) < Cardinality(Below(l))
      <3>1. Cardinality(Below(k)) <= Cardinality(Below(l)) /\ (Cardinality(Below(k)) = Cardinality(Below(l)) => Below(k) = Below(l))
        BY <2>1, <2>2, FS_Subset
      <3>2. Cardinality(Below(k)) \in Nat /\ Cardinality(Below(l)) \in Nat
        BY <2>2, FS_CardinalityType
      <3>3. QED
        BY <2>1, <3>1, <3>2
    <2>4. Cardinality(Below(k)) \in Nat /\ Cardinality(Below(l)) \in Nat
      BY <2>2, FS_CardinalityType
    <2>5. QED
      BY <1>2, <2>3, <2>4
  <1>4. QED
    BY <1>3

LEMMA EntitledFinite ==
  ASSUME NEW c \in Caller PROVE IsFiniteSet(Entitled(c))
  <1>1. ASSUME NEW scope, NEW target PROVE IsFiniteSet(Plain(scope, target))
    BY FS_EmptySet, FS_Singleton DEF Plain
  <1>2. PICK scope : scope = (IF SoleTeam(c) = NoTeamKey THEN "subject" ELSE "team")
    OBVIOUS
  <1>3. IsFiniteSet(c.teams)
    BY BudgetAssumption, FS_Subset
  <1>4. PICK f : f = [t \in c.teams |-> Plain(scope, t)]
    OBVIOUS
  <1>5. PICK F : F = {Plain(scope, t) : t \in c.teams}
    OBVIOUS
  <1>6. f \in Surjection(c.teams, F)
    BY <1>4, <1>5 DEF Surjection
  <1>7. IsFiniteSet(UNION {Plain(scope, t) : t \in c.teams})
    <2>1. IsFiniteSet(F)
      BY <1>3, <1>6, FS_Surjection
    <2>2. \A T \in F : IsFiniteSet(T)
      BY <1>1, <1>5
    <2>3. IsFiniteSet(UNION F)
      BY <2>1, <2>2, FS_UNION
    <2>4. QED
      BY <1>5, <2>3
  <1>8. QED
    BY <1>1, <1>2, <1>7, FS_Union DEF Entitled

\* Some limit always counts for a quota budget: itself, or a tighter one of its scope.
LEMMA StandIn ==
  ASSUME NEW c \in Caller, NEW B, IsBudgetSet(B), NEW b \in B, b.action # "THROTTLE", b.model = AnyModel
  PROVE  \E l \in Limits(c, B) : CountsFor(l, b)
  <1> DEFINE P == {k \in Entitled(c) : k.scope = b.scope /\ k.model = b.model}
  <1>1. PICK o : o = AsLimit(b)
    OBVIOUS
  <1>2. o \in LimitSet /\ o.scope = b.scope /\ o.model = b.model /\ o \in Budgeted(c, B)
    BY <1>1, AsLimitType DEF AsLimit, Budgeted, Enforceable, IsBudgetSet
  <1>3. ASSUME NEW k \in Budgeted(c, B), k.scope = b.scope, k.model = b.model PROVE k = o
    <2>1. PICK d \in B : d.action # "THROTTLE" /\ k = AsLimit(d)
      BY DEF Budgeted
    <2>2. Identity(d) = Identity(b)
      BY <1>3, <2>1 DEF Identity, AsLimit
    <2>3. QED
      BY <1>1, <2>1, <2>2 DEF IsBudgetSet
  <1>4. P \in SUBSET LimitSet /\ IsFiniteSet(P)
    BY EntitledType, EntitledFinite, FS_Subset
  <1>5. \A k \in P : k.budget = NoBudget
    <2>1. \A scope, target : \A k \in Plain(scope, target) : k.budget = NoBudget
      BY DEF Plain
    <2>2. QED
      BY <2>1 DEF Entitled
  <1>6. ASSUME NEW l \in P \cup {o},
               \A k \in (P \cup {o}) \ {l} : Tighter(l, k) \/ (~Tighter(k, l) /\ l.budget = NoBudget)
        PROVE  l \in Limits(c, B)
    <2>1. l \in Entitled(c) \cup Budgeted(c, B) /\ l.scope = b.scope /\ l.model = b.model
      BY <1>2
    <2>2. \A k \in Entitled(c) \cup Budgeted(c, B) :
            (k.scope = l.scope /\ k.model = l.model) => k \in P \cup {o}
      BY <1>3, <2>1
    <2> HIDE DEF P
    <2>3. QED
      BY <1>6, <2>1, <2>2 DEF Limits
  <1>7. CASE P = {}
    <2>1. o \in Limits(c, B)
      BY <1>6, <1>7
    <2>2. QED
      BY <1>1, <1>2, <2>1 DEF CountsFor
  <1>8. CASE P # {}
    <2>1. PICK m \in P : \A k \in P : ~Tighter(k, m)
      BY <1>4, <1>8, SomeTightest
    <2>2. CASE Tighter(o, m)
      <3>1. \A k \in P : Tighter(o, k)
        <4> HIDE DEF P
        <4>1. QED
          BY <1>2, <1>4, <2>1, <2>2, RateOrder
      <3>2. o \in Limits(c, B)
        BY <1>6, <3>1
      <3>3. QED
        BY <1>1, <1>2, <3>2 DEF CountsFor
    <2>3. CASE ~Tighter(o, m)
      <3>1. m \in Limits(c, B)
        BY <1>5, <1>6, <2>1, <2>3
      <3>2. QED
        BY <1>1, <2>1, <2>3, <3>1 DEF CountsFor
    <2>4. QED
      BY <2>2, <2>3
  <1>9. QED
    BY <1>7, <1>8

LEMMA Times ==
  ASSUME NEW i \in Nat, NEW j \in Nat, NEW n \in Nat, i <= j
  PROVE  i * n <= j * n /\ i * n \in Nat /\ j * n \in Nat
  <1>1. PICK d \in Nat : j = i + d
    <2>1. j - i \in Nat /\ j = i + (j - i)
      OBVIOUS
    <2>2. QED
      BY <2>1
  <1>2. j * n = i * n + d * n
    BY <1>1
  <1>3. d * n \in Nat /\ i * n \in Nat
    OBVIOUS
  <1>4. QED
    BY <1>2, <1>3

\* Below w percent of one quota is below the share that at least w percent is of another.
LEMMA SameShare ==
  ASSUME NEW u \in Nat, NEW w \in Nat, NEW p \in Nat, NEW q \in Nat \ {0}, NEW a \in Nat, NEW g \in Nat,
         u * 100 < w * g, w <= p, p * q <= 100 * a
  PROVE  u * q < a * g
  <1>1. PICK wg \in Nat : wg = w * g
    OBVIOUS
  <1>2. PICK pq \in Nat : pq = p * q
    OBVIOUS
  <1>3. PICK uq \in Nat : uq = u * q
    OBVIOUS
  <1>4. PICK ag \in Nat : ag = a * g
    OBVIOUS
  <1>5. (u * 100 + 1) * q <= wg * q
    <2>1. u * 100 + 1 <= wg /\ u * 100 + 1 \in Nat
      BY <1>1
    <2>2. QED
      BY <2>1, Times
  <1>6. (u * 100 + 1) * q = 100 * uq + q
    BY <1>3
  <1>7. wg * q <= pq * g
    <2>1. wg * q = (w * q) * g
      BY <1>1
    <2>2. w * q <= pq /\ w * q \in Nat
      BY <1>2, Times
    <2>3. (w * q) * g <= pq * g
      BY <2>2, Times
    <2>4. QED
      BY <2>1, <2>3
  <1>8. pq * g <= 100 * ag
    <2>1. 100 * a \in Nat /\ pq <= 100 * a
      BY <1>2
    <2>2. pq * g <= (100 * a) * g
      BY <2>1, Times
    <2>3. (100 * a) * g = 100 * ag
      BY <1>4
    <2>4. QED
      BY <2>2, <2>3
  <1>9. PICK m \in Int, n \in Int : m = wg * q /\ n = pq * g
    OBVIOUS
  <1>10. QED
    BY <1>3, <1>4, <1>5, <1>6, <1>7, <1>8, <1>9

\* Who accepts a substitute is served the model asked for only while, of what
\* counts for each of his soft budgets, less than the configured share is spent.
THEOREM CountersWarn == CountersSpec => SoftWarnsInTime
  <1>1. ASSUME CountersInv, [CountersNext]_countersVars, NEW s \in Slot, Starts(s),
               Substitutable(slot'[s].caller, slot'[s].asked), slot'[s].serving = slot'[s].asked,
               NEW b \in cache[slot'[s].caller], b.action = "SOFT_WARNING", b.model = AnyModel,
               Whose(b.scope, slot'[s].caller) # NoTeamKey
        PROVE  \E l \in slot'[s].quotas :
                 CountsFor(l, b) /\ Used("quota", l, slot'[s].caller) * Enforced(b) < b.amount * l.quota
    <2>0. BudgetSets /\ SlotInv /\ DOMAIN slot = Slot
      BY <1>1 DEF CountersInv, SlotInv
    <2>1. PICK c \in Caller, m \in ModelKey : Admit(s, c, m)
      <3>1. slot'[s] # slot[s] /\ slot'[s] # Unused
        BY <1>1 DEF Starts
      <3>2. CountersNext
        BY <1>1, <3>1 DEF countersVars
      <3>3. ASSUME NEW t \in Slot, NEW c \in Caller, NEW m \in ModelKey, Admit(t, c, m) PROVE t = s
        BY <2>0, <3>1, <3>3 DEF Admit
      <3>4. ASSUME NEW t \in Slot, NEW n \in 0..MaxTokens, Answer(t, n) PROVE FALSE
        BY <2>0, <3>1, <3>4 DEF Answer
      <3>5. ASSUME NEW a \in Administrator, NEW B, Propose(a, B) PROVE FALSE
        BY <3>1, <3>5 DEF Propose
      <3>6. ASSUME NEW a \in Administrator,
                   \/ ReadBudgets(a) \/ Conflict(a)
                   \/ \E id \in BudgetId, t \in Terms : AddBudget(a, id, t)
                   \/ \E held \in Known(a) : RemoveBudget(a, held) \/ \E t \in Terms : EditBudget(a, held, t)
            PROVE  FALSE
        BY <3>1, <3>5, <3>6 DEF ReadBudgets, Conflict, AddBudget, RemoveBudget, EditBudget
      <3>7. ~(Publish \/ Withdraw \/ TurnHour) /\ ~\E c \in Caller : Resolve(c)
        BY <3>1 DEF Publish, Withdraw, TurnHour, Resolve
      <3>8. QED
        BY <3>2, <3>3, <3>4, <3>6, <3>7 DEF CountersNext
    <2>2. PICK B : B = cache[c]
      OBVIOUS
    <2>3. /\ B # NoSet /\ slot'[s].caller = c /\ slot'[s].asked = m
          /\ slot'[s].serving = Effective(c, B, m) /\ slot'[s].quotas = Declared(c, B, m)
      BY <2>0, <2>1, <2>2 DEF Admit
    <2>4. IsBudgetSet(B) /\ b \in B
      BY <1>1, <2>0, <2>2, <2>3 DEF BudgetSets
    <2>5. ~Breached(c, B)
      <3>1. Substitutable(c, m) /\ Effective(c, B, m) = m
        BY <1>1, <2>3
      <3>2. Hop[m] # m
        BY <3>1, BudgetAssumption DEF Substitutable
      <3>3. QED
        BY <3>1, <3>2 DEF Effective
    <2>6. PICK l \in Limits(c, B) : CountsFor(l, b)
      BY <1>1, <2>4, StandIn
    <2>7. l \in Running(Limits(c, B), c, {AnyModel}) /\ l \in Declared(c, B, m)
      BY <1>1, <2>3, <2>6 DEF CountsFor, Running, Declared
    <2>8. l \in LimitSet
      BY <2>4, <2>7, LimitsType
    <2>9. ~(Used("quota", l, c) * 100 >= WarnAt(c, B) * l.quota)
      BY <2>5, <2>7 DEF Breached
    <2>10. PICK u \in Nat : u = Used("quota", l, c)
      BY <1>1, <2>8, UsedIs
    <2>11. PICK w \in 1..99 : w = WarnAt(c, B)
      BY <1>1, <2>4, WarnsFirst
    <2>12. PICK p \in Nat : p = Percent(b)
      BY <1>1, <2>4, WarnsFirst
    <2>13. PICK q \in Nat \ {0} : q = Enforced(b)
      BY <2>4, EnforcedIs DEF IsBudgetSet
    <2>14. PICK a \in Nat : a = b.amount
      BY <2>4, BudgetFields DEF IsBudgetSet
    <2>15. w <= p /\ p * q <= 100 * a
      BY <1>1, <2>4, <2>11, <2>12, <2>13, <2>14, WarnsFirst
    <2>16. PICK g \in Nat : g = l.quota
      BY <2>8 DEF LimitSet
    <2>17. u * 100 < w * g
      <3>1. PICK i \in Nat, j \in Nat : i = u * 100 /\ j = w * g
        BY <2>11
      <3>2. QED
        BY <2>9, <2>10, <2>11, <2>16, <3>1
    <2>18. u * q < a * g
      BY <2>11, <2>15, <2>17, SameShare
    <2>19. QED
      BY <2>3, <2>6, <2>7, <2>10, <2>13, <2>14, <2>16, <2>18
  <1>2. CountersInv /\ [CountersNext]_countersVars =>
          [\A s \in Slot : Starts(s) =>
             LET r == slot'[s]
             IN  (Substitutable(r.caller, r.asked) /\ r.serving = r.asked) =>
                     \A b \in cache[r.caller] :
                         (/\ b.action = "SOFT_WARNING" /\ b.model = AnyModel
                          /\ Whose(b.scope, r.caller) # NoTeamKey) =>
                             \E l \in r.quotas :
                                 /\ CountsFor(l, b)
                                 /\ Used("quota", l, r.caller) * Enforced(b) < b.amount * l.quota]_countersVars
    BY <1>1
  <1>3. QED
    BY <1>2, CountersInvariant, PTL DEF CountersSpec, SoftWarnsInTime

=============================================================================
