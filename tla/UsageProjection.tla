--------------------------- MODULE UsageProjection ---------------------------
(***************************************************************************)
(* The usage pipeline: requests are logged, a projector turns one closed    *)
(* window of the log into rollups (replaced on every run) and records       *)
(* (created once), and a budget comparison reads the rollups of a period    *)
(* and raises what the period earned.                                       *)
(*                                                                          *)
(* Runs of the projector overlap, repeat and may be lost between any two    *)
(* calls of the store; the log delivers late, in two parts, truncated or    *)
(* not at all.                                                              *)
(***************************************************************************)
EXTENDS Integers, FiniteSets, FiniteSetsExt

CONSTANTS
    Row,            \* requests the gateway may serve
    RowData,        \* what the log will say of each
    Team, NoTeam,   \* keyed grains: one stands for team, subject, application
    Org,            \* the organization grain, which has no key
    Model, AllModels,
    Window,         \* the first windows of one budget period, 0, 1, ...
    WindowLength, IngestionLag,
    RowLimit,       \* rows one query returns at most
    Registry,       \* what each version of the model catalogue registers
    Budget,         \* the published budgets
    Projector,      \* workers that may run a window
    MaxRuns,        \* bound: runs started
    MaxClock,       \* bound: instants
    Absent, NoWarning, Nobody  \* no document, no warning level, nothing held

Qualities == {"reported", "estimated", "unknown"}
Keys      == Team \cup {Org}
Versions  == DOMAIN Registry

ASSUME UsageAssumption ==
    /\ WindowLength \in Nat \ {0} /\ IngestionLag \in Nat
    /\ RowLimit \in Nat \ {0} /\ MaxRuns \in Nat /\ MaxClock \in Nat
    /\ IsFiniteSet(Window) /\ Window = 0..(Cardinality(Window) - 1)
    /\ IsFiniteSet(Row) /\ IsFiniteSet(Model)
    /\ Org \notin Team /\ NoTeam \notin Team /\ NoTeam # Org
    /\ AllModels \notin Model
    /\ RowData \in [Row -> [window : Window, team : Team \cup {NoTeam}, model : Model,
                            provider : Nat, gateway : Nat, refused : BOOLEAN]]
    /\ Versions \subseteq Nat \ {0} /\ 1 \in Versions
    /\ Registry \in [Versions -> SUBSET Model]
    /\ Budget \subseteq [scope : {"organization", "team"}, model : Model \cup {AllModels},
                         quota : Nat \ {0}, warn : 0..99 \cup {NoWarning}]
    /\ NoWarning \notin Nat

Start(w) == w * WindowLength
End(w)   == Start(w) + WindowLength
(* The instant from which the log is taken to have delivered a window.      *)
Settled(w) == End(w) + IngestionLag

VARIABLES
    clock,
    requested,  \* requests that were made
    delivered,  \* rows the log returns
    metered,    \* rows whose token counts have arrived as well
    catalogue,  \* current version of the model catalogue
    rollup,     \* rollup documents by key and window
    record,     \* record documents by request
    conflict,   \* disagreements runs reported: request, held and projected record
    worker,     \* what each projector run holds
    runs,
    sweep,      \* what the budget comparison holds
    raised      \* notifications raised

logVars   == <<clock, requested, delivered, metered, catalogue>>
storeVars == <<rollup, record, conflict>>
workVars  == <<worker, runs>>
sweepVars == <<sweep, raised>>
vars      == <<logVars, storeVars, workVars, sweepVars>>

-----------------------------------------------------------------------------
(* What the log says of a row, as the query joins it: the provider's count   *)
(* once that has arrived, else what the gateway charged, as an estimate.     *)
TokensIn(m, r)  == IF r \in m THEN RowData[r].provider ELSE RowData[r].gateway
QualityIn(m, r) == IF RowData[r].refused THEN "unknown"
                   ELSE IF r \in m THEN "reported"
                   ELSE IF RowData[r].gateway > 0 THEN "estimated" ELSE "unknown"

(* The rows of a key in a window; a row without a team belongs to no team.  *)
Attributed(rows, k) == IF k = Org THEN rows ELSE {r \in rows : RowData[r].team = k}
RowsOf(rows, w)     == {r \in rows : RowData[r].window = w}

(* A refused request has no usage to qualify.                               *)
ResolveQuality(qualities) ==
    LET known == qualities \ {"unknown"}
    IN  IF known = {} THEN "unknown"
        ELSE IF Cardinality(known) = 1 THEN CHOOSE q \in known : TRUE
        ELSE "mixed"

SumTokens(m, rows) == MapThenSumSet(LAMBDA r : TokensIn(m, r), rows)

Measures(m, rows) ==
    [requests |-> Cardinality(rows),
     refused  |-> Cardinality({r \in rows : RowData[r].refused}),
     tokens   |-> SumTokens(m, rows),
     quality  |-> ResolveQuality({QualityIn(m, r) : r \in {x \in rows : ~RowData[x].refused}})]

(* What one key's document says of the rows that were read.                 *)
Rollup(m, rows, completeness) ==
    [completeness |-> completeness,
     totals       |-> Measures(m, rows),
     byModel      |-> [x \in {RowData[r].model : r \in rows} |->
                          Measures(m, {r \in rows : RowData[r].model = x})]]

(* No document is taken for its absence.                                    *)
ASSUME DocumentAssumption ==
    \A m, rows \in SUBSET Row : \A c \in {"complete", "partial", "degraded"} :
        Rollup(m, rows, c) # Absent

(* Mutant: a closed window is complete, without waiting for the log.          *)
CompletenessWhenClosed(w, asOf, source, rowCount) ==
    IF source = "unavailable" \/ rowCount >= RowLimit THEN "degraded"
    ELSE IF asOf < End(w) THEN "partial"
    ELSE "complete"

(* Completeness is derived from what the source did, never supplied.        *)
Completeness(w, asOf, source, rowCount) ==
    IF source = "unavailable" \/ rowCount >= RowLimit THEN "degraded"
    ELSE IF asOf < End(w) \/ asOf - End(w) < IngestionLag THEN "partial"
    ELSE "complete"

(* The organization is always written; a team only when it has rows.        *)
Written(rows) == {Org} \cup {k \in Team : Attributed(rows, k) # {}}

(* A count nothing vouches for is not kept.                                 *)
Record(m, v, at, r) ==
    [provider |-> RowData[r].model \in Registry[v],
     tokens   |-> IF QualityIn(m, r) = "unknown" THEN 0 ELSE TokensIn(m, r),
     quality  |-> QualityIn(m, r), version |-> v, at |-> at]

(* Mutant: the instant of projection is compared as well.                     *)
DisagreeEver(held, new) == held # new

Disagree(held, new) == [held EXCEPT !.at = 0] # [new EXCEPT !.at = 0]
-----------------------------------------------------------------------------
(* The environment.  The log has a window's rows by the time its lag names,  *)
(* and with them the counts of the provider, where it reports any.           *)
Reported == {r \in Row : RowData[r].provider > 0}
DeliveredIn(t) ==
    \A r \in requested : t >= Settled(RowData[r].window) =>
        r \in delivered /\ (r \in Reported => r \in metered)

Tick ==
    /\ clock < MaxClock /\ DeliveredIn(clock + 1)
    /\ clock' = clock + 1
    /\ UNCHANGED <<requested, delivered, metered, catalogue, storeVars, workVars, sweepVars>>

Request(r) ==
    /\ r \notin requested
    /\ Start(RowData[r].window) <= clock /\ clock < End(RowData[r].window)
    /\ requested' = requested \cup {r}
    /\ UNCHANGED <<clock, delivered, metered, catalogue, storeVars, workVars, sweepVars>>

Deliver(r) ==
    /\ r \in requested \ delivered
    /\ delivered' = delivered \cup {r}
    /\ UNCHANGED <<clock, requested, metered, catalogue, storeVars, workVars, sweepVars>>

Meter(r) ==
    /\ r \in (delivered \cap Reported) \ metered
    /\ metered' = metered \cup {r}
    /\ UNCHANGED <<clock, requested, delivered, catalogue, storeVars, workVars, sweepVars>>

PublishCatalogue ==
    /\ catalogue + 1 \in Versions
    /\ catalogue' = catalogue + 1
    /\ UNCHANGED <<clock, requested, delivered, metered, storeVars, workVars, sweepVars>>
-----------------------------------------------------------------------------
(* One run over one window, up to each call it waits for.                   *)
Idle == [phase |-> "idle", window |-> Nobody, at |-> Nobody, source |-> Nobody,
         rows |-> {}, metered |-> {}, todo |-> {}, version |-> Nobody]

Begin(p, w) ==
    /\ worker[p] = Idle /\ runs < MaxRuns
    /\ Start(w) < clock
    /\ runs' = runs + 1
    /\ worker' = [worker EXCEPT ![p] = [Idle EXCEPT !.phase = "read", !.window = w, !.at = clock]]
    /\ UNCHANGED <<logVars, storeVars, sweepVars>>

(* The log answers with every row it has, with as many as one query may     *)
(* return, or not at all; an outage is a window without rows.                *)
Answers(w) == LET rows == RowsOf(delivered, w)
              IN  IF Cardinality(rows) <= RowLimit THEN {rows} ELSE kSubset(RowLimit, rows)

Read(p) ==
    LET h == worker[p] IN
    /\ h.phase = "read"
    /\ \/ \E rows \in Answers(h.window) :
             worker' = [worker EXCEPT ![p] = [h EXCEPT !.phase = "rollups", !.source = "complete",
                 !.rows = rows, !.metered = rows \cap metered, !.todo = Written(rows)]]
       \/ worker' = [worker EXCEPT ![p] = [h EXCEPT !.phase = "rollups", !.source = "unavailable",
                 !.todo = Written({})]]
    /\ UNCHANGED <<logVars, storeVars, runs, sweepVars>>

(* The organization first; each document replaces the one that was there.   *)
PutRollup(p, k) ==
    LET h == worker[p] IN
    /\ h.phase = "rollups" /\ k \in h.todo
    /\ Org \in h.todo => k = Org
    /\ rollup' = [rollup EXCEPT ![k][h.window] =
           Rollup(h.metered, Attributed(h.rows, k),
                  Completeness(h.window, h.at, h.source, Cardinality(h.rows)))]
    /\ worker' = [worker EXCEPT ![p].todo = @ \ {k}]
    /\ UNCHANGED <<logVars, record, conflict, runs, sweepVars>>

(* Without the catalogue the run keeps no records and still ends well.      *)
ReadRegistry(p) ==
    LET h == worker[p] IN
    /\ h.phase = "rollups" /\ h.todo = {}
    /\ worker' \in {[worker EXCEPT ![p] = Idle],
                     [worker EXCEPT ![p] = [h EXCEPT !.phase = "query", !.version = catalogue]]}
    /\ UNCHANGED <<logVars, storeVars, runs, sweepVars>>

(* What is held is compared, what is not is about to be created.            *)
QueryRecords(p) ==
    LET h    == worker[p]
        held == {r \in h.rows : record[r] # Absent}
    IN  /\ h.phase = "query"
        /\ conflict' = conflict \cup
               {<<r, record[r], Record(h.metered, h.version, h.at, r)>> : r \in
                   {x \in held : Disagree(record[x], Record(h.metered, h.version, h.at, x))}}
        /\ worker' = [worker EXCEPT ![p] = [h EXCEPT !.phase = "records", !.todo = h.rows \ held]]
        /\ UNCHANGED <<logVars, rollup, record, runs, sweepVars>>

(* Created, never replaced; a record that appeared meanwhile is left alone. *)
PutRecord(p, r) ==
    LET h == worker[p] IN
    /\ h.phase = "records" /\ r \in h.todo
    /\ record' = IF record[r] # Absent THEN record
                 ELSE [record EXCEPT ![r] = Record(h.metered, h.version, h.at, r)]
    /\ worker' = [worker EXCEPT ![p].todo = @ \ {r}]
    /\ UNCHANGED <<logVars, rollup, conflict, runs, sweepVars>>

Finish(p) ==
    /\ worker[p].phase = "records" /\ worker[p].todo = {}
    /\ worker' = [worker EXCEPT ![p] = Idle]
    /\ UNCHANGED <<logVars, storeVars, runs, sweepVars>>

(* The host stops, or a call of the store fails, which ends the run.        *)
Lose(p) ==
    /\ worker[p] # Idle
    /\ worker' = [worker EXCEPT ![p] = Idle]
    /\ UNCHANGED <<logVars, storeVars, runs, sweepVars>>
-----------------------------------------------------------------------------
(* The budget comparison.  The period is compared up to the newest window    *)
(* the projector has had a whole window's time to write; once that reaches   *)
(* the end of the period the next one is compared, so a period's last window *)
(* never is, and Window leaves it out.                                       *)
SweepLag   == IngestionLag + WindowLength
Through(t) == IF t < SweepLag THEN 0 ELSE (t - SweepLag) \div WindowLength
Period(n)  == 0..(n - 1)

KeysOf(b, n) == IF b.scope = "organization" THEN {Org}
                ELSE {k \in Team : \E w \in Period(n) : rollup[k][w] # Absent}

Covered(k, n) == {w \in Period(n) : rollup[k][w] # Absent}

Judgeable(k, n) ==
    /\ Covered(k, n) = Period(n)
    /\ \A w \in Period(n) : rollup[k][w].completeness = "complete"

(* Mutant: a per-model budget is compared with the window's total.            *)
TotalOf(document, m) == document.totals.tokens

TokensOf(document, m) ==
    IF m = AllModels THEN document.totals.tokens
    ELSE IF m \in DOMAIN document.byModel THEN document.byModel[m].tokens ELSE 0

Observed(b, k, n) == MapThenSumSet(LAMBDA w : TokensOf(rollup[k][w], b.model), Covered(k, n))

(* What a total earns of a budget.                                          *)
Earned(b, tokens) ==
    (IF tokens >= b.quota THEN {"budget-exhausted"} ELSE {})
        \cup (IF b.warn # NoWarning /\ (tokens * 10000) \div b.quota >= b.warn * 100
              THEN {"budget-threshold-reached"} ELSE {})

Planned(b, k, n) ==
    IF Judgeable(k, n) THEN Earned(b, Observed(b, k, n)) ELSE {"aggregate-stale"}

Notices == [budget : Budget, key : Keys,
            kind : {"budget-exhausted", "budget-threshold-reached", "aggregate-stale"}]

Resting == [through |-> 0, plan |-> {}]

SweepRead ==
    LET n == Through(clock) IN
    /\ sweep = Resting
    /\ n > 0 /\ Period(n) \subseteq Window
    /\ sweep' = [through |-> n,
                 plan |-> {notice \in Notices \ raised :
                             /\ notice.key \in KeysOf(notice.budget, n)
                             /\ notice.kind \in Planned(notice.budget, notice.key, n)}]
    /\ UNCHANGED <<logVars, storeVars, workVars, raised>>

(* The ledger takes the notices one by one; the comparison may be lost       *)
(* after any of them.                                                        *)
SweepRaise(done) ==
    /\ sweep # Resting
    /\ raised' = raised \cup done
    /\ sweep' = Resting
    /\ UNCHANGED <<logVars, storeVars, workVars>>

-----------------------------------------------------------------------------
Init ==
    /\ clock = 0 /\ requested = {} /\ delivered = {} /\ metered = {} /\ catalogue = 1
    /\ rollup = [k \in Keys |-> [w \in Window |-> Absent]]
    /\ record = [r \in Row |-> Absent]
    /\ conflict = {}
    /\ worker = [p \in Projector |-> Idle] /\ runs = 0
    /\ sweep = Resting /\ raised = {}

Next ==
    \/ Tick \/ PublishCatalogue
    \/ \E r \in Row : Request(r) \/ Deliver(r) \/ Meter(r)
    \/ \E p \in Projector :
          \/ \E w \in Window : Begin(p, w)
          \/ Read(p) \/ ReadRegistry(p) \/ QueryRecords(p) \/ Finish(p) \/ Lose(p)
          \/ \E k \in Keys : PutRollup(p, k)
          \/ \E r \in Row : PutRecord(p, r)
    \/ SweepRead \/ \E done \in SUBSET sweep.plan : SweepRaise(done)

Spec == Init /\ [][Next]_vars
-----------------------------------------------------------------------------
MeasuresType == [requests : Nat, refused : Nat, tokens : Nat, quality : Qualities \cup {"mixed"}]
IsRollup(d) ==
    /\ DOMAIN d = {"completeness", "totals", "byModel"}
    /\ d.completeness \in {"complete", "partial", "degraded"}
    /\ d.totals \in MeasuresType
    /\ DOMAIN d.byModel \subseteq Model
    /\ \A m \in DOMAIN d.byModel : d.byModel[m] \in MeasuresType
RecordType == [provider : BOOLEAN, tokens : Nat, quality : Qualities, version : Versions, at : 0..MaxClock]

(* Every variable keeps its type: stored documents are ones the validators   *)
(* of rollups and records accept.                                            *)
TypeOK ==
    /\ clock \in 0..MaxClock /\ catalogue \in Versions /\ runs \in 0..MaxRuns
    /\ metered \subseteq delivered /\ delivered \subseteq requested /\ requested \subseteq Row
    /\ \A k \in Keys : \A w \in Window : rollup[k][w] = Absent \/ IsRollup(rollup[k][w])
    /\ record \in [Row -> RecordType \cup {Absent}]
    /\ conflict \subseteq Row \X RecordType \X RecordType
    /\ \A p \in Projector :
           worker[p] # Idle => /\ worker[p].window \in Window /\ worker[p].at \in 0..MaxClock
                               /\ worker[p].metered \subseteq worker[p].rows
    /\ raised \subseteq Notices /\ sweep.plan \subseteq Notices

(* A document that says complete holds what its window consumed: every       *)
(* request of its key, with every token count, whatever overlapped, was lost *)
(* or came late (usage-rollup-projector.mjs resolveCompleteness).            *)
CompleteIsExact ==
    \A k \in Keys : \A w \in Window :
        (rollup[k][w] # Absent /\ rollup[k][w].completeness = "complete") =>
            rollup[k][w] = Rollup(Reported \cap RowsOf(requested, w),
                                  Attributed(RowsOf(requested, w), k), "complete")

Consumed(b, k, n) ==
    SumTokens(Reported, {r \in Attributed(requested, k) :
        RowData[r].window \in Period(n) /\ b.model \in {AllModels, RowData[r].model}})

(* A warning is only raised about consumption that happened: the period has  *)
(* spent what the notice says, however its windows were read and re-read.    *)
WarningsAreEarned ==
    \A notice \in raised : notice.kind # "aggregate-stale" =>
        notice.kind \in Earned(notice.budget,
                               Consumed(notice.budget, notice.key, Cardinality(Window)))

(* A disagreement between two readings of a request is a finding: it means   *)
(* the catalogue changed in between or one run came before the log settled.  *)
ReprojectionAgrees ==
    \A c \in conflict : \/ c[2].version # c[3].version
                        \/ c[2].at < Settled(RowData[c[1]].window)
                        \/ c[3].at < Settled(RowData[c[1]].window)

=============================================================================
