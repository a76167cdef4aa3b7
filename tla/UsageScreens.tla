----------------------------- MODULE UsageScreens -----------------------------
(***************************************************************************)
(* What the administration screens say of the usage that the pipeline       *)
(* stored: the overview and the budgets are computed from rollups, the      *)
(* usage and the models from records.  A screen keeps no state of its own;  *)
(* it is a function of the stored documents at the instant it is asked for. *)
(***************************************************************************)
EXTENDS UsageProjection

CONSTANTS
    Reach,      \* how far back an overview may reach
    Withheld    \* a figure that is not shown

ASSUME ScreensAssumption == Reach \subseteq Nat \ {0} /\ Withheld \notin Nat

Total(f(_), S) == MapThenSumSet(f, S)

-----------------------------------------------------------------------------
(* The overview: the windows of one key that start within the range.        *)
Held(k)               == {w \in Window : rollup[k][w] # Absent}
Selected(k, asOf, range) == {w \in Held(k) : Start(w) >= asOf - range}

States(k, ws) == {rollup[k][w].completeness : w \in ws}

(* Mutant: a reading is as good as its newest window.                         *)
NewestCompleteness(k, ws) ==
    IF ws = {} THEN "degraded" ELSE rollup[k][Max(ws)].completeness

(* The worst of the windows a reading is built from; of none, degraded.      *)
WorstCompleteness(k, ws) ==
    IF ws = {} \/ "degraded" \in States(k, ws) THEN "degraded"
    ELSE IF "partial" \in States(k, ws) THEN "partial" ELSE "complete"

(* Counts of a degraded reading are unknown, not zero.                       *)
Figure(k, ws, name) ==
    IF WorstCompleteness(k, ws) = "degraded" THEN Withheld
    ELSE Total(LAMBDA w : rollup[k][w].totals[name], ws)

Overview(k, asOf, range) ==
    LET ws == Selected(k, asOf, range)
    IN  [windows |-> ws, state |-> WorstCompleteness(k, ws),
         requests |-> Figure(k, ws, "requests"), tokens |-> Figure(k, ws, "tokens")]

OverviewScreen(k, range) == Overview(k, clock, range)

-----------------------------------------------------------------------------
(* The window that usage is read for ends with the newest rollup of any key. *)
(* How far to trust it is looked for in a member that no rollup document     *)
(* has, so that any rollup at all makes the reading complete, and stale once *)
(* its window is over.                                                       *)
AllHeld       == UNION {Held(k) : k \in Keys}
ScreenThrough == IF AllHeld = {} THEN 0 ELSE Max(AllHeld) + 1
UsageWindow   ==
    IF AllHeld = {} THEN [state |-> "degraded", fresh |-> FALSE]
    ELSE [state |-> "complete", fresh |-> clock <= End(Max(AllHeld))]

Recorded  == {r \in Row : record[r] # Absent}
Counted   == IF UsageWindow.state = "degraded" THEN {} ELSE Recorded

(* A count nothing vouches for takes part: with another quality it is mixed. *)
BucketQuality(rs) ==
    LET all == {record[r].quality : r \in rs}
    IN  IF all \subseteq {"unknown"} THEN "unknown"
        ELSE IF Cardinality(all) = 1 THEN CHOOSE q \in all : TRUE ELSE "mixed"

Bucket(rs) == [requests |-> Cardinality(rs),
               tokens   |-> Total(LAMBDA r : record[r].tokens, rs),
               quality  |-> BucketQuality(rs)]

(* A record without a team counts for no team.                               *)
Usage(k) == Bucket(Attributed(Counted, k))

UsageScreen(k) == IF UsageWindow.state = "degraded" THEN Withheld ELSE Usage(k)

(* Mutant: only models of the catalogue have a row.                           *)
RegisteredRows == Registry[catalogue]

(* A model that served traffic and left the catalogue still has a row.       *)
ModelRows == Registry[catalogue] \cup {RowData[r].model : r \in Counted}

ModelsScreen ==
    [m \in ModelRows |-> [registered |-> m \in Registry[catalogue],
                          usage |-> Bucket({r \in Counted : RowData[r].model = m})]]

-----------------------------------------------------------------------------
(* The budgets screen.  Its period ends with that window as well.  A record  *)
(* is looked up among the observations by the key of its budget, which is    *)
(* none: what a team consumed was observed under the team's key, is never    *)
(* found, and is shown as not measured.                                      *)
Observations == {[budget |-> b, key |-> k] : b \in Budget, k \in Keys}
Found(b)     == {o \in Observations : /\ o.budget = b /\ o.key = Org
                                      /\ o.key \in KeysOf(b, ScreenThrough)}

(* Mutant: a period is whole when each of its windows has a document.         *)
WholeWhenCovered(n) == Covered(Org, n) = Period(n)

WholePeriod(n) == Judgeable(Org, n)

Consumption(b) ==
    IF ScreenThrough = 0 \/ Found(b) = {}
    THEN [state |-> "unmeasured", consumed |-> Withheld, remaining |-> Withheld, over |-> FALSE]
    ELSE LET n        == ScreenThrough
             consumed == Observed(b, Org, n)
             whole    == WholePeriod(n)
         IN  [state     |-> IF whole THEN "measured" ELSE "partial",
              consumed  |-> consumed,
              remaining |-> IF ~whole THEN Withheld
                            ELSE IF consumed > b.quota THEN 0 ELSE b.quota - consumed,
              over      |-> (consumed * 10000) \div b.quota > 10000]

BudgetsScreen == [b \in Budget |-> Consumption(b)]

-----------------------------------------------------------------------------
(* An overview that calls itself complete shows every request and token of   *)
(* the windows it is built from, and never more requests than were made, nor  *)
(* does an outage in one of them read as a quiet hour                         *)
(* (overview-usage-source.mjs buildOverviewFromRollups).                      *)
OverviewIsExact ==
    \A k \in Keys : \A range \in Reach :
        LET shown == OverviewScreen(k, range)
            made  == {r \in Attributed(requested, k) : RowData[r].window \in shown.windows}
        IN  /\ shown.state = "complete" =>
                 shown.requests = Cardinality(made) /\ shown.tokens = SumTokens(Reported, made)
            /\ shown.requests # Withheld => shown.requests <= Cardinality(made)

(* The screens account for the same requests: the models for what the usage   *)
(* screen counts, whatever the catalogue holds by then, and the usage screen   *)
(* for no request of a window the overview has not seen, since records follow  *)
(* rollups (models-read-model-projector.mjs, rollup-projector.mjs runWindow).  *)
ScreensAgree ==
    /\ UsageScreen(Org) # Withheld /\ Recorded # {} =>
         Total(LAMBDA m : ModelsScreen[m].usage.requests, DOMAIN ModelsScreen) = UsageScreen(Org).requests
    /\ \A k \in Keys : \A range \in Reach :
         /\ Recorded # {} /\ Selected(k, clock, range) = Held(k)
         /\ OverviewScreen(k, range).state = "complete"
         => UsageScreen(k).requests <= OverviewScreen(k, range).requests

(* Room shown under a budget is room the organization has: the period was     *)
(* measured whole up to the newest window, and a budget that was reported as   *)
(* exhausted is not shown with anything left (budgets-read-model-projector.mjs *)
(* projectConsumption).                                                        *)
RoomIsReal ==
    \A b \in Budget :
        LET shown == BudgetsScreen[b] IN
        shown.remaining # Withheld =>
            /\ shown.consumed = Consumed(b, Org, ScreenThrough)
            /\ (\E notice \in raised : notice.budget = b /\ notice.kind = "budget-exhausted")
                 => shown.remaining = 0
=============================================================================
