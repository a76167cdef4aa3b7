------------------------------ MODULE UsageDrift ------------------------------
(***************************************************************************)
(* The comparison of a stored window with the provider's own meter          *)
(* (control-api/scheduled-drift-detector.mjs,                               *)
(* governance-domain/usage/drift-detector.mjs).  Like a screen it keeps no  *)
(* state: it is a function of the stored document, of what the provider     *)
(* served, and of the provider's answering at all.  It raises what          *)
(* NotificationLedger delivers.                                             *)
(***************************************************************************)
EXTENDS UsageProjection

CONSTANTS
    Aside,      \* what may have reached the provider past the gateway
    Target,     \* basis points by which the two sides may differ
    Undefined   \* a variance from nothing

ASSUME DriftAssumption ==
    /\ Aside \subseteq [requests : Nat, tokens : Nat]
    /\ \A aside \in Aside : aside.requests = 0 => aside.tokens = 0
    /\ Target \in Nat /\ Undefined \notin Int

-----------------------------------------------------------------------------
(* The two sides.  The provider counts what it served, by whichever way it   *)
(* came, and knows nothing of what the gateway refused; or it is out of      *)
(* reach.                                                                    *)
Served(w) == {r \in RowsOf(requested, w) : ~RowData[r].refused}

Metered(w, aside) ==
    [requests |-> Cardinality(Served(w)) + aside.requests,
     tokens   |-> SumTokens(Row, Served(w)) + aside.tokens, usable |-> TRUE]

OutOfReach == [requests |-> 0, tokens |-> 0, usable |-> FALSE]

(* Mutant: a window without a document is a window without requests.          *)
InternalSideOrNone(w) ==
    LET document == rollup[Org][w]
    IN  IF document = Absent THEN [requests |-> 0, tokens |-> 0, usable |-> TRUE]
        ELSE [requests |-> document.totals.requests, tokens |-> document.totals.tokens,
              usable |-> document.completeness = "complete"]

(* The organization's document; a missing one says nothing.                  *)
InternalSide(w) ==
    LET document == rollup[Org][w]
    IN  IF document = Absent THEN [requests |-> 0, tokens |-> 0, usable |-> FALSE]
        ELSE [requests |-> document.totals.requests, tokens |-> document.totals.tokens,
              usable |-> document.completeness = "complete"]

(* Relative to the provider, rounded to the nearest basis point.             *)
Variance(internal, provider) ==
    IF provider = 0 THEN IF internal = 0 THEN 0 ELSE Undefined
    ELSE ((internal - provider) * 20000 + provider) \div (2 * provider)

Exceeds(variance) == variance # Undefined /\ (variance > Target \/ -variance > Target)

(* A difference of one request is a finding; so are tokens from nothing and   *)
(* tokens beyond the target.                                                 *)
Disagrees(internal, provider) ==
    LET tokens   == Variance(internal.tokens, provider.tokens)
        requests == Variance(internal.requests, provider.requests)
    IN  \/ internal.requests # provider.requests
        \/ Undefined \in {tokens, requests}
        \/ Exceeds(tokens) \/ Exceeds(requests)

(* A side that cannot be used is no agreement.                               *)
Comparison(internal, provider) ==
    IF ~internal.usable \/ ~provider.usable THEN "indeterminate"
    ELSE IF Disagrees(internal, provider) THEN "disputed" ELSE "agreed"

(* What a comparison made now would tell the operators; not being able to    *)
(* compare is told as well.                                                  *)
Warning(w, provider) ==
    LET outcome == Comparison(InternalSide(w), provider)
    IN  CASE outcome = "disputed"      -> "usage-drift-detected"
          [] outcome = "indeterminate" -> "usage-drift-unverifiable"
          [] outcome = "agreed"        -> "none"

-----------------------------------------------------------------------------
(* Every request of the window was let through and measured by the provider. *)
Measurable(w) == \A r \in RowsOf(requested, w) : ~RowData[r].refused /\ r \in Reported

(* The drift alarm is about drift.  However the runs that wrote the window    *)
(* were overlapped, lost, late or cut off, it is raised when traffic went     *)
(* past the gateway and not otherwise, as far as the provider measured what   *)
(* the gateway let through; and nothing passes as agreement that was not      *)
(* compared (scheduled-drift-detector.mjs compare).                           *)
DriftIsReal ==
    \A w \in Window : \A provider \in {Metered(w, aside) : aside \in Aside} \cup {OutOfReach} :
        LET warning == Warning(w, provider)
            past    == provider.requests - Cardinality(RowsOf(requested, w))
        IN  /\ warning = "usage-drift-detected" /\ Measurable(w) => past > 0
            /\ warning = "none" => provider.usable /\ (Measurable(w) => past = 0)
=============================================================================
