-------------------------- MODULE LifecycleTheorems --------------------------
(***************************************************************************)
(* What the reducer of Lifecycle returns, stated once for the proofs about *)
(* the modules that use it.                                                *)
(***************************************************************************)
EXTENDS Lifecycle, TLAPS

\* A created revision is a revision.
LEMMA CreateRevisionType ==
  ASSUME NEW n \in Nat \ {0}, NEW a \in Actor
  PROVE  CreateRevision(n, a) \in Revision
  BY DEF CreateRevision, Revision, State, Outcome, NoRevision

LEMMA NextStateType ==
  ASSUME NEW c \in Command
  PROVE  NextState[c] \in State
  BY DEF Command, NextState, State

\* A retry confirms nothing and takes no confirmation back.
LEMMA ResetKeepsVerified ==
  ASSUME NEW outcome \in [Target -> Outcome]
  PROVE  /\ ResetTargetsForRetry(outcome) \in [Target -> Outcome]
         /\ \A t \in Target :
              ResetTargetsForRetry(outcome)[t] = "verified" <=> outcome[t] = "verified"
  BY DEF ResetTargetsForRetry, Outcome

\* A command returns a revision.
LEMMA AppliedType ==
  ASSUME NEW rev \in Revision, NEW c \in Command, NEW a \in Actor, NEW ctx,
         ctx.previous \in Nat
  PROVE  Applied(rev, c, a, ctx) \in Revision
  <1>1. NextState[c] \in State
    BY NextStateType
  <1>2. ResetTargetsForRetry(rev.outcome) \in [Target -> Outcome]
    BY ResetKeepsVerified DEF Revision
  <1>3. QED
    BY <1>1, <1>2 DEF Applied, Revision, State

\* What a command leaves of each field.
LEMMA AppliedFields ==
  ASSUME NEW rev \in Revision, NEW c, NEW a, NEW ctx, NEW new, new = Applied(rev, c, a, ctx)
  PROVE  /\ new.number = rev.number
         /\ new.author = rev.author
         /\ new.state = IF c = "withdraw" /\ rev.state = "draft"
                          THEN "withdrawn" ELSE NextState[c]
         /\ new.approver = IF c = "approve" THEN a
                           ELSE IF c = "withdraw" THEN NoActor ELSE rev.approver
         /\ new.publisher = IF c \in {"publish", "retry"} THEN a ELSE rev.publisher
         /\ new.completed <=> \/ c = "complete"
                              \/ c \notin {"publish", "retry"} /\ rev.completed
         /\ new.failure <=> \/ c = "fail"
                            \/ c \notin {"publish", "retry", "complete"} /\ rev.failure
         /\ new.outcome = IF c = "retry" THEN ResetTargetsForRetry(rev.outcome)
                                         ELSE rev.outcome
  BY DEF Applied, Revision

\* A target report changes one outcome and nothing else.
LEMMA RecordedFields ==
  ASSUME NEW rev \in Revision, NEW t \in Target, NEW outcome \in Outcome,
         NEW new, new = Recorded(rev, t, outcome)
  PROVE  /\ new \in Revision
         /\ new = [rev EXCEPT !.outcome = new.outcome]
         /\ \A u \in Target : new.outcome[u] = IF u = t THEN outcome ELSE rev.outcome[u]
  BY DEF Recorded, Revision

\* A report never moves a verified target.
LEMMA VerifiedIsTerminal ==
  ASSUME NEW rev \in Revision, NEW t \in Target, NEW outcome \in Outcome, NEW reason,
         Recordable(rev, t, outcome, reason), rev.outcome[t] = "verified"
  PROVE  outcome = "verified"
  BY DEF Recordable, Rank, Outcome
==============================================================================
