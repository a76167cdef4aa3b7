------------------------------ MODULE Lifecycle ------------------------------
(***************************************************************************)
(* The reducer that moves one configuration revision through its life      *)
(* (app/governance-domain/lifecycle/configuration-lifecycle.mjs).          *)
(*                                                                         *)
(* A revision is the record the reducer takes and returns.  Instants,      *)
(* reason texts and the audit history are abstracted: of a reason only     *)
(* whether it is a well-formed code matters to control, and of the three   *)
(* publication stamps publishedBy and publishStartedAt are always set by   *)
(* the same command, so `publisher' stands for both and `completed' for    *)
(* publishCompletedAt.                                                     *)
(***************************************************************************)
EXTENDS Integers

CONSTANTS
  Actor,      \* the actor codes an administrator or an import is recorded under
  NoActor,    \* null in approvedBy and publishedBy
  Target      \* the publication targets a revision declares, in publication order

ASSUME NoActorAssumption == NoActor \notin Actor
ASSUME TargetAssumption  == Target \subseteq Int /\ Target # {}

State   == {"draft", "approved", "publishing", "active", "failed", "superseded", "withdrawn"}
Command == {"edit", "approve", "withdraw", "abandon", "publish",
            "complete", "fail", "retry", "supersede"}
Outcome == {"pending", "written", "verified", "failed"}

\* A revision is identified by its number; 0 stands for a null revision id.
NoRevision == 0

AllowedFrom == [edit      |-> {"draft"},
                approve   |-> {"draft"},
                withdraw  |-> {"draft", "approved"},
                abandon   |-> {"draft", "approved", "publishing", "failed"},
                publish   |-> {"approved"},
                complete  |-> {"publishing"},
                fail      |-> {"publishing"},
                retry     |-> {"failed"},
                supersede |-> {"active", "failed"}]

NextState == [edit      |-> "draft",
              approve   |-> "approved",
              withdraw  |-> "draft",
              abandon   |-> "withdrawn",
              publish   |-> "publishing",
              complete  |-> "active",
              fail      |-> "failed",
              retry     |-> "publishing",
              supersede |-> "superseded"]

Revision == [number    : Nat \ {0},
             state     : State,
             author    : Actor,
             approver  : Actor \cup {NoActor},
             publisher : Actor \cup {NoActor},
             completed : BOOLEAN,
             failure   : BOOLEAN,
             favour    : Nat,
             outcome   : [Target -> Outcome]]

CreateRevision(number, author) ==
  [number    |-> number,
   state     |-> "draft",
   author    |-> author,
   approver  |-> NoActor,
   publisher |-> NoActor,
   completed |-> FALSE,
   failure   |-> FALSE,
   favour    |-> NoRevision,
   outcome   |-> [t \in Target |-> "pending"]]

\* Fault: a target that was written counts as one that was read back.
FullyWritten(rev) == \A t \in Target : rev.outcome[t] \in {"written", "verified"}

FullyVerified(rev) == \A t \in Target : rev.outcome[t] = "verified"

PublicationActivity(rev) ==
  \/ rev.state = "publishing"
  \/ rev.publisher # NoActor
  \/ rev.completed
  \/ \E t \in Target : rev.outcome[t] # "pending"

(***************************************************************************)
(* What a caller states with a command: the number of the revision it      *)
(* read, what it found in flight, the active revision to defer to, whether *)
(* its reason is a reason code, and whether it holds self-approval.        *)
(***************************************************************************)
Context == [expected   : Nat,
            publishing : Nat,
            previous   : Nat,
            reason     : BOOLEAN,
            granted    : BOOLEAN]

Accepts(rev, command, actor, ctx) ==
  /\ ctx.expected = rev.number
  /\ rev.state \in AllowedFrom[command]
  /\ command = "approve" /\ actor = rev.author => ctx.granted
  /\ command = "publish"   => ctx.publishing \in {NoRevision, rev.number}
  /\ command = "complete"  => FullyVerified(rev)
  /\ command = "fail"      => ctx.reason
  /\ command = "supersede" => ctx.previous \notin {NoRevision, rev.number}
  /\ command = "abandon"   => ~PublicationActivity(rev)

ResetTargetsForRetry(outcome) ==
  [t \in Target |-> IF outcome[t] = "verified" THEN "verified" ELSE "pending"]

\* Faults: an approval that survives its withdrawal, a failure that survives the
\* retry that repairs it.
ApprovalSurvives(rev, command, actor, ctx) ==
  [rev EXCEPT
    !.state     = IF command = "withdraw" /\ rev.state = "draft"
                    THEN "withdrawn" ELSE NextState[command],
    !.approver  = IF command = "approve" THEN actor ELSE @,
    !.publisher = IF command \in {"publish", "retry"} THEN actor ELSE @]

Applied(rev, command, actor, ctx) ==
  [rev EXCEPT
    !.state     = IF command = "withdraw" /\ rev.state = "draft"
                    THEN "withdrawn" ELSE NextState[command],
    !.approver  = CASE command = "approve"  -> actor
                    [] command = "withdraw" -> NoActor
                    [] OTHER                -> @,
    !.publisher = IF command \in {"publish", "retry"} THEN actor ELSE @,
    !.completed = CASE command = "complete"             -> TRUE
                    [] command \in {"publish", "retry"} -> FALSE
                    [] OTHER                            -> @,
    !.failure   = CASE command = "fail" -> TRUE
                    [] command \in {"publish", "retry", "complete"} -> FALSE
                    [] OTHER -> @,
    !.favour    = IF command = "supersede" THEN ctx.previous ELSE @,
    !.outcome   = IF command = "retry" THEN ResetTargetsForRetry(@) ELSE @]

Rank == [pending |-> 0, written |-> 1, verified |-> 2, failed |-> 2]

\* Outcomes only move forward within an attempt, and the two terminal outcomes
\* may not replace each other.
Recordable(rev, t, outcome, reason) ==
  /\ rev.state = "publishing"
  /\ t \in Target
  /\ outcome = "failed" => reason
  /\ Rank[outcome] >= Rank[rev.outcome[t]]
  /\ Rank[outcome] = Rank[rev.outcome[t]] => outcome = rev.outcome[t]

Recorded(rev, t, outcome) == [rev EXCEPT !.outcome[t] = outcome]

\* What a screen offers a viewer; an anonymous viewer is NoActor.
AvailableCommands(rev, viewer, granted) ==
  { c \in Command :
      /\ rev.state \in AllowedFrom[c]
      /\ c = "approve" /\ viewer # NoActor /\ viewer = rev.author => granted
      /\ c = "complete" => FullyVerified(rev)
      /\ c = "abandon"  => ~PublicationActivity(rev) }
==============================================================================
