-------------------------- MODULE RevisionLifecycle --------------------------
(***************************************************************************)
(* One revision driven by every sequence of commands and target reports    *)
(* that its callers could issue: the reducer is pure, so what protects the *)
(* record is only the order in which it accepts them.  Authority is the    *)
(* set SelfApprover of actors the caller's authorization finds allowed to  *)
(* approve their own change.                                               *)
(***************************************************************************)
EXTENDS Lifecycle

CONSTANTS
  SelfApprover,  \* actors whose selfApprovalGranted is true
  Number,        \* the number of the revision
  Other          \* the number of another revision, publishing or active

ASSUME SelfApproverAssumption == SelfApprover \subseteq Actor
ASSUME NumberAssumption == /\ Number \in Nat \ {0}
                           /\ Other \in Nat \ {0}
                           /\ Other # Number

VARIABLE revision

RevisionInit == \E a \in Actor : revision = CreateRevision(Number, a)

Contexts(a) == [expected   : {Number, Other},
                publishing : {NoRevision, Number, Other},
                previous   : {NoRevision, Number, Other},
                reason     : BOOLEAN,
                granted    : {a \in SelfApprover}]

Apply(command, a, ctx) ==
  /\ Accepts(revision, command, a, ctx)
  /\ revision' = Applied(revision, command, a, ctx)

Report(t, outcome, reason) ==
  /\ Recordable(revision, t, outcome, reason)
  /\ revision' = Recorded(revision, t, outcome)

RevisionNext ==
  \/ \E command \in Command, a \in Actor : \E ctx \in Contexts(a) : Apply(command, a, ctx)
  \/ \E t \in Target, outcome \in Outcome, reason \in BOOLEAN : Report(t, outcome, reason)

RevisionSpec == RevisionInit /\ [][RevisionNext]_revision

RevisionTypeOK == revision \in Revision

-----------------------------------------------------------------------------
(***************************************************************************)
(* A revision that callers are told is active was approved, was published  *)
(* by somebody, and has every declared target confirmed by a read-back     *)
(* ("written is deliberately not enough to finish",                        *)
(* configuration-lifecycle.mjs:84).  It takes a whole life to break: an    *)
(* approval kept across a withdrawal, a retry that forgets an unverified   *)
(* target, a late report that downgrades one.                              *)
(***************************************************************************)
ActiveIsConfirmed ==
  revision.state = "active" =>
    /\ \A t \in Target : revision.outcome[t] = "verified"
    /\ revision.approver # NoActor
    /\ revision.publisher # NoActor
    /\ revision.completed /\ ~revision.failure

(***************************************************************************)
(* Separation of duties along every path: whatever was approved, and       *)
(* everything done to it afterwards, carries an approver other than the    *)
(* author unless the author holds self-approval; and a draft never carries *)
(* an approval from an earlier cycle ("Approval does not survive an edit   *)
(* cycle", configuration-lifecycle.mjs:325).                               *)
(***************************************************************************)
SecondPairOfEyes ==
  /\ revision.state = "draft" => revision.approver = NoActor
  /\ revision.state \in {"approved", "publishing", "active", "failed"} =>
       /\ revision.approver # NoActor
       /\ revision.approver = revision.author => revision.author \in SelfApprover

(***************************************************************************)
(* A withdrawn revision never reached a target: a withdrawal or an         *)
(* abandonment "cannot claim that no target-side effect occurred"          *)
(* (configuration-lifecycle.mjs:411) once a publication reserved it, even  *)
(* after that publication failed with every target reset to pending.       *)
(***************************************************************************)
WithdrawnIsUntouched ==
  revision.state = "withdrawn" =>
    /\ revision.publisher = NoActor
    /\ \A t \in Target : revision.outcome[t] = "pending"

(***************************************************************************)
(* A failed revision says so and a completed one was never failed after:   *)
(* the failure record and the completion stamp never contradict the state  *)
(* through failures, retries and supersession.                             *)
(***************************************************************************)
StampsAgree ==
  /\ revision.failure   => revision.state \in {"failed", "superseded"}
  /\ revision.completed => revision.state \in {"active", "superseded"} /\ ~revision.failure
  /\ revision.state = "failed" => revision.failure

(***************************************************************************)
(* No button the screen offers is refused by the reducer when the caller   *)
(* states what it read correctly ("A screen that computed this separately  *)
(* would eventually offer a button the reducer refuses",                   *)
(* configuration-lifecycle.mjs:424).                                       *)
(***************************************************************************)
Honest(a) == [expected   |-> Number,
              publishing |-> NoRevision,
              previous   |-> Other,
              reason     |-> TRUE,
              granted    |-> a \in SelfApprover]

OfferedIsAccepted ==
  \A a \in Actor :
    \A c \in AvailableCommands(revision, a, a \in SelfApprover) :
      Accepts(revision, c, a, Honest(a))

(***************************************************************************)
(* A confirmation is never taken back: no command and no late or duplicate *)
(* report moves a verified target anywhere, retries included ("repeating a *)
(* write that succeeded widens the blast radius").                         *)
(***************************************************************************)
VerifiedIsKept ==
  [][\A t \in Target : revision.outcome[t] = "verified" => revision'.outcome[t] = "verified"]_revision

(***************************************************************************)
(* Once a publication has started the revision can only be driven forward: *)
(* it never again becomes a draft, an approval or a withdrawn proposal,    *)
(* and the content that was approved keeps its approver.                   *)
(***************************************************************************)
PublicationIsCommitted ==
  [][revision.publisher # NoActor =>
       /\ revision'.publisher # NoActor
       /\ revision'.state \notin {"draft", "approved", "withdrawn"}
       /\ revision'.approver = revision.approver]_revision
=============================================================================
