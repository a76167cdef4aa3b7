--------------------------- MODULE LifecycleScreen ---------------------------
(***************************************************************************)
(* The publication screen of the administration page, as a function of the *)
(* stored revisions: which commands it projects for a viewer, which buttons*)
(* the page makes of them, and what pressing one sends.  The buttons exist *)
(* "so the screen cannot offer an action the reducer would refuse"; what   *)
(* they send goes to a handler with checks of its own, which                *)
(* GovernancePublication models.                                           *)
(*                                                                         *)
(* The viewer is an administrator who may publish and whose identity the   *)
(* service can attribute; every other viewer is offered nothing.  Display  *)
(* codes, instants, histories and the preview are left out.                *)
(***************************************************************************)
EXTENDS GovernancePublication

\* Commands that are carried out from the stored proposal.
FromProposal == {"approve", "publish", "retry", "fail"}

\* projectRevision: what the read model says viewer `a' can do to revision n.
Offered(n, a) ==
  { c \in AvailableCommands(revision[n], a, a \in SelfApprover) \ {"edit"} :
      /\ c = "abandon"  => revision[n].author = Bootstrap /\ a \in Owner
      /\ c = "withdraw" => revision[n].state = "draft" /\ revision[n].author = a
      /\ c \in FromProposal => draft[n] # NoDoc }

\* Projected once per load: the revisions the summary names.
InState(s) == { n \in Stored : revision[n].state = s }

Screen == [active     |-> { n \in InState("active") : \A m \in InState("active") : m <= n },
           publishing |-> InState("publishing"),
           attention  |-> InState("publishing") \cup InState("failed"),
           offered    |-> [n \in Stored |-> [a \in Admin |-> Offered(n, a)]]]

\* The page: every command carried out from the proposal is one button that
\* resumes it, as an import when the import authored it.
Buttons(screen, n, a) ==
  { CASE c \in FromProposal -> IF revision[n].author = Bootstrap THEN "resumeImport" ELSE "resume"
      [] OTHER              -> c :
    c \in screen.offered[n][a] \cap (FromProposal \cup {"abandon", "withdraw"}) }

-----------------------------------------------------------------------------
\* The command the handler applies first to the revision it reads.
First(n, op) == IF op \in {"abandon", "withdraw"} THEN op
                ELSE CASE AfterRead(revision[n].state) = "begin" -> "publish"
                       [] OTHER -> AfterRead(revision[n].state)

\* Sending `op' for revision n gets past every check the handler makes.
Admitted(n, op, a) ==
  LET sent == [Idle EXCEPT !.op = op, !.number = n, !.held = revision[n]] IN
  /\ IF op \in {"abandon", "withdraw"}
       THEN Removable(n, op, a)
       ELSE Proceeds(sent) /\ Resumable(n, sent)
  /\ Accepts(revision[n], First(n, op), a,
             [expected   |-> revision[n].number,
              publishing |-> NoRevision,
              previous   |-> NoRevision,
              reason     |-> TRUE,
              granted    |-> a \in SelfApprover])

(***************************************************************************)
(* However the request before was lost: every button the screen shows is   *)
(* one its handler accepts, every unfinished revision shows somebody a     *)
(* button ("a state an operator resolves", publish-governance.mjs:53), and *)
(* no two revisions are shown publishing ("Two revisions publishing at     *)
(* once would mean the single-publisher rule was not holding",             *)
(* lifecycle-read-model-projector.mjs:172).                                *)
(***************************************************************************)
ScreenLeadsOn ==
  /\ \A n \in Stored, a \in Admin : \A op \in Buttons(Screen, n, a) : Admitted(n, op, a)
  /\ \A n \in Unfinished : \E a \in Admin : Buttons(Screen, n, a) # {}
  /\ Cardinality(Screen.publishing) <= 1
==============================================================================
