-------------------------- MODULE PublicationRegime --------------------------
(***************************************************************************)
(* Publication in one of two regimes, chosen once: requests that overlap,  *)
(* among them removals, which skip the check for what is in flight; and    *)
(* requests one at a time, among them the import, any of which may be lost.*)
(* What is promised of the second is more than holds of the first.         *)
(***************************************************************************)
EXTENDS LifecycleScreen

CONSTANTS MaxOverlapping, MaxAlone   \* bounds: requests issued in each regime

VARIABLE alone

OverlapOperation == {"none", "propose", "remove", "resume", "withdraw"}

OneAtATime ==
  /\ \A a, b \in Admin : request[a] # Idle /\ request[b] # Idle => a = b
  /\ \A a \in Admin : request[a].op # "remove"

Regime ==
  /\ alone' = alone
  /\ alone  => issued' <= MaxAlone /\ OneAtATime'
  /\ ~alone => /\ issued' <= MaxOverlapping
               /\ \A a \in Admin : request'[a].op \in OverlapOperation

RegimeInit == Init /\ alone \in BOOLEAN

RegimeSpec == RegimeInit /\ [][Next /\ Regime]_<<vars, alone>>

\* Where requests do not overlap and none is a removal, what is served at rest is
\* the active revision (publishGovernanceContent's check for what is in flight; see
\* ServedIsActive).
AloneServesActive == alone => ServedIsActive

\* In that regime, while no request is running, the screen's buttons work and leave
\* nothing stuck (see ScreenLeadsOn).
AloneScreenLeadsOn ==
  alone /\ (\A a \in Admin : request[a] = Idle) => ScreenLeadsOn
==============================================================================
