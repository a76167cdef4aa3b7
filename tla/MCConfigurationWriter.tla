------------------------ MODULE MCConfigurationWriter ------------------------
(***************************************************************************)
(* Two pages of two administrators, the first of whom may approve its own  *)
(* change and may abandon the other's proposals.                           *)
(***************************************************************************)
EXTENDS ConfigurationWriter, TLC

CONSTANTS alice, bo, left, right

MCActorOf == (left :> alice) @@ (right :> bo)
==============================================================================
