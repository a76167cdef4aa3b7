------------------------ MODULE MCPrincipalAdmission ------------------------
(***************************************************************************)
(* Two groups, one of which is entitled; one group more than a token lists *)
(* or one answer of the directory holds; two lookups in flight.            *)
(***************************************************************************)
EXTENDS PrincipalAdmission, TLC

CONSTANTS staff, crew

SlotSymmetry == Permutations(Slot)

=============================================================================
