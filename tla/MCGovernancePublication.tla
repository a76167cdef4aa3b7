----------------------- MODULE MCGovernancePublication -----------------------
(***************************************************************************)
(* Two interchangeable contents, so that what is served can be told apart; *)
(* the administrators differ by what they are granted and are not          *)
(* interchangeable.                                                        *)
(***************************************************************************)
EXTENDS PublicationRegime, TLC

ContentSymmetry == Permutations(Content)
==============================================================================
