--------------------------- MODULE MCScheduleRunner ---------------------------
(***************************************************************************)
(* Two runners over a few windows.  The runners are interchangeable: they  *)
(* differ only by the owner code they write.                               *)
(***************************************************************************)
EXTENDS ScheduleRunner, TLC

RunnerSymmetry == Permutations(Runner)
===============================================================================
