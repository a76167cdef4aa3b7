----------------------------- MODULE ScheduleDuty -----------------------------
(***************************************************************************)
(* What a recovering schedule promises, whoever runs it and however often  *)
(* its processes stop: once its origin is recorded the origin never moves, *)
(* and the schedule only moves past a window that was performed or that    *)
(* was recorded as given up.  Windows are numbered by the boundary they    *)
(* start at.                                                               *)
(***************************************************************************)
EXTENDS Integers

CONSTANT NoOrigin   \* no origin recorded yet; not an Int

VARIABLES
  origin,    \* the first window the schedule answers for, or NoOrigin
  through,   \* the first window that is not settled
  ran,       \* windows whose work was performed at least once
  given      \* windows recorded as given up

duty == <<origin, through, ran, given>>

Init == /\ origin = NoOrigin
        /\ through \in Int
        /\ ran = {}
        /\ given = {}

\* The origin is recorded once, with nothing behind it.
Establish == /\ origin = NoOrigin
             /\ origin' \in Int
             /\ through' = origin'
             /\ given' \subseteq Int
             /\ UNCHANGED ran

Perform == /\ origin # NoOrigin
           /\ \E w \in ran' : w \in Int /\ ran' = ran \cup {w}
           /\ UNCHANGED <<origin, through, given>>

GiveUp == /\ origin # NoOrigin
          /\ given \subseteq given' /\ given' \subseteq Int
          /\ UNCHANGED <<origin, through, ran>>

\* Everything between the old and the new position is accounted for.
Settle == /\ origin # NoOrigin
          /\ through' \in Int
          /\ through <= through'
          /\ through .. (through' - 1) \subseteq ran \cup given
          /\ UNCHANGED <<origin, ran, given>>

Next == Establish \/ Perform \/ GiveUp \/ Settle

Spec == Init /\ [][Next]_duty
===============================================================================
