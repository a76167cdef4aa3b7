------------------------ MODULE MCRevisionLifecycle ------------------------
(***************************************************************************)
(* Two administrators, one of whom may approve their own change, and two   *)
(* targets: enough for an author, a second approver, a target that is      *)
(* verified and one that is not.                                           *)
(***************************************************************************)
EXTENDS RevisionLifecycle
=============================================================================
