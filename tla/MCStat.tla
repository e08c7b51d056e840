------------------------------- MODULE MCStat -------------------------------
(***************************************************************************)
(* The state machine with the table of MCStatMachine, either called by     *)
(* anyone (StatMachine) or through the owners of its counted sub-states    *)
(* (StatHold).                                                             *)
(***************************************************************************)
EXTENDS StatHold, MCStatMachine

CONSTANTS o1, o2, o3

VARIABLE part

MCInit == part \in {"machine", "hold"} /\ HoldInit

MCNext ==
  /\ UNCHANGED part
  /\ \/ part = "machine" /\ Next /\ UNCHANGED holders
     \/ part = "hold" /\ HoldNext

MCSpec == MCInit /\ [][MCNext]_<<part, holdVars>>
-----------------------------------------------------------------------------
(* Called by its owners, the machine keeps a counted sub-state exactly as  *)
(* long as one of them holds it, and counts them.                          *)
HeldExact == part = "hold" => HeldIffActive /\ HoldTypeOK
=============================================================================
