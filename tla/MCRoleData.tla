----------------------------- MODULE MCRoleData -----------------------------
(***************************************************************************)
(* What a role keeps and may change in an affair: the attributes of        *)
(* MCRoleAttr, and additional data.  One of them at a time; the other      *)
(* stays as it began.                                                      *)
(***************************************************************************)
EXTENDS MCRoleAttr

CONSTANTS Name, DataNode, Absent, MaxLog  \* of UserAdditionData

VARIABLES part, m_data_map, inAffair, changes, rolling, before, first

User == INSTANCE UserAdditionData WITH affair <- inAffair, log <- changes, begun <- before

ASSUME AdditionAssumption == User!AdditionAssumption

userVars == <<m_data_map, inAffair, changes, rolling, before, first>>

MCInit ==
  /\ part \in {"attributes", "data"}
  /\ Init /\ User!Init
  /\ part # "data" => m_data_map = [name \in Name |-> Absent]

MCNext ==
  /\ UNCHANGED part
  /\ \/ part = "attributes" /\ Next /\ UNCHANGED userVars
     \/ part = "data" /\ User!Next /\ UNCHANGED vars

MCSpec == MCInit /\ [][MCNext]_<<part, vars, userVars>>
-----------------------------------------------------------------------------
(* An affair that is rolled back leaves the names that were there, and the *)
(* content of each that it added or removed first.                         *)
AffairTakenBack == User!TypeOK /\ User!NamesRestored /\ User!AddedOrRemovedRestored
=============================================================================
