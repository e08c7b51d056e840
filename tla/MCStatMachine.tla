--------------------------- MODULE MCStatMachine ---------------------------
(***************************************************************************)
(* A table of seven sub-states in three fields: a value field "pose" with  *)
(* three values and two bit fields "buff" and "debuff" with two each.      *)
(* Every forbid is raised from more than one field.                        *)
(***************************************************************************)
EXTENDS StatMachine

MCField    == {"pose", "buff", "debuff"}
MCBitField == {"buff", "debuff"}
MCFieldOf  == [s \in 0 .. 6 |-> IF s < 3 THEN "pose" ELSE IF s < 5 THEN "buff"
                                                     ELSE "debuff"]
MCDefaultStat == [f \in {"pose"} |-> 0]
MCForbidList  == [s \in 0 .. 6 |->
                    CASE s = 1 -> {0} [] s = 2 -> {0, 1} [] s = 3 -> {0}
                      [] s = 4 -> {1} [] s = 5 -> {0, 2} [] s = 6 -> {1, 2}
                      [] OTHER -> {}]
MCNeedCounter  == {3, 5}
MCOperate      == {"walk", "cast", "talk"}
MCOperateCheck == [o \in MCOperate |-> CASE o = "walk" -> <<0, 1>>
                                         [] o = "cast" -> <<-1, 2>>
                                         [] OTHER -> <<>>]
=============================================================================
