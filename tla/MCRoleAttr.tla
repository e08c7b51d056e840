----------------------------- MODULE MCRoleAttr -----------------------------
(* str is given; hpmax = str + 1 and atk = hpmax + str are computed, atk   *)
(* cut at 2; hp is limited by hpmax; title is not a number.  The rows are  *)
(* in the order that needs the sort.                                       *)
EXTENDS RoleAttr

None   == [kind |-> "none"]
Num(n) == [kind |-> "number", val |-> n]
Att(a) == [kind |-> "attr", id |-> a]

MCAttr     == {"str", "hpmax", "atk", "hp", "title"}
MCNumber   == MCAttr \ {"title"}
MCComputed == {"hpmax", "atk"}
MCReads    == [a \in MCComputed |-> IF a = "atk" THEN {"hpmax", "str"} ELSE {"str"}]
Cut(n) == IF n > 3 THEN 3 ELSE IF n < -1 THEN -1 ELSE n
MCFormula(a, d) == Cut(IF a = "atk" THEN d["hpmax"] + d["str"] ELSE d["str"] + 1)
MCColumn   == [a \in MCAttr |->
  CASE a = "str"   -> [max |-> Num(1), min |-> Num(0), unlimited |-> Num(2)]
    [] a = "atk"   -> [max |-> Num(2), min |-> None, unlimited |-> None]
    [] a = "hp"    -> [max |-> Att("hpmax"), min |-> Num(0), unlimited |-> Att("hpmax")]
    [] OTHER       -> [max |-> Num(2), min |-> Num(0), unlimited |-> None]]
MCrun_sort == <<"hpmax", "atk">>
MCVal      == -1 .. 3
MCLoaded   == {[a \in MCAttr |-> 0]}
MCCalls    == {<<"set", <<<<"str", 0>>>>>>, <<"add", <<<<"str", 1>>>>>>,
               <<"set", <<<<"hpmax", 2>>>>>>, <<"set", <<<<"title", 1>>>>>>,
               <<"add", <<<<"hp", 2>>, <<"atk", 1>>>>>>,
               <<"sub", <<<<"str", 1>>, <<"hp", 1>>, <<"title", 1>>>>>>}
=============================================================================
