------------------------------ MODULE MCData ------------------------------
(***************************************************************************)
(* The way of the design data: the tables are exported into a package and  *)
(* loaded from it (DblTables), and the package goes to the clients through *)
(* the live update server (LiveUpdate).  One of them at a time; the other  *)
(* stays as it began.                                                      *)
(***************************************************************************)
EXTENDS DblTables

CONSTANTS d1, d2,
          LiveSlots, LiveTexts, LiveData, LiveSize, LiveRequests  \* those of LiveUpdate

ASSUME LiveAssumption == LiveRequests \in Nat

VARIABLES part, dirs, list, log, appends, conns, wanted, got, requests

----------------------------------------------------------------------------
(* DblTables                                                               *)

\* A value stands for its text; that of an id is its number.
N(v) == [kind |-> "INT", v |-> v]
F(v) == [kind |-> "FLOAT", v |-> v]
S(v) == [kind |-> "STRING", v |-> v]
A(v) == [kind |-> "ARRAY", v |-> v]

Txt(rows) == [names |-> <<"id", "value">>, aliases |-> <<"ID", "Wert">>, rows |-> rows]
Version == Txt(<< <<N(1), S(110)>> >>)

\* Ids of other orders than the rows, one of them negative, a row cut short,
\* an empty column, an array, a float as id.  The table that comes last has
\* rows to lose, or more of them than can be counted.
Item1 == Txt(<< <<N(5), Empty>> >>)
Weapon1 == Txt(<< <<N(20), N(7)>>, <<N(3), F(8)>>, <<N(9)>> >>)
Weapon2 == Txt(<< <<F(-3), N(6)>>, <<N(3), A(112)>> >>)
Bad1 == Txt(<< <<N(5), A(113)>>, <<N(6), N(2)>> >>)
Bad2 == Txt(<< <<N(5), N(1)>>, <<F(5), N(2)>> >>)

Text(names, item, weapon) ==
  [list |-> names, files |-> [item |-> item, weapon |-> weapon, version |-> Version]]

MCNames == <<"item", "version", "version.xlsx", "weapon">>
MCTexts == {Text(<<"weapon", "item", "version", "weapon">>, Item1, Weapon1),
            Text(<<"weapon">>, Item1, Weapon2),
            Text(<<"weapon", "item">>, Bad1, Weapon1),
            Text(<<"item">>, Bad2, Weapon1)}
Kinds == {"INT", "FLOAT", "STRING", "ARRAY"}
MCBuildable == [INT |-> {"INT", "FLOAT"}, FLOAT |-> {"INT", "FLOAT"}, STRING |-> Kinds,
                ARRAY |-> Kinds]

----------------------------------------------------------------------------
(* LiveUpdate: two names of one version, another one, and nothing but      *)
(* blanks; two data, of two bytes and one.                                 *)

MCLiveTexts == {<<"1">>, <<" ", "1">>, <<"2">>, <<" ">>}
MCLiveSize == [d \in {d1, d2} |-> IF d = d1 THEN 2 ELSE 1]

Live == INSTANCE LiveUpdate WITH
          Slots <- LiveSlots, Texts <- LiveTexts, Data <- LiveData, Size <- LiveSize,
          MaxRequests <- LiveRequests

liveVars == <<dirs, list, log, appends, conns, wanted, got, requests>>

----------------------------------------------------------------------------
MCInit ==
  /\ part \in {"tables", "live"}
  /\ Init /\ Live!Init
  /\ part # "live" => wanted = CHOOSE v \in Live!Versions : TRUE

MCNext ==
  /\ UNCHANGED part
  /\ \/ part = "tables" /\ Next /\ UNCHANGED liveVars
     \/ part = "live" /\ Live!Next /\ UNCHANGED vars

MCSpec == MCInit /\ [][MCNext]_<<part, vars, liveVars>> /\ Live!Fairness
----------------------------------------------------------------------------
\* The types of both.
TypesOK == TypeOK /\ Live!TypeOK

\* The live update server is a VersionStore.
KeepsPromises == Live!KeepsPromises

\* Its requests come to an end.
EveryRequestEnds == Live!EveryRequestEnds
=============================================================================
