--------------------------- MODULE MCDefinitions ---------------------------
(***************************************************************************)
(* What servers and clients make of definitions they share: the messages   *)
(* that one writes and the other reads (NetStream), and the formulas of    *)
(* attributes (FormulaOrder).  One of them at a time; the others stay as   *)
(* they began.                                                             *)
(***************************************************************************)
EXTENDS FormulaOrder, TLC

VARIABLES part,
          mine, checked, stream, todo, lastRead, count

----------------------------------------------------------------------------
(* NetStream: Attr never changes, Role and Bag grow at the tail, Move      *)
(* holds a Pos that grows, and version 2 allows longer arrays.             *)

Struct(T) == [kind |-> "STRUCT", of |-> T]
Num(kind) == [kind |-> kind]
List(f, n) == [kind |-> "ARRAY", of |-> f, max |-> n]

MCSchema == <<
  [Attr |-> <<Num("INT8"), Num("FLOAT")>>,
   Pos  |-> <<Num("INT16")>>,
   Role |-> <<Num("INT32"), Struct("Attr")>>,
   Bag  |-> <<List(Struct("Attr"), 1), Num("INT8")>>,
   Move |-> <<Num("INT8"), Struct("Pos"), Num("INT64")>>],
  [Attr |-> <<Num("INT8"), Num("FLOAT")>>,
   Pos  |-> <<Num("INT16"), Num("INT64")>>,
   Role |-> <<Num("INT32"), Struct("Attr"), Num("BIN"), Num("TEXT"), List(Num("INT8"), 2)>>,
   Bag  |-> <<List(Struct("Attr"), 2), Num("INT8"), Num("INT16")>>,
   Move |-> <<Num("INT8"), Struct("Pos"), Num("INT64")>>]>>

Item(T, obj) == [type |-> T, obj |-> obj]
PathTexts == {<<>>, <<127, 255>>}
Roles == <<{Item("Role", <<0, <<0, 0>>>>), Item("Role", <<70000, <<255, 7>>>>)},
           {Item("Role", <<3, <<255, 7>>, <<>>, t, <<0, 18>>>>) : t \in PathTexts}
             \cup {Item("Role", <<70000, <<0, 0>>, <<127, 255>>, <<>>, <<>>>>)}>>
Bags == <<{Item("Bag", << <<>>, 5>>), Item("Bag", << << <<255, 7>> >>, 0>>)},
          {Item("Bag", <<l, 5, 300>>) : l \in {<<>>, << <<9, 0>>, <<255, 7>> >>}}>>
Moves == <<{Item("Move", <<8, <<300>>, 300>>)},
           {Item("Move", <<8, <<300, n>>, 300>>) : n \in {0, 9}}>>
Second == <<Item("Role", <<515, <<6, 7>>>>), Item("Role", <<515, <<6, 7>>, <<1>>, <<2>>, <<3>>>>)>>

MCMsgs == [v \in 1..2 |->
  [Role |-> {<<a, Second[v]>> : a \in Roles[v]},
   Bag  |-> {<<a, Second[v]>> : a \in Bags[v]},
   Move |-> {<<a, Second[v]>> : a \in Moves[v]}]]
Net == INSTANCE NetStream WITH
         BufLength <- 56, MaxMessages <- 2, Schema <- MCSchema, Messages <- MCMsgs,
         last <- lastRead

ASSUME NetAssumption == Net!BufLengthAssumption /\ Net!VersionsAssumption

netVars == <<mine, checked, stream, todo, lastRead, count>>

----------------------------------------------------------------------------
(* AttrCalc: two tables told one after the other, or single attributes     *)
(* told again, for four attributes.                                        *)

Of(reads) == <<reads>>
NoFormula == <<>>

\* A chain, and what makes a circle of what is left of it; the attribute 0
\* with a gap; another order than that of the rows, with an attribute read
\* twice; names nobody told; a formula that reads itself; a circle.
MCConfigs == {
  1 :> Of(<<2>>) @@ 2 :> Of(<<3>>) @@ 3 :> NoFormula,
  1 :> NoFormula @@ 3 :> Of(<<1>>),
  0 :> Of(<<1>>) @@ 1 :> Of(<<3>>) @@ 3 :> NoFormula,
  0 :> Of(<<2>>) @@ 1 :> Of(<<0, 2>>) @@ 2 :> NoFormula @@ 3 :> Of(<<1, 1>>),
  0 :> NoFormula @@ 1 :> Of(<<1, 0>>) @@ 2 :> Of(<<1>>),
  1 :> Of(<<3>>) @@ 2 :> Of(<<1>>) @@ 3 :> Of(<<2>>)}

MCFormulas == {<<1>>, <<2>>, <<3, 0>>}

ASSUME CalcAssumption == TableAssumption
ASSUME SortAssumption == Sort!WaNumAssumption

----------------------------------------------------------------------------
MCInit ==
  /\ part \in {"net", "server", "client"}
  /\ Init /\ Net!Init /\ Sort!Init
  /\ part # "net" => mine = 1 /\ checked
  /\ part # "server" => formula = {} /\ needs = [a \in Sort!Attr |-> {}]

MCNext ==
  /\ UNCHANGED part
  /\ \/ part = "net" /\ Net!Next /\ UNCHANGED <<vars, sortVars>>
     \/ part = "server" /\ Sort!Next /\ UNCHANGED <<netVars, vars>>
     \/ part = "client" /\ Next /\ UNCHANGED <<netVars, sortVars>>

MCSpec == MCInit /\ [][MCNext]_<<part, vars, netVars, sortVars>> /\ WF_sortVars(part = "server" /\ Sort!Next)
----------------------------------------------------------------------------
\* Programs of one version exchange messages as they were sent.
SameVersionExact == Net!SameVersionExact

\* Programs of different versions exchange the fields that both know.
CommonFieldsArrive == Net!CommonFieldsArrive

\* Whatever is read, the stream stays within its buffer, and no field gets
\* what was sent for another.
ReadingSound == Net!TypeOK /\ Net!NeverMixed

\* The server's parse_run_sort returns.
SortReturns == part = "server" => Sort!Returns
=============================================================================
