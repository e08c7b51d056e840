------------------------------ MODULE MCSqlThread ------------------------------
(* The four classes that differ: load, create, save and one whose requests *)
(* are only executed, in the order OnCreate makes them; one row.           *)
EXTENDS SqlThread

MCRank == [m \in Module |-> CASE m = "outline" -> 1 [] m = "create" -> 2
                              [] m = "load" -> 3 [] m = "save" -> 4]
MCModuleFor == [k \in Statement |-> IF k = "post" THEN "outline" ELSE k]
=============================================================================
