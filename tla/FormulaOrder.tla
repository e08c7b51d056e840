---------------------------- MODULE FormulaOrder ----------------------------
(***************************************************************************)
(* The formulas of the attributes, which two programs bring into an order  *)
(* of their own: the server (RunSort), one row at a time, and the Unity    *)
(* plugin (AttrCalc), a table in each step.                                *)
(***************************************************************************)
EXTENDS AttrCalc

CONSTANT WaNum  \* the server's attributes

VARIABLES formula, needs, walked, sort_buf, done, number, row, result  \* of RunSort

Sort == INSTANCE RunSort WITH need <- needs, i <- row

sortVars == <<formula, needs, walked, sort_buf, done, number, row, result>>

----------------------------------------------------------------------------
\* The server's parse_run_sort finds an order that respects the formulas, and
\* refuses no table that has one.
SortedRight == Sort!SortedRight
=============================================================================
