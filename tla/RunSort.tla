------------------------------ MODULE RunSort ------------------------------
(***************************************************************************)
(* RoleAttrHelper::parse_run_sort (attribute/roleattr_help.cpp): the order *)
(* in which the formulas of the attributes are evaluated, "if A uses B,    *)
(* then B must be computed first".  Rounds over all attributes place each  *)
(* formula whose needs are walked; the loader refuses the table when the   *)
(* rounds run out.                                                         *)
(***************************************************************************)
EXTENDS Integers, FiniteSets, Sequences

CONSTANT WaNum   \* m_wa_num, the number of attributes

(* Load counts at least the attribute 0.                                   *)
WaNumAssumption == WaNum \in Nat \ {0}

Attr == 0 .. WaNum - 1

VARIABLES
  formula,   \* the attributes with cmd_data.size > 0
  need,      \* need_buf: the other attributes a formula reads
  walked, sort_buf, done, number,
  i,         \* the attribute the current round looks at
  result     \* what the function returned: "running", "ok" or "error"

vars == <<formula, need, walked, sort_buf, done, number, i, result>>

(* place_param_name records what a formula reads, itself excepted.  A row  *)
(* without an attribute is as one without a formula that nothing reads.    *)
Init ==
  /\ formula \in SUBSET Attr
  /\ need \in [Attr -> SUBSET Attr]
  /\ \A a \in Attr : a \notin need[a] /\ (a \notin formula => need[a] = {})
  /\ walked = {}
  /\ sort_buf = <<>>
  /\ done = 0
  /\ number = WaNum
  /\ i = 0
  /\ result = "running"

(* Mutation of check_canbe_run: one need that is walked is enough.         *)
check_canbe_run_any(a) == need[a] = {} \/ need[a] \cap walked # {}

check_canbe_run(a) == need[a] \subseteq walked

Skip ==
  /\ i \in walked
  /\ UNCHANGED <<walked, sort_buf, done>>

WalkPlain ==
  /\ i \notin walked /\ i \notin formula
  /\ walked' = walked \cup {i}
  /\ UNCHANGED <<sort_buf, done>>

PlaceFormula ==
  /\ i \notin walked /\ i \in formula /\ check_canbe_run(i)
  /\ sort_buf' = Append(sort_buf, i)
  /\ walked' = walked \cup {i}
  /\ UNCHANGED done

(* Mutation of Postpone: the formula left over is not counted.             *)
Postpone_forget ==
  /\ i \notin walked /\ i \in formula /\ ~check_canbe_run(i)
  /\ UNCHANGED <<walked, sort_buf, done>>

Postpone ==
  /\ i \notin walked /\ i \in formula /\ ~check_canbe_run(i)
  /\ done' = done + 1
  /\ UNCHANGED <<walked, sort_buf>>

(* Mutation of Visit: the loop runs to i <= m_wa_num.                      *)
Visit_past ==
  /\ result = "running" /\ i <= WaNum
  /\ Skip \/ WalkPlain \/ PlaceFormula \/ Postpone
  /\ i' = i + 1
  /\ UNCHANGED <<formula, need, number, result>>

Visit ==
  /\ result = "running" /\ i < WaNum
  /\ Skip \/ WalkPlain \/ PlaceFormula \/ Postpone
  /\ i' = i + 1
  /\ UNCHANGED <<formula, need, number, result>>

(* Mutations of NextRound: one round too few; the rounds are not counted.  *)
NextRound_short ==
  /\ result = "running" /\ i = WaNum /\ done > 0
  /\ number' = number - 1
  /\ IF number' > 1
     THEN i' = 0 /\ done' = 0 /\ UNCHANGED result
     ELSE result' = "error" /\ UNCHANGED <<i, done>>
  /\ UNCHANGED <<formula, need, walked, sort_buf>>

NextRound_endless ==
  /\ result = "running" /\ i = WaNum /\ done > 0
  /\ i' = 0 /\ done' = 0
  /\ UNCHANGED <<formula, need, walked, sort_buf, number, result>>

(* while(done && (--number > 0)), then the test of number.                 *)
NextRound ==
  /\ result = "running" /\ i = WaNum /\ done > 0
  /\ number' = number - 1
  /\ IF number' > 0
     THEN i' = 0 /\ done' = 0 /\ UNCHANGED result
     ELSE result' = "error" /\ UNCHANGED <<i, done>>
  /\ UNCHANGED <<formula, need, walked, sort_buf>>

Finish ==
  /\ result = "running" /\ i = WaNum /\ done = 0
  /\ result' = IF number <= 0 THEN "error" ELSE "ok"
  /\ UNCHANGED <<formula, need, walked, sort_buf, done, number, i>>

Next == Visit \/ NextRound \/ Finish

Spec == Init /\ [][Next]_vars /\ WF_vars(Next)

-----------------------------------------------------------------------------
Placed == {sort_buf[p] : p \in DOMAIN sort_buf}

TypeOK ==
  /\ formula \subseteq Attr /\ need \in [Attr -> SUBSET Attr]
  /\ walked \subseteq Attr /\ sort_buf \in Seq(Attr)
  /\ done \in Nat /\ number \in Int /\ i \in 0 .. WaNum
  /\ result \in {"running", "ok", "error"}

(* "If A uses B, then B must be computed first": at every moment each      *)
(* formula in the order has the formulas it reads before it, and none      *)
(* stands there twice.                                                     *)
NeedsFirst ==
  \A p \in DOMAIN sort_buf :
    /\ \A b \in need[sort_buf[p]] \cap formula :
         \E q \in 1 .. p - 1 : sort_buf[q] = b
    /\ \A q \in 1 .. p - 1 : sort_buf[q] # sort_buf[p]

(* An accepted table has all its formulas in the order.                    *)
OkIsComplete == result = "ok" => Placed = formula

(* A table is refused only when some formulas read each other in a circle: *)
(* the number of rounds is enough for every other table, whatever the      *)
(* order of its rows.                                                      *)
ErrorIsCycle ==
  result = "error" =>
    \E S \in SUBSET formula : S # {} /\ \A a \in S : need[a] \cap S # {}

(* parse_run_sort does what its caller relies on: an order that respects   *)
(* the formulas at every moment, complete when the table is accepted, and  *)
(* no table refused that could have been accepted.                         *)
SortedRight == TypeOK /\ NeedsFirst /\ OkIsComplete /\ ErrorIsCycle

(* parse_run_sort returns.                                                 *)
Returns == <>(result # "running")
=============================================================================
