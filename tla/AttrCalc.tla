------------------------------ MODULE AttrCalc ------------------------------
(***************************************************************************)
(* The formulas of the Unity client (plugin_u3d/apoAttrCalcHelper.cpp,     *)
(* apoFormula.cpp, FormulaParser.cs): a table of attributes shared by all  *)
(* helpers of the process, the order in which their formulas are computed, *)
(* the values of one helper, and which attributes a change reaches.  The   *)
(* table, unlike the server's, is filled call by call, can be changed and  *)
(* parsed again, and whether the parse succeeded is not told to the        *)
(* caller.                                                                 *)
(***************************************************************************)
EXTENDS Integers, FiniteSets, Sequences, SequencesExt

CONSTANTS Capacity,  \* APO_ATTR_CAPACITY
          Formulas,  \* what the formula texts read: sequences of attributes
          Configs,   \* attribute tables the client has: from attributes to texts
          Modulus,   \* values are numbers below it
          MaxInits,  \* bound: times that something is told to the table
          MaxWrites, \* bound: values told to the helper
          MaxOrder   \* bound: a table with an order of this length is not parsed again

Attr == 0..(Capacity - 1)
Value == 0..(Modulus - 1)

\* What a formula may read are attributes, a text has one formula at most.
AnyText == {text \in Seq(Seq(Attr)) : Len(text) <= 1}

TableAssumption ==
  /\ Capacity \in Nat \ {0} /\ Modulus \in Nat \ {0, 1}
  /\ MaxInits \in Nat /\ MaxWrites \in Nat
  /\ Formulas \subseteq Seq(Attr)
  /\ \A config \in Configs : DOMAIN config \subseteq Attr /\ \A a \in DOMAIN config : config[a] \in AnyText

VARIABLES node,        \* m_wahelper_bufs
          m_run_sort,  \* the order; a parse appends to it
          values,      \* m_values of the helper
          parsed,      \* what preParseFormula returned, "changed" when the table changed since
          reinited,    \* an attribute was told again after a parse
          calculated,  \* CalcAll was the last thing to happen
          inits, writes

table == <<node, m_run_sort, parsed, reinited, inits>>
vars == <<table, values, calculated, writes>>

\* input_for and cmd_data: <<>>, or the formula's one element, what it reads.
Texts == {<<>>} \cup {<<f>> : f \in Formulas}
Node(text) == [inited |-> TRUE, input_for |-> text, infections |-> {}, need_buf |-> {}, cmd_data |-> <<>>]
EmptyNode == [Node(<<>>) EXCEPT !.inited = FALSE]

m_wa_num(n) == Cardinality({a \in Attr : \E b \in a..(Capacity - 1) : n[b].inited})
Rows(n) == [r \in 1..m_wa_num(n) |-> r - 1]

EmptyTable == [a \in Attr |-> EmptyNode]
Zero == [a \in Attr |-> 0]

Init ==
  /\ node = EmptyTable /\ m_run_sort = <<>> /\ values = Zero
  /\ parsed = "never" /\ reinited = FALSE /\ calculated = FALSE
  /\ inits = 0 /\ writes = 0

----------------------------------------------------------------------------
(* The table.                                                              *)

\* What is known of an attribute told again is gone, also who reads it.
Told(config) == [a \in Attr |-> IF a \in DOMAIN config THEN Node(config[a]) ELSE node[a]]

Tell(config) ==
  /\ inits < MaxInits /\ inits' = inits + 1
  /\ reinited' = (reinited \/ (parsed # "never" /\ \E a \in DOMAIN config : node[a].inited))
  /\ calculated' = FALSE

InitAttrNode(a, text) ==
  /\ Tell([b \in {a} |-> text]) /\ node' = Told([b \in {a} |-> text])
  /\ parsed' = IF parsed = "never" THEN "never" ELSE "changed"
  /\ UNCHANGED <<m_run_sort, values, writes>>

\* mutant: what is read is recorded the wrong way round
place_param_name_swapped(n, i, known) ==
  [a \in Attr |-> [n[a] EXCEPT !.infections = IF a = i THEN @ \cup known ELSE @,
                               !.need_buf = IF a = i THEN @ \cup known ELSE @]]

\* place_param_name, for the names of one formula.
place_param_name(n, i, known) ==
  [a \in Attr |-> [n[a] EXCEPT !.infections = IF a \in known THEN @ \cup {i} ELSE @,
                               !.need_buf = IF a = i THEN @ \cup known ELSE @]]

\* One formula of the table: the names before one that nobody told the table
\* are recorded, the formula only when all are known.
ParseRow(p, i) ==
  LET reads == p.node[i].input_for[1]
      Compiled(stop, n) == [ok |-> stop = 0, node |-> IF stop # 0 THEN n
                                                      ELSE [n EXCEPT ![i].cmd_data = n[i].input_for]]
      Known(stop) == ToSet(SubSeq(reads, 1, IF stop = 0 THEN Len(reads) ELSE stop - 1)) \ {i}
      Record(stop) == Compiled(stop, place_param_name(p.node, i, Known(stop)))
  IN  IF ~p.ok \/ p.node[i].input_for = <<>> THEN p
      ELSE Record(SelectInSeq(reads, LAMBDA a : ~p.node[a].inited))

ParseRows(n) == FoldLeft(ParseRow, [ok |-> TRUE, node |-> n], Rows(n))

\* A row nobody told has the id 0, not the invalid one.
wa_id(n, i) == IF n[i].inited THEN i ELSE 0

\* mutant: one need that is walked is enough
check_canbe_run_any(needs, walked) == needs = {} \/ needs \cap walked # {}
check_canbe_run(needs, walked) == needs \subseteq walked

SortRow(n, s, i) ==
  CASE wa_id(n, i) \in s.walked -> s
    [] wa_id(n, i) \notin s.walked /\ n[i].cmd_data = <<>> -> [s EXCEPT !.walked = @ \cup {wa_id(n, i)}]
    [] wa_id(n, i) \notin s.walked /\ n[i].cmd_data # <<>> /\ check_canbe_run(n[i].need_buf, s.walked) ->
         [s EXCEPT !.walked = @ \cup {i}, !.sort = Append(@, i)]
    [] OTHER -> [s EXCEPT !.done = @ + 1]

SortRound(n, s) == FoldLeft(LAMBDA t, i : SortRow(n, t, i), [s EXCEPT !.done = 0], Rows(n))

\* mutant: one round too few
parse_run_sort_short(n) ==
  LET round[k \in 0..m_wa_num(n)] ==
        IF k = 0 THEN [walked |-> {}, sort |-> m_run_sort, done |-> 1]
        ELSE IF round[k - 1].done = 0 \/ k = m_wa_num(n) THEN round[k - 1]
        ELSE SortRound(n, round[k - 1])
  IN  round[m_wa_num(n)]

\* As many rounds as there are rows, at most.
parse_run_sort(n) ==
  LET round[k \in 0..m_wa_num(n)] ==
        IF k = 0 THEN [walked |-> {}, sort |-> m_run_sort, done |-> 1]
        ELSE IF round[k - 1].done = 0 THEN round[k - 1]
        ELSE SortRound(n, round[k - 1])
  IN  round[m_wa_num(n)]

Parse(n) ==
  LET Sorted(s) ==
        /\ m_run_sort' = s.sort
        /\ parsed' = IF s.done = 0 THEN "ok" ELSE "error"
      Parsed(p) ==
        /\ node' = p.node
        /\ \/ p.ok /\ Sorted(parse_run_sort(p.node))
           \/ ~p.ok /\ parsed' = "error" /\ UNCHANGED m_run_sort
  IN  Parsed(ParseRows(n))

\* The callers, apoFormulaPreParse and apoAttrForPreParse, drop the result.
preParseFormula ==
  /\ Len(m_run_sort) < MaxOrder
  /\ Parse(node) /\ calculated' = FALSE
  /\ UNCHANGED <<reinited, values, inits, writes>>

globalInitConfig(config) ==
  /\ Len(m_run_sort) < MaxOrder
  /\ Tell(config) /\ Parse(Told(config))
  /\ UNCHANGED <<values, writes>>

----------------------------------------------------------------------------
(* Values.                                                                 *)

\* What a formula computes: something that depends on all it reads.
Run(reads, v) == FoldLeft(LAMBDA sum, a : (sum + v[a]) % Modulus, 1, reads)

Calculated(v) ==
  FoldLeft(LAMBDA w, a : IF node[a].cmd_data = <<>> THEN w
                         ELSE [w EXCEPT ![a] = Run(node[a].cmd_data[1], w)],
           v, m_run_sort)

CalcAll ==
  /\ values' = Calculated(values) /\ calculated' = TRUE
  /\ UNCHANGED <<table, writes>>

Write(v) ==
  /\ writes < MaxWrites /\ writes' = writes + 1
  /\ values' = v
  /\ UNCHANGED table

setValue(a, x) == Write([values EXCEPT ![a] = x]) /\ calculated' = FALSE
addValue(a, x) == Write([values EXCEPT ![a] = (@ + x) % Modulus]) /\ calculated' = FALSE
resetValues == Write(Zero) /\ calculated' = FALSE

\* apoAttrForSetValues: as many as the caller counts.
SetValues(x, count) ==
  Write([a \in Attr |-> IF a < count THEN x[a] ELSE values[a]]) /\ calculated' = FALSE

\* calcAllAttr: a zero of the caller leaves the value as it was.
calcAllAttr(x) ==
  /\ Write(Calculated([a \in Attr |-> IF x[a] # 0 THEN x[a] ELSE values[a]]))
  /\ calculated' = TRUE

----------------------------------------------------------------------------
(* What a change reaches.                                                  *)

Reach(next, a) ==
  LET reach[k \in 0..Capacity] ==
        IF k = 0 THEN next[a] ELSE reach[k - 1] \cup UNION {next[b] : b \in reach[k - 1]}
  IN  reach[Capacity]

\* getInfections leaves out the attribute 0, and never returns where the
\* attributes infect each other in a circle.
Infects == [a \in Attr |-> node[a].infections \ {0}]
Infected(a) == Reach(Infects, a)
Endless(a) == \E b \in Infected(a) \cup {a} : b \in Infected(b)

\* Its stack runs over, the process ends and another one begins.
getInfections(a) ==
  /\ Endless(a)
  /\ node' = EmptyTable /\ m_run_sort' = <<>> /\ values' = Zero
  /\ parsed' = "never" /\ reinited' = FALSE /\ calculated' = FALSE
  /\ UNCHANGED <<inits, writes>>

Next ==
  \/ \E a \in Attr, text \in Texts : InitAttrNode(a, text)
  \/ preParseFormula
  \/ \E config \in Configs : globalInitConfig(config)
  \/ CalcAll
  \/ \E a \in Attr, x \in Value : setValue(a, x) \/ addValue(a, x)
  \/ resetValues
  \/ \E x \in [Attr -> Value] : calcAllAttr(x) \/ \E count \in 0..Capacity : SetValues(x, count)
  \/ \E a \in Attr : getInfections(a)

Spec == Init /\ [][Next]_vars
----------------------------------------------------------------------------
TypeOK ==
  /\ \A a \in Attr : /\ node[a].infections \cup node[a].need_buf \subseteq Attr
                     /\ node[a].cmd_data \in {<<>>, node[a].input_for}
  /\ m_run_sort \in Seq(Attr) /\ values \in [Attr -> Value]
  /\ parsed \in {"never", "ok", "error", "changed"}
  /\ inits \in 0..MaxInits /\ writes \in 0..MaxWrites

Reads(a) == IF node[a].input_for = <<>> THEN {} ELSE ToSet(node[a].input_for[1])
Complete == \A a \in 0..(m_wa_num(node) - 1) : node[a].inited

\* CalcAll leaves every formula of an accepted table with the value it has
\* for the values of all others, through earlier orders that m_run_sort still
\* holds and formulas that are no longer there; except formulas that read
\* themselves, and the attribute 0 of a table with rows nobody told.
CalcExact ==
  calculated /\ parsed = "ok" =>
    \A a \in Attr : node[a].input_for # <<>> /\ a \notin Reads(a) /\ (a # 0 \/ Complete)
                      => values[a] = Run(node[a].input_for[1], values)

\* A table is refused only when it is empty, a formula reads what nobody
\* told, or formulas read each other in a circle.
RefusedRightly ==
  parsed = "error" =>
    \/ m_wa_num(node) = 0
    \/ \E a \in Attr : \E b \in Reads(a) : ~node[b].inited
    \/ \E S \in SUBSET Attr : S # {} /\ \A a \in S : Reads(a) \cap (S \ {a}) # {}

\* For an accepted table getInfections misses none of the attributes whose
\* formulas read the changed one, directly or through others than 0; and it
\* returns, with nothing else, as long as no attribute was told again after
\* a parse.
InfectionsExact ==
  parsed = "ok" =>
    \A a \in Attr :
      LET Affected == Reach([b \in Attr |-> {c \in Attr \ {0, b} : b \in Reads(c)}], a) IN
      /\ Affected \subseteq Infected(a)
      /\ ~reinited => Infected(a) = Affected /\ ~Endless(a)

\* The client computes with a table that was accepted as if it were told and
\* parsed for the first time (preParseFormula, CalcAll, getInfections).
FormulasRight == TypeOK /\ CalcExact /\ RefusedRightly /\ InfectionsExact
=============================================================================
