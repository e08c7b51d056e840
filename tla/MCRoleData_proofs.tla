------------------------- MODULE MCRoleData_proofs -------------------------
(***************************************************************************)
(* Rolling back an affair restores all attributes, and one pass over the   *)
(* formulas settles them, for every table whose order is the one           *)
(* parse_run_sort establishes; and what a rollback restores of additional  *)
(* data.                                                                   *)
(***************************************************************************)
EXTENDS MCRoleData, SequenceTheorems, TLAPS

(* The log is empty outside an affair; the values at its begin agreed with *)
(* the formulas if they were fresh; and while Recalc runs, the formulas    *)
(* before its position agree already.                                      *)
AffairInv == /\ affair => Undone = begun.datas
             /\ ~affair => DOMAIN undo = {}
BegunInv  == affair /\ begun.fresh => \A a \in Computed : Agrees(begun.datas, a)
LoopInv   == \A p \in 1 .. pos - 1 : Agrees(datas, m_run_sort[p])

IInv == TypeOK /\ AffairInv /\ BegunInv /\ LoopInv /\ DerivedConsistent

(* A limit is a number explored, an attribute or nothing.                  *)
LEMMA LimitFacts ==
  ASSUME NEW a \in Attr, NEW limit \in {MaxLimit(a), MinLimit(a)}
  PROVE  /\ limit.kind \in {"none", "number", "attr"}
         /\ limit.kind = "number" => limit.val \in Val
         /\ limit.kind = "attr" => limit.id \in Attr
<1>1. limit \in Text
  BY AttrAssumption DEF MaxLimit, MinLimit
<1> QED
  BY <1>1 DEF Text

LEMMA ClampType ==
  ASSUME NEW d \in [Attr -> Val], NEW a \in Attr, NEW v \in Val
  PROVE  Clamp(d, a, v) \in Val
<1>1. MaxLimit(a).kind # "none" => Bound(MaxLimit(a), d) \in Val
  BY LimitFacts DEF Bound
<1>2. MinLimit(a).kind # "none" => Bound(MinLimit(a), d) \in Val
  BY LimitFacts DEF Bound
<1> QED
  BY <1>1, <1>2 DEF Clamp

LEMMA EvaluateType ==
  ASSUME NEW d \in [Attr -> Val], NEW a \in Computed
  PROVE  Evaluate(d, a) \in Val
<1>1. Reads[a] \subseteq Attr
  BY AttrAssumption
<1>2. [b \in Reads[a] |-> d[b]] \in [Reads[a] -> Val]
  BY <1>1
<1> QED
  BY <1>2, FormulaAssumption DEF Evaluate

(* Whether a settled formula agrees depends on its own attribute and on    *)
(* those it reads, and on nothing else.                                    *)
LEMMA AgreesDepends ==
  ASSUME NEW d \in [Attr -> Val], NEW e \in [Attr -> Val], NEW a \in Computed,
         Agrees(d, a), e[a] = d[a], \A b \in Reads[a] : e[b] = d[b]
  PROVE  Agrees(e, a)
<1> SUFFICES ASSUME Settled(a) PROVE e[a] = Clamp(e, a, Evaluate(e, a))
  BY DEF Agrees
<1>1. [b \in Reads[a] |-> e[b]] = [b \in Reads[a] |-> d[b]]
  OBVIOUS
<1>2. Evaluate(e, a) = Evaluate(d, a)
  BY <1>1 DEF Evaluate
<1>3. ASSUME NEW v PROVE Clamp(e, a, v) = Clamp(d, a, v)
  BY DEF Settled, Clamp, Bound
<1> QED
  BY <1>2, <1>3 DEF Agrees

(* Storing into an attribute that a formula neither computes nor reads.    *)
LEMMA AgreesKept ==
  ASSUME TypeOK, NEW b \in Attr, NEW v \in Val, NEW a \in Computed,
         Agrees(datas, a), a # b, b \notin Reads[a],
         datas' = [datas EXCEPT ![b] = v]
  PROVE  Agrees(datas', a)
<1>1. datas \in [Attr -> Val] /\ datas' \in [Attr -> Val]
  BY DEF TypeOK
<1>2. a \in Attr /\ Reads[a] \subseteq Attr
  BY AttrAssumption
<1>3. datas'[a] = datas[a] /\ \A r \in Reads[a] : datas'[r] = datas[r]
  BY <1>1, <1>2
<1> QED
  BY <1>1, <1>3, AgreesDepends

-----------------------------------------------------------------------------
(* What one store does to the log: rolling back still gives the same.      *)
LEMMA StoreEffect ==
  ASSUME TypeOK, NEW a \in Attr, NEW v \in Val, Store(a, v),
         ~affair => DOMAIN undo = {}
  PROVE  /\ datas' \in [Attr -> Val]
         /\ datas' = [datas EXCEPT ![a] = v]
         /\ DOMAIN undo' \subseteq Attr /\ undo' \in [DOMAIN undo' -> Val]
         /\ affair => Undone' = Undone
         /\ ~affair => DOMAIN undo' = {}
<1>1. datas' \in [Attr -> Val] /\ datas' = [datas EXCEPT ![a] = v]
  BY DEF TypeOK, Store
<1>2. CASE affair /\ a \notin DOMAIN undo
  <2>1. undo' = [b \in DOMAIN undo \cup {a} |->
                   IF b = a THEN datas[a] ELSE undo[b]]
    BY <1>2 DEF Store
  <2>2. DOMAIN undo' = DOMAIN undo \cup {a}
    BY <2>1
  <2>3. undo' \in [DOMAIN undo' -> Val]
    BY <2>1, <2>2 DEF TypeOK
  <2>4. \A b \in Attr : (IF b \in DOMAIN undo' THEN undo'[b] ELSE datas'[b])
                        = IF b \in DOMAIN undo THEN undo[b] ELSE datas[b]
    BY <1>1, <1>2, <2>1, <2>2 DEF TypeOK
  <2>5. Undone' = Undone
    BY <2>4 DEF Undone
  <2> QED
    BY <1>1, <1>2, <2>2, <2>3, <2>5 DEF TypeOK
<1>3. CASE ~(affair /\ a \notin DOMAIN undo)
  <2>1. undo' = undo
    BY <1>3 DEF Store
  <2>2. affair => \A b \in Attr : (IF b \in DOMAIN undo THEN undo[b] ELSE datas'[b])
                                  = IF b \in DOMAIN undo THEN undo[b] ELSE datas[b]
    BY <1>1, <1>3 DEF TypeOK
  <2>3. affair => Undone' = Undone
    BY <2>1, <2>2 DEF Undone
  <2> QED
    BY <1>1, <2>1, <2>3 DEF TypeOK
<1> QED
  BY <1>2, <1>3

LEMMA SetValEffect ==
  ASSUME TypeOK, NEW a \in Attr, NEW v \in Val, _set_val(a, v),
         ~affair => DOMAIN undo = {}
  PROVE  /\ datas' \in [Attr -> Val]
         /\ datas' = [datas EXCEPT ![a] = Clamp(datas, a, v)]
         /\ DOMAIN undo' \subseteq Attr /\ undo' \in [DOMAIN undo' -> Val]
         /\ affair => Undone' = Undone
         /\ ~affair => DOMAIN undo' = {}
<1>1. PICK new \in Val : new = Clamp(datas, a, v)
  BY ClampType DEF TypeOK
<1>2. CASE Store(a, new)
  BY <1>1, <1>2, StoreEffect
<1>3. CASE new = datas[a] /\ UNCHANGED <<datas, undo>>
  <2>1. Undone' = Undone
    BY <1>3 DEF Undone
  <2>2. datas' = [datas EXCEPT ![a] = new]
    BY <1>3 DEF TypeOK
  <2> QED
    BY <1>1, <1>3, <2>1, <2>2 DEF TypeOK
<1> QED
  BY <1>1, <1>2, <1>3 DEF _set_val

-----------------------------------------------------------------------------
LEMMA InitInv == Init => IInv
<1> SUFFICES ASSUME Init PROVE IInv
  OBVIOUS
<1>1. datas \in [Attr -> Val]
  BY AttrAssumption DEF Init
<1>2. Nothing \in [datas : [Attr -> Val], fresh : BOOLEAN]
  BY AttrAssumption DEF Nothing
<1>3. DOMAIN undo = {} /\ undo \in [DOMAIN undo -> Val]
  BY DEF Init
<1>4. Len(m_run_sort) \in Nat
  BY FormulaAssumption
<1>5. todo \in Seq(Operation \X Attr \X Val)
  BY DEF Init
<1>6. m_attrRate \in Rate /\ pos \in 0 .. Len(m_run_sort)
  BY <1>4, AttrAssumption DEF Init
<1>7. TypeOK
  BY <1>1, <1>2, <1>3, <1>5, <1>6 DEF Init, TypeOK
<1> QED
  BY <1>3, <1>7 DEF Init, IInv, AffairInv, BegunInv, LoopInv, DerivedConsistent

(* A step that leaves the values, the log and the affair alone.            *)
LEMMA QuietStep ==
  ASSUME IInv, TypeOK', UNCHANGED <<datas, undo, affair, fresh, begun>>,
         pos' = pos \/ (pos = 0 /\ pos' = 1)
  PROVE  IInv'
<1>1. AffairInv' /\ BegunInv'
  BY DEF IInv, AffairInv, BegunInv, Undone
<1>2. LoopInv'
  BY DEF IInv, LoopInv, TypeOK
<1>3. DerivedConsistent'
  BY DEF IInv, DerivedConsistent
<1> QED
  BY <1>1, <1>2, <1>3 DEF IInv

(* A round of setVal: what it changed does not matter to the formulas, or  *)
(* Recalc starts, or the history says that the formulas were left behind.  *)
LEMMA AssignInv ==
  ASSUME IInv, pos = 0, NEW a \in Attr, NEW v \in Val, Assign(a, v),
         UNCHANGED <<m_EnableRecalc, m_attrRate, affair, begun>>,
         todo' \in Seq(Operation \X Attr \X Val), ret' \in BOOLEAN
  PROVE  IInv'
<1>0. TypeOK /\ (~affair => DOMAIN undo = {}) /\ (affair => Undone = begun.datas)
  BY DEF IInv, AffairInv
<1>1. CASE a \in Number /\ v # datas[a] /\ _set_val(a, v) /\ StartRecalc(a)
  <2>1. /\ datas' \in [Attr -> Val]
        /\ datas' = [datas EXCEPT ![a] = Clamp(datas, a, v)]
        /\ DOMAIN undo' \subseteq Attr /\ undo' \in [DOMAIN undo' -> Val]
        /\ affair => Undone' = Undone
        /\ ~affair => DOMAIN undo' = {}
    BY <1>0, <1>1, SetValEffect
  <2>2. pos' \in {0, 1} /\ pos' \in 0 .. Len(m_run_sort)
    <3>1. Len(m_run_sort) \in Nat
      BY FormulaAssumption
    <3>2. Infects(a) => Len(m_run_sort) > 0
      <4>1. ASSUME Infects(a) PROVE \E b \in Computed : TRUE
        BY <4>1 DEF Infects
      <4>2. ASSUME NEW b \in Computed PROVE Len(m_run_sort) > 0
        BY <3>1, FormulaAssumption
      <4> QED
        BY <4>1, <4>2
    <3> QED
      BY <1>1, <3>1, <3>2 DEF StartRecalc
  <2>3. TypeOK'
    BY <1>0, <1>1, <2>1, <2>2 DEF TypeOK, StartRecalc
  <2>4. AffairInv'
    BY <1>0, <2>1 DEF AffairInv
  <2>5. BegunInv'
    BY DEF IInv, BegunInv
  <2>6. LoopInv'
    <3>1. pos' = 0 \/ pos' = 1
      BY <2>2
    <3>2. 1 .. pos' - 1 = {}
      BY <3>1
    <3> QED
      BY <3>2 DEF LoopInv
  <2>7. DerivedConsistent'
    <3> SUFFICES ASSUME fresh', pos' = 0, NEW b \in Computed PROVE Agrees(datas', b)
      BY DEF DerivedConsistent
    <3>1. fresh /\ Agrees(datas, b)
      BY <1>1 DEF IInv, DerivedConsistent, StartRecalc
    <3>2. CASE datas' = datas
      BY <3>1, <3>2
    <3>3. CASE datas' # datas
      <4>0. /\ pos' = IF Infects(a) /\ m_EnableRecalc /\ datas' # datas THEN 1 ELSE 0
            /\ fresh' => datas' = datas \/ (m_EnableRecalc /\ a \notin Computed)
        BY <1>1 DEF StartRecalc
      <4>1. a \notin Computed /\ ~Infects(a)
        BY <3>3, <4>0
      <4>2. a # b /\ a \notin Reads[b]
        BY <4>1 DEF Infects
      <4>3. Clamp(datas, a, v) \in Val
        BY <1>0, ClampType DEF TypeOK
      <4> QED
        BY <1>0, <2>1, <3>1, <4>2, <4>3, AgreesKept
    <3> QED
      BY <3>2, <3>3
  <2> QED
    BY <2>3, <2>4, <2>5, <2>6, <2>7 DEF IInv
<1>2. CASE a \in Number /\ v = datas[a] /\ UNCHANGED <<datas, undo, pos, fresh>>
  <2>1. TypeOK'
    BY <1>0, <1>2 DEF TypeOK
  <2>2. UNCHANGED <<datas, undo, affair, fresh, begun>> /\ pos' = pos
    BY <1>2
  <2> QED
    BY <2>1, <2>2, QuietStep
<1>3. CASE a \notin Number /\ Store(a, v) /\ UNCHANGED <<pos, fresh>>
  <2>1. /\ datas' \in [Attr -> Val]
        /\ datas' = [datas EXCEPT ![a] = v]
        /\ DOMAIN undo' \subseteq Attr /\ undo' \in [DOMAIN undo' -> Val]
        /\ affair => Undone' = Undone
        /\ ~affair => DOMAIN undo' = {}
    BY <1>0, <1>3, StoreEffect
  <2>2. TypeOK'
    BY <1>0, <1>3, <2>1 DEF TypeOK
  <2>3. AffairInv' /\ BegunInv'
    BY <1>0, <2>1 DEF IInv, AffairInv, BegunInv
  <2>4. LoopInv'
    BY <1>3 DEF LoopInv
  <2>5. DerivedConsistent'
    <3> SUFFICES ASSUME fresh', pos' = 0, NEW b \in Computed PROVE Agrees(datas', b)
      BY DEF DerivedConsistent
    <3>1. Agrees(datas, b)
      BY <1>3 DEF IInv, DerivedConsistent
    <3>2. a # b /\ a \notin Reads[b]
      BY <1>3, AttrAssumption
    <3> QED
      BY <1>0, <2>1, <3>1, <3>2, AgreesKept
  <2> QED
    BY <2>2, <2>3, <2>4, <2>5 DEF IInv
<1> QED
  BY <1>1, <1>2, <1>3 DEF Assign

LEMMA NextNodeInv == IInv /\ NextNode => IInv'
<1> SUFFICES ASSUME IInv, NextNode PROVE IInv'
  OBVIOUS
<1> DEFINE op == Head(todo)[1]
           a  == Head(todo)[2]
           v  == Head(todo)[3]
<1>1. /\ todo # <<>> /\ pos = 0 /\ TypeOK
      /\ todo \in Seq(Operation \X Attr \X Val)
  BY DEF NextNode, IInv, TypeOK
<1>2. Head(todo) \in Operation \X Attr \X Val /\ Tail(todo) \in Seq(Operation \X Attr \X Val)
  BY <1>1
<1>3. a \in Attr
  BY <1>2
<1>4. Node(op, a, v)
  BY DEF NextNode
<1>5. UNCHANGED <<m_EnableRecalc, m_attrRate, affair, begun>>
  BY DEF NextNode
<1> HIDE DEF op, a, v
<1>6. CASE Refuse(op, a, v)
  <2>1. TypeOK'
    <3>1. todo' \in Seq(Operation \X Attr \X Val)
      BY <1>6 DEF Refuse
    <3> QED
      BY <1>1, <1>5, <1>6, <3>1 DEF TypeOK, Refuse
  <2>2. UNCHANGED <<datas, undo, affair, fresh, begun>> /\ pos' = pos
    BY <1>5, <1>6 DEF Refuse
  <2> QED
    BY <2>1, <2>2, QuietStep
<1>7. CASE Accept(op, a, v)
  <2>1. /\ Target(op, a, v) \in Val /\ Assign(a, Target(op, a, v))
        /\ todo' \in Seq(Operation \X Attr \X Val) /\ ret' \in BOOLEAN
    BY <1>1, <1>2, <1>7 DEF Accept, TypeOK
  <2> QED
    BY <1>1, <1>3, <1>5, <2>1, AssignInv
<1> QED
  BY <1>4, <1>6, <1>7 DEF Node

(* One formula: the earlier ones do not read it, since those they read     *)
(* stand before them and none stands there twice.                          *)
LEMMA RunFormulaInv == IInv /\ RunFormula => IInv'
<1> SUFFICES ASSUME IInv, RunFormula PROVE IInv'
  OBVIOUS
<1> DEFINE a == m_run_sort[pos]
<1>0. TypeOK /\ (~affair => DOMAIN undo = {}) /\ (affair => Undone = begun.datas)
  BY DEF IInv, AffairInv
<1>1. /\ pos \in 1 .. Len(m_run_sort) /\ Len(m_run_sort) \in Nat
      /\ a \in Computed /\ a \in Attr
  BY SMTT(30), <1>0, FormulaAssumption, AttrAssumption DEF TypeOK, RunFormula
<1>2. Evaluate(datas, a) \in Val
  BY <1>0, <1>1, EvaluateType DEF TypeOK
<1>3. /\ datas' \in [Attr -> Val]
      /\ DOMAIN undo' \subseteq Attr /\ undo' \in [DOMAIN undo' -> Val]
      /\ affair => Undone' = Undone
      /\ ~affair => DOMAIN undo' = {}
      /\ \/ CanRun(a) /\ datas' = [datas EXCEPT ![a] = Clamp(datas, a, Evaluate(datas, a))]
         \/ ~CanRun(a) /\ datas' = datas
  <2>1. CASE CanRun(a)
    <3>1. _set_val(a, Evaluate(datas, a))
      BY <2>1 DEF RunFormula
    <3> QED
      BY <1>0, <1>1, <1>2, <2>1, <3>1, SetValEffect
  <2>2. CASE ~CanRun(a)
    <3>1. UNCHANGED <<datas, undo>>
      BY <2>2 DEF RunFormula
    <3> QED
      BY <1>0, <2>2, <3>1 DEF TypeOK, Undone
  <2> QED
    BY <2>1, <2>2
<1>4. /\ UNCHANGED <<m_EnableRecalc, m_attrRate, todo, ret, affair, begun>>
      /\ \/ pos = Len(m_run_sort) /\ pos' = 0 /\ fresh' = TRUE
         \/ pos # Len(m_run_sort) /\ pos' = pos + 1 /\ fresh' = fresh
  BY DEF RunFormula
<1>5. TypeOK'
  <2>1. pos' \in 0 .. Len(m_run_sort)
    BY <1>1, <1>4
  <2>2. fresh' \in BOOLEAN
    BY <1>0, <1>4 DEF TypeOK
  <2> HIDE DEF a
  <2> QED
    BY <1>0, <1>3, <1>4, <2>1, <2>2 DEF TypeOK
<1>6. AffairInv' /\ BegunInv'
  BY <1>0, <1>3, <1>4 DEF IInv, AffairInv, BegunInv
<1>7. \A p \in 1 .. pos : Agrees(datas', m_run_sort[p])
  <2> SUFFICES ASSUME NEW p \in 1 .. pos PROVE Agrees(datas', m_run_sort[p])
    OBVIOUS
  <2> DEFINE b == m_run_sort[p]
  <2>1. p \in DOMAIN m_run_sort /\ pos \in DOMAIN m_run_sort /\ b \in Computed
    BY <1>1, FormulaAssumption
  <2>2. Clamp(datas, a, Evaluate(datas, a)) \in Val
    BY <1>0, <1>1, <1>2, ClampType DEF TypeOK
  <2>3. CASE p = pos
    <3> SUFFICES ASSUME Settled(a)
                 PROVE  datas'[a] = Clamp(datas', a, Evaluate(datas', a))
      BY <2>3 DEF Agrees
    <3>1. /\ datas' = [datas EXCEPT ![a] = Clamp(datas, a, Evaluate(datas, a))]
          /\ a \notin Reads[a]
      BY <1>3 DEF Settled
    <3>2. datas'[a] = Clamp(datas, a, Evaluate(datas, a))
      BY <1>0, <1>1, <3>1 DEF TypeOK
    <3>3. \A r \in Reads[a] : datas'[r] = datas[r]
      BY <1>0, <1>1, <3>1, AttrAssumption DEF TypeOK
    <3>4. [r \in Reads[a] |-> datas'[r]] = [r \in Reads[a] |-> datas[r]]
      BY <3>3
    <3>5. Evaluate(datas', a) = Evaluate(datas, a)
      BY <3>4 DEF Evaluate
    <3>6. ASSUME NEW w PROVE Clamp(datas', a, w) = Clamp(datas, a, w)
      BY DEF Settled, Clamp, Bound
    <3> QED
      BY <3>2, <3>5, <3>6
  <2>4. CASE p < pos
    <3>1. Agrees(datas, b)
      BY <1>1, <2>4 DEF IInv, LoopInv
    <3>2. a # b
      <4>1. \A q \in 1 .. pos - 1 : m_run_sort[q] # m_run_sort[pos]
        BY <2>1, FormulaAssumption
      <4> QED
        BY <1>1, <2>4, <4>1
    <3>3. a \notin Reads[b]
      <4> SUFFICES ASSUME a \in Reads[b] PROVE FALSE
        OBVIOUS
      <4>1. PICK q \in 1 .. p - 1 : m_run_sort[q] = a
        BY <1>1, <2>1, <3>2, FormulaAssumption
      <4>2. q \in 1 .. pos - 1
        BY <1>1, <2>4
      <4> QED
        BY <2>1, <4>1, <4>2, FormulaAssumption
    <3>4. CASE datas' = datas
      BY <3>1, <3>4
    <3>5. CASE datas' = [datas EXCEPT ![a] = Clamp(datas, a, Evaluate(datas, a))]
      <4> HIDE DEF a, b
      <4>1. PICK w \in Val : datas' = [datas EXCEPT ![a] = w]
        BY <2>2, <3>5
      <4>2. a \in Attr /\ b \in Computed /\ b # a
        BY <1>1, <2>1, <3>2
      <4>3. Agrees(datas', b)
        BY <1>0, <3>1, <3>3, <4>1, <4>2, AgreesKept
      <4> QED
        BY <4>3 DEF b
    <3> QED
      BY <1>3, <3>4, <3>5
  <2> QED
    BY <1>1, <2>3, <2>4
<1>8. LoopInv'
  BY <1>1, <1>4, <1>7 DEF LoopInv
<1>9. DerivedConsistent'
  <2> SUFFICES ASSUME pos' = 0, NEW b \in Computed PROVE Agrees(datas', b)
    BY DEF DerivedConsistent
  <2>1. pos = Len(m_run_sort)
    BY <1>1, <1>4
  <2>2. PICK p \in DOMAIN m_run_sort : m_run_sort[p] = b
    BY FormulaAssumption
  <2>3. p \in 1 .. pos
    BY <2>1, <2>2, FormulaAssumption
  <2> QED
    BY <1>7, <2>2, <2>3
<1> QED
  BY <1>5, <1>6, <1>8, <1>9 DEF IInv

LEMMA GetValInv == \A a \in Attr : IInv /\ GetValRecalc(a) => IInv'
<1> SUFFICES ASSUME NEW a \in Attr, IInv, GetValRecalc(a) PROVE IInv'
  OBVIOUS
<1>0. /\ TypeOK /\ (~affair => DOMAIN undo = {}) /\ (affair => Undone = begun.datas)
      /\ pos = 0
  BY DEF IInv, AffairInv, GetValRecalc, Idle
<1>1. /\ UNCHANGED <<m_EnableRecalc, m_attrRate, todo, pos, ret, affair, begun>>
      /\ fresh' = (fresh /\ datas' = datas)
  BY DEF GetValRecalc
<1>2. \/ \E v \in Val : _set_val(a, v)
      \/ UNCHANGED <<datas, undo>>
  <2>1. a \notin Computed => _set_val(a, datas[a]) /\ datas[a] \in Val
    BY <1>0 DEF GetValRecalc, TypeOK
  <2>2. a \in Computed => Evaluate(datas, a) \in Val
    BY <1>0, EvaluateType DEF TypeOK
  <2>3. \/ a \notin Computed
        \/ a \in Computed /\ _set_val(a, Evaluate(datas, a))
        \/ UNCHANGED <<datas, undo>>
    BY DEF GetValRecalc
  <2> QED
    BY <2>1, <2>2, <2>3
<1>3. /\ datas' \in [Attr -> Val]
      /\ DOMAIN undo' \subseteq Attr /\ undo' \in [DOMAIN undo' -> Val]
      /\ affair => Undone' = Undone
      /\ ~affair => DOMAIN undo' = {}
  <2>1. CASE \E v \in Val : _set_val(a, v)
    BY <1>0, <2>1, SetValEffect
  <2>2. CASE UNCHANGED <<datas, undo>>
    BY <1>0, <2>2 DEF TypeOK, Undone
  <2> QED
    BY <1>2, <2>1, <2>2
<1>4. TypeOK'
  BY <1>0, <1>1, <1>3 DEF TypeOK
<1>5. AffairInv' /\ BegunInv'
  BY <1>0, <1>1, <1>3 DEF IInv, AffairInv, BegunInv
<1>6. LoopInv'
  BY <1>0, <1>1 DEF LoopInv
<1>7. DerivedConsistent'
  BY <1>1 DEF IInv, DerivedConsistent
<1> QED
  BY <1>4, <1>5, <1>6, <1>7 DEF IInv

LEMMA RollbackInv == IInv /\ Rollback => IInv'
<1> SUFFICES ASSUME IInv, Rollback PROVE IInv'
  OBVIOUS
<1>1. /\ datas' = begun.datas /\ fresh' = begun.fresh /\ begun' = Nothing
      /\ affair' = FALSE /\ DOMAIN undo' = {} /\ undo' \in [DOMAIN undo' -> Val]
      /\ pos = 0 /\ pos' = 0 /\ affair
      /\ UNCHANGED <<m_EnableRecalc, m_attrRate, todo, ret>>
  BY DEF IInv, AffairInv, Rollback, Idle
<1>2. Nothing \in [datas : [Attr -> Val], fresh : BOOLEAN]
  BY AttrAssumption DEF Nothing
<1>3. TypeOK'
  BY <1>1, <1>2 DEF IInv, TypeOK
<1>4. AffairInv' /\ BegunInv' /\ LoopInv'
  BY <1>1 DEF AffairInv, BegunInv, LoopInv
<1>5. DerivedConsistent'
  BY <1>1 DEF IInv, BegunInv, DerivedConsistent
<1> QED
  BY <1>3, <1>4, <1>5 DEF IInv

LEMMA BeginInv == IInv /\ AffairBegin => IInv'
<1> SUFFICES ASSUME IInv, AffairBegin PROVE IInv'
  OBVIOUS
<1>1. /\ begun' = [datas |-> datas, fresh |-> fresh] /\ pos = 0
      /\ affair' /\ DOMAIN undo' = {} /\ undo' \in [DOMAIN undo' -> Val]
      /\ UNCHANGED <<role, todo, pos, ret, fresh>>
  BY DEF AffairBegin, Idle
<1>2. TypeOK'
  BY <1>1 DEF IInv, TypeOK, role, AffairBegin
<1>3. Undone' = datas
  BY <1>1 DEF Undone, IInv, TypeOK, role
<1>4. AffairInv' /\ BegunInv' /\ LoopInv' /\ DerivedConsistent'
  BY <1>1, <1>3 DEF AffairInv, BegunInv, LoopInv, IInv, DerivedConsistent, role
<1> QED
  BY <1>2, <1>4 DEF IInv

LEMMA CommitInv == IInv /\ AffairCommit => IInv'
<1> SUFFICES ASSUME IInv, AffairCommit PROVE IInv'
  OBVIOUS
<1>1. /\ begun' = Nothing /\ pos = 0 /\ affair' = FALSE
      /\ DOMAIN undo' = {} /\ undo' \in [DOMAIN undo' -> Val]
      /\ UNCHANGED <<role, todo, pos, ret, fresh>>
  BY DEF AffairCommit, Idle
<1>2. Nothing \in [datas : [Attr -> Val], fresh : BOOLEAN]
  BY AttrAssumption DEF Nothing
<1>3. TypeOK'
  BY <1>1, <1>2 DEF IInv, TypeOK, role
<1>4. AffairInv' /\ BegunInv' /\ LoopInv' /\ DerivedConsistent'
  BY <1>1 DEF AffairInv, BegunInv, LoopInv, IInv, DerivedConsistent, role
<1> QED
  BY <1>3, <1>4 DEF IInv

LEMMA OtherInv ==
  ASSUME IInv,
         \/ \E call \in Calls : Call(call[1], call[2])
         \/ OutOfBound \/ Recalc
         \/ \E flag \in BOOLEAN : EnableRecalc(flag)
         \/ \E r \in Rate : setAttrRate(r)
         \/ UNCHANGED vars
  PROVE  IInv'
<1>1. TypeOK /\ Len(m_run_sort) \in Nat
  BY FormulaAssumption DEF IInv
<1>2. CASE \E call \in Calls : Call(call[1], call[2])
  <2>1. PICK call \in Calls : Call(call[1], call[2])
    BY <1>2
  <2>2. call[1] \in Operation /\ call[2] \in Seq(Attr \X Val)
    BY AttrAssumption
  <2>3. todo' \in Seq(Operation \X Attr \X Val)
    <3>1. todo' = [n \in DOMAIN call[2] |-> <<call[1], call[2][n][1], call[2][n][2]>>]
      BY <2>1 DEF Call
    <3>2. DOMAIN call[2] = 1 .. Len(call[2]) /\ Len(call[2]) \in Nat
      BY <2>2
    <3>3. \A n \in 1 .. Len(call[2]) :
            <<call[1], call[2][n][1], call[2][n][2]>> \in Operation \X Attr \X Val
      BY <2>2
    <3> QED
      BY <3>1, <3>2, <3>3
  <2>4. TypeOK'
    BY <1>1, <2>1, <2>3 DEF TypeOK, Call, role
  <2>9. UNCHANGED <<datas, undo, affair, fresh, begun>> /\ pos' = pos
    BY <2>1 DEF Call, role
  <2> QED
    BY <2>4, <2>9, QuietStep
<1>3. CASE OutOfBound
  <2>1. TypeOK'
    <3>1. todo' \in Seq(Operation \X Attr \X Val)
      <4>1. todo' = <<>>
        BY <1>3 DEF OutOfBound
      <4> QED
        BY <4>1
    <3> QED
      BY <1>1, <1>3, <3>1 DEF TypeOK, OutOfBound, role
  <2>9. UNCHANGED <<datas, undo, affair, fresh, begun>> /\ pos' = pos
    BY <1>3 DEF OutOfBound, role
  <2> QED
    BY <2>1, <2>9, QuietStep
<1>4. CASE Recalc
  <2>1. TypeOK'
    BY <1>1, <1>4, FormulaAssumption DEF TypeOK, Recalc, role
  <2> QED
    BY <1>4, <2>1, QuietStep DEF Recalc, role, Idle
<1>5. CASE \E flag \in BOOLEAN : EnableRecalc(flag)
  <2>1. TypeOK'
    BY <1>1, <1>5 DEF TypeOK, EnableRecalc
  <2>9. UNCHANGED <<datas, undo, affair, fresh, begun>> /\ pos' = pos
    BY <1>5 DEF EnableRecalc
  <2> QED
    BY <2>1, <2>9, QuietStep
<1>6. CASE \E r \in Rate : setAttrRate(r)
  <2>1. TypeOK'
    BY <1>1, <1>6 DEF TypeOK, setAttrRate
  <2>9. UNCHANGED <<datas, undo, affair, fresh, begun>> /\ pos' = pos
    BY <1>6 DEF setAttrRate
  <2> QED
    BY <2>1, <2>9, QuietStep
<1>7. CASE UNCHANGED vars
  <2>1. TypeOK'
    BY <1>1, <1>7 DEF TypeOK, vars, role
  <2>9. UNCHANGED <<datas, undo, affair, fresh, begun>> /\ pos' = pos
    BY <1>7 DEF vars, role
  <2> QED
    BY <2>1, <2>9, QuietStep
<1> QED
  BY <1>2, <1>3, <1>4, <1>5, <1>6, <1>7

LEMMA NextInv == IInv /\ [Next]_vars => IInv'
BY NextNodeInv, RunFormulaInv, GetValInv, RollbackInv, BeginInv, CommitInv,
   OtherInv DEF Next

(* The strengthened invariant holds throughout.                            *)
THEOREM RoleInvariant == Spec => []IInv
BY InitInv, NextInv, PTL DEF Spec

(* Whatever happened in an affair, rolling back restores every attribute.  *)
THEOREM AffairCorrect == Spec => []AffairAtomic
<1>1. IInv => AffairAtomic
  BY DEF IInv, AffairInv, AffairAtomic
<1> QED
  BY <1>1, RoleInvariant, PTL

(* One pass of Recalc settles the formulas, and no later call that the     *)
(* history allows unsettles them.                                          *)
THEOREM DerivedCorrect == Spec => []DerivedConsistent
<1>1. IInv => DerivedConsistent
  BY DEF IInv
<1> QED
  BY <1>1, RoleInvariant, PTL

(* The type invariant.                                                     *)
THEOREM TypeCorrect == Spec => []TypeOK
<1>1. IInv => TypeOK
  BY DEF IInv
<1> QED
  BY <1>1, RoleInvariant, PTL

(* A subVal that answers TRUE took the whole price.                        *)
THEOREM PriceCorrect == Spec => PaidInFull
<1>1. ASSUME IInv, NEW a \in Number, NEW v \in Val, NextNode,
             Head(todo) = <<"sub", a, v>>, m_attrRate = 1, v >= 0, Payable(a), ret'
      PROVE  datas'[a] = datas[a] - v
  <2>1. a \in Attr /\ v \in Int /\ datas[a] \in Int
    BY <1>1, AttrAssumption DEF IInv, TypeOK
  <2>2. Accept("sub", a, v)
    <3>1. Node("sub", a, v)
      BY <1>1 DEF NextNode
    <3>2. ~Refuse("sub", a, v)
      BY <1>1 DEF Refuse
    <3> QED
      BY <3>1, <3>2 DEF Node
  <2>3. datas[a] >= v /\ Target("sub", a, v) = datas[a] - v
    BY <1>1, <2>1, <2>2 DEF Accept, Refused, Target, Scaled
  <2>4. Assign(a, datas[a] - v) /\ datas[a] - v \in Val
    BY <2>2, <2>3 DEF Accept
  <2>5. Clamp(datas, a, datas[a] - v) = datas[a] - v
    <3>1. MaxLimit(a).kind # "none" => MaxLimit(a).val \in Int /\ datas[a] <= MaxLimit(a).val
      BY <1>1, <2>1, LimitFacts, AttrAssumption DEF Payable
    <3>2. MinLimit(a).kind # "none" => MinLimit(a).val \in Int /\ MinLimit(a).val <= 0
      BY <1>1, <2>1, LimitFacts, AttrAssumption DEF Payable
    <3> QED
      BY <1>1, <2>1, <2>3, <3>1, <3>2 DEF Clamp, Bound, Payable
  <2>6. ~affair => DOMAIN undo = {}
    BY <1>1 DEF IInv, AffairInv
  <2>7. CASE _set_val(a, datas[a] - v)
    BY <1>1, <2>1, <2>4, <2>5, <2>6, <2>7, SetValEffect DEF IInv, TypeOK
  <2>8. CASE datas[a] - v = datas[a] /\ UNCHANGED datas
    BY <2>1, <2>8
  <2> QED
    BY <1>1, <2>4, <2>7, <2>8 DEF Assign
<1>2. IInv => [\A a \in Number, v \in Val :
                 /\ NextNode /\ Head(todo) = <<"sub", a, v>>
                 /\ m_attrRate = 1 /\ v >= 0 /\ Payable(a) /\ ret'
                 => datas'[a] = datas[a] - v]_vars
  BY <1>1
<1> QED
  BY <1>2, RoleInvariant, PTL DEF PaidInFull
-----------------------------------------------------------------------------
(* The additional data, for any names, data and length of an affair.  The  *)
(* oldest entry of a name decides what a rollback leaves under it, so the  *)
(* invariant is about those only.                                          *)
Named(name) == \E i \in DOMAIN changes : changes[i].name = name
Oldest(i) == i \in DOMAIN changes /\ \A j \in 1 .. i - 1 : changes[j].name # changes[i].name
Back(e) == IF e.op = "EAO_ADD" THEN Absent ELSE e.node

(* What may stand under a name when the affair was taken back.             *)
Good(name, node) ==
  /\ node = Absent <=> before[name] = Absent
  /\ first[name] # "EAO_MODIFIED" => node = before[name]

DataInv ==
  /\ User!TypeOK
  /\ inAffair /\ ~rolling => \A name \in Name : ~Named(name) => first[name] = "none"
  /\ inAffair => \A name \in Name : ~Named(name) => Good(name, m_data_map[name])
  /\ inAffair => \A i \in DOMAIN changes : Oldest(i) => Good(changes[i].name, Back(changes[i]))

LEMMA DataInit == User!Init => DataInv
<1> SUFFICES ASSUME User!Init PROVE DataInv
  OBVIOUS
<1>1. User!TypeOK
  <2>1. <<>> \in Seq(User!Entry)
    OBVIOUS
  <2>2. /\ m_data_map \in [Name -> DataNode \cup {Absent}] /\ inAffair = FALSE /\ changes = <<>>
        /\ rolling = FALSE /\ before = m_data_map /\ first = [name \in Name |-> "none"]
    BY DEF User!Init, User!Untouched
  <2> QED
    BY <2>1, <2>2 DEF User!TypeOK
<1> QED
  BY <1>1 DEF User!Init, DataInv

(* A change that is reported, with the node to put back.                   *)
LEMMA ReportKeeps ==
  ASSUME DataInv, ~rolling, NEW op \in User!Operation, NEW name \in Name, NEW node \in DataNode,
         NEW new \in DataNode \cup {Absent},
         User!Report(op, name, node), m_data_map' = [m_data_map EXCEPT ![name] = new],
         UNCHANGED <<inAffair, rolling, before>>,
         op = "EAO_ADD" <=> m_data_map[name] = Absent,
         op = "EAO_DEL" => node = m_data_map[name]
  PROVE  DataInv'
<1> DEFINE e == [op |-> op, name |-> name, node |-> node]
<1>1. /\ m_data_map \in [Name -> DataNode \cup {Absent}] /\ inAffair \in BOOLEAN /\ rolling = FALSE
      /\ changes \in Seq(User!Entry) /\ before \in [Name -> DataNode \cup {Absent}]
      /\ first \in [Name -> User!Operation \cup {"none"}]
  BY DEF DataInv, User!TypeOK
<1>2. e \in User!Entry
  BY DEF User!Entry
<1>3. CASE ~inAffair
  <2>1. UNCHANGED <<changes, first>>
    BY <1>3 DEF User!Report
  <2>2. User!TypeOK'
    BY <1>1, <2>1 DEF User!TypeOK
  <2> QED
    BY <1>3, <2>1, <2>2 DEF DataInv
<1>4. CASE inAffair
  <2>1. /\ changes' = Append(changes, e)
        /\ first' = [first EXCEPT ![name] = IF @ = "none" THEN op ELSE @]
    BY <1>4 DEF User!Report
  <2>0. PICK k \in Nat : k = Len(changes)
    BY <1>1
  <2>2. /\ DOMAIN changes = 1 .. k /\ DOMAIN changes' = 1 .. k + 1
        /\ changes'[k + 1] = e /\ \A i \in 1 .. k : changes'[i] = changes[i]
    BY <1>1, <1>2, <2>0, <2>1
  <2>3. changes' \in Seq(User!Entry)
    BY <1>1, <1>2, <2>1
  <2>4. User!TypeOK'
    BY <1>1, <2>1, <2>3 DEF User!TypeOK
  <2>5. ASSUME NEW n \in Name, ~Named(n)'
        PROVE  n # name /\ ~Named(n)
    BY <2>2, <2>5 DEF Named
  <2>6. \A n \in Name : n # name => first'[n] = first[n] /\ m_data_map'[n] = m_data_map[n]
    BY <1>1, <2>1
  <2>7. \A n \in Name : n # name => \A x : (Good(n, x)' <=> Good(n, x))
    BY <2>6 DEF Good
  <2>8. (inAffair /\ ~rolling => \A n \in Name : ~Named(n) => first[n] = "none")'
    BY <1>4, <2>5, <2>6, <1>1 DEF DataInv
  <2>9. (inAffair => \A n \in Name : ~Named(n) => Good(n, m_data_map[n]))'
    BY <1>4, <2>5, <2>6, <2>7 DEF DataInv
  <2>10. ASSUME NEW i \in DOMAIN changes, Oldest(i)'
         PROVE  Good(changes[i].name, Back(changes[i]))'
    <3>1. Oldest(i) /\ changes'[i] = changes[i]
      BY <2>2, <2>10 DEF Oldest
    <3>2. Good(changes[i].name, Back(changes[i]))
      BY <1>4, <3>1 DEF DataInv
    <3>3. CASE changes[i].name # name
      <4>1. changes[i] \in User!Entry
        BY <1>1
      <4>2. changes[i].name \in Name
        BY <4>1 DEF User!Entry
      <4> QED
        BY <2>7, <3>1, <3>2, <3>3, <4>2 DEF Back
    <3>4. CASE changes[i].name = name /\ first[name] # "none"
      <4>1. first'[name] = first[name]
        BY <1>1, <2>1, <3>4
      <4> QED
        BY <3>1, <3>2, <3>4, <4>1 DEF Good, Back
    <3>5. CASE changes[i].name = name /\ first[name] = "none"
      <4>1. first'[name] = op /\ Back(changes[i]) = before[name]
        BY <1>1, <2>1, <3>2, <3>5 DEF Good
      <4> QED
        BY <3>1, <3>5, <4>1 DEF Good, Back
    <3> QED
      BY <3>3, <3>4, <3>5
  <2>11. ASSUME Oldest(k + 1)'
         PROVE  Good(name, Back(e))'
    <3>1. ~Named(name)
      BY <2>2, <2>11 DEF Named, Oldest
    <3>2. first[name] = "none" /\ Good(name, m_data_map[name])
      BY <1>1, <1>4, <3>1 DEF DataInv
    <3>3. first'[name] = op /\ m_data_map[name] = before[name]
      BY <1>1, <2>1, <3>2 DEF Good
    <3>4. op \in {"EAO_ADD", "EAO_MODIFIED", "EAO_DEL"} /\ node # Absent
      BY AdditionAssumption DEF User!Operation, User!AdditionAssumption
    <3>5. Back(e) = Absent <=> before[name] = Absent
      BY <3>3, <3>4 DEF Back
    <3>6. op # "EAO_MODIFIED" => Back(e) = before[name]
      BY <3>3, <3>4 DEF Back
    <3> QED
      BY <3>3, <3>5, <3>6 DEF Good, Back
  <2>12. (\A i \in DOMAIN changes : Oldest(i) => Good(changes[i].name, Back(changes[i])))'
    <3> SUFFICES ASSUME NEW i \in (DOMAIN changes)', Oldest(i)'
                 PROVE  Good(changes[i].name, Back(changes[i]))'
      OBVIOUS
    <3>1. CASE i \in DOMAIN changes
      BY <3>1, <2>10
    <3>2. CASE i = k + 1
      <4>1. changes'[i] = e
        BY <3>2, <2>2
      <4>2. changes[i].name' = name /\ Back(changes[i])' = Back(e)
        BY <4>1 DEF Back
      <4>3. Good(name, Back(e))'
        BY <3>2, <2>11
      <4> HIDE DEF e
      <4> QED
        BY <4>2, <4>3 DEF Good
    <3> QED
      BY <3>1, <3>2, <2>2
  <2> QED
    BY <2>4, <2>8, <2>9, <2>12 DEF DataInv
<1> QED
  BY <1>1, <1>3, <1>4

(* The last entry is taken back: it decides about its name only when it is *)
(* the oldest of it, and then the name has no entry any more.              *)
LEMMA UndoKeeps ==
  ASSUME DataInv, User!UndoLast
  PROVE  DataInv'
<1> DEFINE k == Len(changes)
           e == changes[k]
           new == User!Undo(m_data_map, e.name, e.node, User!UndoOperation(e.op))
<1>1. /\ m_data_map \in [Name -> DataNode \cup {Absent}] /\ inAffair /\ rolling = TRUE
      /\ changes \in Seq(User!Entry) /\ before \in [Name -> DataNode \cup {Absent}]
      /\ first \in [Name -> User!Operation \cup {"none"}] /\ inAffair \in BOOLEAN /\ changes # <<>>
  BY DEF DataInv, User!TypeOK, User!UndoLast
<1>2. k \in Nat /\ k # 0 /\ DOMAIN changes = 1 .. k /\ e \in User!Entry
  BY <1>1
<1>3. m_data_map' = new /\ changes' = SubSeq(changes, 1, k - 1) /\ UNCHANGED <<inAffair, rolling, before, first>>
  BY DEF User!UndoLast, User!Last, User!Front
<1>4. /\ DOMAIN changes' = 1 .. k - 1 /\ \A i \in 1 .. k - 1 : changes'[i] = changes[i]
      /\ changes' \in Seq(User!Entry)
  BY <1>1, <1>2, <1>3
<1>5. e.op \in {"EAO_ADD", "EAO_MODIFIED", "EAO_DEL"} /\ e.name \in Name /\ e.node \in DataNode
  BY <1>2 DEF User!Entry, User!Operation
<1>6. new = [m_data_map EXCEPT ![e.name] = Back(e)]
  BY <1>5 DEF User!Undo, User!UndoOperation, Back
<1>7. User!TypeOK'
  <2>1. Back(e) \in DataNode \cup {Absent}
    BY <1>5 DEF Back
  <2> HIDE DEF new, e, k
  <2>2. m_data_map' \in [Name -> DataNode \cup {Absent}]
    BY <1>1, <1>3, <1>6, <2>1
  <2> QED
    BY <1>1, <1>3, <1>4, <2>2 DEF User!TypeOK
<1>8. \A n, x : Good(n, x)' <=> Good(n, x)
  BY <1>3 DEF Good
<1>9. ASSUME NEW n \in Name, ~Named(n)'
      PROVE  Good(n, m_data_map[n])'
  <2>1. CASE n # e.name
    <3>1. ~Named(n)
      BY <1>2, <1>4, <1>9, <2>1 DEF Named
    <3>2. m_data_map'[n] = m_data_map[n]
      BY <1>1, <1>3, <1>6, <2>1
    <3> QED
      BY <1>1, <1>8, <3>1, <3>2 DEF DataInv
  <2>2. CASE n = e.name
    <3>1. Oldest(k)
      BY <1>2, <1>4, <1>9, <2>2 DEF Named, Oldest
    <3>2. Good(n, Back(e))
      BY <1>1, <1>2, <2>2, <3>1 DEF DataInv
    <3>3. m_data_map'[n] = Back(e)
      BY <1>1, <1>3, <1>5, <1>6, <2>2
    <3> QED
      BY <1>8, <3>2, <3>3
  <2> QED
    BY <2>1, <2>2
<1>10. ASSUME NEW i \in (DOMAIN changes)', Oldest(i)'
       PROVE  Good(changes[i].name, Back(changes[i]))'
  <2>1. i \in 1 .. k - 1 /\ i \in DOMAIN changes /\ changes'[i] = changes[i]
    BY <1>2, <1>4
  <2>2. Oldest(i)
    BY <1>2, <1>4, <1>10, <2>1 DEF Oldest
  <2>3. Good(changes[i].name, Back(changes[i]))
    BY <1>1, <2>1, <2>2 DEF DataInv
  <2> QED
    BY <1>8, <2>1, <2>3 DEF Back
<1> QED
  BY <1>1, <1>3, <1>7, <1>9, <1>10 DEF DataInv

LEMMA DataNext == DataInv /\ [User!Next]_userVars => DataInv'
<1> SUFFICES ASSUME DataInv, [User!Next]_userVars PROVE DataInv'
  OBVIOUS
<1>1. /\ m_data_map \in [Name -> DataNode \cup {Absent}] /\ inAffair \in BOOLEAN /\ rolling \in BOOLEAN
      /\ changes \in Seq(User!Entry) /\ before \in [Name -> DataNode \cup {Absent}]
      /\ first \in [Name -> User!Operation \cup {"none"}] /\ (rolling => inAffair)
  BY DEF DataInv, User!TypeOK
<1>2. ASSUME NEW name \in Name, NEW node \in DataNode, User!setData(name, node)
      PROVE  DataInv'
  <2>1. ~rolling /\ UNCHANGED <<inAffair, rolling, before>> /\ m_data_map' = [m_data_map EXCEPT ![name] = node]
    BY <1>2 DEF User!setData, User!Within
  <2>2. CASE m_data_map[name] = Absent /\ User!Report("EAO_ADD", name, node)
    BY <2>1, <2>2, ReportKeeps DEF User!Operation
  <2>3. CASE m_data_map[name] # Absent /\ User!Report("EAO_MODIFIED", name, node)
    BY <2>1, <2>3, ReportKeeps DEF User!Operation
  <2> QED
    BY <1>2, <2>2, <2>3 DEF User!setData
<1>3. ASSUME NEW name \in Name, User!removeData(name)
      PROVE  DataInv'
  <2>1. /\ ~rolling /\ UNCHANGED <<inAffair, rolling, before>> /\ m_data_map' = [m_data_map EXCEPT ![name] = Absent]
        /\ m_data_map[name] # Absent /\ User!Report("EAO_DEL", name, m_data_map[name])
    BY <1>3 DEF User!removeData, User!Within
  <2>2. m_data_map[name] \in DataNode
    BY <1>1, <2>1
  <2> QED
    BY <2>1, <2>2, ReportKeeps DEF User!Operation
<1>4. CASE User!BeginAffair
  <2>1. /\ ~inAffair /\ inAffair' /\ inAffair' \in BOOLEAN /\ changes' = <<>> /\ before' = m_data_map
        /\ first' = [name \in Name |-> "none"] /\ UNCHANGED <<m_data_map, rolling>>
    BY <1>4 DEF User!BeginAffair, User!Untouched
  <2>2. User!TypeOK'
    BY <1>1, <2>1 DEF User!TypeOK
  <2>3. \A name \in Name : Good(name, m_data_map[name])'
    BY <2>1 DEF Good
  <2>4. DOMAIN changes' = {}
    BY <2>1
  <2> QED
    BY <2>1, <2>2, <2>3, <2>4 DEF DataInv
<1>5. CASE User!CommitAffair
  <2>1. /\ inAffair' = FALSE /\ changes' = <<>> /\ rolling' = FALSE
        /\ first' = [name \in Name |-> "none"] /\ UNCHANGED <<m_data_map, before>>
    BY <1>1, <1>5 DEF User!CommitAffair, User!Untouched
  <2>2. User!TypeOK'
    <3>1. <<>> \in Seq(User!Entry)
      OBVIOUS
    <3> QED
      BY <1>1, <2>1, <3>1 DEF User!TypeOK
  <2> QED
    BY <2>1, <2>2 DEF DataInv
<1>6. CASE User!RollbackAffair
  <2>1. inAffair /\ rolling' = TRUE /\ UNCHANGED <<m_data_map, inAffair, changes, before, first>>
    BY <1>6 DEF User!RollbackAffair
  <2>2. User!TypeOK'
    BY <1>1, <2>1 DEF User!TypeOK
  <2> QED
    BY <2>1, <2>2 DEF DataInv, Named, Oldest, Good, Back
<1>7. CASE User!UndoLast
  BY <1>7, UndoKeeps
<1>8. CASE User!Return
  <2>1. /\ inAffair' = FALSE /\ rolling' = FALSE
        /\ first' = [name \in Name |-> "none"] /\ UNCHANGED <<m_data_map, changes, before>>
    BY <1>8 DEF User!Return, User!Untouched
  <2>2. User!TypeOK'
    BY <1>1, <2>1 DEF User!TypeOK
  <2> QED
    BY <2>1, <2>2 DEF DataInv
<1>9. CASE UNCHANGED userVars
  BY <1>9 DEF userVars, DataInv, User!TypeOK, Named, Oldest, Good, Back
<1> QED
  BY <1>2, <1>3, <1>4, <1>5, <1>6, <1>7, <1>8, <1>9 DEF User!Next

(* What is taken back: at the end of the rollback no name has an entry.    *)
LEMMA DataGives == DataInv => AffairTakenBack
<1> SUFFICES ASSUME DataInv PROVE AffairTakenBack
  OBVIOUS
<1>1. ASSUME User!RolledBack, NEW name \in Name
      PROVE  Good(name, m_data_map[name])
  <2>1. inAffair /\ DOMAIN changes = {}
    BY <1>1 DEF User!RolledBack, DataInv, User!TypeOK
  <2> QED
    BY <2>1 DEF DataInv, Named
<1> QED
  BY <1>1 DEF AffairTakenBack, User!NamesRestored, User!AddedOrRemovedRestored, Good, DataInv

(* A rollback takes an affair over additional data back, whatever it added,*)
(* overwrote and removed: the names are those of the begin, and only a     *)
(* name whose first change was to overwrite it may have another content    *)
(* (UserAdditionData::setData, removeData, Undo).                          *)
THEOREM TakenBackCorrect == MCSpec => []AffairTakenBack
<1>1. MCInit => DataInv
  BY DataInit DEF MCInit
<1>2. DataInv /\ [MCNext]_<<part, vars, userVars>> => DataInv'
  <2> SUFFICES ASSUME DataInv, [MCNext]_<<part, vars, userVars>> PROVE DataInv'
    OBVIOUS
  <2>1. [User!Next]_userVars
    BY DEF MCNext
  <2> QED
    BY <2>1, DataNext
<1> QED
  BY <1>1, <1>2, DataGives, PTL DEF MCSpec
=============================================================================
