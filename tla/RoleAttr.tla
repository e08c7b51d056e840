------------------------------ MODULE RoleAttr ------------------------------
(***************************************************************************)
(* RoleAttrAsset (attribute/attr_mgr.cpp): the attributes of a role, their *)
(* limits, the formulas that compute some of them from others, and the     *)
(* affair in which a group of changes is committed or rolled back.         *)
(*                                                                         *)
(* A call works through a buffer of nodes (a single setVal is a buffer of  *)
(* one) and Recalc works through the formulas one by one; each round of    *)
(* either loop is a step here, and nothing runs in between.  Values are    *)
(* integers, in units of at least ATTR_VALUE_DETA; names are resolved and  *)
(* identifiers known; the record kept for getChanged, which this class     *)
(* never reads back, is left out.                                          *)
(***************************************************************************)
EXTENDS Integers, FiniteSets, Sequences

CONSTANTS
  Attr,
  Number,          \* the attributes whose data_type is a number
  ReadOnly,        \* isReadOnly
  Computed,        \* cmd_data.size > 0
  Reads,           \* the attributes a formula reads
  Formula(_, _),   \* what vm_run_cmd returns, given the values read
  m_run_sort,      \* the order that parse_run_sort found
  Column,          \* the texts max_val, min_val and unlimited_max of a row
  MM_NODE_NUMBER,  \* how many attributes one formula may read, 16 in the code
  Val, Rate,       \* the values and the rates explored
  Calls,           \* the calls explored: an operation and the buffer passed
  Loaded           \* the values that setValRaw loaded

Operation == {"set", "add", "sub"}

Text == [kind : {"none"}] \cup [kind : {"number"}, val : Val]
                          \cup [kind : {"attr"}, id : Attr]

ASSUME AttrAssumption ==
  /\ Number \subseteq Attr /\ ReadOnly \subseteq Attr
  /\ Computed \subseteq Number /\ IsFiniteSet(Attr)
  /\ Reads \in [Computed -> SUBSET Number]
  /\ Val \subseteq Int /\ 0 \in Val
  /\ Rate \subseteq Int /\ 1 \in Rate
  /\ MM_NODE_NUMBER \in Nat
  /\ Column \in [Attr -> [max : Text, min : Text, unlimited : Text]]
  /\ Calls \subseteq Operation \X Seq(Attr \X Val)
  /\ Loaded \subseteq [Attr -> Val]

(* What parse_run_sort established (OkIsComplete and NeedsFirst of module  *)
(* RunSort), and formulas that stay within the values explored.            *)
ASSUME FormulaAssumption ==
  /\ m_run_sort \in Seq(Computed)
  /\ \A a \in Computed : \E p \in DOMAIN m_run_sort : m_run_sort[p] = a
  /\ \A p \in DOMAIN m_run_sort :
       /\ \A b \in Reads[m_run_sort[p]] \cap Computed :
            b = m_run_sort[p] \/ \E q \in 1 .. p - 1 : m_run_sort[q] = b
       /\ \A q \in 1 .. p - 1 : m_run_sort[q] # m_run_sort[p]
  /\ \A a \in Computed : \A d \in [Reads[a] -> Val] : Formula(a, d) \in Val

VARIABLES
  datas,
  m_EnableRecalc, m_attrRate,
  todo,         \* the nodes the current call has left, each with its operation
  pos,          \* Recalc: the index in m_run_sort, 0 when it is not running
  ret,          \* what the current or last call returned
  affair,       \* CheckInAffair()
  undo,         \* the oldest value logged for each attribute in the affair
  fresh,        \* history: no call left the formulas behind since Recalc
  begun         \* history: datas and fresh when the affair began

role == <<datas, m_EnableRecalc, m_attrRate>>
vars == <<role, todo, pos, ret, affair, undo, fresh, begun>>

(* parse_minmax.  The unlimited maximum is read from the max_val text; the *)
(* atof of an empty text and of a name is 0.                               *)
MaxLimit(a) == Column[a].max
MinLimit(a) == Column[a].min
UnlimitedMax(a) ==
  IF Column[a].unlimited.kind # "number" THEN Column[a].unlimited
  ELSE [kind |-> "number",
        val  |-> IF Column[a].max.kind = "number" THEN Column[a].max.val ELSE 0]

(* infection_num > 0: the formula of some other attribute names a.         *)
Infects(a) == \E b \in Computed \ {a} : a \in Reads[b]

Bound(limit, d) == IF limit.kind = "attr" THEN d[limit.id] ELSE limit.val

(* The value _set_val stores: cut at the maximum, then at the minimum,     *)
(* where a limit that is an attribute counts with its current value.       *)
Clamp(d, a, v) ==
  LET top == IF MaxLimit(a).kind # "none" /\ v > Bound(MaxLimit(a), d)
             THEN Bound(MaxLimit(a), d) ELSE v
  IN IF MinLimit(a).kind # "none" /\ top < Bound(MinLimit(a), d)
     THEN Bound(MinLimit(a), d) ELSE top

Evaluate(d, a) == Formula(a, [b \in Reads[a] |-> d[b]])

(* vm_run_cmd fails when getMMAddr has no node left.                       *)
CanRun(a) == Cardinality(Reads[a]) <= MM_NODE_NUMBER

checkUnlimitMax(a) ==
  UnlimitedMax(a).kind # "none" /\ datas[a] >= Bound(UnlimitedMax(a), datas)

Idle == todo = <<>> /\ pos = 0

-----------------------------------------------------------------------------
Nothing == [datas |-> [a \in Attr |-> 0], fresh |-> FALSE]

Init ==
  /\ datas \in Loaded
  /\ m_EnableRecalc = FALSE /\ m_attrRate = 1
  /\ todo = <<>> /\ pos = 0 /\ ret = TRUE
  /\ affair = FALSE /\ undo = [a \in {} |-> 0]
  /\ fresh = FALSE /\ begun = Nothing

(* *pdata = v, and AffairModify(a, old value) for the first change of a.   *)
Store(a, v) ==
  /\ datas' = [datas EXCEPT ![a] = v]
  /\ undo' = IF affair /\ a \notin DOMAIN undo
             THEN [b \in DOMAIN undo \cup {a} |-> IF b = a THEN datas[a] ELSE undo[b]]
             ELSE undo

(* Mutation of _set_val: a change inside an affair is not logged when the  *)
(* value was cut.                                                          *)
_set_val_nolog(a, v) ==
  LET new == Clamp(datas, a, v)
  IN \/ new # datas[a] /\ new = v /\ Store(a, new)
     \/ new # datas[a] /\ new # v
          /\ datas' = [datas EXCEPT ![a] = new] /\ UNCHANGED undo
     \/ new = datas[a] /\ UNCHANGED <<datas, undo>>

_set_val(a, v) ==
  LET new == Clamp(datas, a, v)
  IN \/ new # datas[a] /\ Store(a, new)
     \/ new = datas[a] /\ UNCHANGED <<datas, undo>>

(* Mutation of StartRecalc: only an attribute with a formula starts it.    *)
StartRecalc_computed(a) ==
  /\ pos' = IF a \in Computed /\ Infects(a) /\ m_EnableRecalc /\ datas' # datas
            THEN 1 ELSE 0
  /\ fresh' = (fresh /\ (datas' = datas \/ (m_EnableRecalc /\ a \notin Computed)))

(* Recalc follows when the change infects others and recalculation is on.  *)
StartRecalc(a) ==
  /\ pos' = IF Infects(a) /\ m_EnableRecalc /\ datas' # datas THEN 1 ELSE 0
  /\ fresh' = (fresh /\ (datas' = datas \/ (m_EnableRecalc /\ a \notin Computed)))

(* setVal(a, v) when a may be written.                                     *)
Assign(a, v) ==
  \/ a \in Number /\ v # datas[a] /\ _set_val(a, v) /\ StartRecalc(a)
  \/ a \in Number /\ v = datas[a] /\ UNCHANGED <<datas, undo, pos, fresh>>
  \/ a \notin Number /\ Store(a, v) /\ UNCHANGED <<pos, fresh>>

Scaled(v) == v * m_attrRate

(* Mutation of Refused: subVal compares in the wrong order.                *)
Refused_enough(op, a, v) ==
  \/ a \in ReadOnly
  \/ op # "set" /\ a \notin Number
  \/ op = "add" /\ checkUnlimitMax(a)
  \/ op = "sub" /\ v < datas[a]

(* The early returns of setVal, addVal and subVal.  subVal compares the    *)
(* current value with the step before it is scaled.                        *)
Refused(op, a, v) ==
  \/ a \in ReadOnly
  \/ op # "set" /\ a \notin Number
  \/ op = "add" /\ checkUnlimitMax(a)
  \/ op = "sub" /\ datas[a] < v

Target(op, a, v) == CASE op = "add" -> datas[a] + Scaled(v)
                      [] op = "sub" -> datas[a] - Scaled(v)
                      [] OTHER -> v

-----------------------------------------------------------------------------
Call(op, nodes) ==
  /\ Idle /\ nodes # <<>>
  /\ todo' = [n \in DOMAIN nodes |-> <<op, nodes[n][1], nodes[n][2]>>]
  /\ ret' = TRUE
  /\ UNCHANGED <<role, pos, affair, undo, fresh, begun>>

(* The next node of the buffer; the first refusal ends the call.           *)
Refuse(op, a, v) ==
  /\ Refused(op, a, v)
  /\ todo' = <<>> /\ ret' = FALSE
  /\ UNCHANGED <<datas, undo, pos, fresh>>

Accept(op, a, v) ==
  /\ ~Refused(op, a, v)
  /\ Target(op, a, v) \in Val
  /\ Assign(a, Target(op, a, v))
  /\ todo' = Tail(todo)
  /\ UNCHANGED ret

Node(op, a, v) == Refuse(op, a, v) \/ Accept(op, a, v)

NextNode ==
  /\ pos = 0 /\ todo # <<>>
  /\ Node(Head(todo)[1], Head(todo)[2], Head(todo)[3])
  /\ UNCHANGED <<m_EnableRecalc, m_attrRate, affair, begun>>

(* The bound: a call that would leave the values explored is abandoned.    *)
OutOfBound ==
  /\ pos = 0 /\ todo # <<>>
  /\ LET op == Head(todo)[1]
         a  == Head(todo)[2]
         v  == Head(todo)[3]
     IN ~Refused(op, a, v) /\ Target(op, a, v) \notin Val
  /\ todo' = <<>> /\ ret' = FALSE
  /\ UNCHANGED <<role, pos, affair, undo, fresh, begun>>

Recalc ==
  /\ Idle /\ m_EnableRecalc /\ m_run_sort # <<>>
  /\ pos' = 1 /\ ret' = TRUE
  /\ UNCHANGED <<role, todo, affair, undo, fresh, begun>>

(* Mutation of RunFormula: the loop runs to i <= num.                      *)
RunFormula_past ==
  /\ pos > 0
  /\ _set_val(m_run_sort[pos], Evaluate(datas, m_run_sort[pos]))
  /\ pos' = IF pos > Len(m_run_sort) THEN 0 ELSE pos + 1
  /\ UNCHANGED <<m_EnableRecalc, m_attrRate, todo, ret, affair, fresh, begun>>

(* One formula of the loop in Recalc.                                      *)
RunFormula ==
  /\ pos > 0
  /\ LET a == m_run_sort[pos]
     IN IF CanRun(a) THEN _set_val(a, Evaluate(datas, a))
                     ELSE UNCHANGED <<datas, undo>>
  /\ IF pos = Len(m_run_sort) THEN pos' = 0 /\ fresh' = TRUE
                           ELSE pos' = pos + 1 /\ UNCHANGED fresh
  /\ UNCHANGED <<m_EnableRecalc, m_attrRate, todo, ret, affair, begun>>

(* getVal(a, true) brings a read-only attribute up to date by itself.      *)
GetValRecalc(a) ==
  /\ Idle /\ a \in ReadOnly
  /\ IF a \notin Computed THEN _set_val(a, datas[a])
     ELSE IF CanRun(a) THEN _set_val(a, Evaluate(datas, a))
     ELSE UNCHANGED <<datas, undo>>
  /\ fresh' = (fresh /\ datas' = datas)
  /\ UNCHANGED <<m_EnableRecalc, m_attrRate, todo, pos, ret, affair, begun>>

EnableRecalc(flag) ==
  /\ Idle
  /\ m_EnableRecalc' = flag
  /\ UNCHANGED <<datas, m_attrRate, todo, pos, ret, affair, undo, fresh, begun>>

setAttrRate(r) ==
  /\ Idle
  /\ m_attrRate' = r
  /\ UNCHANGED <<datas, m_EnableRecalc, todo, pos, ret, affair, undo, fresh, begun>>

-----------------------------------------------------------------------------
(* The affair of the base class NDAffair, a library class: Begin starts a  *)
(* log, Commit drops it, Rollback calls Undo for its entries, the last     *)
(* first, so that each attribute ends with its oldest entry.               *)
AffairBegin ==
  /\ Idle /\ ~affair
  /\ affair' = TRUE /\ undo' = [a \in {} |-> 0]
  /\ begun' = [datas |-> datas, fresh |-> fresh]
  /\ UNCHANGED <<role, todo, pos, ret, fresh>>

AffairCommit ==
  /\ Idle /\ affair
  /\ affair' = FALSE /\ undo' = [a \in {} |-> 0] /\ begun' = Nothing
  /\ UNCHANGED <<role, todo, pos, ret, fresh>>

Undone == [a \in Attr |-> IF a \in DOMAIN undo THEN undo[a] ELSE datas[a]]

Rollback ==
  /\ Idle /\ affair
  /\ datas' = Undone
  /\ affair' = FALSE /\ undo' = [a \in {} |-> 0]
  /\ fresh' = begun.fresh /\ begun' = Nothing
  /\ UNCHANGED <<m_EnableRecalc, m_attrRate, todo, pos, ret>>

Next ==
  \/ \E call \in Calls : Call(call[1], call[2])
  \/ NextNode \/ OutOfBound \/ Recalc \/ RunFormula
  \/ \E a \in Attr : GetValRecalc(a)
  \/ \E flag \in BOOLEAN : EnableRecalc(flag)
  \/ \E r \in Rate : setAttrRate(r)
  \/ AffairBegin \/ AffairCommit \/ Rollback

Spec == Init /\ [][Next]_vars

-----------------------------------------------------------------------------
TypeOK ==
  /\ datas \in [Attr -> Val]
  /\ m_EnableRecalc \in BOOLEAN /\ m_attrRate \in Rate
  /\ todo \in Seq(Operation \X Attr \X Val)
  /\ pos \in 0 .. Len(m_run_sort)
  /\ ret \in BOOLEAN /\ affair \in BOOLEAN /\ fresh \in BOOLEAN
  /\ DOMAIN undo \subseteq Attr /\ undo \in [DOMAIN undo -> Val]
  /\ begun \in [datas : [Attr -> Val], fresh : BOOLEAN]

(* Whatever the calls of an affair changed, by themselves, through a limit *)
(* or through a formula, rolling it back now would restore every attribute *)
(* to its value at the begin, also after a buffer that stopped half-way.   *)
AffairAtomic == affair => Undone = begun.datas

(* A formula whose attribute is limited by numbers only, that does not     *)
(* read its own attribute, and whose reads fit in the memory nodes.        *)
Settled(a) ==
  /\ MaxLimit(a).kind # "attr" /\ MinLimit(a).kind # "attr"
  /\ a \notin Reads[a] /\ CanRun(a)

Agrees(d, a) == Settled(a) => d[a] = Clamp(d, a, Evaluate(d, a))

(* Once Recalc has run, every computed attribute equals its formula over   *)
(* the current values, through any later setVal, addVal, subVal or         *)
(* rollback, as long as recalculation stays on and the computed attributes *)
(* are not written directly: one pass in the order of m_run_sort is        *)
(* enough, and every change that matters starts it.                        *)
DerivedConsistent ==
  fresh /\ pos = 0 => \A a \in Computed : Agrees(datas, a)

(* subVal answers TRUE only when the whole price was taken, for a price    *)
(* that is not scaled and an attribute that stands within number limits,   *)
(* the minimum not above 0: the check against the current value and the    *)
(* cut at the minimum agree.                                               *)
Payable(a) ==
  /\ MaxLimit(a).kind # "attr" /\ MinLimit(a).kind # "attr"
  /\ MaxLimit(a).kind = "number" => datas[a] <= MaxLimit(a).val
  /\ MinLimit(a).kind = "number" => MinLimit(a).val <= 0

PaidInFull ==
  [][\A a \in Number, v \in Val :
       /\ NextNode /\ Head(todo) = <<"sub", a, v>>
       /\ m_attrRate = 1 /\ v >= 0 /\ Payable(a) /\ ret'
       => datas'[a] = datas[a] - v]_vars

(* "1: the number that was put in" (the comment on isUnlimitedMax):        *)
(* addVal refuses for being too much exactly from that number on.          *)
UnlimitedIsInput ==
  \A a \in Number :
    Column[a].unlimited.kind = "number" =>
      (checkUnlimitMax(a) <=> datas[a] >= Column[a].unlimited.val)
=============================================================================
