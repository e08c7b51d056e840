---------------------------- MODULE StatMachine ----------------------------
(***************************************************************************)
(* The role state machine of attribute/stat_machine.cpp.                   *)
(*                                                                         *)
(* A designer's table lists sub-states.  Each belongs to a field (main     *)
(* state) that holds either exactly one of its sub-states (E_OP_VAL) or    *)
(* any set of them (E_OP_BIT).  A sub-state raises some forbids while it   *)
(* is active, and an operation may run only while none of the forbids in   *)
(* its check list is raised.  The machine keeps, beside the active         *)
(* sub-states, three caches: a reference count per sub-state, a counter    *)
(* per forbid and a short list of the sub-states that raised the forbid.   *)
(*                                                                         *)
(* Data kept abstract: the bits of a field are the set of its active       *)
(* sub-states; the slots of m_forbid_changed_list[f] are the set of their  *)
(* occupants, so that where the code reports the first occupied slot the   *)
(* model has a set of candidates.                                          *)
(***************************************************************************)
EXTENDS Integers, FiniteSets, Sequences

CONSTANTS
  StatNum,       \* s_stat_num: sub-states are 0 .. StatNum-1, in table order
  ForbidNum,     \* s_forbid_num
  Field,         \* the main states
  BitField,      \* the fields with s_stat_valbit = E_OP_BIT
  FieldOf,       \* s_stat_index_buf[s][0]
  DefaultStat,   \* the sub-state with value 0 of each E_OP_VAL field
  ForbidList,    \* s_stat_forbid_buf
  NeedCounter,   \* the sub-states with s_stat_need_counter # 0
  Operate,       \* s_operate_names
  OperateCheck,  \* s_operate_check_forbid
  RefMod,        \* the range of the reference count, 256 in the code
  Slots          \* FORBID_CHANGE_TIMES, 8 in the code

State    == 0 .. StatNum - 1
Forbid   == 0 .. ForbidNum - 1
ValField == Field \ BitField

(* What load_stat_info and load_op_info leave in the static tables: the    *)
(* first sub-state of a value field raises no forbid (the loader refuses   *)
(* the table otherwise), a check list may hold the -1 of an unknown name.  *)
ASSUME TableAssumption ==
  /\ StatNum \in Nat
  /\ ForbidNum \in Nat
  /\ BitField \subseteq Field
  /\ FieldOf \in [State -> Field]
  /\ DefaultStat \in [ValField -> State]
  /\ \A f \in ValField : /\ FieldOf[DefaultStat[f]] = f
                         /\ ForbidList[DefaultStat[f]] = {}
  /\ ForbidList \in [State -> SUBSET Forbid]
  /\ OperateCheck \in [Operate -> Seq(Forbid \cup {-1})]
  /\ RefMod \in Nat /\ RefMod > 1
  /\ Slots \in Nat

VARIABLES
  m_stbuf,                \* the active sub-states of all fields
  m_refcount,
  m_forbid_buf,
  m_forbid_changed_list,
  ret                     \* what the last Set or Clear call returned

books == <<m_refcount, m_forbid_buf, m_forbid_changed_list>>
vars  == <<m_stbuf, books, ret>>

Sub(f)     == {s \in State : FieldOf[s] = f}
Value(f)   == m_stbuf \cap Sub(f)
Raising(f) == {s \in State : f \in ForbidList[s]}

(* The k lowest members of S: the loops over the bits of a field start at  *)
(* the lowest bit.                                                         *)
LowestOf(S, k) == {s \in S : Cardinality({t \in S : t < s}) < k}

Books == [refcount |-> m_refcount,
          forbid   |-> m_forbid_buf,
          raisers  |-> m_forbid_changed_list]

SetBooks(b) == /\ m_refcount' = b.refcount
               /\ m_forbid_buf' = b.forbid
               /\ m_forbid_changed_list' = b.raisers

(* Mutation of on_status_set: the list is written past its last slot.      *)
on_status_set_overrun(b, S) ==
  [refcount |-> [s \in State |-> IF s \in S THEN 1 ELSE b.refcount[s]],
   forbid   |-> [f \in Forbid |->
                   b.forbid[f] + Cardinality(S \cap Raising(f))],
   raisers  |-> [f \in Forbid |-> b.raisers[f] \cup (S \cap Raising(f))]]

(* on_status_set: IncForbid for each forbid of each entered sub-state (it  *)
(* takes a slot of the list while one is empty), then refcount = 1.        *)
on_status_set(b, S) ==
  [refcount |-> [s \in State |-> IF s \in S THEN 1 ELSE b.refcount[s]],
   forbid   |-> [f \in Forbid |->
                   b.forbid[f] + Cardinality(S \cap Raising(f))],
   raisers  |-> [f \in Forbid |->
                   b.raisers[f] \cup
                     LowestOf(S \cap Raising(f),
                              Slots - Cardinality(b.raisers[f]))]]

(* Mutation of on_status_clear: the slot of a leaving sub-state is kept.   *)
on_status_clear_keepslot(b, S) ==
  [refcount |-> [s \in State |-> IF s \in S THEN 0 ELSE b.refcount[s]],
   forbid   |-> [f \in Forbid |->
                   b.forbid[f] - Cardinality(LowestOf(S \cap Raising(f), b.forbid[f]))],
   raisers  |-> b.raisers]

(* on_status_clear: DecForbid does nothing for a counter that is 0.        *)
on_status_clear(b, S) ==
  LET dec(f) == LowestOf(S \cap Raising(f), b.forbid[f])
  IN [refcount |-> [s \in State |-> IF s \in S THEN 0 ELSE b.refcount[s]],
      forbid   |-> [f \in Forbid |-> b.forbid[f] - Cardinality(dec(f))],
      raisers  |-> [f \in Forbid |-> b.raisers[f] \ dec(f)]]

(* Mutation of AddReference: s_stat_need_counter is not looked up.         *)
AddReference_uncounted(b, again) ==
  [b EXCEPT !.refcount = [s \in State |-> IF s \in again THEN 1 ELSE @[s]]]

(* SetStat finds the sub-states in `again` active already: one more        *)
(* reference (the count is an unsigned char), or 1 if it is not counted.   *)
AddReference(b, again) ==
  [b EXCEPT !.refcount = [s \in State |->
     IF s \notin again THEN @[s]
     ELSE IF s \in NeedCounter THEN (@[s] + 1) % RefMod ELSE 1]]

DropReference(b, S) ==
  [b EXCEPT !.refcount = [s \in State |->
     IF s \in S THEN (@[s] - 1) % RefMod ELSE @[s]]]

-----------------------------------------------------------------------------
Init ==
  /\ m_stbuf = {DefaultStat[f] : f \in ValField}
  /\ m_refcount = [s \in State |-> 0]
  /\ m_forbid_buf = [f \in Forbid |-> 0]
  /\ m_forbid_changed_list = [f \in Forbid |-> {}]
  /\ ret = TRUE

(* The value branch of SetStat, Replace and ClearStat: the field moves     *)
(* from its value to s, unless it is s already.                            *)
AssignValue(f, s) ==
  /\ m_stbuf' = (m_stbuf \ Value(f)) \cup {s}
  /\ IF Value(f) = {s}
     THEN UNCHANGED books
     ELSE SetBooks(on_status_set(on_status_clear(Books, Value(f)), {s}))

SetBits(V) ==
  LET again == V \cap m_stbuf
  IN /\ m_stbuf' = m_stbuf \cup V
     /\ SetBooks(AddReference(on_status_set(Books, V \ m_stbuf), again))

(* Mutation of ClearBits: the references are dropped but not looked at.    *)
ClearBits_regardless(V) ==
  /\ m_stbuf' = m_stbuf \ V
  /\ SetBooks(on_status_clear(DropReference(Books, V \cap m_stbuf), V \cap m_stbuf))

(* A counted sub-state with references left stays in the field.            *)
ClearBits(V) ==
  LET b    == DropReference(Books, V \cap m_stbuf)
      gone == {s \in V \cap m_stbuf : b.refcount[s] = 0}
  IN /\ m_stbuf' = m_stbuf \ gone
     /\ SetBooks(on_status_clear(b, gone))

SetStat(f, V) ==
  \/ f \in ValField /\ \E s \in V : V = {s} /\ AssignValue(f, s)
  \/ f \in BitField /\ SetBits(V)

ClearStat(f, V) ==
  \/ f \in ValField /\ Value(f) = V /\ AssignValue(f, DefaultStat[f])
  \/ f \in ValField /\ Value(f) # V /\ UNCHANGED <<m_stbuf, books>>
  \/ f \in BitField /\ ClearBits(V)

(* Mutation of ReplaceBits: the bits that stay are left as well.           *)
ReplaceBits_leaveall(f, V) ==
  /\ m_stbuf' = (m_stbuf \ Sub(f)) \cup V
  /\ SetBooks(on_status_clear(on_status_set(Books, V \ Value(f)), Value(f)))

(* The bits of Replace: entered before the others leave, whatever their    *)
(* reference counts.                                                       *)
ReplaceBits(f, V) ==
  /\ m_stbuf' = (m_stbuf \ Sub(f)) \cup V
  /\ SetBooks(on_status_clear(on_status_set(Books, V \ Value(f)),
                              Value(f) \ V))

Replace(f, V) ==
  /\ \/ f \in ValField /\ \E s \in V : V = {s} /\ AssignValue(f, s)
     \/ f \in BitField /\ ReplaceBits(f, V)
  /\ UNCHANGED ret

ClearField(f) == Replace(f, IF f \in BitField THEN {} ELSE {DefaultStat[f]})

(* Mutation of SetByIndex: the field is read before the call.              *)
SetByIndex_early(s) ==
  LET f   == FieldOf[s]
      old == IF f \in ValField THEN Value(f) ELSE Value(f) \cap {s}
  IN /\ SetStat(f, {s})
     /\ ret' = (old # Value(f))

(* Set / SetByIndex compare what SetStat returned (the previous value, for *)
(* a bit field only the requested bits of it) with the whole field.        *)
SetByIndex(s) ==
  LET f   == FieldOf[s]
      old == IF f \in ValField THEN Value(f) ELSE Value(f) \cap {s}
  IN /\ SetStat(f, {s})
     /\ ret' = (old # Value(f)')

(* Clear / ClearByIndex: for a bit field ClearStat returned what it took   *)
(* away.                                                                   *)
ClearByIndex(s) ==
  LET f   == FieldOf[s]
      old == IF f \in ValField THEN Value(f) ELSE Value(f) \ Value(f)'
  IN /\ ClearStat(f, {s})
     /\ ret' = (old # Value(f)')

SetMany(f, V)   == SetStat(f, V) /\ UNCHANGED ret
ClearMany(f, V) == ClearStat(f, V) /\ UNCHANGED ret

Next ==
  \/ \E s \in State : SetByIndex(s)
  \/ \E s \in State : ClearByIndex(s)
  \/ \E f \in BitField, V \in SUBSET State : V \subseteq Sub(f) /\ SetMany(f, V)
  \/ \E f \in BitField, V \in SUBSET State : V \subseteq Sub(f) /\ ClearMany(f, V)
  \/ \E f \in Field, V \in SUBSET State : V \subseteq Sub(f) /\ Replace(f, V)
  \/ \E f \in Field : ClearField(f)

Spec == Init /\ [][Next]_vars

-----------------------------------------------------------------------------
(* The queries of the machine.                                             *)
CheckForbid(f) == f \in Forbid /\ m_forbid_buf[f] > 0

(* Mutation of CheckForbids: the first entry is taken for the length.      *)
CheckForbids_offbyone(fields) ==
  \E k \in DOMAIN fields : k > 1 /\ CheckForbid(fields[k])

CheckForbids(fields) == \E i \in DOMAIN fields : CheckForbid(fields[i])

CheckOperate(op) == ~CheckForbids(OperateCheck[op])

GetForbidReason(f) == IF f \in Forbid THEN m_forbid_changed_list[f] ELSE {}

(* GetUnoperateReason walks p = s_operate_check_forbid[op] from p[0], which *)
(* holds the length of the list, and so never reaches the last entry.      *)
GetUnoperateReason(op) ==
  LET list   == OperateCheck[op]
      p      == [i \in 1 .. Len(list) |-> IF i = 1 THEN Len(list) ELSE list[i - 1]]
      hits   == {i \in DOMAIN p : GetForbidReason(p[i]) # {}}
  IN UNION {GetForbidReason(p[i]) : i \in {h \in hits : \A k \in hits : h <= k}}

(* The active sub-states that raise a forbid which op checks.              *)
Culprits(op) ==
  {s \in m_stbuf : \E i \in DOMAIN OperateCheck[op] :
                      OperateCheck[op][i] \in ForbidList[s]}

-----------------------------------------------------------------------------
(* Types; a value field holds exactly one of its sub-states, and the list  *)
(* of a forbid never has more occupants than slots.                        *)
TypeOK ==
  /\ m_stbuf \subseteq State
  /\ \A f \in ValField : \E s \in State : Value(f) = {s}
  /\ m_refcount \in [State -> 0 .. RefMod - 1]
  /\ m_forbid_buf \in [Forbid -> Nat]
  /\ m_forbid_changed_list \in [Forbid -> SUBSET State]
  /\ \A f \in Forbid : Cardinality(m_forbid_changed_list[f]) <= Slots
  /\ ret \in BOOLEAN

(* The cached counter of a forbid is the number of active sub-states that  *)
(* raise it, after any sequence of Set, Clear and Replace calls on any     *)
(* fields, and whatever the reference counts did.                          *)
ForbidExact ==
  \A f \in Forbid : m_forbid_buf[f] = Cardinality(m_stbuf \cap Raising(f))

(* CheckOperate refuses an operation exactly while some active sub-state   *)
(* raises a forbid of its check list: no forbid outlives the state that    *)
(* raised it, none is lifted while another state still raises it.          *)
OperateExact == \A op \in Operate : CheckOperate(op) <=> Culprits(op) = {}

(* What forbids an operation is known exactly, by the counters and by who  *)
(* asks them.                                                              *)
BlockedExact == ForbidExact /\ OperateExact

(* The list of a forbid names only active sub-states that raise it, and    *)
(* names all of them as long as no more sub-states raise the forbid than   *)
(* the list has slots.                                                     *)
ReasonExact ==
  \A f \in Forbid :
    /\ m_forbid_changed_list[f] \subseteq m_stbuf \cap Raising(f)
    /\ Cardinality(Raising(f)) <= Slots =>
         m_forbid_changed_list[f] = m_stbuf \cap Raising(f)

(* Set and Clear answer FALSE only when the call changed no active state.  *)
(* (The converse fails for bit fields: a repeated Set answers TRUE when    *)
(* other bits of the field are set.)                                       *)
FalseMeansUnchanged ==
  [][\A s \in State :
       (SetByIndex(s) \/ ClearByIndex(s)) /\ ret' = FALSE => UNCHANGED m_stbuf]_vars

(* The comment on GetUnoperateReason, "tells by which state the operation  *)
(* is forbidden": when CheckOperate refuses, the answer is a culprit.      *)
ReasonNamesCulprit ==
  \A op \in Operate :
    ~CheckOperate(op) => /\ GetUnoperateReason(op) # {}
                         /\ GetUnoperateReason(op) \subseteq Culprits(op)
=============================================================================
