------------------------------ MODULE StatHold ------------------------------
(***************************************************************************)
(* Several owners (buffs, items, skills) share one StatMachine: each sets  *)
(* a counted sub-state when it starts and clears it when it ends, and the  *)
(* reference count is to keep the sub-state for as long as anyone needs    *)
(* it.  The history variable `holders` records who does.                   *)
(***************************************************************************)
EXTENDS StatMachine

CONSTANT Owner

ASSUME OwnerAssumption == IsFiniteSet(Owner)

VARIABLE holders

holdVars == <<vars, holders>>

Counted == {s \in NeedCounter \cap State : FieldOf[s] \in BitField}

HoldInit == Init /\ holders = [s \in Counted |-> {}]

(* An owner calls SetByIndex once and ClearByIndex once, in any order with *)
(* the calls of the others.                                                *)
Acquire(o, s) ==
  /\ o \notin holders[s]
  /\ SetByIndex(s)
  /\ holders' = [holders EXCEPT ![s] = @ \cup {o}]

Release(o, s) ==
  /\ o \in holders[s]
  /\ ClearByIndex(s)
  /\ holders' = [holders EXCEPT ![s] = @ \ {o}]

(* Calls about sub-states that nobody counts.                              *)
Plain(s) ==
  /\ s \notin Counted
  /\ SetByIndex(s) \/ ClearByIndex(s)
  /\ UNCHANGED holders

(* ClearField drops the field whatever the counts; its owners are ended    *)
(* with it.                                                                *)
Dispel(f) ==
  /\ ClearField(f)
  /\ holders' = [s \in Counted |-> IF FieldOf[s] = f THEN {} ELSE holders[s]]

HoldNext ==
  \/ \E o \in Owner, s \in Counted : Acquire(o, s) \/ Release(o, s)
  \/ \E s \in State : Plain(s)
  \/ \E f \in Field : Dispel(f)

HoldSpec == HoldInit /\ [][HoldNext]_holdVars

-----------------------------------------------------------------------------
(* The count is the number of holders, in the width of the counter.        *)
HoldTypeOK ==
  /\ holders \in [Counted -> SUBSET Owner]
  /\ \A s \in Counted : m_refcount[s] = Cardinality(holders[s]) % RefMod

(* "This bit has several references and cannot be cleared" (ClearStat): a  *)
(* counted sub-state is active exactly while some owner holds it, whoever  *)
(* of them releases it first.                                              *)
HeldIffActive == \A s \in Counted : s \in m_stbuf <=> holders[s] # {}
=============================================================================
