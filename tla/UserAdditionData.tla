-------------------------- MODULE UserAdditionData --------------------------
(***************************************************************************)
(* UserAdditionData (srv_common/userAddtionData.cpp): named data kept for  *)
(* a player, changed inside or outside an affair.  The affair itself is    *)
(* NDAffair, a library class: it logs each change that AffairAdd,          *)
(* AffairModify or AffairDel reports, and Rollback hands the entries to    *)
(* Undo, the last first, each with the operation that takes it back and    *)
(* the node that was reported.                                             *)
(***************************************************************************)
EXTENDS Integers, Sequences, SequencesExt

CONSTANTS
  Name,       \* the names of data
  DataNode,       \* additionDataNode: a type name and a value
  Absent,     \* no node under this name
  MaxLog      \* a bound: changes in one affair

AdditionAssumption == Absent \notin DataNode /\ MaxLog \in Nat

VARIABLES
  m_data_map,
  affair,     \* GetAffairStat()
  log,        \* the changes the affair has to take back, in their order
  rolling,    \* a rollback is under way
  begun,      \* history: m_data_map when the affair began
  first       \* history: the first operation of the affair on each name

vars == <<m_data_map, affair, log, rolling, begun, first>>

Operation == {"EAO_ADD", "EAO_MODIFIED", "EAO_DEL"}
Entry == [op : Operation, name : Name, node : DataNode]
Untouched == [name \in Name |-> "none"]

Init ==
  /\ m_data_map \in [Name -> DataNode \cup {Absent}]
  /\ affair = FALSE /\ log = <<>> /\ rolling = FALSE
  /\ begun = m_data_map /\ first = Untouched

(* AffairAdd, AffairModify and AffairDel: nothing outside an affair.       *)
Report(op, name, node) ==
  IF affair
  THEN /\ log' = Append(log, [op |-> op, name |-> name, node |-> node])
       /\ first' = [first EXCEPT ![name] = IF @ = "none" THEN op ELSE @]
  ELSE UNCHANGED <<log, first>>

(* The owner's calls come before a rollback or after it; the log is bound. *)
Within == ~rolling /\ (affair => Len(log) < MaxLog)

(* Mutation of setData: the node found under the name is reported, also    *)
(* when there is none.                                                     *)
setData_found(name, node) ==
  /\ Within
  /\ Report(IF m_data_map[name] = Absent THEN "EAO_ADD" ELSE "EAO_MODIFIED",
            name, m_data_map[name])
  /\ m_data_map' = [m_data_map EXCEPT ![name] = node]
  /\ UNCHANGED <<affair, rolling, begun>>

(* For a name that is present it reports the node that replaces the old.   *)
setData(name, node) ==
  /\ Within
  /\ \/ m_data_map[name] = Absent /\ Report("EAO_ADD", name, node)
     \/ m_data_map[name] # Absent /\ Report("EAO_MODIFIED", name, node)
  /\ m_data_map' = [m_data_map EXCEPT ![name] = node]
  /\ UNCHANGED <<affair, rolling, begun>>

(* Mutation of removeData: it is not reported.                             *)
removeData_silent(name) ==
  /\ Within
  /\ m_data_map[name] # Absent
  /\ m_data_map' = [m_data_map EXCEPT ![name] = Absent]
  /\ UNCHANGED <<affair, log, rolling, begun, first>>

removeData(name) ==
  /\ Within
  /\ m_data_map[name] # Absent
  /\ Report("EAO_DEL", name, m_data_map[name])
  /\ m_data_map' = [m_data_map EXCEPT ![name] = Absent]
  /\ UNCHANGED <<affair, rolling, begun>>

BeginAffair ==
  /\ ~affair
  /\ affair' = TRUE /\ log' = <<>> /\ begun' = m_data_map /\ first' = Untouched
  /\ UNCHANGED <<m_data_map, rolling>>

CommitAffair ==
  /\ affair /\ ~rolling
  /\ affair' = FALSE /\ log' = <<>> /\ first' = Untouched
  /\ UNCHANGED <<m_data_map, rolling, begun>>

RollbackAffair ==
  /\ affair /\ ~rolling
  /\ rolling' = TRUE
  /\ UNCHANGED <<m_data_map, affair, log, begun, first>>

(* The operation that takes an entry back.                                 *)
UndoOperation(op) ==
  CASE op = "EAO_ADD" -> "EAO_DEL"
    [] op = "EAO_DEL" -> "EAO_ADD"
    [] OTHER -> op

(* Mutation of Undo: an overwritten datum is erased.                       *)
Undo_erase(map, name, old_val, optype) ==
  [map EXCEPT ![name] = IF optype = "EAO_ADD" THEN old_val ELSE Absent]

Undo(map, name, old_val, optype) ==
  [map EXCEPT ![name] = IF optype \in {"EAO_ADD", "EAO_MODIFIED"} THEN old_val
                        ELSE Absent]

(* The last entry that is left is taken back.                              *)
UndoLast ==
  /\ rolling /\ log # <<>>
  /\ LET e == Last(log)
     IN m_data_map' = Undo(m_data_map, e.name, e.node, UndoOperation(e.op))
  /\ log' = Front(log)
  /\ UNCHANGED <<affair, rolling, begun, first>>

RolledBack == rolling /\ log = <<>>

Return ==
  /\ RolledBack
  /\ affair' = FALSE /\ rolling' = FALSE /\ first' = Untouched
  /\ UNCHANGED <<m_data_map, log, begun>>

Next ==
  \/ \E name \in Name, node \in DataNode : setData(name, node)
  \/ \E name \in Name : removeData(name)
  \/ BeginAffair \/ CommitAffair \/ RollbackAffair \/ UndoLast \/ Return

Spec == Init /\ [][Next]_vars

-----------------------------------------------------------------------------
TypeOK ==
  /\ m_data_map \in [Name -> DataNode \cup {Absent}]
  /\ affair \in BOOLEAN /\ log \in Seq(Entry)
  /\ rolling \in BOOLEAN /\ (rolling => affair)
  /\ begun \in [Name -> DataNode \cup {Absent}]
  /\ first \in [Name -> Operation \cup {"none"}]

(* A rollback leaves exactly the names that were there at the begin,       *)
(* whatever was added, overwritten and removed in between, in any order.   *)
NamesRestored ==
  RolledBack => \A name \in Name : m_data_map[name] = Absent <=> begun[name] = Absent

(* A name that the affair added or removed first has its old content after *)
(* a rollback, also when it was overwritten later on.                      *)
AddedOrRemovedRestored ==
  RolledBack => \A name \in Name :
    first[name] = "EAO_MODIFIED" \/ m_data_map[name] = begun[name]

(* "old_val" (the parameter of Undo): what Undo puts back is the old value,*)
(* so a rollback restores every datum.                                     *)
RollbackRestores == RolledBack => m_data_map = begun
=============================================================================
