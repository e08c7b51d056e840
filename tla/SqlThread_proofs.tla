---------------------------- MODULE SqlThread_proofs ----------------------------
(***************************************************************************)
(* Proofs about the database thread for every number of requests and of    *)
(* connections, every set of statement classes and every order they are    *)
(* created in.  First the connections (DbConn) and that SqlThread uses     *)
(* them as DbConn says, so that it inherits them; then what is done for    *)
(* the requests (SqlInv).                                                  *)
(***************************************************************************)
EXTENDS SqlThread, SequenceTheorems, TLAPS

(* A try is left while there is something to try.  The reader is connected *)
(* only if it is configured, and what waits for a new connection has an    *)
(* old one: so closing and reopening deal with exactly the classes that    *)
(* DatabaseOf assigns to the database.                                     *)
Waiting ==
  /\ pc \in {"try", "reconnect"} => re_times \in 1 .. 3
  /\ ~special => db_handle["reader"] = 0
  /\ pc = "reconnect" => db_handle[TargetDatabase] # 0

IInv == DbTypeOK /\ Waiting /\ StatementsCurrent /\ NoOrphan /\ CrashNeedsFailedReopen

-----------------------------------------------------------------------------
(* Every class and every target belongs to a database.                     *)
LEMMA SomeDatabase ==
  ASSUME DbTypeOK
  PROVE  TargetDatabase \in Database /\ \A m \in Module : DatabaseOf(m) \in Database
<1>1. \A m : DatabaseOf(m) \in Database
  BY DEF DatabaseOf, Database
<1>2. target \in Text => target[2] \in Database
  BY DEF Text
<1> QED
  BY <1>1, <1>2 DEF TargetDatabase

(* On a database that is connected, OnCreate handles its own classes.      *)
LEMMA OwnModules ==
  ASSUME DbTypeOK, Waiting, NEW db \in Database, db_handle[db] # 0,
         NEW m \in Module
  PROVE  m \in ModulesOf(db) <=> DatabaseOf(m) = db
BY ModuleAssumption DEF DbTypeOK, Waiting, Database, ModulesOf, DatabaseOf

(* Nothing is connected before Create, which connects every class.         *)
LEMMA CreateKeeps ==
  ASSUME IInv, Create
  PROVE  IInv'
<1> DEFINE number(db) == IF special /\ db = "main" THEN 2 ELSE 1
           used == IF special THEN Database ELSE {"main"}
<1> USE DEF Create
<1>1. opens' \in 1 .. MaxOpen /\ \A db : number(db) \in 1 .. MaxOpen /\ number(db) # 0
  BY MaxOpenAssumption
<1>2. \A m \in Module : DatabaseOf(m) \in used /\ DatabaseOf(m) \in Database
  BY DEF DatabaseOf, Database
<1>3. /\ db_handle' = [db \in Database |-> IF db \in used THEN number(db) ELSE 0]
      /\ module' = [m \in Module |-> number(DatabaseOf(m))]
      /\ prepared' = {<<m, number(DatabaseOf(m))>> : m \in Module}
      /\ special' = special /\ m_bReallocSTMT' = m_bReallocSTMT
      /\ pc' = "idle" /\ target' = target /\ re_times' = re_times
  OBVIOUS
<1>4. \A m : DatabaseOf(m)' = DatabaseOf(m)
  BY <1>3 DEF DatabaseOf
<1> HIDE DEF number, used, Create
<1>5. prepared' \subseteq Object
  BY <1>1, <1>3 DEF Object
<1>6. DbTypeOK'
  BY <1>1, <1>3, <1>5, MaxOpenAssumption DEF IInv, DbTypeOK
<1>7. StatementsCurrent'
  BY <1>2, <1>3, <1>4 DEF StatementsCurrent
<1>8. NoOrphan'
  BY <1>3 DEF NoOrphan
<1>9. Waiting'
  <2>1. ~special => "reader" \notin used
    BY DEF used
  <2> QED
    BY <2>1, <1>3 DEF Waiting, Database
<1> QED
  BY <1>3, <1>6, <1>7, <1>8, <1>9 DEF IInv, CrashNeedsFailedReopen

(* Steps that only move the thread on.                                     *)
LEMMA ExecutionKeeps ==
  ASSUME IInv, UNCHANGED connection,
         pc' \in {"idle", "try", "ok", "failed", "exited"},
         target' \in Object \cup Text \cup {NoTarget}, re_times' \in 0 .. 3,
         pc' = "try" => re_times' \in 1 .. 3
  PROVE  IInv'
<1>1. \A m : DatabaseOf(m)' = DatabaseOf(m)
  BY DEF DatabaseOf, connection
<1>2. Object' = Object /\ Text' = Text
  BY DEF Object, Text
<1>3. DbTypeOK'
  BY <1>2 DEF IInv, DbTypeOK, connection, Dead
<1>4. StatementsCurrent' /\ NoOrphan'
  BY <1>1 DEF IInv, StatementsCurrent, NoOrphan, connection
<1>5. Waiting' /\ CrashNeedsFailedReopen'
  BY DEF IInv, Waiting, CrashNeedsFailedReopen, connection
<1> QED
  BY <1>3, <1>4, <1>5 DEF IInv

(* The object is there, or its database has lost its connection.           *)
LEMMA StmtExecuteKeeps ==
  ASSUME IInv, NEW m \in Module, StmtExecute(m)
  PROVE  IInv'
<1>1. CASE module[m] = 0
  <2>1. db_handle[DatabaseOf(m)] = 0
    BY <1>1 DEF IInv, StatementsCurrent
  <2>2. pc' = "crashed" /\ UNCHANGED <<connection, target, re_times>>
    BY <1>1 DEF StmtExecute
  <2>3. \A x : DatabaseOf(x)' = DatabaseOf(x)
    BY <2>2 DEF DatabaseOf, connection
  <2>4. DbTypeOK'
    BY <2>2 DEF IInv, DbTypeOK, connection, Dead, Object, Text
  <2>5. StatementsCurrent' /\ NoOrphan'
    BY <2>2, <2>3 DEF IInv, StatementsCurrent, NoOrphan, connection
  <2>6. Waiting' /\ CrashNeedsFailedReopen'
    BY <2>1, <2>2, <2>3 DEF IInv, Waiting, CrashNeedsFailedReopen, connection
  <2> QED
    BY <2>4, <2>5, <2>6 DEF IInv
<1>2. CASE module[m] # 0
  <2>1. module[m] \in 1 .. MaxOpen
    BY <1>2, MaxOpenAssumption DEF IInv, DbTypeOK
  <2> QED
    BY <1>2, <2>1, ExecutionKeeps DEF StmtExecute, Object
<1> QED
  BY <1>1, <1>2

(* A lost server is asked for a new connection only with the old one open. *)
LEMMA ExecuteKeeps ==
  ASSUME IInv, NEW answer \in {"done", "error", "lost"}, Execute(answer)
  PROVE  IInv'
<1>1. CASE answer # "lost"
  <2>1. pc' \in {"ok", "failed"} /\ UNCHANGED <<connection, target, re_times>>
    BY <1>1 DEF Execute
  <2> QED
    BY <2>1, ExecutionKeeps DEF IInv, DbTypeOK
<1>2. CASE answer = "lost"
  <2>1. /\ UNCHANGED <<connection, target>> /\ re_times' = re_times - 1
        /\ pc = "try" /\ ~Unusable
        /\ pc' = IF re_times' > 0 THEN "reconnect" ELSE "failed"
    BY <1>2 DEF Execute
  <2>2. re_times \in 1 .. 3
    BY <2>1 DEF IInv, Waiting
  <2>3. re_times' \in 0 .. 3 /\ (re_times' > 0 => re_times' \in 1 .. 3)
    BY <2>1, <2>2
  <2>4. CASE pc' = "failed"
    BY <2>1, <2>3, <2>4, ExecutionKeeps DEF IInv, DbTypeOK
  <2>5. CASE pc' = "reconnect"
    <3>1. re_times' \in 1 .. 3
      BY <2>1, <2>3, <2>5
    <3>2. \A m : DatabaseOf(m)' = DatabaseOf(m)
      BY <2>1 DEF DatabaseOf, connection
    <3>3. db_handle[TargetDatabase] # 0
      <4>1. CASE target \in Text
        BY <4>1, <2>1 DEF Unusable, TargetDatabase
      <4>2. CASE target \notin Text
        <5>1. target \in prepared /\ target[2] = db_handle[TargetDatabase]
          BY <4>2, <2>1 DEF Unusable
        <5>2. target[2] \in 1 .. MaxOpen
          BY <5>1 DEF IInv, DbTypeOK, Object
        <5> QED
          BY <5>1, <5>2, MaxOpenAssumption
      <4> QED
        BY <4>1, <4>2
    <3>4. TargetDatabase' = TargetDatabase /\ db_handle' = db_handle
      BY <2>1 DEF TargetDatabase, DatabaseOf, connection, Text
    <3>5. DbTypeOK'
      BY <2>1, <2>3, <2>5 DEF IInv, DbTypeOK, connection, Object, Text
    <3>6. StatementsCurrent' /\ NoOrphan'
      BY <2>1, <3>2 DEF IInv, StatementsCurrent, NoOrphan, connection
    <3>7. Waiting' /\ CrashNeedsFailedReopen'
      BY <2>1, <2>5, <3>1, <3>3, <3>4 DEF IInv, Waiting, CrashNeedsFailedReopen, connection
    <3> QED
      BY <3>5, <3>6, <3>7 DEF IInv
  <2> QED
    BY <2>1, <2>4, <2>5
<1> QED
  BY <1>1, <1>2

-----------------------------------------------------------------------------
(* The database that gets no new connection.                               *)
LEMMA CannotReopenKeeps ==
  ASSUME IInv, NEW db \in Database, db = TargetDatabase, pc = "reconnect",
         CannotReopen(db), UNCHANGED <<special, m_bReallocSTMT, target, re_times>>
  PROVE  IInv'
<1>1. /\ db_handle' = [db_handle EXCEPT ![db] = 0]
      /\ prepared' = Closed(db) /\ pc' = "failed"
      /\ opens' = opens /\ module' = module
  BY DEF CannotReopen
<1>2. \A m : DatabaseOf(m)' = DatabaseOf(m)
  BY DEF DatabaseOf
<1>3. prepared' \subseteq prepared
  BY <1>1 DEF Closed
<1>4. DbTypeOK'
  BY <1>1, <1>3, MaxOpenAssumption DEF IInv, DbTypeOK, Object, Text
<1>5. StatementsCurrent'
  <2> SUFFICES ASSUME NEW m \in Module, db_handle'[DatabaseOf(m)] # 0
               PROVE  module'[m] = db_handle'[DatabaseOf(m)] /\ <<m, module'[m]>> \in prepared'
    BY <1>2 DEF StatementsCurrent
  <2>1. DatabaseOf(m) \in Database
    BY SomeDatabase DEF IInv
  <2>2. DatabaseOf(m) # db /\ db_handle'[DatabaseOf(m)] = db_handle[DatabaseOf(m)]
    BY <1>1, <2>1 DEF IInv, DbTypeOK
  <2>3. module[m] = db_handle[DatabaseOf(m)] /\ <<m, module[m]>> \in prepared
    BY <2>2 DEF IInv, StatementsCurrent
  <2>4. m \notin ModulesOf(db)
    BY <2>2, OwnModules DEF IInv, Waiting
  <2> QED
    BY <1>1, <2>2, <2>3, <2>4 DEF Closed
<1>6. NoOrphan'
  BY <1>1, <1>3 DEF IInv, NoOrphan
<1>7. Waiting' /\ CrashNeedsFailedReopen'
  BY <1>1 DEF IInv, DbTypeOK, Waiting, CrashNeedsFailedReopen, Database
<1> QED
  BY <1>4, <1>5, <1>6, <1>7 DEF IInv

(* The server accepts, and OnCreate comes as far as it comes.              *)
LEMMA ReopenKeeps ==
  ASSUME IInv, NEW db \in Database, db = TargetDatabase, pc = "reconnect",
         NEW fails \in SUBSET ModulesOf(db), Reopen(db, fails),
         UNCHANGED <<special, m_bReallocSTMT, target, re_times>>
  PROVE  IInv'
<1>1. PICK made : made = {m \in ModulesOf(db) : \A f \in fails : Rank[m] < Rank[f]}
  OBVIOUS
<1>2. /\ opens < MaxOpen /\ opens' = opens + 1
      /\ db_handle' = [db_handle EXCEPT ![db] = IF fails = {} THEN opens' ELSE 0]
      /\ module' = [m \in Module |-> IF m \in made THEN opens'
                                     ELSE IF m \in fails THEN 0 ELSE module[m]]
      /\ prepared' = Closed(db) \cup {<<m, opens'>> : m \in made}
      /\ pc' = IF fails = {} THEN "try" ELSE "failed"
  BY <1>1 DEF Reopen
<1>3. opens' \in 1 .. MaxOpen /\ 0 \in 0 .. MaxOpen /\ opens' \in 0 .. MaxOpen
  BY <1>2, MaxOpenAssumption DEF IInv, DbTypeOK
<1>4. db_handle[db] # 0 /\ re_times \in 1 .. 3
  BY DEF IInv, Waiting
<1>5. \A m \in Module : m \in ModulesOf(db) <=> DatabaseOf(m) = db
  BY <1>4, OwnModules DEF IInv
<1>6. ModulesOf(db) \subseteq Module
  BY ModuleAssumption DEF ModulesOf
<1>7. made \subseteq ModulesOf(db) /\ (fails = {} => made = ModulesOf(db))
  BY <1>1
<1>8. \A m : DatabaseOf(m)' = DatabaseOf(m)
  BY DEF DatabaseOf
<1>9. DbTypeOK'
  <2>1. prepared' \subseteq Object
    BY <1>2, <1>3, <1>6, <1>7 DEF IInv, DbTypeOK, Closed, Object
  <2>2. db_handle' \in [Database -> 0 .. MaxOpen] /\ module' \in [Module -> 0 .. MaxOpen]
    BY <1>2, <1>3 DEF IInv, DbTypeOK
  <2> QED
    BY <1>2, <1>3, <2>1, <2>2 DEF IInv, DbTypeOK, Object, Text
<1>10. StatementsCurrent'
  <2> SUFFICES ASSUME NEW m \in Module, db_handle'[DatabaseOf(m)] # 0
               PROVE  module'[m] = db_handle'[DatabaseOf(m)] /\ <<m, module'[m]>> \in prepared'
    BY <1>8 DEF StatementsCurrent
  <2>1. DatabaseOf(m) \in Database
    BY SomeDatabase DEF IInv
  <2>2. CASE DatabaseOf(m) = db
    <3>1. fails = {} /\ db_handle'[DatabaseOf(m)] = opens'
      BY <1>2, <2>2 DEF IInv, DbTypeOK
    <3>2. m \in made
      BY <1>5, <1>7, <2>2, <3>1
    <3> QED
      BY <1>2, <3>1, <3>2
  <2>3. CASE DatabaseOf(m) # db
    <3>1. db_handle'[DatabaseOf(m)] = db_handle[DatabaseOf(m)]
      BY <1>2, <2>1, <2>3 DEF IInv, DbTypeOK
    <3>2. module[m] = db_handle[DatabaseOf(m)] /\ <<m, module[m]>> \in prepared
      BY <3>1 DEF IInv, StatementsCurrent
    <3>3. m \notin ModulesOf(db)
      BY <1>5, <2>3
    <3>4. m \notin made /\ m \notin fails
      BY <1>7, <3>3
    <3>5. module'[m] = module[m] /\ <<m, module[m]>> \in prepared'
      BY <1>2, <3>2, <3>3, <3>4 DEF Closed
    <3> QED
      BY <3>1, <3>2, <3>5
  <2> QED
    BY <2>2, <2>3
<1>11. NoOrphan'
  <2> SUFFICES ASSUME NEW m \in Module, NEW n \in 1 .. MaxOpen, <<m, n>> \in prepared'
               PROVE  n = module'[m]
    BY DEF NoOrphan
  <2>1. CASE m \in made /\ n = opens'
    BY <1>2, <2>1
  <2>2. CASE ~(m \in made /\ n = opens')
    <3>1. <<m, n>> \in Closed(db)
      BY <1>2, <2>2
    <3>2. n = module[m]
      BY <3>1 DEF Closed, IInv, NoOrphan
    <3>3. m \notin ModulesOf(db)
      BY <3>1, <3>2 DEF Closed
    <3> QED
      BY <1>2, <1>7, <3>2, <3>3
  <2> QED
    BY <2>1, <2>2
<1>12. Waiting' /\ CrashNeedsFailedReopen'
  <2>1. pc' \in {"try", "failed"}
    BY <1>2
  <2>2. ~special => db # "reader"
    BY <1>4 DEF IInv, Waiting
  <2> QED
    BY <1>2, <1>4, <2>1, <2>2 DEF IInv, DbTypeOK, Waiting, CrashNeedsFailedReopen, Database
<1> QED
  BY <1>9, <1>10, <1>11, <1>12 DEF IInv

(* Objects of a database without connection are left alone.                *)
LEMMA DestroyKeeps ==
  ASSUME IInv, Destroy
  PROVE  IInv'
<1>1. PICK open : open = {m \in Module : db_handle[DatabaseOf(m)] # 0}
  OBVIOUS
<1>2. /\ pc' = "closed" /\ m_bReallocSTMT' = (db_handle["main"] # 0)
      /\ prepared' = prepared \ {<<m, module[m]>> : m \in open}
      /\ module' = [m \in Module |-> IF m \in open /\ m_bReallocSTMT' THEN 0 ELSE module[m]]
      /\ db_handle' = [db \in Database |-> 0]
      /\ UNCHANGED <<special, opens, target, re_times>>
  BY <1>1 DEF Destroy
<1>3. \A m : DatabaseOf(m)' = DatabaseOf(m) /\ DatabaseOf(m) \in Database
  BY <1>2 DEF DatabaseOf, Database
<1>4. DbTypeOK'
  BY <1>2, MaxOpenAssumption DEF IInv, DbTypeOK, Dead, Object, Text
<1>5. StatementsCurrent'
  BY <1>2, <1>3 DEF StatementsCurrent
<1>6. NoOrphan'
  <2> SUFFICES ASSUME NEW m \in Module, NEW n \in 1 .. MaxOpen, <<m, n>> \in prepared'
               PROVE  n = module'[m]
    BY DEF NoOrphan
  <2>1. n = module[m]
    BY <1>2 DEF IInv, NoOrphan
  <2>2. m \notin open
    BY <1>2, <2>1
  <2> QED
    BY <1>2, <2>1, <2>2
<1>7. Waiting' /\ CrashNeedsFailedReopen'
  BY <1>2 DEF IInv, Waiting, CrashNeedsFailedReopen, Database
<1> QED
  BY <1>4, <1>5, <1>6, <1>7 DEF IInv

-----------------------------------------------------------------------------
(* Nothing is connected at first.                                          *)
LEMMA InitInv == DbInit => IInv
<1> SUFFICES ASSUME DbInit
             PROVE  IInv
  OBVIOUS
<1>1. DbTypeOK
  <2>1. 0 \in 0 .. MaxOpen /\ 0 \in 0 .. 3
    BY MaxOpenAssumption
  <2>2. special \in BOOLEAN /\ m_bReallocSTMT \in BOOLEAN
    BY DEF DbInit
  <2>3. /\ opens = 0 /\ re_times = 0 /\ prepared = {} /\ pc = "off" /\ target = NoTarget
        /\ db_handle = [db \in Database |-> 0] /\ module = [m \in Module |-> 0]
    BY DEF DbInit
  <2>4. db_handle \in [Database -> 0 .. MaxOpen] /\ module \in [Module -> 0 .. MaxOpen]
    BY <2>1, <2>3
  <2> QED
    BY <2>1, <2>2, <2>3, <2>4 DEF DbTypeOK
<1>2. StatementsCurrent
  <2>1. \A m \in Module : DatabaseOf(m) \in Database
    BY DEF DatabaseOf, Database
  <2> QED
    BY <2>1 DEF DbInit, StatementsCurrent
<1>3. Waiting /\ NoOrphan /\ CrashNeedsFailedReopen
  BY DEF DbInit, Waiting, NoOrphan, CrashNeedsFailedReopen, Database
<1> QED
  BY <1>1, <1>2, <1>3 DEF IInv

(* Every step of the connections keeps the invariant.                      *)
LEMMA StepInv == IInv /\ [DbNext]_dbVars => IInv'
<1> SUFFICES ASSUME IInv, [DbNext]_dbVars
             PROVE  IInv'
  OBVIOUS
<1>1. CASE Create
  BY <1>1, CreateKeeps
<1>2. CASE CannotCreate \/ Refuse
  BY <1>2, ExecutionKeeps DEF CannotCreate, Refuse, IInv, DbTypeOK
<1>3. CASE Destroy
  BY <1>3, DestroyKeeps
<1>4. ASSUME NEW m \in Module, StmtExecute(m)
      PROVE  IInv'
  BY <1>4, StmtExecuteKeeps
<1>5. ASSUME NEW db \in Database, SqlExecute(db)
      PROVE  IInv'
  <2>1. <<"text", db>> \in Text
    BY DEF Text
  <2> QED
    BY <1>5, <2>1, ExecutionKeeps DEF SqlExecute
<1>6. ASSUME NEW answer \in {"done", "error", "lost"}, Execute(answer)
      PROVE  IInv'
  BY <1>6, ExecuteKeeps
<1>7. CASE Reconnect
  <2>1. PICK db \in Database : db = TargetDatabase
    BY SomeDatabase DEF IInv
  <2>2. pc = "reconnect" /\ UNCHANGED <<special, m_bReallocSTMT, target, re_times>>
    BY <1>7 DEF Reconnect
  <2>3. CannotReopen(db) \/ \E fails \in SUBSET ModulesOf(db) : Reopen(db, fails)
    BY <1>7, <2>1 DEF Reconnect
  <2> QED
    BY <2>1, <2>2, <2>3, CannotReopenKeeps, ReopenKeeps
<1>8. CASE Return
  BY <1>8, ExecutionKeeps DEF Return
<1>9. CASE UNCHANGED dbVars
  BY <1>9 DEF dbVars, connection, execution, IInv, DbTypeOK, Waiting, StatementsCurrent,
     NoOrphan, CrashNeedsFailedReopen, DatabaseOf, TargetDatabase, Object, Text
<1> QED
  BY <1>1, <1>2, <1>3, <1>4, <1>5, <1>6, <1>7, <1>8, <1>9 DEF DbNext

(* The connections satisfy the invariant whoever uses them.                *)
THEOREM DbCorrect == DbSpec => []IInv
BY InitInv, StepInv, PTL DEF DbSpec

-----------------------------------------------------------------------------
(* What waits for the database thread was asked for.                       *)
Queued == requests \in Seq(Request) /\ toSql \in Seq(1 .. Len(requests))

(* So the thread works on a request of a known kind.                       *)
LEMMA CurrentIsRequest ==
  ASSUME Queued, Working
  PROVE  Current \in Request /\ Current.kind \in Kind
<1>1. Head(toSql) \in 1 .. Len(requests)
  BY DEF Queued, Working
<1>2. Current \in Request
  BY <1>1 DEF Queued, Current
<1> QED
  BY <1>2 DEF Request, Kind, RowKind

(* Requests are added at the end and taken from the front.                 *)
LEMMA QueuedStep == Queued /\ [Next]_vars => Queued'
<1> SUFFICES ASSUME Queued, [Next]_vars
             PROVE  Queued'
  OBVIOUS
<1>1. ASSUME NEW request \in Request, Ask(request)
      PROVE  Queued'
  <2>1. /\ requests' = Append(requests, request)
        /\ toSql' = Append(toSql, Len(requests'))
    BY <1>1 DEF Ask
  <2>2. requests' \in Seq(Request) /\ Len(requests') = Len(requests) + 1
    BY <2>1 DEF Queued
  <2>3. Len(requests) \in Nat
    BY DEF Queued
  <2>4. /\ 1 .. Len(requests) \subseteq 1 .. Len(requests')
        /\ Len(requests') \in 1 .. Len(requests')
    BY <2>2, <2>3
  <2>5. toSql \in Seq(1 .. Len(requests'))
    <3>1. toSql \in Seq(1 .. Len(requests))
      BY DEF Queued
    <3> QED
      BY <2>4, <3>1, SeqMonotonic
  <2> QED
    BY <2>1, <2>2, <2>4, <2>5 DEF Queued
<1>2. CASE Ignore \/ Finish
  <2>1. requests' = requests /\ toSql' = Tail(toSql) /\ toSql # <<>>
    BY <1>2 DEF Ignore, Finish, Working
  <2> QED
    BY <2>1 DEF Queued
<1>3. CASE \/ Open \/ Start \/ Stop \/ Handle \/ Done \/ Error \/ Lost \/ Retry \/ Deliver
           \/ UNCHANGED vars
  <2>1. requests' = requests /\ toSql' = toSql
    BY <1>3 DEF Open, Start, Stop, Handle, Done, Error, Lost, Retry, Deliver, vars, queues
  <2> QED
    BY <2>1 DEF Queued
<1>4. ASSUME NEW n \in Name, Replicate(n)
      PROVE  Queued'
  BY <1>4 DEF Replicate, queues, Queued
<1> QED
  BY <1>1, <1>2, <1>3, <1>4 DEF Next, DatabaseStep

(* What a step of the threads does to the connections.                     *)
LEMMA StepUses ==
  ASSUME Queued, [Next]_vars
  PROVE  [DbNext]_dbVars
<1>1. CASE Open \/ Stop
  BY <1>1 DEF Open, Stop, DbNext
<1>2. CASE Start \/ Ignore \/ Deliver \/ UNCHANGED vars
  BY <1>2 DEF Start, Ignore, Deliver, vars
<1>3. ASSUME NEW request \in Request, Ask(request)
      PROVE  UNCHANGED dbVars
  BY <1>3 DEF Ask
<1>4. ASSUME NEW n \in Name, Replicate(n)
      PROVE  UNCHANGED dbVars
  BY <1>4 DEF Replicate
<1>5. CASE Handle
  <2>1. CASE Current.kind \in TextKind
    <3>1. DatabaseFor(Current.kind) \in Database
      BY DEF DatabaseFor, Database
    <3> QED
      BY <1>5, <2>1, <3>1 DEF Handle, DbNext
  <2>2. CASE Current.kind \notin TextKind
    <3>1. Current.kind \in Statement
      BY <1>5, <2>2, CurrentIsRequest DEF Handle, Statement
    <3>2. ModuleFor[Current.kind] \in Module
      BY <3>1, ModuleForAssumption
    <3> QED
      BY <1>5, <2>2, <3>2 DEF Handle, DbNext
  <2> QED
    BY <2>1, <2>2
<1>6. CASE Done \/ Error \/ Lost
  <2>1. \E answer \in {"done", "error", "lost"} : Execute(answer)
    BY <1>6 DEF Done, Error, Lost
  <2> QED
    BY <2>1 DEF DbNext
<1>7. CASE Retry \/ Finish
  BY <1>7 DEF Retry, Finish, DbNext
<1> QED
  BY <1>1, <1>2, <1>3, <1>4, <1>5, <1>6, <1>7 DEF Next, DatabaseStep

(* Whatever the two threads, their queues and the servers do, the          *)
(* connections are used as DbConn says: SqlThread implements it.           *)
THEOREM UsesConnections == Spec => DbSpec
<1>1. Init => DbInit /\ Queued
  BY DEF Init, Queued
<1> QED
  BY <1>1, QueuedStep, StepUses, PTL DEF Spec, DbSpec

(* While a database is connected, every class it serves has its object,    *)
(* with a statement of this connection, in the server that SqlThread is.   *)
THEOREM StatementsCurrentCorrect == Spec => []StatementsCurrent
BY UsesConnections, DbCorrect, PTL DEF IInv

(* No statement stays open in an object that a reconnection abandoned.     *)
THEOREM NoOrphanCorrect == Spec => []NoOrphan
BY UsesConnections, DbCorrect, PTL DEF IInv

(* A null pointer is followed only after a reconnection has failed.        *)
THEOREM CrashCorrect == Spec => []CrashNeedsFailedReopen
BY UsesConnections, DbCorrect, PTL DEF IInv
(* All three.                                                              *)
THEOREM ConnectionsCorrect == Spec => []ConnectionsSound
<1>1. StatementsCurrent /\ NoOrphan /\ CrashNeedsFailedReopen => ConnectionsSound
  BY DEF ConnectionsSound
<1> QED
  BY <1>1, StatementsCurrentCorrect, NoOrphanCorrect, CrashCorrect, PTL

-----------------------------------------------------------------------------
(* The requests that the database thread is through with.                  *)
Handled == Len(requests) - Len(toSql)

UnderWay == pc \in {"try", "reconnect", "ok", "failed"}

(* The queue is the rest of the requests, in order, and before the threads *)
(* start there are only the owner's own calls, which nobody else answers.  *)
QueueInv ==
  /\ requests \in Seq(Request) /\ Len(requests) <= MaxRequest
  /\ toSql \in Seq(Nat) /\ Len(toSql) <= Len(requests)
  /\ \A i \in 1 .. Len(toSql) : toSql[i] = Handled + i
  /\ started \in BOOLEAN
  /\ ~started => toNet = <<>> /\ \A id \in 1 .. Len(requests) : requests[id].kind \in RowKind

(* A statement that can be tried has done nothing yet: its connection is   *)
(* the one it was made on, which it was not after a reconnection.  A text  *)
(* has been tried as often as its tries are fewer.                         *)
TryInv ==
  /\ \A db \in Database : db_handle[db] <= opens
  /\ UnderWay =>
       /\ Working /\ ~Nameless
       /\ Current.kind \in TextKind =>
            /\ target \in Text
            /\ pc \in {"try", "reconnect"} => applied[Handled + 1] <= 3 - re_times
       /\ Current.kind \notin TextKind =>
            /\ target \in Object
            /\ pc = "try" /\ target[2] = db_handle[TargetDatabase] => applied[Handled + 1] = 0
            /\ pc = "reconnect" => target[2] = db_handle[TargetDatabase]
            /\ pc = "ok" => applied[Handled + 1] = 1

(* Nothing was done for a request before its turn, and at most once by a   *)
(* statement.                                                              *)
AppliedInv ==
  /\ applied \in [Id -> 0 .. 3]
  /\ \A id \in Id : id > Handled + 1 => applied[id] = 0
  /\ ~UnderWay => \A id \in Id : id > Handled => applied[id] = 0
  /\ \A id \in 1 .. Len(requests) : requests[id].kind \notin TextKind => applied[id] <= 1

(* Every answer is to another request that was handled, and true.          *)
AnswerRecord == [id : Nat, kind : Kind, ok : BOOLEAN, row : 0 .. MaxRequest]
AnswerInv ==
  /\ answers \in Seq(AnswerRecord) /\ toNet \in Seq(AnswerRecord)
  /\ Len(Told) <= Handled
  /\ \A k \in 1 .. Len(Told) :
       /\ Told[k].id \in 1 .. Handled /\ Told[k].kind = requests[Told[k].id].kind
       /\ Told[k].ok => applied[Told[k].id] = 1

(* A row holds the last write to it, and the reader's some write.          *)
LastOf(r, W) == r \in W /\ \A w \in W : w <= r
Written(n) == WritesBefore(Len(requests) + 1, n)
RowsInv ==
  /\ table \in [Name -> 0 .. MaxRequest] /\ replica \in [Name -> 0 .. MaxRequest]
  /\ \A n \in Name :
       /\ IF table[n] = 0 THEN Written(n) = {} ELSE LastOf(table[n], Written(n))
       /\ replica[n] = 0 \/ replica[n] \in Written(n)

(* What a load sees, and when it has answered, has answered with: a write  *)
(* before it, the last one if there is no reader, and none that is newer   *)
(* than the row is now.                                                    *)
Source(n) == IF special THEN replica[n] ELSE table[n]
Seen(id, n, r) ==
  /\ n \in Name /\ r \in WritesBefore(id, n) /\ r <= Source(n)
  /\ ~special => LastOf(r, WritesBefore(id, n))
LoadsRight ==
  \A k \in Loads :
    /\ Seen(Told[k].id, NameTold(k), Told[k].row)
    /\ \A j \in Loads : j < k /\ NameTold(j) = NameTold(k) => Told[j].row <= Told[k].row
FoundRight ==
  pc = "ok" /\ Current.kind = "load" =>
    /\ Seen(Handled + 1, Current.name, found)
    /\ \A k \in Loads : NameTold(k) = Current.name => Told[k].row <= found
LoadInv == found \in 0 .. MaxRequest /\ LoadsRight /\ FoundRight

SqlInv == QueueInv /\ TryInv /\ AppliedInv /\ AnswerInv /\ RowsInv /\ LoadInv

-----------------------------------------------------------------------------
(* The request the database thread works on is the next one.               *)
LEMMA CurrentFacts ==
  ASSUME QueueInv, Working
  PROVE  /\ Handled \in Nat /\ Handled + 1 \in 1 .. Len(requests) /\ Handled + 1 \in Id
         /\ Head(toSql) = Handled + 1 /\ Current = requests[Handled + 1]
         /\ Current \in Request /\ Current.kind \in Kind
         /\ ~Nameless /\ Current.kind \in RowKind => Current.name \in Name
<1>1. Len(toSql) \in Nat \ {0} /\ Len(requests) \in Nat /\ Head(toSql) = toSql[1]
  BY DEF QueueInv, Working
<1>2. Handled \in Nat /\ Handled + 1 \in 1 .. Len(requests)
  BY <1>1 DEF QueueInv, Handled
<1>3. Head(toSql) = Handled + 1
  BY <1>1 DEF QueueInv
<1>4. Handled + 1 \in Id
  BY <1>2, MaxRequestAssumption DEF QueueInv, Id
<1>5. Current = requests[Handled + 1] /\ Current \in Request
  BY <1>2, <1>3 DEF QueueInv, Current
<1>6. Current.kind \in Kind /\ (Current.kind \in RowKind => Current.name \in Name \cup {NoName})
  BY <1>5 DEF Request, Kind, RowKind
<1> QED
  BY <1>2, <1>3, <1>4, <1>5, <1>6 DEF Nameless

(* An object is no text.                                                   *)
LEMMA ObjectNoText == \A t \in Object : t \notin Text
BY ModuleAssumption DEF Object, Text

(* What is known of the writes before a request depends on what was asked  *)
(* and done before it only.                                                *)
LEMMA WritesStable ==
  ASSUME NEW id \in Nat, NEW n,
         \A w \in 1 .. id - 1 : requests'[w] = requests[w] /\ applied'[w] = applied[w]
  PROVE  WritesBefore(id, n)' = WritesBefore(id, n)
BY DEF WritesBefore

(* The history of answers is a sequence of records.                        *)
LEMMA ToldType ==
  ASSUME AnswerInv
  PROVE  /\ Told \in Seq(AnswerRecord) /\ Len(Told) = Len(answers) + Len(toNet)
         /\ DOMAIN Told = 1 .. Len(Told) /\ Len(Told) \in Nat
         /\ \A k \in 1 .. Len(Told) : Told[k] \in AnswerRecord
<1>1. answers \in Seq(AnswerRecord) /\ toNet \in Seq(AnswerRecord)
  BY DEF AnswerInv
<1>2. Told \in Seq(AnswerRecord) /\ Len(Told) = Len(answers) + Len(toNet)
  BY <1>1, ConcatProperties DEF Told
<1> QED
  BY <1>2

(* The successful loads that have answered stay right as long as the       *)
(* answers are the same, what was handled stays, and no row that they can  *)
(* have seen gets an older content.                                        *)
LEMMA LoadsKept ==
  ASSUME AnswerInv, LoadsRight, Told' = Told, special' = special, Handled \in Nat,
         \A w \in 1 .. Handled : requests'[w] = requests[w] /\ applied'[w] = applied[w],
         \A n \in Name : Source(n) \in Nat /\ Source(n)' \in Nat /\ Source(n) <= Source(n)'
  PROVE  LoadsRight' /\ Loads' = Loads /\ \A k \in Loads : NameTold(k)' = NameTold(k)
<1>1. Loads' = Loads /\ Loads \subseteq 1 .. Len(Told)
  BY ToldType DEF Loads
<1>2. ASSUME NEW k \in Loads
      PROVE  /\ Told[k].id \in 1 .. Handled /\ Told[k].row \in Nat
             /\ NameTold(k)' = NameTold(k)
             /\ WritesBefore(Told[k].id, NameTold(k))' = WritesBefore(Told[k].id, NameTold(k))
  <2>1. Told[k].id \in 1 .. Handled
    BY <1>1 DEF AnswerInv
  <2>2. Told[k].row \in Nat
    BY <1>1, ToldType, MaxRequestAssumption DEF AnswerRecord
  <2>3. NameTold(k)' = NameTold(k)
    BY <2>1 DEF NameTold
  <2>4. PICK id, n : id = Told[k].id /\ n = NameTold(k)
    OBVIOUS
  <2>5. WritesBefore(id, n)' = WritesBefore(id, n)
    BY <2>1, <2>4, WritesStable
  <2> QED
    BY <2>1, <2>2, <2>3, <2>4, <2>5
<1>3. ASSUME NEW k \in Loads
      PROVE  Seen(Told[k].id, NameTold(k), Told[k].row)'
  <2>1. Seen(Told[k].id, NameTold(k), Told[k].row)
    BY <1>3 DEF LoadsRight
  <2>2. Told[k].row <= Source(NameTold(k))'
    BY <1>2, <2>1 DEF Seen
  <2> QED
    BY <1>2, <2>1, <2>2 DEF Seen
<1> QED
  BY <1>1, <1>2, <1>3 DEF LoadsRight

(* A write that was done has had its turn.                                 *)
LEMMA WrittenFacts ==
  ASSUME QueueInv, AppliedInv, NEW n
  PROVE  /\ Handled \in Nat /\ Len(requests) \in Nat
         /\ \A w : w \in Written(n) <=>
              /\ w \in 1 .. Len(requests) /\ requests[w].kind \in {"create", "save"}
              /\ requests[w].name = n /\ applied[w] > 0
         /\ \A w \in Written(n) : w \in Id /\ w <= Handled + 1
<1>1. Len(requests) \in Nat /\ Len(toSql) \in Nat /\ Handled \in Nat
  BY DEF QueueInv, Handled
<1>2. 1 .. (Len(requests) + 1) - 1 = 1 .. Len(requests)
  BY <1>1
<1>3. \A w : w \in Written(n) <=>
              /\ w \in 1 .. Len(requests) /\ requests[w].kind \in {"create", "save"}
              /\ requests[w].name = n /\ applied[w] > 0
  BY <1>2 DEF Written, WritesBefore
<1>4. ASSUME NEW w \in Written(n)
      PROVE  w \in Id /\ w <= Handled + 1
  <2>1. w \in Id
    BY <1>1, <1>3, MaxRequestAssumption DEF QueueInv, Id
  <2>2. applied[w] # 0
    BY <1>3, <2>1 DEF AppliedInv
  <2> QED
    BY <1>1, <2>1, <2>2 DEF AppliedInv, Id
<1> QED
  BY <1>1, <1>3, <1>4

(* Where a load reads.                                                     *)
LEMMA SourceType ==
  ASSUME RowsInv, NEW n \in Name
  PROVE  Source(n) \in 0 .. MaxRequest /\ Source(n) \in Nat
BY MaxRequestAssumption DEF RowsInv, Source

(* Steps of the connections that leave the queue and the rows alone.       *)
LEMMA QuietKeeps ==
  ASSUME SqlInv, UNCHANGED <<queues, rows>>, special' = special, TryInv',
         UnderWay => UnderWay', pc' = "ok" => pc = "ok"
  PROVE  SqlInv'
<1> USE DEF queues, rows
<1>1. QueueInv'
  BY DEF SqlInv, QueueInv, Handled
<1>2. AppliedInv'
  BY DEF SqlInv, AppliedInv, Handled
<1>3. AnswerInv'
  BY DEF SqlInv, AnswerInv, Told, Handled
<1>4. RowsInv'
  BY DEF SqlInv, RowsInv, LastOf, Written, WritesBefore
<1>5. LoadInv'
  <2>1. \A n : Source(n)' = Source(n)
    BY DEF Source
  <2>2. \A id, n, r : Seen(id, n, r)' <=> Seen(id, n, r)
    BY <2>1 DEF Seen, WritesBefore, LastOf
  <2>3. Told' = Told /\ Loads' = Loads /\ (\A k : NameTold(k)' = NameTold(k))
    BY DEF Told, Loads, NameTold
  <2>4. Handled' = Handled /\ Current' = Current
    BY DEF Handled, Current
  <2>5. LoadsRight'
    BY <2>2, <2>3 DEF SqlInv, LoadInv, LoadsRight
  <2>6. FoundRight'
    BY <2>2, <2>3, <2>4 DEF SqlInv, LoadInv, FoundRight
  <2> QED
    BY <2>5, <2>6 DEF SqlInv, LoadInv
<1> QED
  BY <1>1, <1>2, <1>3, <1>4, <1>5 DEF SqlInv

(* No connection has a number that was not given yet.                      *)
Bounded == \A db \in Database : db_handle[db] <= opens
LEMMA BoundedStep ==
  ASSUME IInv, Bounded, [DbNext]_dbVars
  PROVE  Bounded'
<1> USE DEF Bounded, connection
<1>1. CASE Create
  BY <1>1 DEF Create, Database
<1>2. CASE Destroy
  BY <1>2 DEF Destroy, IInv, DbTypeOK
<1>3. CASE Reconnect
  <2>1. PICK db \in Database : db = TargetDatabase
    BY SomeDatabase DEF IInv
  <2>2. opens \in Nat /\ db_handle \in [Database -> Nat]
    BY MaxOpenAssumption DEF IInv, DbTypeOK
  <2>3. CASE CannotReopen(db)
    BY <2>2, <2>3 DEF CannotReopen
  <2>4. ASSUME NEW fails, Reopen(db, fails)
        PROVE  Bounded'
    BY <2>2, <2>4 DEF Reopen
  <2> QED
    BY <1>3, <2>1, <2>3, <2>4 DEF Reconnect
<1>4. CASE UNCHANGED connection
  BY <1>4
<1>5. CASE \/ CannotCreate \/ Refuse \/ Return \/ UNCHANGED dbVars
           \/ \E m \in Module : StmtExecute(m)
           \/ \E db \in Database : SqlExecute(db)
           \/ \E answer \in {"done", "error", "lost"} : Execute(answer)
  BY <1>4, <1>5 DEF CannotCreate, Refuse, Return, StmtExecute, SqlExecute, Execute, dbVars
<1> QED
  BY <1>1, <1>2, <1>3, <1>5 DEF DbNext

(* A try begins with nothing done.                                         *)
LEMMA HandleKeeps ==
  ASSUME IInv, IInv', SqlInv, Handle, Bounded'
  PROVE  SqlInv'
<1>1. Working /\ ~Nameless /\ UNCHANGED <<queues, rows>>
  BY DEF Handle
<1>2. pc = "idle" /\ special' = special
  BY DEF Handle, SqlExecute, StmtExecute, connection
<1>3. applied'[Handled' + 1] = 0 /\ Handled' = Handled
  <2>1. ~UnderWay
    BY <1>2 DEF UnderWay
  <2>2. Handled \in Nat /\ Handled + 1 \in Id
    BY <1>1, CurrentFacts DEF SqlInv
  <2> QED
    BY <1>1, <2>1, <2>2 DEF SqlInv, AppliedInv, rows, queues, Handled
<1>4. Working' /\ ~Nameless' /\ Current' = Current
  BY <1>1 DEF queues, Working, Nameless, Current
<1>5. TryInv'
  <2>1. CASE Current.kind \in TextKind
    <3>1. DatabaseFor(Current.kind) \in Database
      BY DEF DatabaseFor, Database
    <3>2. pc' = "try" /\ target' \in Text /\ re_times' = 3
      BY <2>1, <3>1 DEF Handle, SqlExecute, Text
    <3>3. Text' = Text
      BY DEF Text
    <3> QED
      BY <1>3, <1>4, <2>1, <3>2, <3>3 DEF TryInv, Bounded
  <2>2. CASE Current.kind \notin TextKind
    <3>1. StmtExecute(ModuleFor[Current.kind])
      BY <2>2 DEF Handle
    <3>2. CASE pc' = "crashed"
      BY <3>2 DEF TryInv, Bounded, UnderWay
    <3>3. CASE pc' # "crashed"
      <4>1. pc' = "try" /\ target' = <<ModuleFor[Current.kind], module[ModuleFor[Current.kind]]>>
            /\ module[ModuleFor[Current.kind]] # 0
        BY <3>1, <3>3 DEF StmtExecute
      <4>2. ModuleFor[Current.kind] \in Module
        BY <1>1, <2>2, CurrentFacts, ModuleForAssumption DEF SqlInv, Statement
      <4>3. target' \in Object
        BY <4>1, <4>2, MaxOpenAssumption DEF Object, IInv, DbTypeOK
      <4>4. Object' = Object
        BY DEF Object
      <4> QED
        BY <1>3, <1>4, <2>2, <4>1, <4>3, <4>4 DEF TryInv, Bounded
    <3> QED
      BY <3>2, <3>3
  <2> QED
    BY <2>1, <2>2
<1> QED
  <2>1. UnderWay => UnderWay'
    BY <1>2 DEF UnderWay
  <2>2. pc' # "ok"
    BY DEF Handle, SqlExecute, StmtExecute
  <2> QED
    BY <1>1, <1>2, <1>5, <2>1, <2>2, QuietKeeps

(* A failed try, a try that is refused and a reconnection.                 *)
LEMMA RetryKeeps ==
  ASSUME IInv, SqlInv, Error \/ Retry, Bounded'
  PROVE  SqlInv'
<1>1. UNCHANGED <<queues, rows>> /\ pc \in {"try", "reconnect"} /\ target' = target
      /\ special' = special
  BY DEF Error, Retry, Refuse, Reconnect, Execute, connection
<1>2. Working /\ ~Nameless /\ UnderWay
  BY <1>1 DEF SqlInv, TryInv, UnderWay
<1>3. Working' /\ ~Nameless' /\ Current' = Current /\ Handled' = Handled /\ applied' = applied
  BY <1>1, <1>2 DEF queues, rows, Working, Nameless, Current, Handled
<1>4. Text' = Text /\ Object' = Object /\ TargetDatabase' = TargetDatabase
  BY <1>1 DEF Text, Object, TargetDatabase, DatabaseOf
<1>5. CASE pc' = "failed"
  <2>1. TryInv'
    BY <1>1, <1>2, <1>3, <1>4, <1>5 DEF SqlInv, TryInv, Bounded
  <2> QED
    BY <1>1, <1>5, <2>1, QuietKeeps DEF UnderWay
<1>6. CASE pc' # "failed"
  <2>1. PICK db \in Database : db = TargetDatabase
    BY SomeDatabase DEF IInv
  <2>2. pc = "reconnect" /\ Reopen(db, {}) /\ re_times' = re_times
    BY <1>6, <2>1 DEF Error, Retry, Refuse, Reconnect, Execute, CannotReopen, Reopen
  <2>3. pc' = "try" /\ db_handle'[db] = opens + 1
    BY <2>2 DEF Reopen, IInv, DbTypeOK
  <2>4. db_handle[db] <= opens /\ opens \in Nat /\ db_handle[db] \in Nat
    BY MaxOpenAssumption DEF SqlInv, TryInv, IInv, DbTypeOK
  <2>5. Current.kind \notin TextKind => target'[2] # db_handle'[TargetDatabase']
    BY <1>1, <1>2, <1>4, <2>1, <2>2, <2>3, <2>4 DEF SqlInv, TryInv
  <2>6. TryInv'
    BY <1>1, <1>2, <1>3, <1>4, <2>2, <2>3, <2>5 DEF SqlInv, TryInv, Bounded
  <2> QED
    BY <1>1, <2>3, <2>6, QuietKeeps DEF UnderWay
<1> QED
  BY <1>5, <1>6

-----------------------------------------------------------------------------
(* The steps of the queue.                                                 *)
LEMMA AskKeeps ==
  ASSUME SqlInv, NEW request \in Request, Ask(request)
  PROVE  SqlInv'
<1> DEFINE last == Len(requests) + 1
<1>1. /\ requests \in Seq(Request) /\ toSql \in Seq(Nat) /\ Len(requests) \in Nat
      /\ Len(toSql) \in Nat /\ Len(toSql) <= Len(requests) /\ last \in 1 .. MaxRequest
  BY MaxRequestAssumption DEF SqlInv, QueueInv, Ask
<1>2. /\ requests' = Append(requests, request) /\ toSql' = Append(toSql, Len(requests'))
      /\ UNCHANGED <<dbVars, rows, started, toNet, answers>>
      /\ started \/ request.kind \in RowKind
  BY DEF Ask
<1>3. /\ requests' \in Seq(Request) /\ Len(requests') = last /\ requests'[last] = request
      /\ \A w \in 1 .. Len(requests) : requests'[w] = requests[w]
      /\ toSql' \in Seq(Nat) /\ Len(toSql') = Len(toSql) + 1 /\ toSql'[Len(toSql) + 1] = last
      /\ \A i \in 1 .. Len(toSql) : toSql'[i] = toSql[i]
  BY <1>1, <1>2
<1>4. Handled' = Handled /\ Handled \in Nat /\ Handled <= Len(requests) /\ Working'
  BY <1>1, <1>3 DEF Handled, Working
<1>5. QueueInv'
  <2>1. ASSUME NEW i \in 1 .. Len(toSql')
        PROVE  toSql'[i] = Handled' + i
    <3>1. CASE i \in 1 .. Len(toSql)
      BY <1>3, <1>4, <3>1 DEF SqlInv, QueueInv
    <3>2. CASE i = Len(toSql) + 1
      BY <1>1, <1>3, <1>4, <3>2 DEF Handled
    <3> QED
      BY <1>1, <1>3, <3>1, <3>2
  <2>2. started' = started /\ toNet' = toNet
    BY <1>2
  <2> QED
    BY <1>1, <1>2, <1>3, <2>1, <2>2 DEF SqlInv, QueueInv
<1>6. Working => Current' = Current /\ (Nameless' <=> Nameless)
  <2> SUFFICES ASSUME Working PROVE Current' = Current /\ (Nameless' <=> Nameless)
    OBVIOUS
  <2>1. Head(toSql') = Head(toSql) /\ Head(toSql) \in 1 .. Len(requests)
    BY <1>1, <1>3, CurrentFacts DEF SqlInv, Working
  <2>2. Current' = Current
    BY <1>3, <2>1 DEF Current
  <2> QED
    BY <2>2 DEF Nameless
<1>7. /\ pc' = pc /\ target' = target /\ re_times' = re_times /\ db_handle' = db_handle
      /\ opens' = opens /\ special' = special /\ applied' = applied
      /\ table' = table /\ replica' = replica /\ found' = found
  BY <1>2 DEF dbVars, connection, execution, rows
<1>8. UnderWay' <=> UnderWay
  BY <1>7 DEF UnderWay
<1>9. TryInv'
  <2>1. UnderWay => Working
    BY DEF SqlInv, TryInv
  <2>2. Text' = Text /\ Object' = Object /\ TargetDatabase' = TargetDatabase
    BY <1>7 DEF Text, Object, TargetDatabase, DatabaseOf
  <2> QED
    BY <1>4, <1>6, <1>7, <1>8, <2>1, <2>2 DEF SqlInv, TryInv
<1>10. applied[last] = 0
  <2>1. last \in Id /\ last > Handled
    BY <1>1, <1>4 DEF Id
  <2>2. CASE UnderWay
    <3>1. Working
      BY <2>2 DEF SqlInv, TryInv
    <3>2. last > Handled + 1
      BY <1>4, <3>1, CurrentFacts DEF SqlInv
    <3> QED
      BY <2>1, <3>2 DEF SqlInv, AppliedInv
  <2> QED
    BY <2>1, <2>2 DEF SqlInv, AppliedInv
<1>11. AppliedInv'
  <2>1. ASSUME NEW id \in 1 .. Len(requests'), requests'[id].kind \notin TextKind
        PROVE  applied'[id] <= 1
    <3>1. CASE id \in 1 .. Len(requests)
      BY <1>3, <1>7, <2>1, <3>1 DEF SqlInv, AppliedInv
    <3>2. CASE id = last
      BY <1>7, <1>10, <3>2
    <3> QED
      BY <1>1, <1>3, <3>1, <3>2
  <2> QED
    BY <1>4, <1>7, <1>8, <2>1 DEF SqlInv, AppliedInv, Id
<1>12. Told' = Told
  BY <1>2 DEF Told
<1>13. AnswerInv'
  <2>1. answers' = answers /\ toNet' = toNet
    BY <1>2
  <2>2. ASSUME NEW k \in 1 .. Len(Told)
        PROVE  /\ Told[k].id \in 1 .. Handled
               /\ Told[k].kind = requests'[Told[k].id].kind
               /\ Told[k].ok => applied'[Told[k].id] = 1
    <3>1. /\ Told[k].id \in 1 .. Handled /\ Told[k].kind = requests[Told[k].id].kind
          /\ Told[k].ok => applied[Told[k].id] = 1
      BY DEF SqlInv, AnswerInv
    <3>2. Told[k].id \in 1 .. Len(requests)
      BY <1>1, <1>4, <3>1 DEF SqlInv, QueueInv, Handled
    <3> QED
      BY <1>3, <1>7, <3>1, <3>2
  <2> QED
    BY <1>4, <1>12, <2>1, <2>2 DEF SqlInv, AnswerInv
<1>14. \A n : Written(n)' = Written(n)
  <2> SUFFICES ASSUME NEW n PROVE Written(n)' = Written(n)
    OBVIOUS
  <2>1. \A w : w \in Written(n)' <=> w \in Written(n)
    BY <1>1, <1>3, <1>5, <1>7, <1>10, <1>11, WrittenFacts DEF SqlInv, Written, WritesBefore
  <2> QED
    BY <2>1
<1>15. RowsInv'
  BY <1>7, <1>14 DEF SqlInv, RowsInv, LastOf
<1>16. LoadInv'
  <2>1. \A n \in Name : Source(n) \in Nat /\ Source(n)' = Source(n)
    BY <1>7, SourceType DEF SqlInv, Source
  <2>2. LoadsRight' /\ Loads' = Loads /\ \A k \in Loads : NameTold(k)' = NameTold(k)
    BY <1>1, <1>3, <1>4, <1>7, <1>12, <2>1, LoadsKept DEF SqlInv, LoadInv
  <2>3. FoundRight'
    <3> SUFFICES ASSUME pc = "ok", Current'.kind = "load"
                 PROVE  /\ Seen(Handled + 1, Current.name, found)'
                        /\ \A k \in Loads : NameTold(k) = Current.name => Told[k].row <= found
      BY <1>4, <1>6, <1>7, <1>12, <2>2 DEF FoundRight, SqlInv, TryInv, UnderWay
    <3>1. Working /\ Current' = Current
      BY <1>6 DEF SqlInv, TryInv, UnderWay
    <3>2. /\ Seen(Handled + 1, Current.name, found)
          /\ \A k \in Loads : NameTold(k) = Current.name => Told[k].row <= found
      BY <3>1 DEF SqlInv, LoadInv, FoundRight
    <3>3. WritesBefore(Handled + 1, Current.name)' = WritesBefore(Handled + 1, Current.name)
      <4>1. PICK id, n : id = Handled + 1 /\ n = Current.name
        OBVIOUS
      <4>2. WritesBefore(id, n)' = WritesBefore(id, n)
        BY <1>3, <1>4, <1>7, <4>1, WritesStable
      <4> QED
        BY <1>4, <3>1, <4>1, <4>2
    <3>4. Seen(Handled + 1, Current.name, found)'
      BY <1>4, <1>7, <2>1, <3>1, <3>2, <3>3 DEF Seen
    <3> QED
      BY <3>2, <3>4
  <2> QED
    BY <1>7, <2>2, <2>3 DEF SqlInv, LoadInv
<1> QED
  BY <1>5, <1>9, <1>11, <1>13, <1>15, <1>16 DEF SqlInv

LEMMA StartKeeps ==
  ASSUME SqlInv, Start
  PROVE  SqlInv'
<1>1. /\ pc = "idle" /\ started' = TRUE
      /\ UNCHANGED <<dbVars, rows, requests, toSql, toNet, answers>>
  BY DEF Start
<1>2. pc' = pc /\ db_handle' = db_handle /\ opens' = opens /\ special' = special
  BY <1>1 DEF dbVars, connection, execution
<1>3. QueueInv' /\ TryInv' /\ AppliedInv' /\ AnswerInv'
  BY <1>1, <1>2 DEF SqlInv, QueueInv, TryInv, AppliedInv, AnswerInv, Handled, UnderWay, Told, rows
<1>4. RowsInv'
  BY <1>1 DEF SqlInv, RowsInv, LastOf, Written, WritesBefore, rows
<1>5. LoadInv'
  <2>1. \A n \in Name : Source(n) \in Nat /\ Source(n)' = Source(n)
    BY <1>1, <1>2, SourceType DEF SqlInv, Source, rows
  <2>2. Handled \in Nat
    BY DEF SqlInv, QueueInv, Handled
  <2>3. Told' = Told
    BY <1>1 DEF Told
  <2>4. LoadsRight'
    BY <1>1, <1>2, <2>1, <2>2, <2>3, LoadsKept DEF SqlInv, LoadInv, rows
  <2> QED
    BY <1>1, <1>2, <2>4 DEF SqlInv, LoadInv, FoundRight, rows
<1> QED
  BY <1>3, <1>4, <1>5 DEF SqlInv

LEMMA IgnoreKeeps ==
  ASSUME SqlInv, Ignore
  PROVE  SqlInv'
<1>1. /\ pc = "idle" /\ Working /\ toSql' = Tail(toSql)
      /\ UNCHANGED <<dbVars, rows, started, requests, toNet, answers>>
  BY DEF Ignore
<1>2. pc' = pc /\ db_handle' = db_handle /\ opens' = opens /\ special' = special
  BY <1>1 DEF dbVars, connection, execution
<1>3. QueueInv' /\ Handled' = Handled + 1 /\ Handled \in Nat
  <2>1. /\ toSql \in Seq(Nat) /\ toSql # <<>> /\ requests \in Seq(Request)
    BY <1>1 DEF SqlInv, QueueInv, Working
  <2>2. /\ toSql' \in Seq(Nat) /\ Len(toSql') = Len(toSql) - 1 /\ Len(toSql) \in Nat
        /\ \A i \in 1 .. Len(toSql') : toSql'[i] = toSql[i + 1]
    BY <1>1, <2>1
  <2>3. Handled' = Handled + 1 /\ Handled \in Nat
    BY <1>1, <2>1, <2>2, CurrentFacts DEF SqlInv, Handled
  <2>4. \A i \in 1 .. Len(toSql') : toSql'[i] = Handled' + i
    BY <2>2, <2>3 DEF SqlInv, QueueInv
  <2> QED
    BY <1>1, <2>1, <2>2, <2>3, <2>4 DEF SqlInv, QueueInv
<1>4. TryInv' /\ AppliedInv'
  BY <1>1, <1>2, <1>3 DEF SqlInv, TryInv, AppliedInv, UnderWay, rows, Id
<1>5. Told' = Told
  BY <1>1 DEF Told
<1>6. AnswerInv'
  BY <1>1, <1>3, <1>5, ToldType DEF SqlInv, AnswerInv, rows
<1>7. RowsInv'
  BY <1>1 DEF SqlInv, RowsInv, LastOf, Written, WritesBefore, rows
<1>8. LoadInv'
  <2>1. \A n \in Name : Source(n) \in Nat /\ Source(n)' = Source(n)
    BY <1>1, <1>2, SourceType DEF SqlInv, Source, rows
  <2>2. LoadsRight'
    BY <1>1, <1>2, <1>3, <1>5, <2>1, LoadsKept DEF SqlInv, LoadInv, rows
  <2> QED
    BY <1>1, <1>2, <2>2 DEF SqlInv, LoadInv, FoundRight, rows
<1> QED
  BY <1>3, <1>4, <1>6, <1>7, <1>8 DEF SqlInv

-----------------------------------------------------------------------------
(* What the server does for a request is done for the request under way,   *)
(* and was not done before by a statement.                                 *)
LEMMA ApplyKeeps ==
  ASSUME IInv, SqlInv, pc = "try", ~Unusable, Apply,
         UNCHANGED <<queues, special>>, UnderWay'
  PROVE  /\ QueueInv' /\ AppliedInv' /\ AnswerInv' /\ RowsInv' /\ LoadsRight'
         /\ Loads' = Loads /\ (\A k \in Loads : NameTold(k)' = NameTold(k))
         /\ applied'[Handled + 1] = applied[Handled + 1] + 1
         /\ Current.kind \notin TextKind => applied[Handled + 1] = 0
<1> DEFINE c == Handled + 1
<1>1. Working /\ ~Nameless /\ UnderWay
  BY DEF SqlInv, TryInv, UnderWay
<1>2. /\ Handled \in Nat /\ c \in 1 .. Len(requests) /\ c \in Id /\ Head(toSql) = c
      /\ Current = requests[c] /\ Current.kind \in Kind
      /\ Current.kind \in RowKind => Current.name \in Name
  BY <1>1, CurrentFacts DEF SqlInv
<1>3. /\ applied' = [applied EXCEPT ![c] = @ + 1] /\ replica' = replica
      /\ table' = IF Current.kind \in {"create", "save"}
                  THEN [table EXCEPT ![Current.name] = c] ELSE table
  BY <1>2 DEF Apply
<1>4. applied \in [Id -> 0 .. 3] /\ applied[c] \in 0 .. 3
  BY <1>2 DEF SqlInv, AppliedInv
<1>5. applied'[c] = applied[c] + 1 /\ \A id \in Id : id # c => applied'[id] = applied[id]
  BY <1>2, <1>3, <1>4
<1>6. Current.kind \notin TextKind => applied[c] = 0
  <2> SUFFICES ASSUME Current.kind \notin TextKind PROVE applied[c] = 0
    OBVIOUS
  <2>1. target \notin Text
    BY <1>1, ObjectNoText DEF SqlInv, TryInv
  <2>2. target[2] = db_handle[TargetDatabase]
    BY <2>1 DEF Unusable
  <2> QED
    BY <1>1, <2>2 DEF SqlInv, TryInv
<1>7. applied'[c] \in 0 .. 3
  <2>1. CASE Current.kind \in TextKind
    <3>1. re_times \in 1 .. 3 /\ applied[c] <= 3 - re_times
      BY <1>1, <2>1 DEF IInv, Waiting, SqlInv, TryInv
    <3> QED
      BY <1>4, <1>5, <3>1
  <2> QED
    BY <1>5, <1>6, <2>1
<1>8. UNCHANGED <<started, requests, toSql, toNet, answers>> /\ Handled' = Handled
      /\ Told' = Told /\ special' = special
  BY DEF queues, Handled, Told
<1>9. QueueInv'
  BY <1>8 DEF SqlInv, QueueInv
<1>10. AppliedInv'
  <2>1. applied' \in [Id -> 0 .. 3]
    BY <1>3, <1>4, <1>5, <1>7
  <2>2. ASSUME NEW id \in 1 .. Len(requests), requests[id].kind \notin TextKind
        PROVE  applied'[id] <= 1
    <3>1. id \in Id
      BY MaxRequestAssumption DEF SqlInv, QueueInv, Id
    <3> QED
      BY <1>2, <1>5, <1>6, <2>2, <3>1 DEF SqlInv, AppliedInv
  <2>3. \A id \in Id : id > Handled + 1 => applied'[id] = 0
    BY <1>2, <1>5 DEF SqlInv, AppliedInv, Id
  <2> QED
    BY <1>8, <2>1, <2>2, <2>3 DEF AppliedInv, Id
<1>11. \A w \in 1 .. Handled : w \in Id /\ requests'[w] = requests[w] /\ applied'[w] = applied[w]
  BY <1>2, <1>5, <1>8, MaxRequestAssumption DEF Id
<1>12. AnswerInv'
  BY <1>8, <1>11, ToldType DEF SqlInv, AnswerInv
<1>13. ASSUME NEW n \in Name
       PROVE  /\ table'[n] \in 0 .. MaxRequest /\ table[n] <= table'[n]
              /\ Written(n) \subseteq Written(n)'
              /\ IF table'[n] = 0 THEN Written(n)' = {} ELSE LastOf(table'[n], Written(n)')
  <2>1. \A w : w \in Written(n)' <=>
               /\ w \in 1 .. Len(requests) /\ requests[w].kind \in {"create", "save"}
               /\ requests[w].name = n /\ applied'[w] > 0
    <3>1. Len(requests) \in Nat
      BY WrittenFacts DEF SqlInv
    <3> QED
      BY <1>8, <3>1 DEF Written, WritesBefore
  <2>2. /\ \A w : w \in Written(n) <=>
               /\ w \in 1 .. Len(requests) /\ requests[w].kind \in {"create", "save"}
               /\ requests[w].name = n /\ applied[w] > 0
        /\ \A w \in Written(n) : w \in Id /\ w <= c
    BY WrittenFacts DEF SqlInv
  <2>3. table[n] \in 0 .. MaxRequest /\ (table[n] # 0 => table[n] \in Written(n))
        /\ (table[n] = 0 => Written(n) = {})
    BY DEF SqlInv, RowsInv, LastOf
  <2>4. \A w \in 1 .. Len(requests) : w \in Id
    BY <1>8, <1>9, MaxRequestAssumption DEF QueueInv, Id
  <2>5. CASE Current.kind \in {"create", "save"} /\ Current.name = n
    <3>1. table'[n] = c
      BY <1>2, <1>3, <2>5 DEF SqlInv, RowsInv
    <3>2. Written(n)' = Written(n) \cup {c}
      BY <1>2, <1>4, <1>5, <2>1, <2>2, <2>4, <2>5
    <3>3. c \in 1 .. MaxRequest
      BY <1>2 DEF Id
    <3>4. table[n] <= c
      BY <2>2, <2>3, <3>3, MaxRequestAssumption
    <3>5. LastOf(c, Written(n)')
      BY <2>2, <3>2, <3>3, MaxRequestAssumption DEF LastOf, Id
    <3> QED
      BY <3>1, <3>2, <3>3, <3>4, <3>5, MaxRequestAssumption
  <2>6. CASE ~(Current.kind \in {"create", "save"} /\ Current.name = n)
    <3>1. table'[n] = table[n]
      BY <1>3, <2>6 DEF SqlInv, RowsInv
    <3>2. Written(n)' = Written(n)
      BY <1>2, <1>4, <1>5, <2>1, <2>2, <2>4, <2>6
    <3>3. IF table[n] = 0 THEN Written(n) = {} ELSE LastOf(table[n], Written(n))
      BY DEF SqlInv, RowsInv
    <3> QED
      BY <2>3, <3>1, <3>2, <3>3, MaxRequestAssumption
  <2> QED
    BY <2>5, <2>6
<1>14. RowsInv'
  <2>1. table' \in [Name -> 0 .. MaxRequest]
    <3>1. \A n \in Name : table'[n] \in 0 .. MaxRequest
      BY <1>13
    <3>2. table' \in [Name -> Id \cup (0 .. MaxRequest)]
      BY <1>2, <1>3 DEF SqlInv, RowsInv
    <3> QED
      BY <3>1, <3>2
  <2>2. \A n \in Name : replica'[n] = 0 \/ replica'[n] \in Written(n)'
    BY <1>3, <1>13 DEF SqlInv, RowsInv
  <2> QED
    BY <1>3, <1>13, <2>1, <2>2 DEF SqlInv, RowsInv
<1>15. LoadsRight' /\ Loads' = Loads /\ \A k \in Loads : NameTold(k)' = NameTold(k)
  <2>1. ASSUME NEW n \in Name
        PROVE  Source(n) \in Nat /\ Source(n)' \in Nat /\ Source(n) <= Source(n)'
    <3>1. Source(n) \in Nat
      BY SourceType DEF SqlInv
    <3>2. Source(n) <= Source(n)' /\ Source(n)' \in Nat
      BY <1>3, <1>8, <1>13, <3>1, MaxRequestAssumption DEF Source
    <3> QED
      BY <3>1, <3>2
  <2> QED
    BY <1>2, <1>8, <1>11, <2>1, LoadsKept DEF SqlInv, LoadInv
<1> QED
  BY <1>5, <1>6, <1>9, <1>10, <1>12, <1>14, <1>15

(* A load that is done has seen the row as it is where it reads.           *)
LEMMA DoneKeeps ==
  ASSUME IInv, SqlInv, Done, Bounded'
  PROVE  SqlInv'
<1>1. /\ pc = "try" /\ ~Unusable /\ pc' = "ok" /\ Apply /\ UNCHANGED <<queues, special>>
      /\ UNCHANGED <<connection, target>>
  BY DEF Done, Execute, connection
<1>2. Working /\ ~Nameless /\ UnderWay /\ UnderWay'
  BY <1>1 DEF SqlInv, TryInv, UnderWay
<1>3. /\ QueueInv' /\ AppliedInv' /\ AnswerInv' /\ RowsInv' /\ LoadsRight'
      /\ Loads' = Loads /\ (\A k \in Loads : NameTold(k)' = NameTold(k))
      /\ applied'[Handled + 1] = applied[Handled + 1] + 1
      /\ Current.kind \notin TextKind => applied[Handled + 1] = 0
  BY <1>1, <1>2, ApplyKeeps
<1>4. Working' /\ ~Nameless' /\ Current' = Current /\ Handled' = Handled /\ Told' = Told
  BY <1>1, <1>2 DEF queues, Working, Nameless, Current, Handled, Told
<1>5. TryInv'
  BY <1>1, <1>2, <1>3, <1>4 DEF SqlInv, TryInv, Bounded, Text, Object
<1>6. /\ Handled \in Nat /\ Current = requests[Handled + 1] /\ Current.kind \in Kind
      /\ Current.kind \in RowKind => Current.name \in Name
  BY <1>2, CurrentFacts DEF SqlInv
<1>7. CASE Current.kind = "load"
  <2>1. PICK n \in Name, c \in Nat : n = Current.name /\ c = Handled + 1
    BY <1>6, <1>7 DEF RowKind
  <2>2. table' = table /\ replica' = replica /\ special' = special /\ requests' = requests
    BY <1>1, <1>7 DEF Apply, queues
  <2>3. found' = Source(n) /\ found' # 0 /\ Source(n)' = Source(n)
    BY <1>7, <2>1, <2>2 DEF Done, Row, Source
  <2>4. found' \in 0 .. MaxRequest /\ found' \in Nat
    BY <2>1, <2>3, SourceType DEF SqlInv
  <2>5. WritesBefore(c, n)' = Written(n)'
    <3>1. Len(requests) \in Nat /\ c \in 1 .. Len(requests) /\ requests[c].kind = "load"
      BY <1>2, <1>6, <1>7, <2>1, CurrentFacts, WrittenFacts DEF SqlInv
    <3>2. \A w : w \in Written(n)' <=>
               /\ w \in 1 .. Len(requests) /\ requests[w].kind \in {"create", "save"}
               /\ requests[w].name = n /\ applied'[w] > 0
      BY <2>2, <3>1 DEF Written, WritesBefore
    <3>3. \A w : w \in WritesBefore(c, n)' <=>
               /\ w \in 1 .. c - 1 /\ requests[w].kind \in {"create", "save"}
               /\ requests[w].name = n /\ applied'[w] > 0
      BY <2>2 DEF WritesBefore
    <3>4. \A w \in 1 .. Len(requests) : applied'[w] > 0 => w <= c
      <4>1. \A w \in 1 .. Len(requests) : w \in Id
        BY <3>1, MaxRequestAssumption DEF SqlInv, QueueInv, Id
      <4>2. \A w \in Id : w > c => applied'[w] = 0
        BY <1>3, <1>4, <2>1 DEF AppliedInv, Id
      <4> QED
        BY <3>1, <4>1, <4>2
    <3>5. \A w : w \in WritesBefore(c, n)' <=> w \in Written(n)'
      BY <3>1, <3>2, <3>3, <3>4
    <3> QED
      BY <3>5
  <2>6. Seen(c, n, found)'
    <3>1. found' \in Written(n)' /\ (~special => LastOf(found', Written(n)'))
      <4>1. /\ IF table'[n] = 0 THEN Written(n)' = {} ELSE LastOf(table'[n], Written(n)')
            /\ replica'[n] = 0 \/ replica'[n] \in Written(n)'
        BY <1>3 DEF RowsInv
      <4>2. found' = IF special THEN replica'[n] ELSE table'[n]
        BY <2>2, <2>3 DEF Source
      <4> QED
        BY <2>3, <4>1, <4>2 DEF LastOf
    <3>2. found' \in WritesBefore(c, n)' /\ (~special' => LastOf(found', WritesBefore(c, n)'))
      BY <2>2, <2>5, <3>1
    <3>3. found' <= Source(n)'
      BY <2>3, <2>4
    <3> QED
      BY <2>1, <3>2, <3>3 DEF Seen, LastOf
  <2>7. ASSUME NEW k \in Loads, NameTold(k) = n
        PROVE  Told[k].row <= found'
    BY <2>3, <2>7 DEF SqlInv, LoadInv, LoadsRight, Seen
  <2>8. FoundRight'
    BY <1>3, <1>4, <2>1, <2>6, <2>7 DEF FoundRight
  <2> QED
    BY <1>3, <1>5, <2>4, <2>8 DEF SqlInv, LoadInv
<1>8. CASE Current.kind # "load"
  <2>1. found' = found
    BY <1>8 DEF Done
  <2> QED
    BY <1>1, <1>3, <1>4, <1>5, <1>8, <2>1 DEF SqlInv, LoadInv, FoundRight
<1> QED
  BY <1>7, <1>8

(* The server is lost before or after it did what it was asked for.        *)
LEMMA LostKeeps ==
  ASSUME IInv, SqlInv, Lost, Bounded'
  PROVE  SqlInv'
<1>1. /\ pc = "try" /\ ~Unusable /\ pc' \in {"reconnect", "failed"} /\ re_times' = re_times - 1
      /\ UNCHANGED <<queues, special, found, connection, target>>
  BY DEF Lost, Execute, connection
<1>2. Working /\ ~Nameless /\ UnderWay /\ UnderWay' /\ re_times \in 1 .. 3
  BY <1>1 DEF SqlInv, TryInv, UnderWay, IInv, Waiting
<1>3. Working' /\ ~Nameless' /\ Current' = Current /\ Handled' = Handled /\ Told' = Told
  BY <1>1, <1>2 DEF queues, Working, Nameless, Current, Handled, Told
<1>4. Text' = Text /\ Object' = Object /\ TargetDatabase' = TargetDatabase
  BY <1>1 DEF Text, Object, TargetDatabase, DatabaseOf, connection
<1>5. applied[Handled + 1] \in 0 .. 3
  BY <1>2, CurrentFacts DEF SqlInv, AppliedInv
<1>6. ASSUME applied'[Handled + 1] \in {applied[Handled + 1], applied[Handled + 1] + 1}
      PROVE  TryInv'
  <2>1. Current.kind \in TextKind =>
          target \in Text /\ applied'[Handled + 1] <= 3 - re_times'
    BY <1>1, <1>2, <1>5, <1>6 DEF SqlInv, TryInv
  <2>2. Current.kind \notin TextKind => target \in Object /\ target[2] = db_handle[TargetDatabase]
    <3> SUFFICES ASSUME Current.kind \notin TextKind
                 PROVE  target \in Object /\ target[2] = db_handle[TargetDatabase]
      OBVIOUS
    <3>1. target \in Object
      BY <1>2 DEF SqlInv, TryInv
    <3>2. target \notin Text
      BY <3>1, ObjectNoText
    <3> QED
      BY <1>1, <3>1, <3>2 DEF Unusable
  <2>3. db_handle' = db_handle
    BY <1>1 DEF connection
  <2> QED
    BY <1>1, <1>3, <1>4, <2>1, <2>2, <2>3 DEF TryInv, Bounded
<1>7. CASE Apply
  <2>1. /\ QueueInv' /\ AppliedInv' /\ AnswerInv' /\ RowsInv' /\ LoadsRight'
        /\ applied'[Handled + 1] = applied[Handled + 1] + 1
    BY <1>1, <1>2, <1>7, ApplyKeeps
  <2> QED
    BY <1>1, <1>6, <2>1 DEF SqlInv, LoadInv, FoundRight
<1>8. CASE UNCHANGED <<table, replica, applied>>
  <2>1. TryInv' /\ UNCHANGED <<queues, rows>>
    BY <1>1, <1>6, <1>8 DEF rows
  <2> QED
    BY <1>1, <1>2, <2>1, QuietKeeps
<1> QED
  BY <1>7, <1>8 DEF Lost

(* The answer to a request that was handled goes to the end of the others. *)
LEMMA FinishKeeps ==
  ASSUME SqlInv, Finish
  PROVE  SqlInv'
<1>1. /\ pc \in {"ok", "failed"} /\ pc' = "idle" /\ Working
      /\ UNCHANGED <<connection, started, requests, table, replica, applied>>
      /\ toSql' = Tail(toSql) /\ found' = 0
  BY DEF Finish, Return
<1>2. PICK c \in Nat : c = Handled + 1
  BY <1>1, CurrentFacts DEF SqlInv
<1>3. /\ Handled \in Nat /\ c \in 1 .. Len(requests) /\ c \in Id /\ Head(toSql) = c
      /\ Current = requests[c] /\ Current.kind \in Kind /\ Len(requests) \in Nat
      /\ UnderWay /\ ~Nameless
  BY <1>1, <1>2, CurrentFacts DEF SqlInv, UnderWay, TryInv, QueueInv
<1>4. special' = special /\ db_handle' = db_handle /\ opens' = opens /\ ~UnderWay'
  BY <1>1 DEF connection, UnderWay
<1>5. Handled' = c /\ toSql' \in Seq(Nat) /\ Len(toSql') <= Len(requests)
      /\ \A i \in 1 .. Len(toSql') : toSql'[i] = c + i
  <2>1. toSql \in Seq(Nat) /\ toSql # <<>>
    BY <1>1 DEF SqlInv, QueueInv, Working
  <2>2. /\ toSql' \in Seq(Nat) /\ Len(toSql') = Len(toSql) - 1 /\ Len(toSql) \in Nat
        /\ \A i \in 1 .. Len(toSql') : toSql'[i] = toSql[i + 1]
    BY <1>1, <2>1
  <2>3. Handled' = c
    BY <1>1, <1>2, <1>3, <2>2 DEF Handled
  <2>4. Len(toSql) <= Len(requests) /\ \A i \in 1 .. Len(toSql) : toSql[i] = Handled + i
    BY DEF SqlInv, QueueInv
  <2>5. ASSUME NEW i \in 1 .. Len(toSql')
        PROVE  toSql'[i] = c + i
    <3>1. i + 1 \in 1 .. Len(toSql)
      BY <2>2
    <3> QED
      BY <1>2, <1>3, <2>2, <2>4, <3>1
  <2> QED
    BY <1>3, <2>2, <2>3, <2>4, <2>5
<1>6. PICK a : a = Answer(pc = "ok")
  OBVIOUS
<1>7. a \in AnswerRecord /\ a.id = c /\ a.kind = Current.kind /\ a.row = found /\ a.ok = (pc = "ok")
  <2>1. a = [id |-> c, kind |-> Current.kind, ok |-> (pc = "ok"), row |-> found]
    BY <1>3, <1>6 DEF Answer
  <2>2. (pc = "ok") \in BOOLEAN /\ found \in 0 .. MaxRequest
    BY DEF SqlInv, LoadInv
  <2> QED
    BY <1>3, <2>1, <2>2 DEF AnswerRecord
<1>8. /\ answers \in Seq(AnswerRecord) /\ toNet \in Seq(AnswerRecord)
      /\ Told \in Seq(AnswerRecord) /\ Len(Told) \in Nat
  BY ToldType DEF SqlInv, AnswerInv
<1>9. CASE Told' = Told /\ answers' = answers /\ toNet' = toNet
  <2>1. QueueInv' /\ TryInv' /\ AppliedInv'
    BY <1>1, <1>2, <1>4, <1>5, <1>9 DEF SqlInv, QueueInv, TryInv, AppliedInv, Id
  <2>2. AnswerInv'
    <3>1. Len(Told') <= Handled'
      BY <1>2, <1>3, <1>5, <1>8, <1>9 DEF SqlInv, AnswerInv
    <3>2. ASSUME NEW k \in 1 .. Len(Told')
          PROVE  /\ Told'[k].id \in 1 .. Handled' /\ Told'[k].kind = requests'[Told'[k].id].kind
                 /\ Told'[k].ok => applied'[Told'[k].id] = 1
      <4>1. /\ Told[k].id \in 1 .. Handled /\ Told[k].kind = requests[Told[k].id].kind
            /\ Told[k].ok => applied[Told[k].id] = 1
        BY <1>9 DEF SqlInv, AnswerInv
      <4>2. Told[k].id \in 1 .. Handled'
        BY <1>2, <1>3, <1>5, <4>1
      <4> QED
        BY <1>1, <1>9, <4>1, <4>2
    <3> QED
      BY <1>8, <1>9, <3>1, <3>2 DEF AnswerInv
  <2>3. RowsInv'
    BY <1>1 DEF SqlInv, RowsInv, LastOf, Written, WritesBefore
  <2>4. \A n \in Name : Source(n) \in Nat /\ Source(n)' = Source(n)
    BY <1>1, <1>4, SourceType DEF SqlInv, Source
  <2>5. LoadsRight'
    BY <1>1, <1>3, <1>4, <1>9, <2>4, LoadsKept DEF SqlInv, LoadInv
  <2>6. LoadInv'
    BY <1>1, <2>5, MaxRequestAssumption DEF LoadInv, FoundRight
  <2> QED
    BY <2>1, <2>2, <2>3, <2>6 DEF SqlInv
<1>10. CASE /\ Told' = Append(Told, a) /\ Current.kind \in RowKind
            /\ answers' \in Seq(AnswerRecord) /\ toNet' \in Seq(AnswerRecord)
            /\ ~started => toNet' = toNet
  <2>12. PICK last \in Nat : last = Len(Told) + 1
    BY <1>8
  <2>1. /\ Len(Told') = last /\ Told'[last] = a
        /\ \A k \in 1 .. Len(Told) : Told'[k] = Told[k]
    BY <1>7, <1>8, <1>10, <2>12
  <2>2. QueueInv' /\ TryInv' /\ AppliedInv'
    <3>1. QueueInv'
      BY <1>1, <1>5, <1>10 DEF SqlInv, QueueInv
    <3>2. TryInv'
      BY <1>4 DEF SqlInv, TryInv
    <3>3. AppliedInv'
      BY <1>1, <1>2, <1>3, <1>4, <1>5 DEF SqlInv, AppliedInv, Id
    <3> QED
      BY <3>1, <3>2, <3>3
  <2>3. a.ok => applied[c] = 1
    BY <1>2, <1>3, <1>7, <1>10 DEF SqlInv, TryInv, RowKind, TextKind
  <2>4. AnswerInv'
    <3>1. Len(Told') <= Handled'
      BY <1>2, <1>3, <1>5, <1>8, <2>1, <2>12 DEF SqlInv, AnswerInv
    <3>2. ASSUME NEW k \in 1 .. Len(Told')
          PROVE  /\ Told'[k].id \in 1 .. Handled' /\ Told'[k].kind = requests'[Told'[k].id].kind
                 /\ Told'[k].ok => applied'[Told'[k].id] = 1
      <4>1. CASE k \in 1 .. Len(Told)
        <5>1. /\ Told[k].id \in 1 .. Handled /\ Told[k].kind = requests[Told[k].id].kind
              /\ Told[k].ok => applied[Told[k].id] = 1
          BY <4>1 DEF SqlInv, AnswerInv
        <5>2. Told[k].id \in 1 .. Handled'
          BY <1>2, <1>3, <1>5, <5>1
        <5> QED
          BY <1>1, <2>1, <4>1, <5>1, <5>2
      <4>2. CASE k = last
        BY <1>1, <1>2, <1>3, <1>5, <1>7, <2>1, <2>3, <4>2
      <4> QED
        BY <1>8, <2>1, <2>12, <4>1, <4>2
    <3> QED
      BY <1>10, <3>1, <3>2 DEF AnswerInv
  <2>5. RowsInv'
    BY <1>1 DEF SqlInv, RowsInv, LastOf, Written, WritesBefore
  <2>6. /\ \A k \in Loads' : k \in 1 .. last /\ (k # last => k \in Loads)
        /\ last \in Loads' => pc = "ok" /\ Current.kind = "load"
        /\ \A k \in Loads : k \in 1 .. Len(Told) /\ k \in Loads'
    <3>1. DOMAIN Told = 1 .. Len(Told) /\ DOMAIN Told' = 1 .. last
      BY <1>8, <1>10, <1>7, <2>1
    <3>2. \A k \in 1 .. last : k = last \/ (k \in 1 .. Len(Told) /\ Told'[k] = Told[k])
      BY <1>8, <2>1, <2>12
    <3>3. \A k \in 1 .. Len(Told) : k \in 1 .. last /\ Told'[k] = Told[k]
      BY <1>8, <2>1, <2>12
    <3>4. Loads' = {k \in DOMAIN Told' : Told'[k].kind = "load" /\ Told'[k].ok}
      BY DEF Loads
    <3> QED
      BY <1>7, <2>1, <2>12, <3>1, <3>2, <3>3, <3>4 DEF Loads
  <2>7. \A k \in 1 .. Len(Told) : NameTold(k)' = NameTold(k)
    <3> TAKE k \in 1 .. Len(Told)
    <3>1. NameTold(k)' = requests'[Told'[k].id].name
      BY DEF NameTold
    <3> QED
      BY <1>1, <2>1, <3>1 DEF NameTold
  <2>8. NameTold(last)' = Current.name
    <3>1. NameTold(last)' = requests'[Told'[last].id].name
      BY DEF NameTold
    <3> QED
      BY <1>1, <1>3, <1>7, <2>1, <3>1
  <2>9. \A id, n, r : Seen(id, n, r)' <=> Seen(id, n, r)
    BY <1>1, <1>4 DEF Seen, WritesBefore, LastOf, Source
  <2>10. LoadsRight'
    <3>1. ASSUME NEW k \in Loads'
          PROVE  /\ Seen(Told'[k].id, NameTold(k)', Told'[k].row)
                 /\ \A j \in Loads' : j < k /\ NameTold(j)' = NameTold(k)' => Told'[j].row <= Told'[k].row
      <4>1. CASE k # last
        <5>1. k \in Loads /\ k \in 1 .. Len(Told)
          BY <2>6, <2>12, <4>1, <1>8
        <5>2. \A j \in Loads' : j < k => j \in Loads /\ j \in 1 .. Len(Told)
          BY <1>8, <2>6, <2>12, <5>1
        <5> QED
          BY <2>1, <2>7, <5>1, <5>2 DEF SqlInv, LoadInv, LoadsRight
      <4>2. CASE k = last
        <5>1. /\ Seen(c, Current.name, found)
              /\ \A j \in Loads : NameTold(j) = Current.name => Told[j].row <= found
          BY <1>2, <2>6, <4>2 DEF SqlInv, LoadInv, FoundRight
        <5>2. \A j \in Loads' : j < k => j \in Loads /\ j \in 1 .. Len(Told)
          BY <1>8, <2>6, <2>12, <4>2
        <5>3. \A j \in Loads' : j < k /\ NameTold(j)' = NameTold(k)' =>
                Told'[j].row <= found
          BY <2>1, <2>7, <2>8, <4>2, <5>1, <5>2
        <5>4. Told'[k].id = c /\ Told'[k].row = found /\ NameTold(k)' = Current.name
          BY <1>7, <2>1, <2>8, <4>2
        <5> QED
          BY <5>1, <5>3, <5>4
      <4> QED
        BY <4>1, <4>2
    <3> QED
      BY <2>9, <3>1 DEF LoadsRight
  <2>11. LoadInv'
    BY <1>1, <2>10, MaxRequestAssumption DEF LoadInv, FoundRight
  <2> QED
    BY <2>2, <2>4, <2>5, <2>11 DEF SqlInv
<1> QED
  <2>1. CASE started /\ pc = "ok" /\ Current.kind \in {"load", "create"}
    <3>1. toNet' = Append(toNet, a) /\ answers' = answers
      BY <1>6, <2>1 DEF Finish
    <3>2. Told' = Append(Told, a)
      BY <1>7, <1>8, <3>1 DEF Told
    <3> QED
      BY <1>7, <1>8, <1>10, <2>1, <3>1, <3>2 DEF RowKind
  <2>2. CASE ~started
    <3>1. toNet' = toNet /\ answers' = Append(answers, a) /\ toNet = <<>>
      BY <1>6, <2>2 DEF Finish, SqlInv, QueueInv
    <3>2. Told' = Append(Told, a)
      BY <1>7, <1>8, <3>1 DEF Told
    <3>3. Current.kind \in RowKind
      BY <1>3, <2>2 DEF SqlInv, QueueInv
    <3> QED
      BY <1>7, <1>8, <1>10, <3>1, <3>2, <3>3
  <2>3. CASE started /\ ~(pc = "ok" /\ Current.kind \in {"load", "create"})
    BY <1>9, <2>3 DEF Finish, Told
  <2> QED
    BY <2>1, <2>2, <2>3

(* An answer moves from one end of the history to the other.               *)
LEMMA DeliverKeeps ==
  ASSUME SqlInv, Deliver
  PROVE  SqlInv'
<1>1. /\ toNet # <<>> /\ answers' = Append(answers, Head(toNet)) /\ toNet' = Tail(toNet)
      /\ UNCHANGED <<dbVars, rows, started, requests, toSql>>
  BY DEF Deliver
<1>2. answers \in Seq(AnswerRecord) /\ toNet \in Seq(AnswerRecord)
  BY DEF SqlInv, AnswerInv
<1>3. answers' \in Seq(AnswerRecord) /\ toNet' \in Seq(AnswerRecord)
  BY <1>1, <1>2
<1>4. Told' = Told
  BY <1>1, <1>2 DEF Told
<1>5. pc' = pc /\ db_handle' = db_handle /\ opens' = opens /\ special' = special
      /\ target' = target /\ re_times' = re_times /\ UNCHANGED <<table, replica, found, applied>>
  BY <1>1 DEF dbVars, connection, execution, rows
<1>6. Handled' = Handled /\ Handled \in Nat /\ Current' = Current /\ (Working' <=> Working)
      /\ (Nameless' <=> Nameless)
  BY <1>1 DEF SqlInv, QueueInv, Handled, Current, Working, Nameless
<1>7. QueueInv' /\ AppliedInv' /\ AnswerInv'
  BY <1>1, <1>2, <1>3, <1>4, <1>5, <1>6 DEF SqlInv, QueueInv, AppliedInv, AnswerInv, UnderWay, Id
<1>8. TryInv'
  BY <1>5, <1>6 DEF SqlInv, TryInv, UnderWay, Text, Object, TargetDatabase, DatabaseOf
<1>9. RowsInv'
  BY <1>1, <1>5 DEF SqlInv, RowsInv, LastOf, Written, WritesBefore
<1>10. LoadInv'
  <2>1. \A n \in Name : Source(n) \in Nat /\ Source(n)' = Source(n)
    BY <1>5, SourceType DEF SqlInv, Source
  <2>2. LoadsRight' /\ Loads' = Loads /\ \A k \in Loads : NameTold(k)' = NameTold(k)
    BY <1>1, <1>4, <1>5, <1>6, <2>1, LoadsKept DEF SqlInv, LoadInv
  <2>3. \A id, n, r : Seen(id, n, r)' <=> Seen(id, n, r)
    BY <1>1, <1>5 DEF Seen, WritesBefore, LastOf, Source
  <2> QED
    BY <1>4, <1>5, <1>6, <2>2, <2>3 DEF SqlInv, LoadInv, FoundRight
<1> QED
  BY <1>7, <1>8, <1>9, <1>10 DEF SqlInv

(* The reader's rows become newer.                                         *)
LEMMA ReplicateKeeps ==
  ASSUME SqlInv, NEW m \in Name, Replicate(m)
  PROVE  SqlInv'
<1>1. /\ special /\ replica' = [replica EXCEPT ![m] = table[m]]
      /\ UNCHANGED <<dbVars, queues, table, found, applied>>
  BY DEF Replicate
<1>2. /\ pc' = pc /\ db_handle' = db_handle /\ opens' = opens /\ special' = special
      /\ target' = target /\ re_times' = re_times
      /\ UNCHANGED <<started, requests, toSql, toNet, answers>>
  BY <1>1 DEF dbVars, connection, execution, queues
<1>3. Handled' = Handled /\ Handled \in Nat /\ Current' = Current /\ (Working' <=> Working)
      /\ (Nameless' <=> Nameless) /\ Told' = Told
  BY <1>2 DEF SqlInv, QueueInv, Handled, Current, Working, Nameless, Told
<1>4. QueueInv' /\ AppliedInv' /\ AnswerInv'
  BY <1>1, <1>2, <1>3 DEF SqlInv, QueueInv, AppliedInv, AnswerInv, UnderWay, Id
<1>5. TryInv'
  BY <1>1, <1>2, <1>3 DEF SqlInv, TryInv, UnderWay, Text, Object, TargetDatabase, DatabaseOf
<1>6. \A n : Written(n)' = Written(n) /\ \A id : WritesBefore(id, n)' = WritesBefore(id, n)
  BY <1>1, <1>2 DEF Written, WritesBefore
<1>7. \A n \in Name :
        /\ table[n] \in 0 .. MaxRequest /\ replica[n] \in 0 .. MaxRequest
        /\ IF table[n] = 0 THEN Written(n) = {} ELSE LastOf(table[n], Written(n))
        /\ replica[n] = 0 \/ replica[n] \in Written(n)
        /\ replica'[n] = IF n = m THEN table[n] ELSE replica[n]
  BY <1>1 DEF SqlInv, RowsInv
<1>8. RowsInv'
  <2>1. replica' \in [Name -> 0 .. MaxRequest]
    BY <1>1 DEF SqlInv, RowsInv
  <2>2. \A n \in Name : replica'[n] = 0 \/ replica'[n] \in Written(n)
    BY <1>7 DEF LastOf
  <2> QED
    BY <1>1, <1>6, <1>7, <2>1, <2>2 DEF SqlInv, RowsInv, LastOf
<1>9. \A n \in Name : Source(n) \in Nat /\ Source(n)' \in Nat /\ Source(n) <= Source(n)'
  <2>1. \A n \in Name : Source(n) = replica[n] /\ Source(n)' = replica'[n]
    BY <1>1, <1>2 DEF Source
  <2> QED
    BY <1>7, <2>1, MaxRequestAssumption DEF LastOf
<1>10. LoadInv'
  <2>1. LoadsRight' /\ Loads' = Loads /\ \A k \in Loads : NameTold(k)' = NameTold(k)
    BY <1>1, <1>2, <1>3, <1>9, LoadsKept DEF SqlInv, LoadInv
  <2>2. ASSUME pc = "ok", Current.kind = "load"
        PROVE  Seen(Handled + 1, Current.name, found)'
    <3>1. Seen(Handled + 1, Current.name, found)
      BY <2>2 DEF SqlInv, LoadInv, FoundRight
    <3>2. PICK n, c : n = Current.name /\ c = Handled + 1
      BY <3>1 DEF Seen
    <3>3. found \in Nat
      BY MaxRequestAssumption DEF SqlInv, LoadInv
    <3>4. Seen(c, n, found)'
      BY <1>1, <1>2, <1>6, <1>9, <3>1, <3>2, <3>3 DEF Seen, LastOf
    <3> QED
      BY <1>3, <3>2, <3>4
  <2> QED
    BY <1>1, <1>2, <1>3, <2>1, <2>2 DEF SqlInv, LoadInv, FoundRight
<1> QED
  BY <1>4, <1>5, <1>8, <1>10 DEF SqlInv

-----------------------------------------------------------------------------
LEMMA SqlInit == Init => SqlInv
<1> SUFFICES ASSUME Init PROVE SqlInv
  OBVIOUS
<1>1. /\ started = FALSE /\ requests = <<>> /\ toSql = <<>> /\ toNet = <<>> /\ answers = <<>>
      /\ table \in [Name -> {0}] /\ replica = table /\ found = 0
      /\ applied = [id \in Id |-> 0] /\ pc = "off" /\ opens = 0
      /\ db_handle = [db \in Database |-> 0]
  BY DEF Init, DbInit
<1>2. Handled = 0 /\ Told = <<>> /\ ~UnderWay /\ Loads = {}
  <2>1. Len(<<>>) = 0 /\ <<>> \o <<>> = <<>> /\ DOMAIN <<>> = {}
    OBVIOUS
  <2>2. Told = <<>> /\ Handled = 0
    BY <1>1, <2>1 DEF Handled, Told
  <2> QED
    BY <1>1, <2>1, <2>2 DEF UnderWay, Loads
<1>3. QueueInv /\ TryInv /\ AppliedInv /\ AnswerInv
  <2>1. Len(requests) = 0 /\ Len(toSql) = 0 /\ Len(Told) = 0
    <3>1. Len(<<>>) = 0
      OBVIOUS
    <3> QED
      BY <1>1, <1>2, <3>1
  <2>2. QueueInv
    <3>1. requests \in Seq(Request) /\ toSql \in Seq(Nat)
      <4>1. \A S : <<>> \in Seq(S)
        OBVIOUS
      <4> QED
        BY <1>1, <4>1, Zenon
    <3>2. started \in BOOLEAN /\ 1 .. Len(toSql) = {} /\ 1 .. Len(requests) = {}
      <4>1. started \in BOOLEAN
        BY <1>1, Zenon
      <4>2. 1 .. 0 = {}
        OBVIOUS
      <4> QED
        BY <2>1, <4>1, <4>2, Zenon
    <3>3. Len(requests) <= MaxRequest /\ Len(toSql) <= Len(requests)
      BY <2>1, MaxRequestAssumption
    <3> QED
      BY <1>1, <3>1, <3>2, <3>3 DEF QueueInv
  <2>3. TryInv
    BY <1>1, <1>2 DEF TryInv
  <2>4. AppliedInv
    BY <1>1, <1>2, <2>1 DEF AppliedInv
  <2>5. AnswerInv
    BY <1>1, <1>2, <2>1 DEF AnswerInv
  <2> QED
    BY <2>2, <2>3, <2>4, <2>5
<1>4. \A n : Written(n) = {}
  BY <1>1 DEF Written, WritesBefore
<1>5. RowsInv /\ LoadInv
  BY <1>1, <1>2, <1>4, MaxRequestAssumption DEF RowsInv, LoadInv, LoadsRight, FoundRight
<1> QED
  BY <1>3, <1>5 DEF SqlInv

LEMMA SqlStep == IInv /\ IInv' /\ SqlInv /\ [Next]_vars => SqlInv'
<1> SUFFICES ASSUME IInv, IInv', SqlInv, [Next]_vars PROVE SqlInv'
  OBVIOUS
<1>1. Queued
  <2>1. /\ requests \in Seq(Request) /\ toSql \in Seq(Nat)
        /\ Len(requests) \in Nat /\ Len(toSql) \in Nat /\ Len(toSql) <= Len(requests)
        /\ \A i \in 1 .. Len(toSql) : toSql[i] = Len(requests) - Len(toSql) + i
    BY DEF SqlInv, QueueInv, Handled
  <2>2. \A i \in 1 .. Len(toSql) : toSql[i] \in 1 .. Len(requests)
    BY <2>1
  <2>3. toSql \in [1 .. Len(toSql) -> 1 .. Len(requests)]
    BY <2>1, <2>2
  <2> QED
    BY <2>1, <2>2, <2>3 DEF Queued
<1>2. Bounded'
  BY <1>1, StepUses, BoundedStep DEF SqlInv, TryInv, Bounded
<1>3. CASE Open \/ Stop \/ UNCHANGED vars
  <2>1. /\ UNCHANGED <<queues, rows>> /\ special' = special
        /\ (UnderWay => UnderWay') /\ (pc' = "ok" => pc = "ok")
    BY <1>3 DEF Open, Stop, Create, CannotCreate, Destroy, vars, dbVars, connection, execution,
       UnderWay
  <2>2. TryInv'
    <3>1. CASE ~UnderWay'
      BY <1>2, <3>1 DEF TryInv, Bounded
    <3>2. CASE UNCHANGED vars
      BY <3>2 DEF SqlInv, TryInv, vars, dbVars, connection, execution, queues, rows, UnderWay,
         Working, Nameless, Current, Handled, Text, Object, TargetDatabase, DatabaseOf
    <3>3. CASE Open \/ Stop
      BY <1>2, <3>1, <3>3 DEF Open, Stop, Create, CannotCreate, Destroy, UnderWay
    <3> QED
      BY <1>3, <3>2, <3>3
  <2> QED
    BY <2>1, <2>2, QuietKeeps
<1>4. CASE Start \/ Ignore \/ Deliver \/ Finish
  BY <1>4, StartKeeps, IgnoreKeeps, DeliverKeeps, FinishKeeps
<1>5. ASSUME NEW request \in Request, Ask(request)
      PROVE  SqlInv'
  BY <1>5, AskKeeps
<1>6. CASE Handle
  BY <1>2, <1>6, HandleKeeps
<1>7. CASE Done
  BY <1>2, <1>7, DoneKeeps
<1>8. CASE Lost
  BY <1>2, <1>8, LostKeeps
<1>9. CASE Error \/ Retry
  BY <1>2, <1>9, RetryKeeps
<1>10. ASSUME NEW n \in Name, Replicate(n)
       PROVE  SqlInv'
  BY <1>10, ReplicateKeeps
<1> QED
  BY <1>3, <1>4, <1>5, <1>6, <1>7, <1>8, <1>9, <1>10 DEF Next, DatabaseStep

THEOREM SqlCorrect == Spec => []SqlInv
<1>1. Spec => []IInv
  BY UsesConnections, DbCorrect, PTL
<1> QED
  BY <1>1, SqlInit, SqlStep, PTL DEF Spec

(* The greatest of a set of numbers is the one that no other exceeds.      *)
LEMMA MaxIsLast ==
  ASSUME NEW W \in SUBSET Nat, NEW r \in Nat, LastOf(r, W)
  PROVE  Max(W) = r
<1>1. \A x \in W : (\A y \in W : x >= y) => x = r
  BY DEF LastOf
<1>2. r \in W /\ \A y \in W : r >= y
  BY DEF LastOf
<1> QED
  BY <1>1, <1>2 DEF Max

(* The states of the database thread, its queues and its rows.             *)
THEOREM TypeCorrect == Spec => []TypeOK
<1>1. IInv /\ SqlInv => TypeOK
  <2> SUFFICES ASSUME IInv, SqlInv PROVE TypeOK
    OBVIOUS
  <2>1. Len(toSql) \in Nat /\ Len(requests) \in Nat
    BY DEF SqlInv, QueueInv
  <2>2. Len(toSql) <= MaxRequest
    BY <2>1, MaxRequestAssumption DEF SqlInv, QueueInv
  <2>3. Len(toNet) + Len(answers) <= MaxRequest
    <3>1. Len(Told) = Len(answers) + Len(toNet) /\ Len(answers) \in Nat /\ Len(toNet) \in Nat
      BY ToldType DEF SqlInv, AnswerInv
    <3> QED
      BY <2>1, <3>1, MaxRequestAssumption DEF SqlInv, AnswerInv, QueueInv, Handled
  <2> QED
    BY <2>2, <2>3 DEF IInv, SqlInv, QueueInv, AppliedInv, RowsInv, LoadInv, TypeOK
<1>2. Spec => []IInv
  BY UsesConnections, DbCorrect, PTL
<1> QED
  BY <1>1, <1>2, SqlCorrect, PTL

(* Statements are done at most once, whatever is lost and repeated; what   *)
(* was answered with success was done; and the loads see the writes before *)
(* them.                                                                   *)
THEOREM AnswersCorrect == Spec => []RowsAsAnswered
<1>1. SqlInv => RowsAsAnswered
  <2> SUFFICES ASSUME SqlInv PROVE RowsAsAnswered
    OBVIOUS
  <2>1. AppliedAsAnswered
    <3>1. ASSUME NEW id \in DOMAIN requests
          PROVE  applied[id] <= (IF requests[id].kind \in TextKind THEN 3 ELSE 1)
      <4>1. id \in 1 .. Len(requests) /\ id \in Id
        BY MaxRequestAssumption DEF SqlInv, QueueInv, Id
      <4> QED
        BY <4>1 DEF SqlInv, AppliedInv
    <3>2. ASSUME NEW k \in DOMAIN answers, answers[k].ok
          PROVE  applied[answers[k].id] = 1
      <4>1. k \in 1 .. Len(Told) /\ Told[k] = answers[k]
        BY DEF SqlInv, AnswerInv, Told
      <4> QED
        BY <3>2, <4>1 DEF SqlInv, AnswerInv
    <3> QED
      BY <3>1, <3>2 DEF AppliedAsAnswered
  <2>2. LoadsSeeWrites
    <3> SUFFICES ASSUME NEW k \in Loads
                 PROVE  /\ Told[k].row \in WritesBefore(Told[k].id, NameTold(k))
                        /\ ~special => Told[k].row = Max(WritesBefore(Told[k].id, NameTold(k)))
                        /\ \A j \in Loads : j < k /\ NameTold(j) = NameTold(k) => Told[j].row <= Told[k].row
      BY DEF LoadsSeeWrites
    <3>1. /\ Seen(Told[k].id, NameTold(k), Told[k].row)
          /\ \A j \in Loads : j < k /\ NameTold(j) = NameTold(k) => Told[j].row <= Told[k].row
      BY DEF SqlInv, LoadInv, LoadsRight
    <3>2. Told[k].row \in Nat /\ Told[k].id \in Nat
      <4>1. k \in 1 .. Len(Told)
        BY ToldType DEF SqlInv, Loads
      <4> QED
        BY <4>1, ToldType, MaxRequestAssumption DEF SqlInv, AnswerRecord
    <3>3. WritesBefore(Told[k].id, NameTold(k)) \in SUBSET Nat
      BY <3>2 DEF WritesBefore
    <3> QED
      BY <3>1, <3>2, <3>3, MaxIsLast DEF Seen
  <2> QED
    BY <2>1, <2>2 DEF RowsAsAnswered
<1> QED
  BY <1>1, SqlCorrect, PTL
-----------------------------------------------------------------------------
(* How many steps the database thread can still take for the requests in   *)
(* its queue: ten for each at most, a text being tried three times with    *)
(* two reconnections between.                                              *)
AtPc(place, times) ==
  CASE place \in {"off", "idle"} -> 10
    [] place = "reconnect" -> 2 * times + 3
    [] place = "try" -> 2 * times + 2
    [] place \in {"ok", "failed"} -> 1
    [] place \in Dead -> 0

StepsLeft == 10 * Len(toSql) + AtPc(pc, re_times)

(* Each step of the thread is one less, and only a new request brings more *)
(* steps, ten of them.                                                     *)
Nearer ==
  /\ DatabaseStep => StepsLeft' < StepsLeft
  /\ StepsLeft' > StepsLeft => StepsLeft' = StepsLeft + 10 /\ \E request \in Request : Ask(request)

(* What is left at every point of a request.                               *)
LEMMA AtPcFacts ==
  ASSUME NEW times \in Nat
  PROVE  /\ AtPc("off", times) = 10 /\ AtPc("idle", times) = 10
         /\ AtPc("reconnect", times) = 2 * times + 3 /\ AtPc("try", times) = 2 * times + 2
         /\ AtPc("ok", times) = 1 /\ AtPc("failed", times) = 1
         /\ \A place \in Dead : AtPc(place, times) = 0
BY DEF AtPc, Dead

(* The steps left are a number.                                            *)
LEMMA PcTypes ==
  ASSUME NEW times \in Nat, NEW place \in {"off", "idle", "try", "reconnect", "ok", "failed"} \cup Dead
  PROVE  AtPc(place, times) \in Nat
BY AtPcFacts DEF Dead

(* So they are in every state of the two threads.                          *)
LEMMA LeftTypes ==
  ASSUME IInv, SqlInv
  PROVE  /\ Len(toSql) \in Nat /\ re_times \in 0 .. 3 /\ AtPc(pc, re_times) \in Nat
         /\ StepsLeft = 10 * Len(toSql) + AtPc(pc, re_times) /\ StepsLeft \in Nat
<1>1. Len(toSql) \in Nat
  BY DEF SqlInv, QueueInv
<1>2. re_times \in 0 .. 3 /\ pc \in {"off", "idle", "try", "reconnect", "ok", "failed"} \cup Dead
  BY DEF IInv, DbTypeOK
<1>3. AtPc(pc, re_times) \in Nat
  BY <1>2, PcTypes
<1> QED
  BY <1>1, <1>2, <1>3 DEF StepsLeft

(* Within a request the steps left get fewer with every try.               *)
LEMMA TryNearer ==
  ASSUME IInv, IInv', SqlInv, SqlInv', Handle \/ Done \/ Error \/ Lost \/ Retry
  PROVE  StepsLeft' < StepsLeft
<1>1. toSql' = toSql
  BY DEF Handle, Done, Error, Lost, Retry, queues
<1>2. re_times \in 0 .. 3 /\ re_times' \in 0 .. 3
  BY DEF IInv, DbTypeOK
<1>3. AtPc(pc', re_times') < AtPc(pc, re_times)
  <2>1. CASE Handle
    <3>1. pc = "idle" /\ (pc' = "crashed" \/ pc' = "try")
      BY <2>1 DEF Handle, StmtExecute, SqlExecute
    <3> QED
      BY <1>2, <3>1, AtPcFacts DEF Dead
  <2>2. CASE Done \/ Error
    <3>1. pc = "try" /\ pc' \in {"ok", "failed"}
      BY <2>2 DEF Done, Error, Execute
    <3> QED
      BY <1>2, <3>1, AtPcFacts
  <2>3. CASE Lost
    <3>1. pc = "try" /\ re_times' = re_times - 1 /\ pc' \in {"reconnect", "failed"}
      BY <2>3 DEF Lost, Execute
    <3>2. /\ AtPc("try", re_times) = 2 * re_times + 2
          /\ AtPc("reconnect", re_times') = 2 * re_times' + 3 /\ AtPc("failed", re_times') = 1
      BY <1>2, AtPcFacts
    <3> QED
      BY <1>2, <3>1, <3>2
  <2>4. CASE Retry
    <3>1. \/ pc = "try" /\ pc' = "failed"
          \/ pc = "reconnect" /\ pc' \in {"try", "failed"}
      BY <2>4 DEF Retry, Refuse, Reconnect, CannotReopen, Reopen
    <3>2. re_times' = re_times
      BY <2>4 DEF Retry, Refuse, Reconnect
    <3> QED
      BY <1>2, <3>1, <3>2, AtPcFacts
  <2> QED
    BY <2>1, <2>2, <2>3, <2>4
<1>4. /\ StepsLeft = 10 * Len(toSql) + AtPc(pc, re_times) /\ AtPc(pc, re_times) \in Nat
      /\ Len(toSql) \in Nat
  BY LeftTypes
<1>5. StepsLeft' = 10 * Len(toSql') + AtPc(pc', re_times') /\ AtPc(pc', re_times') \in Nat
  BY <1>2, PcTypes DEF StepsLeft, IInv, DbTypeOK
<1> QED
  BY <1>1, <1>3, <1>4, <1>5

(* A request that ends takes its ten steps with it.                        *)
LEMMA EndNearer ==
  ASSUME IInv, IInv', SqlInv, SqlInv', Ignore \/ Finish
  PROVE  StepsLeft' < StepsLeft
<1>1. Len(toSql') = Len(toSql) - 1
  <2>1. toSql \in Seq(Nat) /\ toSql # <<>> /\ toSql' = Tail(toSql)
    BY DEF Ignore, Finish, Working, SqlInv, QueueInv
  <2> QED
    BY <2>1
<1>2. re_times \in 0 .. 3 /\ re_times' \in 0 .. 3 /\ Len(toSql) \in Nat
  BY DEF IInv, DbTypeOK, SqlInv, QueueInv
<1>3. pc' = "idle" /\ pc \in {"idle", "ok", "failed"}
  BY DEF Ignore, Finish, Return, dbVars, execution
<1>4. AtPc(pc', re_times') <= AtPc(pc, re_times) + 9 /\ AtPc(pc, re_times) \in Nat /\ AtPc(pc', re_times') \in Nat
  <2> re_times \in Nat /\ re_times' \in Nat
    BY <1>2
  <2>1. AtPc("idle", re_times) = 10 /\ AtPc("ok", re_times) = 1 /\ AtPc("failed", re_times) = 1
    BY AtPcFacts
  <2>2. AtPc("idle", re_times') = 10
    BY AtPcFacts
  <2>3. AtPc(pc, re_times) \in {1, 10} /\ AtPc(pc', re_times') = 10
    BY <1>3, <2>1, <2>2
  <2> QED
    BY <2>3
<1>5. StepsLeft = 10 * Len(toSql) + AtPc(pc, re_times) /\ StepsLeft' = 10 * Len(toSql') + AtPc(pc', re_times')
  BY DEF StepsLeft
<1> QED
  BY <1>1, <1>2, <1>4, <1>5

(* Whatever is lost and however often, the thread takes ten steps at most  *)
(* for a request (stmt_execute, sql_execute, on_error_tryto_reconnect):    *)
(* what QueueDrains still needs is only that the steps are taken.          *)
THEOREM QueueGetsShorter == Spec => [](StepsLeft \in Nat) /\ [][Nearer]_vars
<1>1. IInv /\ SqlInv => StepsLeft \in Nat
  BY LeftTypes
<1>2. IInv /\ SqlInv /\ IInv' /\ SqlInv' /\ [Next]_vars => [Nearer]_vars
  <2> SUFFICES ASSUME IInv, SqlInv, IInv', SqlInv', Next PROVE Nearer
    OBVIOUS
  <2>1. DatabaseStep => StepsLeft' < StepsLeft
    BY TryNearer, EndNearer DEF DatabaseStep
  <2>2. /\ StepsLeft = 10 * Len(toSql) + AtPc(pc, re_times) /\ StepsLeft \in Nat
        /\ AtPc(pc, re_times) \in Nat /\ Len(toSql) \in Nat /\ re_times \in Nat
    BY LeftTypes
  <2>3. StepsLeft' = 10 * Len(toSql') + AtPc(pc', re_times') /\ StepsLeft' \in Nat
    <3>1. re_times' \in 0 .. 3 /\ Len(toSql') \in Nat
      BY DEF IInv, DbTypeOK, SqlInv, QueueInv
    <3>2. AtPc(pc', re_times') \in Nat
      BY <3>1, PcTypes DEF IInv, DbTypeOK
    <3> QED
      BY <3>1, <3>2 DEF StepsLeft
  <2>4. ASSUME NEW request \in Request, Ask(request) PROVE StepsLeft' = StepsLeft + 10
    <3>1. toSql' = Append(toSql, Len(requests')) /\ UNCHANGED <<pc, re_times>>
      BY <2>4 DEF Ask, dbVars, execution
    <3>2. toSql \in Seq(Nat)
      BY DEF SqlInv, QueueInv
    <3>3. Len(toSql') = Len(toSql) + 1
      BY <3>1, <3>2
    <3>4. StepsLeft' = 10 * Len(toSql') + AtPc(pc, re_times)
      BY <2>3, <3>1
    <3> QED
      BY <2>2, <3>3, <3>4
  <2>5. ASSUME Open \/ Start \/ Stop \/ Deliver \/ \E n \in Name : Replicate(n) PROVE StepsLeft' <= StepsLeft
    <3>1. toSql' = toSql
      BY <2>5 DEF Open, Start, Stop, Deliver, Replicate, queues
    <3>2. \/ pc = "off" /\ pc' \in {"idle", "exited"} /\ re_times' = re_times
          \/ pc = "idle" /\ pc' = "closed" /\ re_times' = re_times
          \/ UNCHANGED <<pc, re_times>>
      BY <2>5 DEF Open, Create, CannotCreate, Start, Stop, Destroy, Deliver, Replicate, dbVars, execution
    <3>3. AtPc(pc', re_times') <= AtPc(pc, re_times) /\ AtPc(pc', re_times') \in Nat
      <4>1. /\ AtPc("off", re_times) = 10 /\ AtPc("idle", re_times) = 10
            /\ \A place \in {"exited", "closed"} : AtPc(place, re_times) = 0
        BY <2>2, AtPcFacts DEF Dead
      <4>2. CASE UNCHANGED <<pc, re_times>>
        BY <2>2, <4>2
      <4>3. CASE pc = "off" /\ pc' \in {"idle", "exited"} /\ re_times' = re_times
        BY <4>1, <4>3
      <4>4. CASE pc = "idle" /\ pc' = "closed" /\ re_times' = re_times
        BY <4>1, <4>4
      <4> QED
        BY <3>2, <4>2, <4>3, <4>4
    <3> QED
      BY <2>2, <2>3, <3>1, <3>3
  <2>6. StepsLeft' > StepsLeft => StepsLeft' = StepsLeft + 10 /\ \E request \in Request : Ask(request)
    <3>1. CASE \E request \in Request : Ask(request)
      BY <2>4, <3>1
    <3>2. CASE DatabaseStep
      BY <2>1, <2>2, <2>3, <3>2
    <3>3. CASE Open \/ Start \/ Stop \/ Deliver \/ \E n \in Name : Replicate(n)
      BY <2>2, <2>3, <2>5, <3>3
    <3> QED
      BY <3>1, <3>2, <3>3 DEF Next
  <2> QED
    BY <2>1, <2>6 DEF Nearer
<1>3. Spec => []IInv
  BY UsesConnections, DbCorrect, PTL
<1> QED
  BY <1>1, <1>2, <1>3, SqlCorrect, PTL DEF Spec
=============================================================================
