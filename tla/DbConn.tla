-------------------------------- MODULE DbConn --------------------------------
(***************************************************************************)
(* The database connections of a server (db_common/mydatabase.cpp,         *)
(* db_common/gameDBConnector.cpp): the main one and the optional reader,   *)
(* the prepared statements (one object of each class) made on connecting   *)
(* and closed on disconnecting, and the execution of a statement or of a   *)
(* text with its reconnection when the server is lost.  One thread uses    *)
(* them: "not reentrant" (mydatabase.h).                                   *)
(***************************************************************************)
EXTENDS Integers

CONSTANTS
  Module,     \* the statement classes: m_sqlcommonLoad, m_sqlcommonSave, ...
  LoadModule, \* LoadCommonDataSql, the one the reader serves
  Rank,       \* the place of a class in the order OnCreate creates them in
  MaxOpen     \* bound on the connections opened

ASSUME ModuleAssumption ==
  LoadModule \in Module /\ Rank \in [Module -> Nat] /\ "text" \notin Module
ASSUME MaxOpenAssumption == MaxOpen \in Nat

Database == {"main", "reader"}

VARIABLES
  special,        \* m_bSpecialReader
  m_bReallocSTMT,
  opens,          \* connections so far; they are known by their number
  db_handle,      \* the present connection of a database, 0 if it has none
  module,         \* the object of a class, known by the connection it was
                  \* made on; 0 is NULL
  prepared,       \* the objects <<class, connection>> with m_stm_context set
  pc,             \* where the thread is
  target,         \* what it executes: an object, or a text for a database
  re_times

connection == <<special, m_bReallocSTMT, opens, db_handle, module, prepared>>
execution == <<pc, target, re_times>>
dbVars == <<connection, execution>>

Object == Module \X (1 .. MaxOpen)
Text == {"text"} \X Database
NoTarget == <<>>

Dead == {"crashed", "exited", "closed"}

(* The classes OnCreate and OnDestroy handle for a database.               *)
ModulesOf(db) == IF ~special THEN Module
                 ELSE IF db = "main" THEN Module \ {LoadModule} ELSE {LoadModule}
DatabaseOf(m) == IF special /\ m = LoadModule THEN "reader" ELSE "main"

TargetDatabase == IF target \in Text THEN target[2] ELSE DatabaseOf(target[1])

-----------------------------------------------------------------------------
DbInit ==
  /\ special \in BOOLEAN
  /\ m_bReallocSTMT = FALSE /\ opens = 0
  /\ db_handle = [db \in Database |-> 0] /\ module = [m \in Module |-> 0]
  /\ prepared = {}
  /\ pc = "off" /\ target = NoTarget /\ re_times = 0

(* ServerDbConnBase::Create opens the reader, then the main database, and  *)
(* exits the process if one cannot be opened.                              *)
Create ==
  /\ pc = "off"
  /\ LET number(db) == IF special /\ db = "main" THEN 2 ELSE 1
         used == IF special THEN Database ELSE {"main"}
     IN /\ opens' = (IF special THEN 2 ELSE 1)
        /\ opens' <= MaxOpen
        /\ db_handle' = [db \in Database |-> IF db \in used THEN number(db) ELSE 0]
        /\ module' = [m \in Module |-> number(DatabaseOf(m))]
        /\ prepared' = {<<m, number(DatabaseOf(m))>> : m \in Module}
  /\ pc' = "idle"
  /\ UNCHANGED <<special, m_bReallocSTMT, target, re_times>>

CannotCreate == pc = "off" /\ pc' = "exited" /\ UNCHANGED <<connection, target, re_times>>

-----------------------------------------------------------------------------
(* SqlBindStm::stmt_execute of the class's object, if there is one.        *)
StmtExecute(m) ==
  /\ pc = "idle"
  /\ IF module[m] = 0 THEN pc' = "crashed" /\ UNCHANGED <<target, re_times>>
     ELSE pc' = "try" /\ target' = <<m, module[m]>> /\ re_times' = 2
  /\ UNCHANGED connection

(* Mutation of SqlExecute: one try more.                                   *)
SqlExecute_again(db) ==
  /\ pc = "idle"
  /\ pc' = "try" /\ target' = <<"text", db>> /\ re_times' = 4
  /\ UNCHANGED connection

(* sql_execute, of a text that goes to a database.                         *)
SqlExecute(db) ==
  /\ pc = "idle"
  /\ pc' = "try" /\ target' = <<"text", db>> /\ re_times' = 3
  /\ UNCHANGED connection

(* Nothing to execute with: no connection, no statement in the object, or  *)
(* a statement that the library closed together with its connection.       *)
Unusable == IF target \in Text THEN db_handle[target[2]] = 0
            ELSE target \notin prepared \/ target[2] # db_handle[TargetDatabase]

(* Mutation of Refuse: the retry takes the statement of the new connection.*)
Refuse_renew ==
  /\ pc = "try" /\ Unusable
  /\ IF re_times = 1 /\ target \notin Text /\ module[target[1]] # 0
     THEN pc' = "try" /\ target' = <<target[1], module[target[1]]>>
     ELSE pc' = "failed" /\ UNCHANGED target
  /\ UNCHANGED <<connection, re_times>>

(* The retry of a statement ends here: its object was closed in between.   *)
Refuse ==
  /\ pc = "try" /\ Unusable
  /\ pc' = "failed"
  /\ UNCHANGED <<connection, target, re_times>>

(* The server answers, or is lost: the caller does not know whether before *)
(* or after it did what it was asked for.                                  *)
Execute(answer) ==
  /\ pc = "try" /\ ~Unusable
  /\ re_times' = (IF answer = "lost" THEN re_times - 1 ELSE re_times)
  /\ pc' = (CASE answer = "done" -> "ok"
              [] answer = "error" -> "failed"
              [] answer = "lost" -> IF re_times' > 0 THEN "reconnect" ELSE "failed")
  /\ UNCHANGED <<connection, target>>

-----------------------------------------------------------------------------
(* Mutation of Closed: the statements are forgotten before they are closed.*)
Closed_unclosed(db) == prepared

(* close_database: OnDestroy closes the statement of every object; objects *)
(* are deleted when m_bReallocSTMT is set, as it is only in Destroy.       *)
Closed(db) == prepared \ {<<m, module[m]>> : m \in ModulesOf(db)}

(* Mutation of Reopen: the connection is kept when on_connect has failed.  *)
Reopen_kept(db, fails) ==
  LET made == {m \in ModulesOf(db) : \A f \in fails : Rank[m] < Rank[f]}
  IN /\ opens < MaxOpen
     /\ opens' = opens + 1
     /\ db_handle' = [db_handle EXCEPT ![db] = opens']
     /\ module' = [m \in Module |-> IF m \in made THEN opens'
                                    ELSE IF m \in fails THEN 0 ELSE module[m]]
     /\ prepared' = Closed(db) \cup {<<m, opens'>> : m \in made}
     /\ pc' = (IF fails = {} THEN "try" ELSE "failed")

(* close_database and open_database, when the server accepts: OnCreate     *)
(* makes a new object of every class up to the first whose Create fails,   *)
(* if one does, and then the connection is closed and stays closed.        *)
Reopen(db, fails) ==
  LET made == {m \in ModulesOf(db) : \A f \in fails : Rank[m] < Rank[f]}
  IN /\ opens < MaxOpen
     /\ opens' = opens + 1
     /\ db_handle' = [db_handle EXCEPT ![db] = IF fails = {} THEN opens' ELSE 0]
     /\ module' = [m \in Module |-> IF m \in made THEN opens'
                                    ELSE IF m \in fails THEN 0 ELSE module[m]]
     /\ prepared' = Closed(db) \cup {<<m, opens'>> : m \in made}
     /\ pc' = (IF fails = {} THEN "try" ELSE "failed")

(* The server does not accept.                                             *)
CannotReopen(db) ==
  /\ db_handle' = [db_handle EXCEPT ![db] = 0]
  /\ prepared' = Closed(db)
  /\ pc' = "failed"
  /\ UNCHANGED <<opens, module>>

(* on_error_tryto_reconnect; the ping never says no.                       *)
Reconnect ==
  /\ pc = "reconnect"
  /\ LET db == TargetDatabase
     IN \/ CannotReopen(db)
        \/ Reopen(db, {})
        \/ \E m \in ModulesOf(db) : Reopen(db, {m})
  /\ UNCHANGED <<special, m_bReallocSTMT, target, re_times>>

(* The caller has the result.                                              *)
Return ==
  /\ pc \in {"ok", "failed"}
  /\ pc' = "idle" /\ target' = NoTarget /\ re_times' = 0
  /\ UNCHANGED connection

(* ServerDbConnBase::Destroy.                                              *)
Destroy ==
  /\ pc = "idle"
  /\ pc' = "closed"
  /\ m_bReallocSTMT' = (db_handle["main"] # 0)
  /\ LET open == {m \in Module : db_handle[DatabaseOf(m)] # 0}
     IN /\ prepared' = prepared \ {<<m, module[m]>> : m \in open}
        /\ module' = [m \in Module |-> IF m \in open /\ m_bReallocSTMT' THEN 0 ELSE module[m]]
  /\ db_handle' = [db \in Database |-> 0]
  /\ UNCHANGED <<special, opens, target, re_times>>

DbNext ==
  \/ Create \/ CannotCreate \/ Destroy
  \/ \E m \in Module : StmtExecute(m)
  \/ \E db \in Database : SqlExecute(db)
  \/ Refuse
  \/ \E answer \in {"done", "error", "lost"} : Execute(answer)
  \/ Reconnect
  \/ Return

DbSpec == DbInit /\ [][DbNext]_dbVars

-----------------------------------------------------------------------------
DbTypeOK ==
  /\ special \in BOOLEAN /\ m_bReallocSTMT \in BOOLEAN
  /\ opens \in 0 .. MaxOpen
  /\ db_handle \in [Database -> 0 .. MaxOpen]
  /\ module \in [Module -> 0 .. MaxOpen]
  /\ prepared \subseteq Object
  /\ pc \in {"off", "idle", "try", "reconnect", "ok", "failed"} \cup Dead
  /\ target \in Object \cup Text \cup {NoTarget}
  /\ re_times \in 0 .. 3

(* While a database is connected, the object of every class it serves is   *)
(* there and its statement belongs to this connection, not to a lost one.  *)
StatementsCurrent ==
  \A m \in Module : db_handle[DatabaseOf(m)] # 0 =>
    module[m] = db_handle[DatabaseOf(m)] /\ <<m, module[m]>> \in prepared

(* No statement stays open in an object that nothing refers to any more.   *)
NoOrphan == \A m \in Module, n \in 1 .. MaxOpen : <<m, n>> \in prepared => n = module[m]

(* The process dies of a null pointer only after a reconnection failed and *)
(* left a database without a connection.                                   *)
CrashNeedsFailedReopen ==
  pc = "crashed" => \E m \in Module : db_handle[DatabaseOf(m)] = 0
(* The three together: how long an object, its statement and its           *)
(* connection belong together, through reconnections that fail at any      *)
(* class.                                                                  *)
ConnectionsSound == StatementsCurrent /\ NoOrphan /\ CrashNeedsFailedReopen
=============================================================================
