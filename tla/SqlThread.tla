------------------------------- MODULE SqlThread -------------------------------
(***************************************************************************)
(* The database thread of a server and the network thread it serves        *)
(* (db_common/commonDataMgr.cpp, sqlThMsgHandler.cpp, CommonDataSql.cpp):  *)
(* requests queue to the database thread, which executes them one by one   *)
(* over the connections of DbConn and answers some of them.  Before the    *)
(* threads start the owner calls the same statements itself.  The table    *)
(* at_common_data has one row per name; a row is known by the request that *)
(* wrote it.                                                               *)
(***************************************************************************)
EXTENDS DbConn, Sequences, FiniteSetsExt

CONSTANTS
  Name,       \* names of rows
  NoName,     \* the empty name
  MaxRequest, \* bound on the requests
  ModuleFor   \* the class that executes a kind of request

Kind == {"load", "create", "save", "post", "select", "update"}
TextKind == {"select", "update"}
Statement == Kind \ TextKind

ASSUME ModuleForAssumption ==
  ModuleFor \in [Statement -> Module] /\ ModuleFor["load"] = LoadModule
ASSUME MaxRequestAssumption == MaxRequest \in Nat

VARIABLES
  started,   \* the threads run
  requests,  \* every request made, in order; its place is its id
  toSql, toNet,
  table, replica, \* the rows of the main database and of the one the reader
                  \* reads: the id of the request that wrote them, 0 if none
  found,     \* what the load statement fetched
  answers,   \* history: what the network thread or the owner was told
  applied    \* history: how often the server did what a request asks for

queues == <<started, requests, toSql, toNet, answers>>
rows == <<table, replica, found, applied>>
vars == <<dbVars, queues, rows>>

RowKind == {"load", "create", "save"}
Request == [kind : RowKind, name : Name \cup {NoName}]
             \cup [kind : Kind \ RowKind, name : {NoName}]
Id == 1 .. MaxRequest
Working == toSql # <<>>
Current == requests[Head(toSql)]

-----------------------------------------------------------------------------
Init ==
  /\ DbInit
  /\ started = FALSE /\ requests = <<>> /\ toSql = <<>> /\ toNet = <<>>
  /\ table \in [Name -> {0}] /\ replica = table
  /\ found = 0 /\ answers = <<>> /\ applied = [id \in Id |-> 0]

Start ==
  /\ pc = "idle" /\ ~Working /\ ~started
  /\ started' = TRUE
  /\ UNCHANGED <<dbVars, rows, requests, toSql, toNet, answers>>

(* LoadAsync, SaveAsync, CreateAsync and the owner's other messages; the   *)
(* owner's own calls InitLoad, Save, Create before the threads start.      *)
Ask(request) ==
  /\ pc \notin Dead \cup {"off"} /\ Len(requests) < MaxRequest
  /\ started \/ (~Working /\ request.kind \in RowKind /\ request.name # NoName)
  /\ requests' = Append(requests, request)
  /\ toSql' = Append(toSql, Len(requests'))
  /\ UNCHANGED <<dbVars, rows, started, toNet, answers>>

-----------------------------------------------------------------------------
(* The handlers of load, save and create look at the name.                 *)
Nameless == Current.name = NoName /\ Current.kind \in RowKind

(* dbThread_runsql_handler, RunSql: a select goes to the reader.           *)
DatabaseFor(kind) == IF kind = "select" /\ special THEN "reader" ELSE "main"

Handle ==
  /\ Working /\ ~Nameless
  /\ IF Current.kind \in TextKind THEN SqlExecute(DatabaseFor(Current.kind))
     ELSE StmtExecute(ModuleFor[Current.kind])
  /\ UNCHANGED <<queues, rows>>

Ignore ==
  /\ pc = "idle" /\ Working /\ Nameless
  /\ toSql' = Tail(toSql)
  /\ UNCHANGED <<dbVars, rows, started, requests, toNet, answers>>

(* The server does what is asked for: a create writes only a row that is   *)
(* not there, save_common_data writes it in any case.                      *)
Possible == Current.kind = "create" => table[Current.name] = 0
Apply ==
  /\ Possible
  /\ applied' = [applied EXCEPT ![Head(toSql)] = @ + 1]
  /\ table' = (IF Current.kind \in {"create", "save"}
               THEN [table EXCEPT ![Current.name] = Head(toSql)] ELSE table)
  /\ UNCHANGED replica

Row == IF special THEN replica[Current.name] ELSE table[Current.name]

(* A load that fetches no row fails.                                       *)
Done ==
  /\ Execute("done") /\ Apply
  /\ IF Current.kind = "load" THEN Row # 0 /\ found' = Row ELSE UNCHANGED found
  /\ UNCHANGED queues

Error == Execute("error") /\ UNCHANGED <<queues, rows>>

Lost ==
  /\ Execute("lost")
  /\ Apply \/ UNCHANGED <<table, replica, applied>>
  /\ UNCHANGED <<found, queues>>

Retry == (Refuse \/ Reconnect) /\ UNCHANGED <<queues, rows>>

Answer(ok) == [id |-> Head(toSql), kind |-> Current.kind, ok |-> ok, row |-> found]

(* Mutation of Finish: a request that failed is kept.                      *)
Finish_keep ==
  /\ Working
  /\ Return
  /\ toSql' = (IF pc = "ok" THEN Tail(toSql) ELSE toSql)
  /\ toNet' = (IF started /\ pc = "ok" /\ Current.kind \in {"load", "create"}
               THEN Append(toNet, Answer(TRUE)) ELSE toNet)
  /\ answers' = (IF started THEN answers ELSE Append(answers, Answer(pc = "ok")))
  /\ found' = 0
  /\ UNCHANGED <<started, requests, table, replica, applied>>

(* Mutation of Finish: it answers whatever the result.                     *)
Finish_unchecked ==
  /\ Working
  /\ Return
  /\ toSql' = Tail(toSql)
  /\ toNet' = (IF started /\ Current.kind \in {"load", "create"}
               THEN Append(toNet, Answer(TRUE)) ELSE toNet)
  /\ answers' = (IF started THEN answers ELSE Append(answers, Answer(TRUE)))
  /\ found' = 0
  /\ UNCHANGED <<started, requests, table, replica, applied>>

(* The rest of the handler: a load or create that succeeded is answered,   *)
(* nothing else is.  The owner's own call returns whether it succeeded.    *)
Finish ==
  /\ Working
  /\ Return
  /\ toSql' = Tail(toSql)
  /\ toNet' = (IF started /\ pc = "ok" /\ Current.kind \in {"load", "create"}
               THEN Append(toNet, Answer(TRUE)) ELSE toNet)
  /\ answers' = (IF started THEN answers ELSE Append(answers, Answer(pc = "ok")))
  /\ found' = 0
  /\ UNCHANGED <<started, requests, table, replica, applied>>

(* netThread_common_data_load_ack, netThread_common_data_create_ack.       *)
Deliver ==
  /\ toNet # <<>> /\ pc \notin Dead
  /\ answers' = Append(answers, Head(toNet)) /\ toNet' = Tail(toNet)
  /\ UNCHANGED <<dbVars, rows, started, requests, toSql>>

(* The reader's database follows the main one.                             *)
Replicate(n) ==
  /\ special /\ replica[n] # table[n]
  /\ replica' = [replica EXCEPT ![n] = table[n]]
  /\ UNCHANGED <<dbVars, queues, table, found, applied>>

Open == (Create \/ CannotCreate) /\ UNCHANGED <<queues, rows>>
Stop == Destroy /\ ~Working /\ UNCHANGED <<queues, rows>>

DatabaseStep == Handle \/ Ignore \/ Done \/ Error \/ Lost \/ Retry \/ Finish

Next ==
  \/ Open \/ Start \/ Stop
  \/ \E request \in Request : Ask(request)
  \/ DatabaseStep
  \/ Deliver
  \/ \E n \in Name : Replicate(n)

(* The database thread takes the next request and goes on with the present *)
(* one as long as it lives.                                                *)
Spec == Init /\ [][Next]_vars /\ WF_vars(DatabaseStep)

-----------------------------------------------------------------------------
TypeOK ==
  /\ DbTypeOK
  /\ started \in BOOLEAN /\ requests \in Seq(Request)
  /\ Len(toSql) <= MaxRequest /\ Len(toNet) + Len(answers) <= MaxRequest
  /\ table \in [Name -> 0 .. MaxRequest] /\ replica \in [Name -> 0 .. MaxRequest]
  /\ found \in 0 .. MaxRequest /\ applied \in [Id -> 0 .. 3]

(* A statement is repeated only when its connection is lost, and then the  *)
(* server has done at most once what it was asked for; a text may have     *)
(* been executed three times.  What is answered with success was done.     *)
AppliedAsAnswered ==
  /\ \A id \in DOMAIN requests :
       applied[id] <= (IF requests[id].kind \in TextKind THEN 3 ELSE 1)
  /\ \A k \in DOMAIN answers : answers[k].ok => applied[answers[k].id] = 1

(* The writes to a row that were asked for before a request and were done. *)
WritesBefore(id, n) ==
  {w \in 1 .. id - 1 : requests[w].kind \in {"create", "save"} /\ requests[w].name = n
                       /\ applied[w] > 0}

(* All answers, those under way behind those that arrived; the loads among *)
(* them that succeeded, and the row each was for.                          *)
Told == answers \o toNet
Loads == {k \in DOMAIN Told : Told[k].kind = "load" /\ Told[k].ok}
NameTold(k) == requests[Told[k].id].name

(* A load answers with the last write before it in the order of the        *)
(* requests, though writes fail, are repeated or were never answered; over *)
(* the reader it may be an earlier one, but never one earlier than another *)
(* load has seen.                                                          *)
LoadsSeeWrites ==
  \A k \in Loads :
    /\ Told[k].row \in WritesBefore(Told[k].id, NameTold(k))
    /\ ~special => Told[k].row = Max(WritesBefore(Told[k].id, NameTold(k)))
    /\ \A j \in Loads : j < k /\ NameTold(j) = NameTold(k) => Told[j].row <= Told[k].row

(* The answers tell what was done to the rows, and what the loads saw.     *)
RowsAsAnswered == AppliedAsAnswered /\ LoadsSeeWrites

(* The database thread comes to the end of its queue, whatever fails.      *)
QueueDrains == <>[](pc \in Dead \cup {"off"} \/ ~Working)
=============================================================================
