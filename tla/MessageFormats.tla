--------------------------- MODULE MessageFormats ---------------------------
(***************************************************************************)
(* The tables by which a client that shows every message reads them: the   *)
(* names and formats of the messages, and the types of their data          *)
(* (cli_common/dftCliMsgHandler.cpp).  The editor's connect dialog         *)
(* (tool/apoEditor/src/connectdialog.cpp) logs in to one of several        *)
(* servers and asks for the time at which its messages were built; a table *)
(* is then read from the file of an earlier session, if that is no older,  *)
(* or asked for and saved.  A table is represented by its build time.      *)
(***************************************************************************)
EXTENDS Naturals, Sequences

CONSTANTS
  Server,    \* the servers one may log in to
  MaxBuild   \* bound: build times of messages

VARIABLES
  stage,     \* on_loginButton_clicked: what the dialog is doing
  m_pConn,   \* the dialog's connection: "none", "open" or "lost"
  host,      \* the server at its other end
  owner,     \* __myScriptOwner.m_conn: "none", "live" or "gone"
  asked,     \* what the client has asked the server and is not answered yet
  table,     \* the tables in memory: the build each is of, or 0
  saved,     \* msgIdName.dat, msgformat.dat: the same; 0 is not readable
  build      \* the servers: when their messages were built

dialog == <<stage, m_pConn, host, owner>>
vars == <<dialog, asked, table, saved, build>>

Build == 1 .. MaxBuild
Table == {"names", "types"}  \* in the order in which they are loaded
None == [t \in Table |-> 0]

Init ==
  /\ stage = "out" /\ m_pConn = "none" /\ owner = "none" /\ asked = <<>>
  /\ host \in Server
  /\ table = None /\ saved = None
  /\ build \in [Server -> Build]

-----------------------------------------------------------------------------
(* The dialog.  A login blocks, except while the user picks a server in a  *)
(* list: the timer runs on there.                                          *)

\* destroyConnect: the script's owner keeps what is destroyed.
destroyConnect ==
  /\ m_pConn' = "none" /\ asked' = <<>>
  /\ owner' = IF m_pConn = "none" THEN owner ELSE "gone"
  /\ UNCHANGED host

\* mutant: the owner is told later
Connects_unowned(s) ==
  /\ stage = "out"
  /\ stage' = "login" /\ m_pConn' = "open" /\ host' = s
  /\ UNCHANGED <<owner, asked, table, saved, build>>

\* _connectHost, init_apollo_object
Connects(s) ==
  /\ stage = "out"
  /\ stage' = "login" /\ m_pConn' = "open" /\ host' = s /\ owner' = "live"
  /\ UNCHANGED <<asked, table, saved, build>>

\* ... to a host that is not there, or with a script that does not load
CannotConnect ==
  /\ stage = "out"
  /\ owner' \in {owner, "gone"}
  /\ UNCHANGED <<stage, m_pConn, host, asked, table, saved, build>>

\* _login, and GetServerList: a list is shown if there is a choice.
LogsIn ==
  /\ stage = "login" /\ m_pConn = "open"
  /\ stage' \in {"choose", "enter"}
  /\ UNCHANGED <<m_pConn, host, owner, asked, table, saved, build>>

\* The program ends and is started again.
Restarts ==
  /\ stage' = "out" /\ m_pConn' = "none" /\ owner' = "none"
  /\ asked' = <<>> /\ table' = None
  /\ UNCHANGED <<host, saved, build>>

\* ShowServers; the timer may have destroyed m_login meanwhile, which is
\* then a null pointer.
Chooses ==
  /\ stage = "choose"
  /\ IF m_pConn = "none" THEN Restarts
     ELSE stage' = "enter" /\ UNCHANGED <<m_pConn, host, owner, asked, table, saved, build>>

\* SelOrCreateRole, and LoadMsgDataTypeFromServer of the server it entered
Enters(s) ==
  /\ stage = "enter" /\ m_pConn = "open"
  /\ stage' = "in" /\ host' = s /\ asked' = <<"time">>
  /\ UNCHANGED <<m_pConn, owner, table, saved, build>>

\* The login fails, or the user cancels it.
LoginFails ==
  /\ stage \in {"login", "choose", "enter"}
  /\ stage' = "out" /\ destroyConnect
  /\ UNCHANGED <<table, saved, build>>

Logout ==
  /\ stage = "in"
  /\ stage' = "out" /\ destroyConnect
  /\ UNCHANGED <<table, saved, build>>

\* Update finds the connection broken.
onTimeOut ==
  /\ stage \in {"choose", "in"} /\ m_pConn = "lost"
  /\ destroyConnect
  /\ stage' = IF stage = "in" THEN "out" ELSE stage
  /\ UNCHANGED <<table, saved, build>>

-----------------------------------------------------------------------------
(* The handlers of the answers, which come in the order of the questions.  *)
Answered(question) == m_pConn = "open" /\ asked # <<>> /\ Head(asked) = question

\* mutant: any file will do
Recent_any(b, genTime) == b > 0
\* oldVersionTime >= genTime
Recent(b, genTime) == b >= genTime

\* OutputMessage2File: a file that is not written whole is not read again.
Written(old, b) == {old, b, 0}

Questions(t, fromFile) == IF fromFile THEN <<>> ELSE <<t>>

\* handleMsgFirstFromFileBeforTime, for each table: what a handler has saved
\* it reads again, and saves again.
trytoLoadMessageFormat(genTime) ==
  LET FromFile(t) == Recent(saved[t], genTime) IN
  /\ table' = [t \in Table |-> IF FromFile(t) THEN saved[t] ELSE table[t]]
  /\ saved' \in [Table -> Build \cup {0}]
  /\ \A t \in Table : saved'[t] \in IF FromFile(t) THEN Written(saved[t], saved[t])
                                    ELSE {saved[t]}
  /\ asked' = Tail(asked) \o Questions("names", FromFile("names")) \o Questions("types", FromFile("types"))

get_message_protocol_build_time ==
  /\ Answered("time")
  /\ trytoLoadMessageFormat(build[host])
  /\ UNCHANGED <<dialog, build>>

\* The table is replaced, then saved.
Replaced(t, b) ==
  /\ table' = [table EXCEPT ![t] = b]
  /\ \E written \in Written(saved[t], b) : saved' = [saved EXCEPT ![t] = written]

get_id_name_format_handler ==
  /\ Answered("names")
  /\ Replaced("names", build[host])
  /\ asked' = Tail(asked)
  /\ UNCHANGED <<dialog, build>>

\* Types that cannot be read leave the table empty and the file alone.
get_data_format_handler ==
  /\ Answered("types")
  /\ \/ Replaced("types", build[host])
     \/ table' = [table EXCEPT !["types"] = 0] /\ UNCHANGED saved
  /\ asked' = Tail(asked)
  /\ UNCHANGED <<dialog, build>>

-----------------------------------------------------------------------------
(* Connections are lost; a server is started with messages built anew.     *)
Loses == m_pConn' = "lost" /\ asked' = <<>>

Drop ==
  /\ m_pConn = "open" /\ Loses
  /\ UNCHANGED <<stage, host, owner, table, saved, build>>

Rebuilt(s) ==
  /\ \E b \in Build : b > build[s] /\ build' = [build EXCEPT ![s] = b]
  /\ IF m_pConn = "open" /\ host = s THEN Loses ELSE UNCHANGED <<m_pConn, asked>>
  /\ UNCHANGED <<stage, host, owner, table, saved>>

Next ==
  \/ \E s \in Server : Connects(s) \/ Enters(s) \/ Rebuilt(s)
  \/ CannotConnect \/ LogsIn \/ Chooses \/ LoginFails \/ Logout \/ onTimeOut
  \/ get_message_protocol_build_time \/ get_id_name_format_handler
  \/ get_data_format_handler \/ Drop \/ Restarts

Spec == Init /\ [][Next]_vars
-----------------------------------------------------------------------------
(* A message that came with build k, like the type of its data, is printed *)
(* as text, raw, or broken off where the type is missing.                  *)
LogicOutputMsgByFormat(k) == IF k > table["types"] THEN "error" ELSE "text"

\* apollo_dft_message_handler
Shown(k) ==
  IF table["types"] = 0 \/ k > table["names"] THEN "raw" ELSE LogicOutputMsgByFormat(k)

Settled == stage = "in" /\ m_pConn = "open" /\ asked = <<>>

\* Once all is answered, every message of the server can be shown, unless its
\* types could not be read: whatever earlier sessions, with this server or
\* another, have left in memory and in the files, whole or not.
MessagesShown ==
  Settled => \A k \in 1 .. build[host] :
               Shown(k) = IF table["types"] = 0 THEN "raw" ELSE "text"

\* And a client of the newest of the servers has exactly its tables.
NothingForeign ==
  Settled /\ (\A s \in Server : build[s] <= build[host]) =>
    /\ table["names"] = build[host]
    /\ table["types"] \in {0, build[host]}

\* The scripts that run on a connection are given one that is there.
OwnerLives == m_pConn # "none" => owner = "live"
=============================================================================
