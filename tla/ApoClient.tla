------------------------------- MODULE ApoClient -------------------------------
(***************************************************************************)
(* The login of a client (cli_common/apoClientObj.cpp, login_apollo.cpp)   *)
(* as the Unity plugin drives it (plugin_u3d/apoCliApi.cpp): a call        *)
(* connects, exchanges a key, logs in, is sent on to a game server and     *)
(* asks for its roles, one blocking request after the other, each of which *)
(* may be refused, time out or find the connection closed.  The connector  *)
(* is the network library's; peer is what the server at the other end      *)
(* takes this connection for.                                              *)
(***************************************************************************)
EXTENDS Naturals, SequencesExt

CONSTANTS
  Session,   \* ids a server gives to logins
  NoSession, \* 0: no login
  Tries      \* LoginOnly's attempts, GetRoleList's requests (both 3)

ASSUME SessionAssumption == NoSession \notin Session
ASSUME TriesAssumption == Tries \in Nat \ {0}

VARIABLES
  addressed, \* m_host and m_port are known
  conn,      \* m_pconn: "none", "closed" or "open"
  level,     \* nd_connect_level_get of the connector
  login,     \* m_login: "none", "bound" to m_pconn, or "stale": bound to a
             \* connector that was destroyed
  session,   \* m_login->m_sessionID
  running,   \* m_runningUpdate = ERUN_UP_NORMAL
  call,      \* the call under way, or the last one and whether it succeeded
  peer,      \* the session the server has for this connection
  late       \* answers on their way that no call waits for any more

server == <<peer, late>>
wire == <<conn, level, server>>
vars == <<addressed, login, session, running, call, wire>>

Login == {"LoginAccount", "LoginOnly"}
Create == {"CreateAccount", "CreateAccountOnly"}
Relogin == {"ReloginEx", "ReloginBackground"}
Request == {"login", "create", "relogin", "select"}
Step == Request \cup {"idle", "open", "file", "version", "list", "switch",
                      "jump", "roles", "newrole", "return"}

IsLoginOk == conn = "open" /\ level # "connect"
Idle == call.step = "idle"

(* A connection that ends takes the server's view of it and the answers on *)
(* their way with it.                                                      *)
Cut == peer' = NoSession /\ late' = <<>>

-----------------------------------------------------------------------------
Init ==
  /\ addressed \in BOOLEAN
  /\ conn = "none" /\ level = "connect" /\ peer = NoSession /\ late = <<>>
  /\ login = "none" /\ session = NoSession /\ running = FALSE
  /\ call = [name |-> "none", step |-> "idle", tries |-> Tries, ok |-> FALSE]

Proceed_stopped(step, r) ==
  /\ call' = [call EXCEPT !.step = step, !.ok = step = "return",
                          !.tries = IF step = "roles" THEN Tries ELSE @]
  /\ running' = IF call.name = "SelectServer" THEN running
                ELSE step = "login" /\ r

(* The next step of a call.  The calls that log in stop Update while they  *)
(* work; r is m_runningUpdate when LoginOnly, which does so before it has  *)
(* connected, comes to send its request.                                   *)
Proceed(step, r) ==
  /\ call' = [call EXCEPT !.step = step, !.ok = step = "return",
                          !.tries = IF step = "roles" THEN Tries ELSE @]
  /\ running' = IF call.name = "SelectServer" THEN running
                ELSE CASE step = "return" -> TRUE
                       [] step = "login" -> r
                       [] OTHER -> FALSE

Continue(step) == Proceed(step, FALSE)

(* A _trytoOpen or a relogin that fails leaves m_runningUpdate behind as   *)
(* it is.                                                                  *)
Leaves == call.step \in {"open", "file", "version", "relogin"}
            \/ call.name = "SelectServer"

Fail_unless_switching ==
  /\ call' = [call EXCEPT !.step = "return", !.ok = call.step = "select"]
  /\ running' = (running \/ ~Leaves)

Fail ==
  /\ call' = [call EXCEPT !.step = "return", !.ok = FALSE]
  /\ running' = (running \/ ~Leaves)

Enters == call.name \in {"LoginAccount", "CreateAccount", "ReloginEx"}
Entered == IF Enters THEN "roles" ELSE "return"
LoggedIn == IF call.step = "select" THEN Entered
            ELSE IF Enters THEN "list" ELSE "return"

-----------------------------------------------------------------------------
(* A call begins; one that has nothing to do, or may not, goes straight to *)
(* its return.                                                             *)
Begin(name, step, ok) ==
  call' = [name |-> name, step |-> step, tries |-> Tries, ok |-> ok]

LoginCall(name) ==
  /\ Idle
  /\ IF IsLoginOk THEN Begin(name, "return", FALSE) /\ UNCHANGED running
     ELSE Begin(name, "open", FALSE) /\ running' = FALSE
  /\ UNCHANGED <<addressed, login, session, wire>>

CreateCall(name, named) ==
  /\ Idle
  /\ IF IsLoginOk \/ ~named THEN Begin(name, "return", FALSE)
     ELSE Begin(name, "open", FALSE)
  /\ UNCHANGED <<addressed, login, session, running, wire>>

ReloginCall(name) ==
  /\ Idle /\ conn # "none"
  /\ IF IsLoginOk THEN Begin(name, "return", TRUE) ELSE Begin(name, "open", FALSE)
  /\ UNCHANGED <<addressed, login, session, running, wire>>

SelectCall(withHost) ==
  /\ Idle /\ IsLoginOk
  /\ Begin("SelectServer", IF withHost THEN "switch" ELSE "list", FALSE)
  /\ UNCHANGED <<addressed, login, session, running, wire>>

(* ApoClient::Close: m_login outlives the connector it was made for.       *)
Shut ==
  /\ conn' = "none" /\ level' = "connect" /\ Cut
  /\ login' = IF login = "bound" THEN "stale" ELSE login

Return_open ==
  /\ call.step = "return"
  /\ call' = [call EXCEPT !.step = "idle"]
  /\ UNCHANGED <<addressed, login, session, running, wire>>

(* The plugin closes the client of a login or a creation that failed,      *)
(* ReloginEx and ReloginBackground close the connection, SelectServer      *)
(* leaves it.                                                              *)
Return ==
  /\ call.step = "return"
  /\ call' = [call EXCEPT !.step = "idle"]
  /\ IF call.ok \/ call.name = "SelectServer" THEN UNCHANGED <<login, wire>>
     ELSE IF call.name \in Relogin
     THEN conn' = "closed" /\ Cut /\ UNCHANGED <<login, level>>
     ELSE Shut
  /\ UNCHANGED <<addressed, session, running>>

-----------------------------------------------------------------------------
(* _trytoOpen, _connectHost: a connection that is open is used as it is,   *)
(* any other one is made anew, with a new LoginApollo and a new key.       *)
Asks == CASE call.name \in Login -> "login"
          [] call.name \in Create -> "create"
          [] call.name = "ReloginEx" -> "version"
          [] call.name = "ReloginBackground" -> "file"

Reuse ==
  /\ call.step = "open" /\ addressed /\ conn = "open" /\ login # "none"
  /\ Proceed(Asks, running)
  /\ UNCHANGED <<addressed, login, session, wire>>

Connecting == call.step = "open" /\ addressed /\ ~(conn = "open" /\ login # "none")

Connect_keeps ==
  /\ Connecting
  /\ conn' = "open" /\ level' = "connect" /\ Cut
  /\ login' = IF login = "none" THEN "bound" ELSE login
  /\ session' = NoSession
  /\ Proceed(Asks, TRUE)
  /\ UNCHANGED addressed

Connect ==
  /\ Connecting
  /\ conn' = "open" /\ level' = "connect" /\ Cut
  /\ login' = "bound" /\ session' = NoSession
  /\ Proceed(Asks, TRUE)
  /\ UNCHANGED addressed

Unreachable ==
  /\ call.step = "open"
  /\ IF addressed THEN Connecting /\ conn' = "closed" /\ Cut ELSE UNCHANGED <<conn, server>>
  /\ Fail
  /\ UNCHANGED <<addressed, level, login, session>>

(* The host is there, the exchange of keys fails.                          *)
KeyFails ==
  /\ Connecting
  /\ conn' \in {"open", "closed"} /\ level' = "connect" /\ Cut
  /\ login' = "bound" /\ session' = NoSession
  /\ Fail
  /\ UNCHANGED addressed

-----------------------------------------------------------------------------
(* Login, CreateAccount, relogin send a request and wait for its ack: the  *)
(* first message with the ack's id, whichever request it answers.  A       *)
(* refusal carries no session, or one without an account.                  *)
AckOf(step) == IF step = "relogin" THEN "login" ELSE step
Answer(id, granted) == [ack |-> AckOf(call.step), session |-> id, granted |-> granted]
Answers == {Answer(id, TRUE) : id \in Session}
             \cup {Answer(id, FALSE) : id \in Session \cup {NoSession}}

Serve(answer) == peer' = IF answer.granted THEN answer.session ELSE peer

IsAck(message) == message.ack = AckOf(call.step)
Inbox(answer) == Append(late, answer)
Place(answer) == SelectInSeq(Inbox(answer), IsAck)
Taken(answer) == Inbox(answer)[Place(answer)]

Exchange(answer) ==
  /\ Serve(answer)
  /\ session' = Taken(answer).session
  /\ late' = SubSeq(Inbox(answer), Place(answer) + 1, Len(Inbox(answer)))

Waiting == call.step \in Request /\ conn = "open"

(* onLogin                                                                 *)
Accept ==
  /\ Waiting
  /\ \E answer \in Answers : Taken(answer).granted /\ Exchange(answer)
  /\ level' = "login"
  /\ Continue(LoggedIn)
  /\ UNCHANGED <<addressed, conn, login>>

(* The server sends the client on to another one (SELECT_SERVER_ACK only). *)
Redirect ==
  /\ Waiting /\ call.step = "select"
  /\ \E answer \in Answers : Taken(answer).granted /\ Exchange(answer)
  /\ Continue("jump")
  /\ UNCHANGED <<addressed, conn, level, login>>

Refuse ==
  /\ Waiting
  /\ \E answer \in Answers : ~Taken(answer).granted /\ Exchange(answer)
  /\ Fail
  /\ UNCHANGED <<addressed, conn, level, login>>

(* No answer in time; the server may yet do what it was asked for.         *)
TimeOut ==
  /\ Waiting
  /\ \/ UNCHANGED server
     \/ \E answer \in Answers : Serve(answer) /\ late' = Inbox(answer)
  /\ Fail
  /\ UNCHANGED <<addressed, conn, level, login, session>>

(* The other exchanges that change nothing here when they fail: the key    *)
(* version and the session data of a relogin, the lists, a new role.       *)
NoAnswer ==
  /\ call.step \in {"file", "version", "list", "roles", "newrole"}
  /\ Fail
  /\ UNCHANGED <<addressed, login, session, wire>>

(* The connection is lost while a call works.  LoginOnly tries again where *)
(* the error says so (NDERR_CLOSED, NDERR_RESET).                          *)
Again_once_more == call.step = "login" /\ call.tries > 0

Again == call.step = "login" /\ call.tries > 1

Lost ==
  /\ call.step \in Request /\ conn = "closed"
  /\ Fail
  /\ UNCHANGED <<addressed, login, session, wire>>

Retry_uncounted ==
  /\ conn = "closed" /\ Again
  /\ call' = [call EXCEPT !.step = "open"]
  /\ UNCHANGED <<addressed, login, session, running, wire>>

Retry ==
  /\ conn = "closed" /\ Again
  /\ call' = [call EXCEPT !.step = "open", !.tries = @ - 1]
  /\ UNCHANGED <<addressed, login, session, running, wire>>

-----------------------------------------------------------------------------
(* ReloginEx, _enterGame: the answers that let a call go on.               *)
SameVersion == call.step = "version" /\ Continue("relogin")

GetServerList == call.step = "list" /\ Continue("switch")

\* One role is enough, without any the call makes one.
GetRoleList == call.step = "roles" /\ (Continue("newrole") \/ Continue("return"))

CreateRole == call.step = "newrole" /\ Continue("return")

Answered ==
  /\ conn = "open"
  /\ SameVersion \/ GetServerList \/ GetRoleList \/ CreateRole
  /\ UNCHANGED <<addressed, login, session, wire>>

(* GetRoleList asks again while the server still loads the role.           *)
WouldBlock ==
  /\ call.step = "roles" /\ conn = "open" /\ call.tries > 1
  /\ call' = [call EXCEPT !.tries = @ - 1]
  /\ UNCHANGED <<addressed, login, session, running, wire>>

(* switchServer, jumptoGame: the connector is connected to another server. *)
Reconnect ==
  /\ call.step = "switch"
  /\ conn' = "open" /\ level' = "connect" /\ Cut
  /\ Continue("select")
  /\ UNCHANGED <<addressed, login, session>>

Jump ==
  /\ call.step = "jump"
  /\ conn' = "open" /\ level' = "login" /\ peer' = session /\ late' = <<>>
  /\ Continue(Entered)
  /\ UNCHANGED <<addressed, login, session>>

(* The other server is not there, or does not answer the jump.             *)
Stranded ==
  /\ \/ call.step \in {"switch", "jump"} /\ conn' = "closed" /\ UNCHANGED level
     \/ call.step = "jump" /\ conn' = "open" /\ level' = "connect"
  /\ Cut
  /\ Fail
  /\ UNCHANGED <<addressed, login, session>>

-----------------------------------------------------------------------------
(* The calls that do not wait for a server.                                *)
Open(withHost) ==
  /\ Idle
  /\ addressed' = (addressed \/ withHost)
  /\ conn' = "closed" /\ level' = "connect" /\ Cut
  /\ login' = IF login = "bound" THEN "stale" ELSE login
  /\ UNCHANGED <<session, running, call>>

Close ==
  /\ Idle /\ conn # "none"
  /\ Shut
  /\ UNCHANGED <<addressed, session, running, call>>

ResetConnect ==
  /\ Idle /\ conn = "open"
  /\ conn' = "closed" /\ Cut
  /\ UNCHANGED <<addressed, level, login, session, running, call>>

(* m_login works on its own connector, which may not be this one.          *)
Logout ==
  /\ Idle /\ conn # "none"
  /\ conn' = "closed" /\ Cut
  /\ level' = IF login = "bound" THEN "connect" ELSE level
  /\ UNCHANGED <<addressed, login, session, running, call>>

ReadyGame ==
  /\ Idle /\ conn # "none" /\ login = "bound" /\ level = "login"
  /\ level' = "ready"
  /\ UNCHANGED <<addressed, conn, login, session, running, call, server>>

(* apoCli_recv takes a message; so does Update, where it runs, and closes  *)
(* a connection it finds broken.                                           *)
Receive ==
  /\ Idle /\ conn = "open" /\ late # <<>>
  /\ late' = Tail(late)
  /\ UNCHANGED <<addressed, conn, level, login, session, running, call, peer>>

Update ==
  /\ Idle /\ running /\ conn = "open"
  /\ conn' = "closed" /\ level' = "connect" /\ Cut
  /\ UNCHANGED <<addressed, login, session, running, call>>

(* The server or the network ends the connection, at any time.             *)
Drop ==
  /\ conn = "open"
  /\ conn' = "closed" /\ Cut
  /\ UNCHANGED <<addressed, level, login, session, running, call>>

-----------------------------------------------------------------------------
Work ==
  \/ Reuse \/ Connect \/ Unreachable \/ KeyFails
  \/ Accept \/ Redirect \/ Refuse \/ TimeOut \/ NoAnswer \/ Lost \/ Retry
  \/ Answered \/ WouldBlock \/ Reconnect \/ Jump \/ Stranded \/ Return

Next ==
  \/ Work
  \/ \E name \in Login : LoginCall(name)
  \/ \E name \in Create, named \in BOOLEAN : CreateCall(name, named)
  \/ \E name \in Relogin : ReloginCall(name)
  \/ \E given \in BOOLEAN : SelectCall(given) \/ Open(given)
  \/ Close \/ ResetConnect \/ Logout \/ ReadyGame \/ Receive \/ Update \/ Drop

(* A blocking call comes to its end: ndSendAndWaitMessage waits no longer  *)
(* than NET_MSG_TIMEOUT.                                                   *)
Spec == Init /\ [][Next]_vars /\ WF_vars(Work)

-----------------------------------------------------------------------------
Call == [name : Login \cup Create \cup Relogin \cup {"SelectServer", "none"},
         step : Step, tries : 1 .. Tries, ok : BOOLEAN]
Message == [ack : {"login", "create", "select"},
            session : Session \cup {NoSession}, granted : BOOLEAN]

(* The types of the state; no attempt is made that was not allowed for     *)
(* (LoginOnly, GetRoleList).                                               *)
TypeOK ==
  /\ addressed \in BOOLEAN /\ running \in BOOLEAN
  /\ conn \in {"none", "closed", "open"} /\ level \in {"connect", "login", "ready"}
  /\ login \in {"none", "bound", "stale"}
  /\ session \in Session \cup {NoSession} /\ peer \in Session \cup {NoSession}
  /\ call \in Call
  /\ late \in Seq(Message)

(* An open connection has a LoginApollo of its own, although m_login       *)
(* outlives every connector and is made anew only in _connectHost: Update, *)
(* SelectServer and the requests of a call use the connection they should. *)
LoginBound == conn = "open" => login = "bound"

(* Between two calls a client that is logged in is one that Update works   *)
(* for, whichever calls failed before and left m_runningUpdate stopped.    *)
Pumped == Idle /\ IsLoginOk => running

(* A client that takes itself for logged in is taken for the same session  *)
(* by the server at the other end: no answer to an earlier attempt, late,  *)
(* refused or cut off, is taken for the answer to a later one.             *)
LoggedInIsServed == Idle /\ IsLoginOk => session = peer /\ session # NoSession

(* A call that returned ESERVER_ERR_SUCCESS has left a client that is      *)
(* logged in, unless its connection was lost or given up since.            *)
SuccessIsLoggedIn == Idle /\ call.ok /\ conn = "open" => IsLoginOk

(* Every call returns, however often the connection is lost.               *)
Returns == ~Idle ~> Idle

=============================================================================
