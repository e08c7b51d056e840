--------------------------- MODULE ApoClient_proofs ---------------------------
(***************************************************************************)
(* A client that takes itself for logged in is served and updated, and its *)
(* requests use a connection of their own, for any number of sessions and  *)
(* attempts; and its session file is never a mixture of two logins, for    *)
(* any number of logins and keys of the server.                            *)
(***************************************************************************)
EXTENDS MCClient, SequenceTheorems, TLAPS

(* What a call of each kind may be doing.                                  *)
StepInv ==
  /\ call.name = "none" => call.step = "idle"
  /\ call.name = "SelectServer" =>
       call.step \in {"list", "switch", "select", "jump", "return", "idle"}
  /\ call.ok => call.step \in {"return", "idle"}

(* A call that is past the connecting has a LoginApollo, whether or not    *)
(* the connection has been lost since.                                     *)
BoundInv ==
  conn = "open" \/ call.step \notin {"idle", "open", "return"} => login = "bound"

(* A request goes out on a connection that is not logged in, the lists are *)
(* asked for on one that is.                                               *)
LevelInv ==
  conn = "open" =>
    /\ call.step \in {"open", "file", "version", "jump"} \cup Request => level = "connect"
    /\ call.step \in {"list", "roles", "newrole"} => level # "connect"
    /\ call.ok => level # "connect"

(* The only answers that are late on a connection that is kept are to      *)
(* SelectServer, which asks on a connection made for the purpose.          *)
LateInv ==
  /\ \A i \in 1 .. Len(late) :
       \/ late[i].ack = "select"
       \/ call.step = "return" /\ ~call.ok /\ call.name # "SelectServer"
  /\ call.step = "select" => late = <<>>

ServedInv ==
  /\ conn = "open" /\ level # "connect" => session = peer /\ session # NoSession
  /\ call.step = "jump" => session # NoSession

(* SelectServer finds Update running and leaves it so, the other calls     *)
(* set it running when they succeed.                                       *)
PumpedInv ==
  /\ conn = "open" /\ level # "connect" /\ call.step \in {"idle", "return"} => running
  /\ call.name = "SelectServer" /\ call.step # "idle" => running

IInv == TypeOK /\ StepInv /\ BoundInv /\ LevelInv /\ LateInv /\ ServedInv /\ PumpedInv

LEMMA BeginType ==
  ASSUME NEW name \in Login \cup Create \cup Relogin \cup {"SelectServer"},
         NEW step \in Step, NEW ok \in BOOLEAN, Begin(name, step, ok)
  PROVE  /\ call' \in Call
         /\ call'.name = name /\ call'.step = step /\ call'.ok = ok
<1>1. Tries \in 1 .. Tries
  BY TriesAssumption
<1> QED
  BY <1>1 DEF Begin, Call

LEMMA ProceedType ==
  ASSUME TypeOK, NEW step \in Step, NEW r \in BOOLEAN, Proceed(step, r)
  PROVE  /\ call' \in Call /\ running' \in BOOLEAN
         /\ call'.name = call.name /\ call'.step = step
         /\ call'.ok = (step = "return")
<1>1. Tries \in 1 .. Tries
  BY TriesAssumption
<1>2. call \in Call /\ running \in BOOLEAN
  BY DEF TypeOK
<1>3. call' \in Call
  BY <1>1, <1>2 DEF Proceed, Call
<1>4. running' \in BOOLEAN
  BY <1>2 DEF Proceed
<1>5. call'.name = call.name /\ call'.step = step /\ call'.ok = (step = "return")
  BY <1>2 DEF Proceed, Call
<1> QED
  BY <1>3, <1>4, <1>5

LEMMA FailType ==
  ASSUME TypeOK, Fail
  PROVE  call' \in Call /\ running' \in BOOLEAN
<1>1. "return" \in Step
  BY DEF Step
<1>2. call \in Call /\ running \in BOOLEAN
  BY DEF TypeOK
<1>3. call' \in Call
  BY <1>1, <1>2 DEF Fail, Call
<1> QED
  BY <1>2, <1>3 DEF Fail

(* The answer to a request is the first message with the ack that is       *)
(* waited for: what was late has another one.                              *)
LEMMA TakenIsAnswer ==
  ASSUME IInv, Waiting, NEW answer \in Answers
  PROVE  /\ answer \in Message /\ answer.ack = AckOf(call.step)
         /\ Inbox(answer) \in Seq(Message)
         /\ \A i \in 1 .. Len(late) : Inbox(answer)[i] = late[i]
         /\ Len(Inbox(answer)) = Len(late) + 1
         /\ Inbox(answer)[Len(late) + 1] = answer
         /\ Place(answer) = Len(late) + 1
         /\ Taken(answer) = answer
         /\ Exchange(answer) => late' = <<>>
<1>1. answer \in Message /\ answer.ack = AckOf(call.step)
  <2>1. AckOf(call.step) \in {"login", "create", "select"}
    BY DEF Waiting, Request, AckOf
  <2>2. PICK id \in Session \cup {NoSession}, granted \in BOOLEAN :
              answer = [ack |-> AckOf(call.step), session |-> id, granted |-> granted]
    BY DEF Answers, Answer
  <2> QED
    BY <2>1, <2>2 DEF Message
<1>2. late \in Seq(Message)
  BY DEF IInv, TypeOK
<1>3. /\ Inbox(answer) \in Seq(Message)
      /\ Len(Inbox(answer)) = Len(late) + 1
      /\ \A i \in 1 .. Len(late) : Inbox(answer)[i] = late[i]
      /\ Inbox(answer)[Len(late) + 1] = answer
  BY <1>1, <1>2, AppendProperties DEF Inbox
<1>4. \A i \in 1 .. Len(late) : late[i].ack # AckOf(call.step)
  BY DEF IInv, LateInv, Waiting, AckOf, Request
<1>5. {i \in 1 .. Len(Inbox(answer)) : IsAck(Inbox(answer)[i])} = {Len(late) + 1}
  BY <1>1, <1>2, <1>3, <1>4, LenProperties DEF IsAck
<1>6. Place(answer) = Len(late) + 1
  <2>1. Len(late) + 1 \in Int
    BY <1>2, LenProperties
  <2>2. Min({Len(late) + 1}) = Len(late) + 1
    BY <2>1 DEF Min
  <2> QED
    BY <1>5, <2>2 DEF Place, SelectInSeq
<1>7. SubSeq(Inbox(answer), Place(answer) + 1, Len(Inbox(answer))) = <<>>
  BY <1>2, <1>3, <1>6, LenProperties
<1> QED
  BY <1>1, <1>3, <1>6, <1>7 DEF Taken, Exchange

LEMMA InitInv == Init => IInv
<1> SUFFICES ASSUME Init PROVE IInv
  OBVIOUS
<1>1. call \in Call
  <2>1. Tries \in 1 .. Tries /\ "idle" \in Step
    BY TriesAssumption DEF Step
  <2> QED
    BY <2>1 DEF Init, Call
<1>2. late = <<>> /\ late \in Seq(Message) /\ Len(late) = 0
  BY DEF Init
<1>3. TypeOK
  BY <1>1, <1>2 DEF Init, TypeOK
<1> QED
  BY <1>2, <1>3
  DEF Init, IInv, StepInv, BoundInv, LevelInv, LateInv, ServedInv, PumpedInv

(* Every step preserves the invariant.                                     *)
LEMMA StepKeepsInv == IInv /\ [Next]_vars => IInv'
<1> SUFFICES ASSUME IInv, [Next]_vars PROVE IInv'
  OBVIOUS
<1> DEFINE Rest == StepInv /\ BoundInv /\ LevelInv /\ LateInv /\ ServedInv /\ PumpedInv
<1>1. ASSUME UNCHANGED vars PROVE IInv'
  <2>2. TypeOK'
    BY <1>1 DEF IInv, TypeOK, vars, wire, server
  <2>3. Rest'
    BY <1>1 DEF IInv, StepInv, BoundInv, LevelInv, LateInv, ServedInv, PumpedInv,
        TypeOK, Call, Request, Login, Create, Relogin, vars, wire, server
  <2> QED
    BY <2>2, <2>3 DEF IInv
<1>2. ASSUME \E name \in Login : LoginCall(name) PROVE IInv'
  <2>1. call' \in Call /\ running' \in BOOLEAN
    BY <1>2, BeginType
    DEF IInv, TypeOK, StepInv, Step, Request, Login, Create, Relogin,
        LoginCall, Idle, IsLoginOk, wire, server
  <2>2. TypeOK'
    BY <1>2, <2>1 DEF IInv, TypeOK, LoginCall, Idle, IsLoginOk, wire, server
  <2>3. Rest'
    BY <1>2 DEF IInv, StepInv, BoundInv, LevelInv, LateInv, ServedInv, PumpedInv,
        TypeOK, Call, Request, Login, Create, Relogin, LoginCall, Begin,
        Idle, IsLoginOk, wire, server
  <2> QED
    BY <2>2, <2>3 DEF IInv
<1>3. ASSUME \E name \in Create, named \in BOOLEAN : CreateCall(name, named) PROVE IInv'
  <2>1. call' \in Call /\ running' \in BOOLEAN
    BY <1>3, BeginType
    DEF IInv, TypeOK, StepInv, Step, Request, Login, Create, Relogin,
        CreateCall, Idle, IsLoginOk, wire, server
  <2>2. TypeOK'
    BY <1>3, <2>1 DEF IInv, TypeOK, CreateCall, Idle, IsLoginOk, wire, server
  <2>3. Rest'
    BY <1>3 DEF IInv, StepInv, BoundInv, LevelInv, LateInv, ServedInv, PumpedInv,
        TypeOK, Call, Request, Login, Create, Relogin, CreateCall, Begin,
        Idle, IsLoginOk, wire, server
  <2> QED
    BY <2>2, <2>3 DEF IInv
<1>4. ASSUME \E name \in Relogin : ReloginCall(name) PROVE IInv'
  <2>1. call' \in Call /\ running' \in BOOLEAN
    BY <1>4, BeginType
    DEF IInv, TypeOK, StepInv, Step, Request, Login, Create, Relogin,
        ReloginCall, Idle, IsLoginOk, wire, server
  <2>2. TypeOK'
    BY <1>4, <2>1 DEF IInv, TypeOK, ReloginCall, Idle, IsLoginOk, wire, server
  <2>3. Rest'
    BY <1>4 DEF IInv, StepInv, BoundInv, LevelInv, LateInv, ServedInv, PumpedInv,
        TypeOK, Call, Request, Login, Create, Relogin, ReloginCall, Begin,
        Idle, IsLoginOk, wire, server
  <2> QED
    BY <2>2, <2>3 DEF IInv
<1>5. ASSUME \E given \in BOOLEAN : SelectCall(given) PROVE IInv'
  <2>1. call' \in Call /\ running' \in BOOLEAN
    BY <1>5, BeginType
    DEF IInv, TypeOK, StepInv, Step, Request, Login, Create, Relogin,
        SelectCall, Idle, IsLoginOk, wire, server
  <2>2. TypeOK'
    BY <1>5, <2>1 DEF IInv, TypeOK, SelectCall, Idle, IsLoginOk, wire, server
  <2>3. Rest'
    BY <1>5 DEF IInv, StepInv, BoundInv, LevelInv, LateInv, ServedInv, PumpedInv,
        TypeOK, Call, Request, Login, Create, Relogin, SelectCall, Begin,
        Idle, IsLoginOk, wire, server
  <2> QED
    BY <2>2, <2>3 DEF IInv
<1>6. ASSUME Return PROVE IInv'
  <2>1. call' \in Call
    BY <1>6 DEF Return, Call, Step, IInv, TypeOK
  <2>2. TypeOK'
    <3>1. CASE UNCHANGED <<login, wire>>
      BY <1>6, <2>1, <3>1 DEF IInv, TypeOK, Return, wire, server
    <3>2. CASE conn' = "closed" /\ Cut /\ UNCHANGED <<login, level>>
      BY <1>6, <2>1, <3>2 DEF IInv, TypeOK, Return, Cut
    <3>3. CASE Shut
      BY <1>6, <2>1, <3>3 DEF IInv, TypeOK, Return, Shut, Cut
    <3> QED
      BY <1>6, <3>1, <3>2, <3>3 DEF Return
  <2>3. Rest'
    BY <1>6 DEF IInv, StepInv, BoundInv, LevelInv, LateInv, ServedInv, PumpedInv,
        TypeOK, Call, Request, Login, Create, Relogin, Return, Shut, Cut,
        wire, server
  <2> QED
    BY <2>2, <2>3 DEF IInv
<1>7. ASSUME Reuse PROVE IInv'
  <2>1. Asks \in Step
    BY <1>7 DEF Reuse, Asks, IInv, StepInv, TypeOK, Call, Step, Request,
        Login, Create, Relogin
  <2>2. TypeOK'
    BY <1>7, <2>1, ProceedType DEF IInv, TypeOK, Reuse, wire, server
  <2>3. Rest'
    BY <1>7 DEF IInv, StepInv, BoundInv, LevelInv, LateInv, ServedInv, PumpedInv,
        TypeOK, Call, Request, Login, Create, Relogin, Reuse, Proceed, Asks,
        wire, server
  <2> QED
    BY <2>2, <2>3 DEF IInv
<1>8. ASSUME Connect PROVE IInv'
  <2>1. call' \in Call /\ running' \in BOOLEAN
    <3>1. Asks \in Step
      BY <1>8 DEF Connect, Connecting, Asks, IInv, StepInv, TypeOK, Call, Step,
          Request, Login, Create, Relogin
    <3> QED
      BY <1>8, <3>1, ProceedType DEF Connect, IInv
  <2>2. TypeOK'
    BY <1>8, <2>1 DEF IInv, TypeOK, Connect, Cut
  <2>3. Rest'
    BY <1>8 DEF IInv, StepInv, BoundInv, LevelInv, LateInv, ServedInv, PumpedInv,
        TypeOK, Call, Request, Login, Create, Relogin, Connect, Connecting,
        Cut, Proceed, Asks
  <2> QED
    BY <2>2, <2>3 DEF IInv
<1>9. ASSUME Unreachable PROVE IInv'
  <2>1. call' \in Call /\ running' \in BOOLEAN
    BY <1>9, FailType DEF Unreachable, IInv
  <2>2. TypeOK'
    <3>1. CASE addressed
      BY <1>9, <2>1, <3>1 DEF IInv, TypeOK, Unreachable, Cut
    <3>2. CASE ~addressed
      BY <1>9, <2>1, <3>2 DEF IInv, TypeOK, Unreachable, server
    <3> QED
      BY <3>1, <3>2
  <2>3. Rest'
    BY <1>9 DEF IInv, StepInv, BoundInv, LevelInv, LateInv, ServedInv, PumpedInv,
        TypeOK, Call, Request, Login, Create, Relogin, Unreachable,
        Connecting, Cut, Fail, Leaves, server
  <2> QED
    BY <2>2, <2>3 DEF IInv
<1>10. ASSUME KeyFails PROVE IInv'
  <2>1. call' \in Call /\ running' \in BOOLEAN
    BY <1>10, FailType
    DEF IInv, TypeOK, StepInv, Step, Request, Login, Create, Relogin,
        KeyFails, Connecting, Cut, Leaves
  <2>2. TypeOK'
    BY <1>10, <2>1 DEF IInv, TypeOK, KeyFails, Connecting, Cut, Leaves
  <2>3. Rest'
    BY <1>10 DEF IInv, StepInv, BoundInv, LevelInv, LateInv, ServedInv, PumpedInv,
        TypeOK, Call, Request, Login, Create, Relogin, KeyFails, Connecting,
        Cut, Fail, Leaves
  <2> QED
    BY <2>2, <2>3 DEF IInv
<1>11. ASSUME NoAnswer PROVE IInv'
  <2>1. call' \in Call /\ running' \in BOOLEAN
    BY <1>11, FailType
    DEF IInv, TypeOK, StepInv, Step, Request, Login, Create, Relogin,
        NoAnswer, Leaves, wire, server
  <2>2. TypeOK'
    BY <1>11, <2>1 DEF IInv, TypeOK, NoAnswer, Leaves, wire, server
  <2>3. Rest'
    BY <1>11 DEF IInv, StepInv, BoundInv, LevelInv, LateInv, ServedInv, PumpedInv,
        TypeOK, Call, Request, Login, Create, Relogin, NoAnswer, Fail,
        Leaves, wire, server
  <2> QED
    BY <2>2, <2>3 DEF IInv
<1>12. ASSUME Lost PROVE IInv'
  <2>1. call' \in Call /\ running' \in BOOLEAN
    BY <1>12, FailType
    DEF IInv, TypeOK, StepInv, Step, Request, Login, Create, Relogin, Lost,
        Leaves, wire, server
  <2>2. TypeOK'
    BY <1>12, <2>1 DEF IInv, TypeOK, Lost, Leaves, wire, server
  <2>3. Rest'
    BY <1>12 DEF IInv, StepInv, BoundInv, LevelInv, LateInv, ServedInv, PumpedInv,
        TypeOK, Call, Request, Login, Create, Relogin, Lost, Fail, Leaves,
        wire, server
  <2> QED
    BY <2>2, <2>3 DEF IInv
<1>13. ASSUME Retry PROVE IInv'
  <2>1. /\ call.tries \in Nat /\ call.tries > 1 /\ call.tries - 1 \in 1 .. Tries
        /\ "open" \in Step
    BY <1>13, TriesAssumption DEF Retry, Again, IInv, TypeOK, Call, Step
  <2>2. TypeOK'
    <3>1. call' \in Call
      BY <1>13, <2>1 DEF Retry, IInv, TypeOK, Call
    <3> QED
      BY <1>13, <3>1 DEF IInv, TypeOK, Retry, wire, server
  <2>3. Rest'
    BY <1>13 DEF IInv, StepInv, BoundInv, LevelInv, LateInv, ServedInv, PumpedInv,
        TypeOK, Call, Request, Login, Create, Relogin, Retry, Again, wire,
        server
  <2> QED
    BY <2>2, <2>3 DEF IInv
<1>14. ASSUME Answered PROVE IInv'
  <2>1. call' \in Call /\ running' \in BOOLEAN
    BY <1>14, ProceedType
    DEF IInv, TypeOK, StepInv, Step, Request, Login, Create, Relogin,
        Answered, SameVersion, GetServerList, GetRoleList, CreateRole, Continue, wire, server
  <2>2. TypeOK'
    BY <1>14, <2>1 DEF IInv, TypeOK, Answered, Continue, wire, server
  <2>3. Rest'
    <3>1. \/ call.step = "version" /\ Continue("relogin")
          \/ call.step = "list" /\ Continue("switch")
          \/ call.step = "roles" /\ Continue("newrole")
          \/ call.step = "roles" /\ Continue("return")
          \/ call.step = "newrole" /\ Continue("return")
      BY <1>14 DEF Answered, SameVersion, GetServerList, GetRoleList, CreateRole
    <3>2. CASE call.step = "version" /\ Continue("relogin")
      BY <1>14, <3>2 DEF IInv, StepInv, BoundInv, LevelInv, LateInv,
        ServedInv, PumpedInv, TypeOK, Call, Request, Login, Create, Relogin,
        Continue, Proceed, Answered, wire, server
    <3>3. CASE call.step = "list" /\ Continue("switch")
      BY <1>14, <3>3 DEF IInv, StepInv, BoundInv, LevelInv, LateInv,
        ServedInv, PumpedInv, TypeOK, Call, Request, Login, Create, Relogin,
        Continue, Proceed, Answered, wire, server
    <3>4. CASE call.step = "roles" /\ Continue("newrole")
      BY <1>14, <3>4 DEF IInv, StepInv, BoundInv, LevelInv, LateInv,
        ServedInv, PumpedInv, TypeOK, Call, Request, Login, Create, Relogin,
        Continue, Proceed, Answered, wire, server
    <3>5. CASE call.step = "roles" /\ Continue("return")
      BY <1>14, <3>5 DEF IInv, StepInv, BoundInv, LevelInv, LateInv,
        ServedInv, PumpedInv, TypeOK, Call, Request, Login, Create, Relogin,
        Continue, Proceed, Answered, wire, server
    <3>6. CASE call.step = "newrole" /\ Continue("return")
      BY <1>14, <3>6 DEF IInv, StepInv, BoundInv, LevelInv, LateInv,
        ServedInv, PumpedInv, TypeOK, Call, Request, Login, Create, Relogin,
        Continue, Proceed, Answered, wire, server
    <3> QED
      BY <3>1, <3>2, <3>3, <3>4, <3>5, <3>6
  <2> QED
    BY <2>2, <2>3 DEF IInv
<1>15. ASSUME WouldBlock PROVE IInv'
  <2>1. call.tries \in Nat /\ call.tries > 1 /\ call.tries - 1 \in 1 .. Tries
    BY <1>15, TriesAssumption DEF WouldBlock, IInv, TypeOK, Call, Step
  <2>2. TypeOK'
    <3>1. call' \in Call
      BY <1>15, <2>1 DEF WouldBlock, IInv, TypeOK, Call
    <3> QED
      BY <1>15, <3>1 DEF IInv, TypeOK, WouldBlock, wire, server
  <2>3. Rest'
    BY <1>15 DEF IInv, StepInv, BoundInv, LevelInv, LateInv, ServedInv, PumpedInv,
        TypeOK, Call, Request, Login, Create, Relogin, WouldBlock, wire,
        server
  <2> QED
    BY <2>2, <2>3 DEF IInv
<1>16. ASSUME Reconnect PROVE IInv'
  <2>1. call' \in Call /\ running' \in BOOLEAN
    BY <1>16, ProceedType
    DEF IInv, TypeOK, StepInv, Step, Request, Login, Create, Relogin,
        Reconnect, Cut, Continue
  <2>2. TypeOK'
    BY <1>16, <2>1 DEF IInv, TypeOK, Reconnect, Cut, Continue
  <2>3. Rest'
    BY <1>16 DEF IInv, StepInv, BoundInv, LevelInv, LateInv, ServedInv, PumpedInv,
        TypeOK, Call, Request, Login, Create, Relogin, Reconnect, Cut,
        Continue, Proceed
  <2> QED
    BY <2>2, <2>3 DEF IInv
<1>17. ASSUME Jump PROVE IInv'
  <2>1. call' \in Call /\ running' \in BOOLEAN
    BY <1>17, ProceedType
    DEF IInv, TypeOK, StepInv, Step, Request, Login, Create, Relogin, Jump,
        Cut, Continue, Entered, Enters
  <2>2. TypeOK'
    BY <1>17, <2>1 DEF IInv, TypeOK, Jump, Cut, Continue, Entered, Enters
  <2>3. Rest'
    BY <1>17 DEF IInv, StepInv, BoundInv, LevelInv, LateInv, ServedInv, PumpedInv,
        TypeOK, Call, Request, Login, Create, Relogin, Jump, Cut, Continue,
        Proceed, Entered, Enters
  <2> QED
    BY <2>2, <2>3 DEF IInv
<1>18. ASSUME Stranded PROVE IInv'
  <2>1. call' \in Call /\ running' \in BOOLEAN
    BY <1>18, FailType
    DEF IInv, TypeOK, StepInv, Step, Request, Login, Create, Relogin,
        Stranded, Cut, Leaves
  <2>2. TypeOK'
    BY <1>18, <2>1 DEF IInv, TypeOK, Stranded, Cut, Leaves
  <2>3. Rest'
    BY <1>18 DEF IInv, StepInv, BoundInv, LevelInv, LateInv, ServedInv, PumpedInv,
        TypeOK, Call, Request, Login, Create, Relogin, Stranded, Cut, Fail,
        Leaves
  <2> QED
    BY <2>2, <2>3 DEF IInv
<1>19. ASSUME \E given \in BOOLEAN : Open(given) PROVE IInv'
  <2>2. TypeOK'
    BY <1>19 DEF IInv, TypeOK, Open, Idle, Cut
  <2>3. Rest'
    BY <1>19 DEF IInv, StepInv, BoundInv, LevelInv, LateInv, ServedInv, PumpedInv,
        TypeOK, Call, Request, Login, Create, Relogin, Open, Idle, Cut
  <2> QED
    BY <2>2, <2>3 DEF IInv
<1>20. ASSUME Close PROVE IInv'
  <2>2. TypeOK'
    BY <1>20 DEF IInv, TypeOK, Close, Idle, Shut, Cut
  <2>3. Rest'
    BY <1>20 DEF IInv, StepInv, BoundInv, LevelInv, LateInv, ServedInv, PumpedInv,
        TypeOK, Call, Request, Login, Create, Relogin, Close, Idle, Shut, Cut
  <2> QED
    BY <2>2, <2>3 DEF IInv
<1>21. ASSUME ResetConnect PROVE IInv'
  <2>2. TypeOK'
    BY <1>21 DEF IInv, TypeOK, ResetConnect, Idle, Cut
  <2>3. Rest'
    BY <1>21 DEF IInv, StepInv, BoundInv, LevelInv, LateInv, ServedInv, PumpedInv,
        TypeOK, Call, Request, Login, Create, Relogin, ResetConnect, Idle,
        Cut
  <2> QED
    BY <2>2, <2>3 DEF IInv
<1>22. ASSUME Logout PROVE IInv'
  <2>2. TypeOK'
    BY <1>22 DEF IInv, TypeOK, Logout, Idle, Cut
  <2>3. Rest'
    BY <1>22 DEF IInv, StepInv, BoundInv, LevelInv, LateInv, ServedInv, PumpedInv,
        TypeOK, Call, Request, Login, Create, Relogin, Logout, Idle, Cut
  <2> QED
    BY <2>2, <2>3 DEF IInv
<1>23. ASSUME ReadyGame PROVE IInv'
  <2>2. TypeOK'
    BY <1>23 DEF IInv, TypeOK, ReadyGame, Idle, server
  <2>3. Rest'
    BY <1>23 DEF IInv, StepInv, BoundInv, LevelInv, LateInv, ServedInv, PumpedInv,
        TypeOK, Call, Request, Login, Create, Relogin, ReadyGame, Idle,
        server
  <2> QED
    BY <2>2, <2>3 DEF IInv
<1>24. ASSUME Update PROVE IInv'
  <2>2. TypeOK'
    BY <1>24 DEF IInv, TypeOK, Update, Idle, Cut
  <2>3. Rest'
    BY <1>24 DEF IInv, StepInv, BoundInv, LevelInv, LateInv, ServedInv, PumpedInv,
        TypeOK, Call, Request, Login, Create, Relogin, Update, Idle, Cut
  <2> QED
    BY <2>2, <2>3 DEF IInv
<1>25. ASSUME Drop PROVE IInv'
  <2>2. TypeOK'
    BY <1>25 DEF IInv, TypeOK, Drop, Cut
  <2>3. Rest'
    BY <1>25 DEF IInv, StepInv, BoundInv, LevelInv, LateInv, ServedInv, PumpedInv,
        TypeOK, Call, Request, Login, Create, Relogin, Drop, Cut
  <2> QED
    BY <2>2, <2>3 DEF IInv
<1>26. ASSUME Accept PROVE IInv'
  <2>1. PICK answer \in Answers : Taken(answer).granted /\ Exchange(answer)
    BY <1>26 DEF Accept
  <2>2. /\ answer \in Message /\ late' = <<>> /\ session' = answer.session
        /\ peer' = IF answer.granted THEN answer.session ELSE peer
        /\ answer.granted
    BY <1>26, <2>1, TakenIsAnswer DEF Accept, Exchange, Serve
  <2>3. answer.granted => answer.session \in Session /\ answer.session # NoSession
    BY SessionAssumption DEF Answers, Answer
  <2>4. call' \in Call /\ running' \in BOOLEAN
    BY <1>26, ProceedType DEF Accept, IInv, Continue, Step, LoggedIn, Entered
  <2>5. <<>> \in Seq(Message) /\ Len(<<>>) = 0
    OBVIOUS
  <2>6. TypeOK'
    BY <1>26, <2>2, <2>4, <2>5 DEF IInv, TypeOK, Message, Accept
  <2>7. Rest'
    BY <1>26, <2>2, <2>3, <2>5 DEF IInv, StepInv, BoundInv, LevelInv, LateInv, ServedInv,
        PumpedInv, TypeOK, Call, Request, Login, Create, Relogin,
        Waiting, Accept, Continue, Proceed, LoggedIn, Entered, Enters
  <2> QED
    BY <2>6, <2>7 DEF IInv
<1>27. ASSUME Redirect PROVE IInv'
  <2>1. PICK answer \in Answers : Taken(answer).granted /\ Exchange(answer)
    BY <1>27 DEF Redirect
  <2>2. /\ answer \in Message /\ late' = <<>> /\ session' = answer.session
        /\ peer' = IF answer.granted THEN answer.session ELSE peer
        /\ answer.granted
    BY <1>27, <2>1, TakenIsAnswer DEF Redirect, Exchange, Serve
  <2>3. answer.granted => answer.session \in Session /\ answer.session # NoSession
    BY SessionAssumption DEF Answers, Answer
  <2>4. call' \in Call /\ running' \in BOOLEAN
    BY <1>27, ProceedType DEF Redirect, IInv, Continue, Step
  <2>5. <<>> \in Seq(Message) /\ Len(<<>>) = 0
    OBVIOUS
  <2>6. TypeOK'
    BY <1>27, <2>2, <2>4, <2>5 DEF IInv, TypeOK, Message, Redirect
  <2>7. Rest'
    BY <1>27, <2>2, <2>3, <2>5 DEF IInv, StepInv, BoundInv, LevelInv, LateInv, ServedInv,
        PumpedInv, TypeOK, Call, Request, Login, Create, Relogin,
        Waiting, Redirect, Continue, Proceed
  <2> QED
    BY <2>6, <2>7 DEF IInv
<1>28. ASSUME Refuse PROVE IInv'
  <2>1. PICK answer \in Answers : ~Taken(answer).granted /\ Exchange(answer)
    BY <1>28 DEF Refuse
  <2>2. /\ answer \in Message /\ late' = <<>> /\ session' = answer.session
        /\ peer' = IF answer.granted THEN answer.session ELSE peer
        /\ ~answer.granted
    BY <1>28, <2>1, TakenIsAnswer DEF Refuse, Exchange, Serve
  <2>3. answer.granted => answer.session \in Session /\ answer.session # NoSession
    BY SessionAssumption DEF Answers, Answer
  <2>4. call' \in Call /\ running' \in BOOLEAN
    BY <1>28, FailType DEF Refuse, IInv
  <2>5. <<>> \in Seq(Message) /\ Len(<<>>) = 0
    OBVIOUS
  <2>6. TypeOK'
    BY <1>28, <2>2, <2>4, <2>5 DEF IInv, TypeOK, Message, Refuse
  <2>7. Rest'
    BY <1>28, <2>2, <2>3, <2>5 DEF IInv, StepInv, BoundInv, LevelInv, LateInv, ServedInv,
        PumpedInv, TypeOK, Call, Request, Login, Create, Relogin,
        Waiting, Refuse, Fail, Leaves
  <2> QED
    BY <2>6, <2>7 DEF IInv
<1>29. ASSUME TimeOut PROVE IInv'
  <2>1. call' \in Call /\ running' \in BOOLEAN
    BY <1>29, FailType DEF TimeOut, IInv
  <2>2. CASE UNCHANGED server
    <3>1. TypeOK'
      BY <1>29, <2>1, <2>2 DEF IInv, TypeOK, TimeOut, server
    <3>2. Rest'
      BY <1>29, <2>2 DEF IInv, StepInv, BoundInv, LevelInv, LateInv, ServedInv,
        PumpedInv, TypeOK, Call, Request, Login, Create, Relogin,
        Waiting, TimeOut, Fail, Leaves, server
    <3> QED
      BY <3>1, <3>2 DEF IInv
  <2>3. CASE \E answer \in Answers : Serve(answer) /\ late' = Inbox(answer)
    <3>1. PICK answer \in Answers : Serve(answer) /\ late' = Inbox(answer)
      BY <2>3
    <3>2. /\ late' \in Seq(Message) /\ Len(late') = Len(late) + 1
          /\ \A i \in 1 .. Len(late) : late'[i] = late[i]
          /\ late'[Len(late) + 1].ack = AckOf(call.step)
      BY <1>29, <3>1, TakenIsAnswer DEF TimeOut
    <3>3. peer' \in Session \cup {NoSession}
      BY <3>1 DEF Serve, Answers, Answer, IInv, TypeOK
    <3>4. Len(late) \in Nat
      BY LenProperties DEF IInv, TypeOK
    <3>5. TypeOK'
      BY <1>29, <2>1, <3>2, <3>3 DEF IInv, TypeOK, TimeOut
    <3>6. LateInv'
      <4>1. /\ call'.step = "return" /\ ~call'.ok /\ call'.name = call.name
        BY <1>29 DEF TimeOut, Fail, IInv, TypeOK, Call
      <4>2. call.name = "SelectServer" => AckOf(call.step) = "select"
        BY <1>29 DEF TimeOut, Waiting, AckOf, Request, IInv, StepInv
      <4>3. \A i \in 1 .. Len(late) : late[i].ack = "select"
        BY <1>29 DEF TimeOut, Waiting, Request, IInv, LateInv
      <4> QED
        BY <3>2, <3>4, <4>1, <4>2, <4>3 DEF LateInv
    <3>7. Rest'
      BY <1>29, <3>6 DEF IInv, StepInv, BoundInv, LevelInv, LateInv, ServedInv,
        PumpedInv, TypeOK, Call, Request, Login, Create, Relogin,
        Waiting, TimeOut, Fail, Leaves
    <3> QED
      BY <3>5, <3>7 DEF IInv
  <2> QED
    BY <1>29, <2>2, <2>3 DEF TimeOut
<1>30. ASSUME Receive PROVE IInv'
  <2>1. late \in Seq(Message) /\ late # <<>>
    BY <1>30 DEF Receive, IInv, TypeOK
  <2>2. /\ Tail(late) \in Seq(Message) /\ Len(Tail(late)) = Len(late) - 1
        /\ \A i \in 1 .. Len(Tail(late)) : Tail(late)[i] = late[i + 1]
    BY <2>1, HeadTailProperties
  <2>3. Len(late) \in Nat
    BY <2>1, LenProperties
  <2>4. TypeOK'
    BY <1>30, <2>2 DEF IInv, TypeOK, Receive
  <2>5. LateInv'
    BY <1>30, <2>2, <2>3 DEF IInv, LateInv, Receive, Idle
  <2>6. Rest'
    BY <1>30, <2>5 DEF IInv, StepInv, BoundInv, LevelInv, LateInv, ServedInv,
        PumpedInv, TypeOK, Call, Request, Login, Create, Relogin,
        Receive, Idle
  <2> QED
    BY <2>4, <2>6 DEF IInv
<1> QED
  BY <1>1, <1>2, <1>3, <1>4, <1>5, <1>6, <1>7, <1>8, <1>9, <1>10, <1>11,
     <1>12, <1>13, <1>14, <1>15, <1>16, <1>17, <1>18, <1>19, <1>20, <1>21,
     <1>22, <1>23, <1>24, <1>25, <1>26, <1>27, <1>28, <1>29, <1>30
  DEF Next, Work

(* The types of the state, for any number of attempts (LoginOnly).         *)
THEOREM TypeCorrect == Spec => []TypeOK
<1>1. IInv => TypeOK
  BY DEF IInv
<1> QED
  BY <1>1, InitInv, StepKeepsInv, PTL DEF Spec

(* An open connection has a LoginApollo of its own, although m_login       *)
(* outlives every connector (_connectHost, Close).                         *)
THEOREM AlwaysLoginBound == Spec => []LoginBound
<1>1. IInv => LoginBound
  BY DEF IInv, BoundInv, LoginBound
<1> QED
  BY <1>1, InitInv, StepKeepsInv, PTL DEF Spec

(* Between two calls a client that is logged in is one that Update works   *)
(* for (m_runningUpdate).                                                  *)
THEOREM AlwaysPumped == Spec => []Pumped
<1>1. IInv => Pumped
  BY DEF IInv, PumpedInv, Pumped, Idle, IsLoginOk
<1> QED
  BY <1>1, InitInv, StepKeepsInv, PTL DEF Spec

(* A client that takes itself for logged in is taken for the same session  *)
(* by the server (onLogin, apoCli_LoginAccount).                           *)
THEOREM AlwaysServed == Spec => []LoggedInIsServed
<1>1. IInv => LoggedInIsServed
  BY DEF IInv, ServedInv, LoggedInIsServed, IsLoginOk
<1> QED
  BY <1>1, InitInv, StepKeepsInv, PTL DEF Spec

(* A call that returned success has left a client that is logged in        *)
(* (switchServer, onLogin).                                                *)
THEOREM AlwaysSuccessIsLoggedIn == Spec => []SuccessIsLoggedIn
<1>1. IInv => SuccessIsLoggedIn
  BY DEF IInv, LevelInv, SuccessIsLoggedIn, IsLoginOk
<1> QED
  BY <1>1, InitInv, StepKeepsInv, PTL DEF Spec
-----------------------------------------------------------------------------
(* How many steps a call that is at a step, with so many tries, can still  *)
(* take before it has returned.                                            *)
Ahead(step, tries) ==
  CASE step = "idle" -> 0
    [] step = "return" -> 1
    [] step = "newrole" -> 2
    [] step = "roles" -> 2 + tries
    [] step = "jump" -> 3 + Tries
    [] step = "select" -> 4 + Tries
    [] step = "switch" -> 5 + Tries
    [] step = "list" -> 6 + Tries
    [] step = "relogin" -> 7 + Tries
    [] step \in {"create", "file", "version"} -> 8 + Tries
    [] step = "login" -> 8 + Tries + 2 * tries
    [] step = "open" -> 9 + Tries + 2 * tries

StepsLeft == Ahead(call.step, call.tries)

(* Each step of a call takes it nearer to its return, and what happens     *)
(* beside it takes it no farther away.                                     *)
Nearer ==
  /\ Work => StepsLeft' < StepsLeft
  /\ ~Idle => StepsLeft' <= StepsLeft

(* The steps left are a number; that of a step is more than that of those  *)
(* behind it.                                                              *)
LEMMA AheadFacts ==
  ASSUME NEW t \in 1 .. Tries
  PROVE  /\ \A step \in Step : Ahead(step, t) \in Nat
         /\ \A step \in Step \ {"idle", "return"} : Ahead(step, t) > Ahead("return", t)
         /\ Ahead("return", t) > Ahead("idle", t)
         /\ \A step \in {"login", "create", "file", "version"} : Ahead("open", t) > Ahead(step, t)
         /\ t > 1 => Ahead("login", t) > Ahead("open", t - 1) /\ Ahead("roles", t) > Ahead("roles", t - 1)
         /\ Ahead("version", t) > Ahead("relogin", t)
         /\ \A step \in {"login", "create", "relogin"} : Ahead(step, t) > Ahead("list", t)
         /\ Ahead("list", t) > Ahead("switch", t) /\ Ahead("switch", t) > Ahead("select", t)
         /\ Ahead("select", t) > Ahead("jump", t)
         /\ \A step \in {"select", "jump"} : Ahead(step, t) > Ahead("roles", Tries)
         /\ Ahead("roles", t) > Ahead("newrole", t)
<1>1. Tries \in Nat /\ t \in Nat
  BY TriesAssumption
<1>2. /\ \A step \in Step : Ahead(step, t) \in Nat
      /\ \A step \in Step \ {"idle", "return"} : Ahead(step, t) > Ahead("return", t)
  BY <1>1 DEF Ahead, Step, Request
<1>3. /\ Ahead("return", t) = 1 /\ Ahead("idle", t) = 0 /\ Ahead("newrole", t) = 2
      /\ Ahead("jump", t) = 3 + Tries /\ Ahead("select", t) = 4 + Tries
      /\ Ahead("switch", t) = 5 + Tries /\ Ahead("list", t) = 6 + Tries
      /\ Ahead("relogin", t) = 7 + Tries
  BY DEF Ahead
<1>4. /\ Ahead("create", t) = 8 + Tries /\ Ahead("file", t) = 8 + Tries /\ Ahead("version", t) = 8 + Tries
      /\ Ahead("login", t) = 8 + Tries + 2 * t
  BY DEF Ahead
<1>5. \A n : Ahead("open", n) = 9 + Tries + 2 * n /\ Ahead("roles", n) = 2 + n
  BY DEF Ahead
<1> QED
  BY <1>1, <1>2, <1>3, <1>4, <1>5

(* Each step of a call is one of those that the steps left count.          *)
LEMMA WorkNearer ==
  ASSUME IInv, Work
  PROVE  StepsLeft' < StepsLeft
<1>1. call \in Call /\ call.tries \in 1 .. Tries /\ call.step \in Step
  BY DEF IInv, TypeOK, Call
<1>2. ASSUME NEW step \in Step, NEW r, Proceed(step, r)
      PROVE  call'.step = step /\ call'.tries = IF step = "roles" THEN Tries ELSE call.tries
  BY <1>1, <1>2 DEF Proceed, Call
<1>3. ASSUME Fail, call.step \notin {"idle", "return"}
      PROVE  StepsLeft' < StepsLeft
  <2>1. call'.step = "return" /\ call'.tries = call.tries
    BY <1>1, <1>3 DEF Fail, Call
  <2> QED
    BY <1>1, <1>3, <2>1, AheadFacts DEF StepsLeft
<1>4. ASSUME Reuse \/ Connect PROVE StepsLeft' < StepsLeft
  <2>1. call.step = "open" /\ \E r : Proceed(Asks, r)
    BY <1>4 DEF Reuse, Connect, Connecting
  <2>2. Asks \in {"login", "create", "file", "version"}
    BY <1>1, <2>1 DEF IInv, StepInv, Asks, Call, Login, Create, Relogin
  <2>3. call'.step = Asks /\ call'.tries = call.tries
    BY <1>2, <2>1, <2>2 DEF Step, Request
  <2> QED
    BY <1>1, <2>1, <2>2, <2>3, AheadFacts DEF StepsLeft
<1>5. ASSUME Unreachable \/ KeyFails \/ Refuse \/ TimeOut \/ NoAnswer \/ Lost \/ Stranded
      PROVE  StepsLeft' < StepsLeft
  <2>1. Fail /\ call.step \notin {"idle", "return"}
    BY <1>5 DEF Unreachable, KeyFails, Refuse, TimeOut, NoAnswer, Lost, Stranded, Connecting, Waiting, Request
  <2> QED
    BY <1>3, <2>1
<1>6. ASSUME Accept \/ Redirect PROVE StepsLeft' < StepsLeft
  <2>1. CASE call.step = "select"
    <3>1. \E s \in {"roles", "return", "jump"} : Proceed(s, FALSE)
      BY <1>6, <2>1 DEF Accept, Redirect, LoggedIn, Entered, Continue
    <3>2. \/ call'.step = "roles" /\ call'.tries = Tries
          \/ call'.step \in {"return", "jump"} /\ call'.tries = call.tries
      BY <1>2, <3>1 DEF Step
    <3> QED
      BY <1>1, <2>1, <3>2, AheadFacts DEF StepsLeft
  <2>2. CASE call.step # "select"
    <3>1. call.step \in {"login", "create", "relogin"} /\ \E s \in {"list", "return"} : Proceed(s, FALSE)
      BY <1>6, <2>2 DEF Accept, Redirect, LoggedIn, Continue, Waiting, Request
    <3>2. call'.step \in {"list", "return"} /\ call'.tries = call.tries
      BY <1>2, <3>1 DEF Step
    <3> QED
      BY <1>1, <3>1, <3>2, AheadFacts DEF StepsLeft, Step, Request
  <2> QED
    BY <2>1, <2>2
<1>7. ASSUME Retry \/ WouldBlock PROVE StepsLeft' < StepsLeft
  <2>1. /\ call.tries > 1
        /\ \/ call.step = "login" /\ call'.step = "open" /\ call'.tries = call.tries - 1
           \/ call.step = "roles" /\ call'.step = "roles" /\ call'.tries = call.tries - 1
    BY <1>1, <1>7 DEF Retry, Again, WouldBlock, Call
  <2> QED
    BY <1>1, <2>1, AheadFacts DEF StepsLeft
<1>8. ASSUME Answered PROVE StepsLeft' < StepsLeft
  <2>1. \/ call.step = "version" /\ \E s \in {"relogin"} : Proceed(s, FALSE)
        \/ call.step = "list" /\ \E s \in {"switch"} : Proceed(s, FALSE)
        \/ call.step = "roles" /\ \E s \in {"newrole", "return"} : Proceed(s, FALSE)
        \/ call.step = "newrole" /\ \E s \in {"return"} : Proceed(s, FALSE)
    BY <1>8 DEF Answered, SameVersion, GetServerList, GetRoleList, CreateRole, Continue
  <2>2. /\ \/ call.step = "version" /\ call'.step = "relogin"
           \/ call.step = "list" /\ call'.step = "switch"
           \/ call.step = "roles" /\ call'.step \in {"newrole", "return"}
           \/ call.step = "newrole" /\ call'.step = "return"
        /\ call'.tries = call.tries
    BY <1>2, <2>1 DEF Step, Request
  <2> QED
    BY <1>1, <2>2, AheadFacts DEF StepsLeft
<1>9. ASSUME Reconnect PROVE StepsLeft' < StepsLeft
  <2>1. call.step = "switch" /\ \E s \in {"select"} : Proceed(s, FALSE)
    BY <1>9 DEF Reconnect, Continue
  <2>2. call'.step = "select" /\ call'.tries = call.tries
    BY <1>2, <2>1 DEF Step, Request
  <2> QED
    BY <1>1, <2>1, <2>2, AheadFacts DEF StepsLeft
<1>10. ASSUME Jump PROVE StepsLeft' < StepsLeft
  <2>1. call.step = "jump" /\ \E s \in {"roles", "return"} : Proceed(s, FALSE)
    BY <1>10 DEF Jump, Continue, Entered
  <2>2. PICK s \in {"roles", "return"} : Proceed(s, FALSE)
    BY <2>1
  <2>3. call'.step = s /\ call'.tries = IF s = "roles" THEN Tries ELSE call.tries
    BY <1>2, <2>2 DEF Step
  <2> QED
    BY <1>1, <2>1, <2>3, AheadFacts DEF StepsLeft
<1>11. ASSUME Return PROVE StepsLeft' < StepsLeft
  <2>1. call.step = "return" /\ call'.step = "idle" /\ call'.tries = call.tries
    BY <1>1, <1>11 DEF Return, Call
  <2> QED
    BY <1>1, <2>1, AheadFacts DEF StepsLeft
<1> QED
  BY <1>4, <1>5, <1>6, <1>7, <1>8, <1>9, <1>10, <1>11 DEF Work

(* A call ends after a number of its steps that is bounded when it begins, *)
(* whatever is lost, late or refused, and nothing beside the call can draw *)
(* it out (LoginOnly, GetRoleList, switchServer): what Returns still needs *)
(* is only that the steps are taken.                                       *)
THEOREM CallsGetNearer == Spec => [](StepsLeft \in Nat) /\ [][Nearer]_vars
<1>1. IInv => StepsLeft \in Nat
  <2>1. IInv => call.step \in Step /\ call.tries \in 1 .. Tries
    BY DEF IInv, TypeOK, Call
  <2> QED
    BY <2>1, AheadFacts DEF StepsLeft
<1>2. IInv /\ IInv' /\ [Next]_vars => [Nearer]_vars
  <2> SUFFICES ASSUME IInv, IInv', Next PROVE Nearer
    BY DEF vars
  <2>1. Work => StepsLeft' < StepsLeft
    BY WorkNearer
  <2>2. ~Idle => Work \/ UNCHANGED call
    BY DEF Next, LoginCall, CreateCall, ReloginCall, SelectCall, Open, Close, ResetConnect, Logout, ReadyGame,
           Receive, Update, Drop
  <2>3. call \in Call /\ call' \in Call
    BY DEF IInv, TypeOK
  <2>4. StepsLeft \in Nat /\ StepsLeft' \in Nat
    BY <2>3, AheadFacts DEF StepsLeft, Call
  <2>5. UNCHANGED call => StepsLeft' = StepsLeft
    BY DEF StepsLeft
  <2>6. ASSUME ~Idle PROVE StepsLeft' <= StepsLeft
    <3>1. CASE Work
      BY <2>1, <2>4, <3>1
    <3>2. CASE UNCHANGED call
      BY <2>4, <2>5, <3>2
    <3> QED
      BY <2>2, <2>6, <3>1, <3>2
  <2> QED
    BY <2>1, <2>6 DEF Nearer
<1> QED
  BY <1>1, <1>2, InitInv, StepKeepsInv, PTL DEF Spec
-----------------------------------------------------------------------------
(* The session file.  What it holds is of one login, the last one while it *)
(* is written, and so is what was read from it; the key the client uses is *)
(* the server's, unless the connection is lost.                            *)
OfLogin(f) == \E n \in DOMAIN key : \A i \in DOMAIN f : f[i] = n
Whole(f) == DOMAIN f = DOMAIN Saved!Parts /\ OfLogin(f)

FileInv ==
  /\ key \in Seq(Nat) /\ srvKey \in Nat /\ m_srv_key \in Nat
  /\ doing \in {"idle", "save", "write", "version", "relogin"}
  /\ file # Saved!NoFile => OfLogin(file)
  /\ doing \in {"save", "write"} => key # <<>> /\ result = 0
  /\ doing = "write" => \A i \in DOMAIN file : file[i] = Len(key)
  /\ doing \in {"version", "relogin"} => Whole(loaded)
  /\ doing = "relogin" /\ connected => m_srv_key = srvKey
  /\ result = 1 => file = Saved!NoFile

(* The parts have names of their own.                                      *)
LEMMA PartsOf ==
  ASSUME NEW f, NEW n, \A i \in DOMAIN Saved!Parts : f[i] = n
  PROVE  \A name \in {"md5", "session_buf", "keymd5", "srv_key"} : Saved!Part(f, name) = n
<1>1. ASSUME NEW name \in {"md5", "session_buf", "keymd5", "srv_key"}
      PROVE  \E i \in DOMAIN Saved!Parts : Saved!Parts[i] = name
  BY DEF Saved!Parts
<1> QED
  BY <1>1 DEF Saved!Part

LEMMA FileInit == MCInit => FileInv
BY DEF MCInit, Saved!Init, FileInv, Saved!NoFile

(* A login that is granted leaves what is there of other logins.           *)
LEMMA LoginGranted ==
  ASSUME key \in Seq(Nat), NEW k \in Nat, Saved!Granted(k)
  PROVE  /\ key' \in Seq(Nat) /\ key' # <<>> /\ DOMAIN key \subseteq DOMAIN key'
         /\ \A f : OfLogin(f) => \E n \in DOMAIN key' : \A i \in DOMAIN f : f[i] = n
<1>1. key' = Append(key, k)
  BY DEF Saved!Granted
<1>2. /\ key' \in Seq(Nat) /\ Len(key') = Len(key) + 1 /\ Len(key) \in Nat
      /\ DOMAIN key = 1 .. Len(key) /\ DOMAIN key' = 1 .. Len(key')
  BY <1>1
<1>3. DOMAIN key \subseteq DOMAIN key' /\ key' # <<>>
  BY <1>2
<1> QED
  BY <1>2, <1>3 DEF OfLogin

LEMMA FileSteps ==
  ASSUME FileInv, Saved!Next
  PROVE  FileInv'
<1> USE DEF FileInv
<1>1. CASE Saved!Connect
  BY <1>1 DEF Saved!Connect, OfLogin, Whole
<1>2. CASE Saved!Login
  <2>1. /\ key' \in Seq(Nat) /\ key' # <<>>
        /\ \A f : OfLogin(f) => \E n \in DOMAIN key' : \A i \in DOMAIN f : f[i] = n
    BY <1>2, LoginGranted DEF Saved!Login
  <2>2. file # Saved!NoFile => OfLogin(file)'
    BY <1>2, <2>1 DEF Saved!Login, OfLogin
  <2> QED
    BY <1>2, <2>1, <2>2 DEF Saved!Login
<1>3. CASE Saved!OpenFile
  BY <1>3 DEF Saved!OpenFile, Saved!Truncated, OfLogin, Whole
<1>4. CASE Saved!WriteFile
  <2>1. CASE UNCHANGED file
    BY <1>4, <2>1 DEF Saved!WriteFile, OfLogin, Whole
  <2>2. CASE file' # file
    <3>1. PICK i \in DOMAIN Saved!Parts :
            file' = [j \in DOMAIN file \cup {i} |-> IF j = i THEN Len(key) ELSE file[j]]
      BY <1>4, <2>2 DEF Saved!WriteFile
    <3>2. \A j \in DOMAIN file' : file'[j] = Len(key)
      BY <1>4, <3>1 DEF Saved!WriteFile
    <3>3. key \in Seq(Nat) /\ key # <<>> /\ key' = key
      BY <1>4 DEF Saved!WriteFile
    <3>4. Len(key) \in DOMAIN key'
      BY <3>3
    <3>5. OfLogin(file)'
      BY <3>2, <3>4 DEF OfLogin
    <3> QED
      BY <1>4, <2>2, <3>2, <3>3, <3>5 DEF Saved!WriteFile
  <2> QED
    BY <2>1, <2>2
<1>5. CASE Saved!load_session_info
  BY <1>5 DEF Saved!load_session_info, Saved!Exists, Saved!Readable, Saved!Returns, Saved!Removes, OfLogin, Whole
<1>6. CASE Saved!checkCryptVersion
  <2>1. CASE \E r \in {1, 2} : Saved!Returns(r, "version") /\ UNCHANGED m_srv_key
    BY <1>6, <2>1 DEF Saved!checkCryptVersion, Saved!Returns, Saved!Removes
  <2>2. CASE doing' = "relogin"
    <3>1. PICK n \in DOMAIN key : \A i \in DOMAIN loaded : loaded[i] = n
      BY <1>6 DEF Saved!checkCryptVersion, Whole, OfLogin
    <3>2. Saved!Part(loaded, "keymd5") = n /\ Saved!Part(loaded, "srv_key") = n
      <4>1. \A i \in DOMAIN Saved!Parts : loaded[i] = n
        BY <1>6, <3>1 DEF Saved!checkCryptVersion, Whole
      <4> HIDE DEF FileInv
      <4> QED
        BY <4>1, PartsOf
    <3>3. /\ m_srv_key' = key[Saved!Part(loaded, "srv_key")]
          /\ key[Saved!Part(loaded, "keymd5")] = srvKey
          /\ UNCHANGED <<file, loaded, result, key, connected, srvKey, known>>
      BY <1>6, <2>2 DEF Saved!checkCryptVersion, Saved!SameKey, Saved!Returns
    <3> QED
      BY <1>6, <2>2, <3>2, <3>3 DEF Saved!checkCryptVersion, Whole, OfLogin
  <2> QED
    BY <1>6, <2>1, <2>2 DEF Saved!checkCryptVersion
<1>7. CASE Saved!relogin
  <2>1. CASE Saved!Granted(m_srv_key) /\ doing' = "save" /\ result' = 0 /\ UNCHANGED <<file, m_srv_key, srvKey>>
    <3>1. /\ key' \in Seq(Nat) /\ key' # <<>>
          /\ \A f : OfLogin(f) => \E n \in DOMAIN key' : \A i \in DOMAIN f : f[i] = n
      BY <2>1, LoginGranted
    <3>2. file # Saved!NoFile => OfLogin(file)'
      BY <2>1, <3>1 DEF OfLogin
    <3> QED
      BY <2>1, <3>1, <3>2
  <2>2. CASE \E r \in {1, 2}, why \in {"username", "other"} :
               Saved!Returns(r, why) /\ (r = 1 => why = "username") /\ UNCHANGED key
    BY <1>7, <2>2 DEF Saved!relogin, Saved!Returns, Saved!Removes, OfLogin
  <2> QED
    BY <1>7, <2>1, <2>2 DEF Saved!relogin
<1>8. CASE Saved!Crash
  BY <1>8 DEF Saved!Crash, OfLogin, Whole
<1>9. CASE Saved!Forget
  BY <1>9 DEF Saved!Forget, OfLogin, Whole
<1>10. CASE Saved!NewServer
  BY <1>10 DEF Saved!NewServer, OfLogin, Whole
<1> QED
  BY <1>1, <1>2, <1>3, <1>4, <1>5, <1>6, <1>7, <1>8, <1>9, <1>10 DEF Saved!Next

LEMMA FileStutters ==
  ASSUME FileInv, UNCHANGED savedVars
  PROVE  FileInv'
BY DEF FileInv, savedVars, OfLogin, Whole

LEMMA FileSound == FileInv => SessionFileSound
<1> SUFFICES ASSUME FileInv
             PROVE  SessionFileSound
  OBVIOUS
<1>1. Saved!AsksOnce
  BY DEF FileInv, Saved!AsksOnce, Saved!Exists
<1>2. ASSUME doing = "relogin", NEW i \in DOMAIN Saved!Parts
      PROVE  loaded[i] = Saved!Part(loaded, "session_buf")
  <2>1. PICK n : \A j \in DOMAIN Saved!Parts : loaded[j] = n
    BY <1>2 DEF FileInv, Whole, OfLogin
  <2> QED
    BY <2>1, PartsOf
<1> QED
  BY <1>1, <1>2 DEF FileInv, SessionFileSound, Saved!SentAsSaved

(* What a client logs in again with was saved by one login, whole, and     *)
(* made with the key of the server it is sent to, through files that were  *)
(* cut off, that could not be written and that were there before; and a    *)
(* file that made Relogin ask for the password is gone.                    *)
THEOREM SessionFileCorrect == MCSpec => []SessionFileSound
<1>1. FileInv /\ [MCNext]_<<part, vars, savedVars, shownVars>> => FileInv'
  BY FileSteps, FileStutters DEF MCNext
<1> QED
  BY FileInit, <1>1, FileSound, PTL DEF MCSpec
-----------------------------------------------------------------------------
(* The tables of a client.  They are never ahead of all servers, which     *)
(* build their messages anew and later; what has been answered is not      *)
(* older than the server that answered.                                    *)
NotAhead(tables) == \A t \in Formats!Table : \E s \in Server : tables[t] <= build[s]

FormatsType ==
  /\ build \in [Server -> Formats!Build] /\ host \in Server
  /\ stage \in {"out", "login", "choose", "enter", "in"}
  /\ m_pConn \in {"none", "open", "lost"} /\ owner \in {"none", "live", "gone"}
  /\ table \in [Formats!Table -> 0 .. MaxBuild] /\ saved \in [Formats!Table -> 0 .. MaxBuild]
  /\ asked \in {<<>>, <<"time">>, <<"names">>, <<"types">>, <<"names", "types">>}

FormatsInv ==
  /\ FormatsType
  /\ m_pConn # "none" => owner = "live" /\ stage # "out"
  /\ NotAhead(table) /\ NotAhead(saved)
  /\ asked # <<>> => stage = "in" /\ m_pConn = "open"
  /\ stage = "in" /\ m_pConn = "open" =>
       /\ asked \in {<<>>, <<"types">>} => table["names"] >= build[host]
       /\ asked \in {<<>>, <<"names">>} => table["types"] = 0 \/ table["types"] >= build[host]

LEMMA FormatsInit == MCInit => FormatsInv
<1> SUFFICES ASSUME MCInit
             PROVE  FormatsInv
  OBVIOUS
<1>1. /\ build \in [Server -> Formats!Build] /\ host \in Server
      /\ table = Formats!None /\ saved = Formats!None
      /\ stage = "out" /\ m_pConn = "none" /\ owner = "none" /\ asked = <<>>
  BY DEF MCInit, Formats!Init
<1>2. build[host] \in Nat /\ build[host] >= 0
  BY <1>1, MaxBuildAssumption DEF Formats!Build
<1>3. Formats!None \in [Formats!Table -> 0 .. MaxBuild]
  BY MaxBuildAssumption DEF Formats!None, Formats!Table
<1>4. NotAhead(table) /\ NotAhead(saved)
  BY <1>1, <1>2 DEF NotAhead, Formats!None
<1> QED
  BY <1>1, <1>3, <1>4 DEF FormatsInv, FormatsType

(* What may change without a message: the stage of a login, the connection *)
(* with what was asked on it, and the files.                               *)
LEMMA DialogSteps ==
  ASSUME FormatsInv,
         \/ \E s \in Server : Formats!Connects(s) \/ Formats!Enters(s)
         \/ Formats!CannotConnect \/ Formats!LogsIn \/ Formats!Chooses \/ Formats!LoginFails
         \/ Formats!Logout \/ Formats!onTimeOut \/ Formats!Drop \/ Formats!Restarts
  PROVE  FormatsInv'
<1>1. /\ build' = build /\ saved' = saved
      /\ table' = table \/ table' = Formats!None
  BY DEF Formats!Connects, Formats!Enters, Formats!CannotConnect, Formats!LogsIn, Formats!Chooses,
     Formats!LoginFails, Formats!Logout, Formats!onTimeOut, Formats!Drop, Formats!Restarts,
     Formats!dialog
<1>2. build[host] \in Nat /\ host \in Server
  BY MaxBuildAssumption DEF FormatsInv, FormatsType, Formats!Build
<1>3. /\ Formats!None \in [Formats!Table -> 0 .. MaxBuild]
      /\ \A t \in Formats!Table : Formats!None[t] <= build[host]
  BY <1>2, MaxBuildAssumption DEF Formats!None, Formats!Table
<1>4. /\ table' \in [Formats!Table -> 0 .. MaxBuild] /\ saved' \in [Formats!Table -> 0 .. MaxBuild]
      /\ NotAhead(table)' /\ NotAhead(saved)' /\ build' \in [Server -> Formats!Build]
  BY <1>1, <1>2, <1>3 DEF FormatsInv, FormatsType, NotAhead
<1> USE DEF FormatsInv, FormatsType
<1>5. CASE \E s \in Server : Formats!Connects(s)
  BY <1>1, <1>4, <1>5 DEF Formats!Connects
<1>6. CASE \E s \in Server : Formats!Enters(s)
  BY <1>1, <1>4, <1>6 DEF Formats!Enters
<1>7. CASE Formats!CannotConnect
  BY <1>1, <1>4, <1>7 DEF Formats!CannotConnect
<1>8. CASE Formats!LogsIn
  BY <1>1, <1>4, <1>8 DEF Formats!LogsIn
<1>9. CASE Formats!Chooses \/ Formats!Restarts
  BY <1>1, <1>4, <1>9 DEF Formats!Chooses, Formats!Restarts
<1>10. CASE Formats!LoginFails \/ Formats!Logout
  BY <1>1, <1>4, <1>10 DEF Formats!LoginFails, Formats!Logout, Formats!destroyConnect
<1>11. CASE Formats!onTimeOut
  BY <1>1, <1>4, <1>11 DEF Formats!onTimeOut, Formats!destroyConnect
<1>12. CASE Formats!Drop
  BY <1>1, <1>4, <1>12 DEF Formats!Drop, Formats!Loses
<1> QED
  BY <1>5, <1>6, <1>7, <1>8, <1>9, <1>10, <1>11, <1>12

LEMMA QuestionsInOrder ==
  /\ <<>> \o <<>> = <<>>
  /\ <<>> \o <<"names">> = <<"names">> /\ <<"names">> \o <<>> = <<"names">>
  /\ <<>> \o <<"types">> = <<"types">> /\ <<"names">> \o <<"types">> = <<"names", "types">>
<1> DEFINE S == {"names", "types"}
<1>1. /\ <<>> \in Seq(S) /\ <<"names">> \in Seq(S) /\ <<"types">> \in Seq(S)
      /\ <<"names", "types">> \in Seq(S)
  OBVIOUS
<1> HIDE DEF S
<1>2. /\ <<"names">> \o <<"types">> \in Seq(S)
      /\ Len(<<"names">> \o <<"types">>) = 2
      /\ \A i \in 1 .. 2 : (<<"names">> \o <<"types">>)[i] = IF i <= 1 THEN "names" ELSE "types"
  BY <1>1, ConcatProperties
<1>3. \A i \in 1 .. 2 : (<<"names">> \o <<"types">>)[i] = <<"names", "types">>[i]
  BY <1>2
<1>4. <<"names">> \o <<"types">> = <<"names", "types">>
  BY <1>1, <1>2, <1>3, SeqEqual
<1> QED
  BY <1>1, <1>4, ConcatEmptySeq

LEMMA QuestionsDiffer ==
  /\ <<"names">> # <<>> /\ <<"types">> # <<>> /\ <<"names", "types">> # <<>> /\ <<"time">> # <<>>
  /\ <<"names">> # <<"types">> /\ <<"names", "types">> # <<"types">> /\ <<"names", "types">> # <<"names">>
  /\ <<"time">> # <<"names">> /\ <<"time">> # <<"types">> /\ <<"time">> # <<"names", "types">>
<1>1. \A q \in {"time", "names", "types"} : <<q>> # <<>> /\ Len(<<q>>) = 1 /\ <<q>>[1] = q
  OBVIOUS
<1>2. Len(<<"names", "types">>) = 2 /\ <<"names", "types">> # <<>>
  OBVIOUS
<1> QED
  BY <1>1, <1>2

LEMMA QuestionsTaken ==
  /\ Tail(<<"names">>) = <<>> /\ Tail(<<"types">>) = <<>> /\ Tail(<<"names", "types">>) = <<"types">>
  /\ Head(<<"names">>) = "names" /\ Head(<<"types">>) = "types" /\ Head(<<"time">>) = "time"
  /\ Head(<<"names", "types">>) = "names"
OBVIOUS

(* The answers: what a file or the server gives for a table is as new as   *)
(* the server that was asked, what is left alone as it was.                *)
LEMMA BuildTimeStep ==
  ASSUME FormatsInv, Formats!get_message_protocol_build_time
  PROVE  FormatsInv'
<1> DEFINE FromFile(t) == Formats!Recent(saved[t], build[host])
<1>1. /\ m_pConn = "open" /\ asked = <<"time">> /\ stage = "in" /\ build[host] \in 1 .. MaxBuild
  BY DEF FormatsInv, FormatsType, Formats!get_message_protocol_build_time, Formats!Answered, Formats!Build
<1>2. /\ table' = [t \in Formats!Table |-> IF FromFile(t) THEN saved[t] ELSE table[t]]
      /\ saved' \in [Formats!Table -> Formats!Build \cup {0}]
      /\ \A t \in Formats!Table : saved'[t] \in {saved[t], 0}
      /\ asked' = Tail(asked) \o Formats!Questions("names", FromFile("names"))
                              \o Formats!Questions("types", FromFile("types"))
      /\ UNCHANGED <<stage, m_pConn, host, owner, build>>
  BY DEF Formats!get_message_protocol_build_time, Formats!trytoLoadMessageFormat, Formats!Written, Formats!dialog
<1>3. "names" \in Formats!Table /\ "types" \in Formats!Table
  BY DEF Formats!Table
<1>4. /\ asked' \in {<<>>, <<"names">>, <<"types">>, <<"names", "types">>}
      /\ asked' \in {<<>>, <<"types">>} => FromFile("names")
      /\ asked' \in {<<>>, <<"names">>} => FromFile("types")
  <2>1. Tail(asked) = <<>>
    BY <1>1
  <2>2. CASE FromFile("names") /\ FromFile("types")
    BY <1>2, <2>1, <2>2, QuestionsInOrder, QuestionsDiffer DEF Formats!Questions
  <2>3. CASE FromFile("names") /\ ~FromFile("types")
    BY <1>2, <2>1, <2>3, QuestionsInOrder, QuestionsDiffer DEF Formats!Questions
  <2>4. CASE ~FromFile("names") /\ FromFile("types")
    BY <1>2, <2>1, <2>4, QuestionsInOrder, QuestionsDiffer DEF Formats!Questions
  <2>5. CASE ~FromFile("names") /\ ~FromFile("types")
    BY <1>2, <2>1, <2>5, QuestionsInOrder, QuestionsDiffer DEF Formats!Questions
  <2> QED
    BY <2>2, <2>3, <2>4, <2>5
<1>5. \A t \in Formats!Table : FromFile(t) => table'[t] >= build[host]
  BY <1>2 DEF Formats!Recent
<1>6. table' \in [Formats!Table -> 0 .. MaxBuild] /\ saved' \in [Formats!Table -> 0 .. MaxBuild]
  BY <1>2, MaxBuildAssumption DEF FormatsInv, FormatsType, Formats!Build
<1>7. NotAhead(table)' /\ NotAhead(saved)'
  <2>1. ASSUME NEW t \in Formats!Table
        PROVE  /\ table'[t] \in {saved[t], table[t]} /\ saved'[t] \in {saved[t], 0}
               /\ \E s \in Server : table[t] <= build[s]
               /\ \E s \in Server : saved[t] <= build[s]
    BY <1>2 DEF FormatsInv, FormatsType, NotAhead
  <2>2. host \in Server /\ 0 <= build[host] /\ build' = build
    BY <1>1, <1>2 DEF FormatsInv, FormatsType
  <2> QED
    BY <2>1, <2>2 DEF NotAhead
<1> QED
  BY <1>1, <1>2, <1>3, <1>4, <1>5, <1>6, <1>7 DEF FormatsInv, FormatsType

LEMMA AnswerSteps ==
  ASSUME FormatsInv,
         Formats!get_id_name_format_handler \/ Formats!get_data_format_handler
  PROVE  FormatsInv'
<1>1. /\ m_pConn = "open" /\ stage = "in" /\ host \in Server /\ build[host] \in 1 .. MaxBuild
      /\ UNCHANGED <<stage, m_pConn, host, owner, build>>
  BY DEF FormatsInv, FormatsType, Formats!get_id_name_format_handler, Formats!get_data_format_handler,
     Formats!Answered, Formats!Build, Formats!dialog
<1>2. ASSUME NEW f, NEW t \in Formats!Table, NEW b \in {0, build[host]},
             f \in [Formats!Table -> 0 .. MaxBuild], NotAhead(f)
      PROVE  /\ [f EXCEPT ![t] = b] \in [Formats!Table -> 0 .. MaxBuild]
             /\ NotAhead([f EXCEPT ![t] = b])
  <2>1. \A u \in Formats!Table : [f EXCEPT ![t] = b][u] \in {f[u], 0, build[host]}
    BY <1>2
  <2> QED
    BY <1>1, <1>2, <2>1, MaxBuildAssumption DEF NotAhead
<1>3. PICK t \in Formats!Table, b \in {0, build[host]} :
        /\ t = "names" => b = build[host]
        /\ Formats!Answered(t) /\ asked' = Tail(asked)
        /\ table' = [table EXCEPT ![t] = b]
        /\ \/ saved' = saved
           \/ \E s \in {saved[t], 0, build[host]} : saved' = [saved EXCEPT ![t] = s]
  <2>1. ASSUME Formats!get_id_name_format_handler
        PROVE  /\ Formats!Answered("names") /\ asked' = Tail(asked)
               /\ table' = [table EXCEPT !["names"] = build[host]]
               /\ \E s \in {saved["names"], 0, build[host]} : saved' = [saved EXCEPT !["names"] = s]
    BY <2>1 DEF Formats!get_id_name_format_handler, Formats!Replaced, Formats!Written
  <2>2. ASSUME Formats!get_data_format_handler
        PROVE  /\ Formats!Answered("types") /\ asked' = Tail(asked)
               /\ \/ /\ table' = [table EXCEPT !["types"] = build[host]]
                     /\ \E s \in {saved["types"], 0, build[host]} : saved' = [saved EXCEPT !["types"] = s]
                  \/ table' = [table EXCEPT !["types"] = 0] /\ saved' = saved
    BY <2>2 DEF Formats!get_data_format_handler, Formats!Replaced, Formats!Written
  <2> QED
    BY <2>1, <2>2 DEF Formats!Table
<1>4. table' \in [Formats!Table -> 0 .. MaxBuild] /\ NotAhead(table)'
  <2>1. table \in [Formats!Table -> 0 .. MaxBuild] /\ NotAhead(table)
    BY DEF FormatsInv, FormatsType
  <2>2. /\ [table EXCEPT ![t] = b] \in [Formats!Table -> 0 .. MaxBuild]
        /\ NotAhead([table EXCEPT ![t] = b])
    BY <1>2, <2>1
  <2> QED
    BY <1>1, <1>3, <2>2 DEF NotAhead
<1>5. saved' \in [Formats!Table -> 0 .. MaxBuild] /\ NotAhead(saved)'
  <2>1. CASE saved' = saved
    BY <1>1, <2>1 DEF FormatsInv, FormatsType, NotAhead
  <2>2. CASE saved' = [saved EXCEPT ![t] = saved[t]]
    BY <1>1, <2>2 DEF FormatsInv, FormatsType, NotAhead
  <2>3. ASSUME NEW c \in {0, build[host]}, saved' = [saved EXCEPT ![t] = c]
        PROVE  saved' \in [Formats!Table -> 0 .. MaxBuild] /\ NotAhead(saved)'
    <3>1. saved' \in [Formats!Table -> 0 .. MaxBuild] /\ NotAhead(saved')
      BY <1>2, <2>3 DEF FormatsInv, FormatsType
    <3> QED
      BY <1>1, <3>1 DEF NotAhead
  <2> QED
    BY <1>3, <2>1, <2>2, <2>3
<1>6. \/ t = "names" /\ asked = <<"names">> /\ asked' = <<>>
      \/ t = "names" /\ asked = <<"names", "types">> /\ asked' = <<"types">>
      \/ t = "types" /\ asked = <<"types">> /\ asked' = <<>>
  <2>1. /\ Head(asked) = t /\ asked # <<>> /\ asked' = Tail(asked) /\ t \in {"names", "types"}
        /\ asked \in {<<>>, <<"time">>, <<"names">>, <<"types">>, <<"names", "types">>}
    BY <1>3 DEF FormatsInv, FormatsType, Formats!Answered, Formats!Table
  <2> QED
    BY <2>1, QuestionsTaken
<1>7. /\ table \in [Formats!Table -> 0 .. MaxBuild] /\ build[host] \in Nat
      /\ table'[t] = b /\ \A u \in Formats!Table \ {t} : table'[u] = table[u]
  BY <1>1, <1>3, MaxBuildAssumption DEF FormatsInv, FormatsType
<1>8. /\ asked' \in {<<>>, <<"types">>} => table'["names"] >= build[host]
      /\ asked' \in {<<>>, <<"names">>} => table'["types"] = 0 \/ table'["types"] >= build[host]
  BY <1>1, <1>3, <1>6, <1>7, QuestionsDiffer DEF FormatsInv, Formats!Table
<1> QED
  BY <1>1, <1>4, <1>5, <1>6, <1>8 DEF FormatsInv, FormatsType

(* A server that is started with newer messages is left by its clients.    *)
LEMMA RebuildStep ==
  ASSUME FormatsInv, NEW v \in Server, Formats!Rebuilt(v)
  PROVE  FormatsInv'
<1>1. PICK b \in Formats!Build : b > build[v] /\ build' = [build EXCEPT ![v] = b]
  BY DEF Formats!Rebuilt
<1>2. /\ build' \in [Server -> Formats!Build]
      /\ \A s \in Server : build'[s] >= build[s] /\ build[s] \in Nat /\ build'[s] \in Nat
      /\ \A s \in Server \ {v} : build'[s] = build[s]
  BY <1>1, MaxBuildAssumption DEF FormatsInv, FormatsType, Formats!Build
<1>3. UNCHANGED <<stage, host, owner, table, saved>>
  BY DEF Formats!Rebuilt
<1>4. NotAhead(table)' /\ NotAhead(saved)'
  BY <1>2, <1>3, MaxBuildAssumption DEF FormatsInv, FormatsType, NotAhead
<1>5. CASE m_pConn = "open" /\ host = v
  BY <1>2, <1>3, <1>4, <1>5 DEF FormatsInv, FormatsType, Formats!Rebuilt, Formats!Loses
<1>6. CASE ~(m_pConn = "open" /\ host = v)
  BY <1>2, <1>3, <1>4, <1>6 DEF FormatsInv, FormatsType, Formats!Rebuilt
<1> QED
  BY <1>5, <1>6

LEMMA FormatsSound == FormatsInv => FormatsRight
<1> SUFFICES ASSUME FormatsInv
             PROVE  FormatsRight
  OBVIOUS
<1>1. Formats!OwnerLives
  BY DEF FormatsInv, Formats!OwnerLives
<1>2. ASSUME Formats!Settled
      PROVE  /\ table["names"] >= build[host]
             /\ table["types"] = 0 \/ table["types"] >= build[host]
             /\ build[host] \in 1 .. MaxBuild
             /\ table["names"] \in Nat /\ table["types"] \in Nat
  BY <1>2, MaxBuildAssumption DEF FormatsInv, FormatsType, Formats!Settled, Formats!Build, Formats!Table
<1>3. Formats!MessagesShown
  BY <1>2, MaxBuildAssumption DEF Formats!MessagesShown, Formats!Shown, Formats!LogicOutputMsgByFormat
<1>4. Formats!NothingForeign
  <2>1. SUFFICES ASSUME Formats!Settled, \A s \in Server : build[s] <= build[host]
                 PROVE  table["names"] = build[host] /\ table["types"] \in {0, build[host]}
    BY DEF Formats!NothingForeign
  <2>2. \A t \in Formats!Table : table[t] <= build[host]
    BY <1>2, <2>1, MaxBuildAssumption DEF FormatsInv, FormatsType, NotAhead, Formats!Build
  <2> QED
    BY <1>2, <2>1, <2>2 DEF Formats!Table
<1> QED
  BY <1>1, <1>3, <1>4 DEF FormatsRight

(* Once all is answered a client shows every message of its server, and    *)
(* by that server's tables if no other one is newer, whatever was left in  *)
(* memory and files by earlier sessions, for any number of servers and     *)
(* builds; and its scripts never get a connection that was destroyed       *)
(* (get_message_protocol_build_time, destroyConnect).                      *)
THEOREM FormatsCorrect == MCSpec => []FormatsRight
<1>1. ASSUME FormatsInv, UNCHANGED shownVars
      PROVE  FormatsInv'
  BY <1>1 DEF FormatsInv, FormatsType, NotAhead, shownVars
<1>2. FormatsInv /\ [MCNext]_<<part, vars, savedVars, shownVars>> => FormatsInv'
  BY <1>1, DialogSteps, BuildTimeStep, AnswerSteps, RebuildStep DEF MCNext, Formats!Next
<1> QED
  BY FormatsInit, <1>2, FormatsSound, PTL DEF MCSpec
=============================================================================
