--------------------------- MODULE PlayerRouting ---------------------------
(***************************************************************************)
(* Messages from player to player (srv_common/playerMgr.cpp, gameRole.cpp, *)
(* srv_msghandler.cpp).  Every host keeps a map of the players that are    *)
(* logged in and sends to the session it finds there; what is for others   *)
(* goes, wrapped, to the server that knows where they are, which passes it *)
(* on to a session of another host.  A session's number is looked up in    *)
(* one place and used in another, and belongs to someone else by then when *)
(* the player has left and another one has come.                           *)
(***************************************************************************)
EXTENDS Naturals, Sequences, FiniteSets

CONSTANTS Hosts, Players,
          Sids,        \* numbers of sessions, of which 0 is none
          MaxLogins, MaxMessages  \* bounds

\* 0 is no session, and no player: a message for it is for all.
NumbersAssumption == 0 \notin Sids /\ 0 \notin Players

VARIABLES link,     \* connection of a host to the other servers
          sessions, \* sessions[h][s]: the login that has session s of host h, or 0
          player,   \* player[n]: who the n-th login is
          m_player_map, \* m_player_map[h]: the session of a player
          sent,     \* sent[m]: the player it is for or 0 for all, how, and for which logins
          copies,   \* copies under way: to the servers, or to a session of a host
          got       \* got[m]: where it arrived: the login, and the login meant

vars == <<link, sessions, player, m_player_map, sent, copies, got>>

Logins == 1..Len(player)
Open(h) == {sessions[h][s] : s \in Sids} \ {0}
SessionAt(h, sid) == IF sid = 0 THEN 0 ELSE sessions[h][sid]

Init ==
  /\ link = [h \in Hosts |-> "new"]
  /\ sessions = [h \in Hosts |-> [s \in Sids |-> 0]]
  /\ player = <<>>
  /\ m_player_map = [h \in Hosts |-> <<>>]
  /\ sent = <<>> /\ copies = {} /\ got = <<>>

\* The answer to a host's registration.
register2MgrAck(h) ==
  /\ link[h] = "new"
  /\ link' \in {[link EXCEPT ![h] = "registered"], [link EXCEPT ![h] = "closed"]}
  /\ UNCHANGED <<sessions, player, m_player_map, sent, copies, got>>

----------------------------------------------------------------------------
(* Players come and go; those who use PlayerMgr add a role when it is in   *)
(* and delete it before its session goes.                                  *)

\* Also when the player still has another session.
Add(h, sid, p) ==
  m_player_map' = [m_player_map EXCEPT ![h] =
                     [q \in DOMAIN @ \cup {p} |-> IF q = p THEN sid ELSE @[q]]]

\* mutant: the entry stays
Del_stays(h, p) == UNCHANGED m_player_map
\* By the player: the entry of his newer session goes too.
Del(h, p) ==
  m_player_map' = [m_player_map EXCEPT ![h] = [q \in DOMAIN @ \ {p} |-> @[q]]]

Login(h, s, p) ==
  /\ sessions[h][s] = 0 /\ Len(player) < MaxLogins
  /\ player' = Append(player, p)
  /\ sessions' = [sessions EXCEPT ![h][s] = Len(player) + 1]
  /\ Add(h, s, p)
  /\ UNCHANGED <<link, sent, copies, got>>

Close(h, s) ==
  /\ sessions[h][s] # 0
  /\ Del(h, player[sessions[h][s]])
  /\ sessions' = [sessions EXCEPT ![h][s] = 0]
  /\ UNCHANGED <<link, player, sent, copies, got>>

GetSessionID(h, p) == IF p \in DOMAIN m_player_map[h] THEN m_player_map[h][p] ELSE 0

----------------------------------------------------------------------------
(* Sending                                                                 *)

\* Under way: from host h, wrapped, to the servers; or to session sid of h.
Copy(at, h, sid) == [m |-> Len(sent) + 1, at |-> at, host |-> h, sid |-> sid, meant |-> SessionAt(h, sid)]

New(to, how, for, ways) ==
  /\ Len(sent) < MaxMessages
  /\ sent' = Append(sent, [to |-> to, how |-> how, for |-> for])
  /\ got' = Append(got, <<>>)
  /\ copies' = copies \cup ways
  /\ UNCHANGED <<link, sessions, player, m_player_map>>

wrapToWorld(h) == IF link[h] = "closed" THEN {} ELSE {Copy("servers", h, 0)}

Local(h) == {n \in Logins : n \in Open(h)}
Everyone == UNION {Open(h) : h \in {g \in Hosts : link[g] = "registered"}}

\* PlayerMgr::Send; the lock is free again before the message goes.  For
\* player 0 it becomes a broadcast.
Send(h, p) ==
  LET sid == GetSessionID(h, p) IN
  New(p, "message", IF p = 0 /\ link[h] = "registered" THEN Everyone ELSE {},
      IF sid # 0 THEN {Copy("session", h, sid)} ELSE wrapToWorld(h))

\* PlayerMgr::CallMsgProc does not do that.
CallMsgProc(h, p) ==
  LET sid == GetSessionID(h, p) IN
  /\ p # 0
  /\ New(p, "call", {}, IF sid # 0 THEN {Copy("session", h, sid)} ELSE wrapToWorld(h))

\* mutant: to the own sessions at once, and by way of the servers
BroadCastInWorld_both(h, how) ==
  New(0, how, IF link[h] = "registered" THEN Everyone ELSE {},
      wrapToWorld(h) \cup {Copy("session", h, 0)})

\* BroadCastInWorld and CallMsgProcInWorld: the own sessions get it from the
\* servers like all others.
BroadCastInWorld(h, how) ==
  New(0, how, IF link[h] = "registered" THEN Everyone ELSE {}, wrapToWorld(h))

BroadCastInHost(h) == New(0, "message", Local(h), {Copy("session", h, 0)})

\* resend_to_world_handler, resend_playermsg_to_world_handler: a client's
\* request goes to the servers with the number of his session.
resend_to_world_handler(h, s) ==
  /\ sessions[h][s] # 0 /\ link[h] = "registered"
  /\ New(player[sessions[h][s]], "message", {}, {Copy("asked", h, s)})

----------------------------------------------------------------------------
(* The other servers (external): they know where a player is when they     *)
(* pass a message on, and answer a request to the session it came from.    *)

PassOn(c) ==
  /\ c.at = "servers"
  /\ LET to == sent[c.m].to
         way(h, sid) == [c EXCEPT !.at = "session", !.host = h, !.sid = sid, !.meant = SessionAt(h, sid)]
         there == {h \in Hosts : link[h] = "registered"}
         homes == {hs \in there \X Sids : sessions[hs[1]][hs[2]] # 0 /\ player[sessions[hs[1]][hs[2]]] = to}
     IN IF to = 0 THEN copies' = (copies \ {c}) \cup {way(h, 0) : h \in there}
        ELSE IF homes = {} THEN copies' = copies \ {c}
        ELSE \E hs \in homes : copies' = (copies \ {c}) \cup {way(hs[1], hs[2])}
  /\ UNCHANGED <<link, sessions, player, m_player_map, sent, got>>

AnswerRequest(c) ==
  /\ c.at = "asked"
  /\ copies' = (copies \ {c}) \cup {[c EXCEPT !.at = "session"]}
  /\ UNCHANGED <<link, sessions, player, m_player_map, sent, got>>

----------------------------------------------------------------------------
(* A message comes to the host that has the session.                       *)

Arrives(c, logins) ==
  LET order == CHOOSE f \in [1..Cardinality(logins) -> logins] : \A n \in logins : \E i \in DOMAIN f : f[i] = n
  IN /\ got' = [got EXCEPT ![c.m] = @ \o [i \in DOMAIN order |-> [login |-> order[i], meant |-> c.meant]]]
     /\ copies' = copies \ {c}
     /\ UNCHANGED <<link, sessions, player, m_player_map, sent>>

\* Session 0 is all of the host; whoever has the session now gets it.
Receivers(c) ==
  IF c.sid = 0 THEN Open(c.host) ELSE {SessionAt(c.host, c.sid)} \ {0}

\* unwrap_sendto_player_entry, bridge_to_client_dirctly_entry, and the send
\* that follows the look-up in Send
unwrap_sendto_player_entry(c) ==
  /\ c.at = "session" /\ sent[c.m].how = "message"
  /\ Arrives(c, Receivers(c))

\* unwrap_call_session_msgproc_entry: the session handles it as if its client
\* had sent it.
unwrap_call_session_msgproc_entry(c) ==
  /\ c.at = "session" /\ sent[c.m].how = "call"
  /\ Arrives(c, Receivers(c))

\* The bounds are reached.
Done == Len(player) = MaxLogins /\ Len(sent) = MaxMessages /\ copies = {}
        /\ (\A h \in Hosts : Open(h) = {} /\ link[h] # "new") /\ UNCHANGED vars

Next ==
  \/ \E h \in Hosts :
       \/ register2MgrAck(h) \/ BroadCastInHost(h)
       \/ \E how \in {"message", "call"} : BroadCastInWorld(h, how)
       \/ \E p \in Players \cup {0} : Send(h, p) \/ CallMsgProc(h, p)
       \/ \E s \in Sids : Close(h, s) \/ resend_to_world_handler(h, s) \/ \E p \in Players : Login(h, s, p)
  \/ \E c \in copies : PassOn(c) \/ AnswerRequest(c)
                       \/ unwrap_sendto_player_entry(c) \/ unwrap_call_session_msgproc_entry(c)
  \/ Done

Spec == Init /\ [][Next]_vars
----------------------------------------------------------------------------
\* Links, sessions and messages under way stay within their states.
TypeOK ==
  /\ link \in [Hosts -> {"new", "registered", "closed"}]
  /\ \A h \in Hosts, s \in Sids : sessions[h][s] \in {0} \cup Logins
  /\ \A c \in copies : c.m \in DOMAIN sent /\ c.host \in Hosts /\ c.sid \in {0} \cup Sids
  /\ DOMAIN got = DOMAIN sent

\* A message for one player comes at most once, and to no one else; unless
\* the session it was on its way to was closed meanwhile and its number is
\* used again: from the look-up to the send nothing holds the session.
OnlyToPlayer ==
  \A m \in DOMAIN sent : sent[m].to # 0 =>
    /\ Len(got[m]) <= 1
    /\ \A i \in DOMAIN got[m] :
         got[m][i].login = got[m][i].meant => player[got[m][i].login] = sent[m].to

\* A broadcast comes once to everyone: never twice, and, when it is over, to
\* all that were there when it was sent and still are.
BroadcastOnce ==
  \A m \in DOMAIN sent : sent[m].to = 0 =>
    /\ \A i, j \in DOMAIN got[m] : got[m][i].login = got[m][j].login => i = j
    /\ (\A c \in copies : c.m # m) =>
         \A n \in sent[m].for : (\E h \in Hosts : n \in Open(h)) => \E i \in DOMAIN got[m] : got[m][i].login = n

\* What is sent reaches whom it is for, while players come, go and come back
\* in between (SendToPlayer, BroadCastInWorld, the handlers of the world).
RoutedRight == OnlyToPlayer /\ BroadcastOnce
=============================================================================
