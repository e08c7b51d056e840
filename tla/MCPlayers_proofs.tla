--------------------------- MODULE MCPlayers_proofs ---------------------------
(***************************************************************************)
(* What a server does for its players, for any hosts, players, sessions    *)
(* and bounds, any capacity of the rank list, and any rates whatever       *)
(* rand() returns.  No two parts touch the same variables, so each has its *)
(* own invariant and the steps of the others leave it alone.               *)
(***************************************************************************)
EXTENDS MCPlayers, FiniteSetTheorems, SequenceTheorems, WellFoundedInduction, TLAPS

-----------------------------------------------------------------------------
(* PlayerRouting: the messages.  Of a message for one player there is one  *)
(* copy at most, which is gone when it has come, and which was meant for a *)
(* login of his; of one for all one copy at the servers or else one for    *)
(* each host, whose logins have not got it yet; and whoever it is for has  *)
(* it, or a copy is on its way to his host, or will be when the servers    *)
(* have passed it on.                                                      *)
Sent == [to : Players \cup {0}, how : {"message", "call"}, for : SUBSET Nat]
Copies == [m : Nat, at : {"servers", "session", "asked"}, host : Hosts, sid : {0} \cup Sids, meant : Nat]
Taken == [login : Nat, meant : Nat]

LoginsAt(ses, h) == {ses[h][s] : s \in Sids} \ {0}

ToOne(to, mine, taken, who) ==
  /\ \A c, d \in mine : c = d
  /\ mine # {} => taken = <<>>
  /\ \A c \in mine : c.at # "servers" => c.sid \in Sids /\ c.meant \in 1 .. Len(who) /\ who[c.meant] = to
  /\ Len(taken) <= 1
  /\ \A i \in DOMAIN taken : taken[i].login = taken[i].meant => who[taken[i].login] = to

Reached(n, h, mine, taken, lk) ==
  \/ \E i \in DOMAIN taken : taken[i].login = n
  \/ \E c \in mine : c.at = "session" /\ c.host = h
  \/ \E c \in mine : c.at = "servers" /\ lk[h] = "registered"

ToAll(for, mine, taken, ses, lk) ==
  /\ \A c \in mine : c.at # "asked" /\ (c.at = "session" => c.sid = 0)
  /\ \A c \in mine : c.at = "servers" => mine = {c} /\ taken = <<>>
  /\ \A c, d \in mine : c.at = "session" /\ d.at = "session" /\ c.host = d.host => c = d
  /\ \A i, j \in DOMAIN taken : taken[i].login = taken[j].login => i = j
  /\ \A c \in mine, i \in DOMAIN taken : c.at = "session" => taken[i].login \notin LoginsAt(ses, c.host)
  /\ \A n \in for, h \in Hosts : n \in LoginsAt(ses, h) => Reached(n, h, mine, taken, lk)

Right(msg, mine, taken, who, ses, lk) ==
  /\ msg.to # 0 => ToOne(msg.to, mine, taken, who)
  /\ msg.to = 0 => ToAll(msg.for, mine, taken, ses, lk)

LinkInv == link \in [Hosts -> {"new", "registered", "closed"}]

SessionInv ==
  /\ player \in Seq(Players) /\ sessions \in [Hosts -> [Sids -> Nat]]
  /\ \A h \in Hosts, s \in Sids : sessions[h][s] <= Len(player)
  /\ \A g, h \in Hosts, s, t \in Sids : sessions[g][s] # 0 /\ sessions[g][s] = sessions[h][t] => g = h /\ s = t

MapInv ==
  /\ DOMAIN m_player_map = Hosts
  /\ \A h \in Hosts : \A p \in DOMAIN m_player_map[h] :
       /\ p \in Players /\ m_player_map[h][p] \in Sids
       /\ sessions[h][m_player_map[h][p]] # 0 /\ player[sessions[h][m_player_map[h][p]]] = p

Mine(m) == {c \in copies : c.m = m}

PostInv ==
  /\ sent \in Seq(Sent) /\ got \in Seq(Seq(Taken)) /\ Len(got) = Len(sent)
  /\ copies \subseteq Copies /\ \A c \in copies : c.m \in DOMAIN sent
  /\ \A m \in DOMAIN got : \A i \in DOMAIN got[m] : got[m][i].login \in 1 .. Len(player)
  /\ \A m \in DOMAIN sent : sent[m].for \subseteq 1 .. Len(player)

MessageInv == \A m \in DOMAIN sent : Right(sent[m], Mine(m), got[m], player, sessions, link)

RoutingInv == LinkInv /\ SessionInv /\ MapInv /\ PostInv /\ MessageInv

-----------------------------------------------------------------------------
(* What happens to one message.                                            *)
LEMMA OneKeeps ==
  ASSUME NEW to, NEW mine, NEW taken, NEW who \in Seq(Players), NEW longer \in Seq(Players),
         Len(who) <= Len(longer), \A n \in 1 .. Len(who) : longer[n] = who[n],
         \A i \in DOMAIN taken : taken[i].login \in 1 .. Len(who),
         ToOne(to, mine, taken, who)
  PROVE  ToOne(to, mine, taken, longer)
<1>1. \A n \in 1 .. Len(who) : n \in 1 .. Len(longer)
  OBVIOUS
<1>2. \A c \in mine : c.at # "servers" =>
        c.sid \in Sids /\ c.meant \in 1 .. Len(longer) /\ longer[c.meant] = to
  BY <1>1 DEF ToOne
<1>3. \A i \in DOMAIN taken : taken[i].login = taken[i].meant => longer[taken[i].login] = to
  BY DEF ToOne
<1> QED
  BY <1>2, <1>3 DEF ToOne

LEMMA AllKeeps ==
  ASSUME NEW for, NEW mine, NEW taken, NEW ses, NEW lk, NEW ses2, NEW lk2, NEW n \in Nat,
         for \subseteq 1 .. n, \A i \in DOMAIN taken : taken[i].login \in 1 .. n,
         \A h \in Hosts : lk[h] = "registered" => lk2[h] = "registered",
         \A h \in Hosts : \A k \in 1 .. n : k \in LoginsAt(ses2, h) => k \in LoginsAt(ses, h),
         \A c \in mine : c.host \in Hosts,
         ToAll(for, mine, taken, ses, lk)
  PROVE  ToAll(for, mine, taken, ses2, lk2)
<1>1. \A c \in mine, i \in DOMAIN taken : c.at = "session" => taken[i].login \notin LoginsAt(ses2, c.host)
  BY DEF ToAll
<1>2. \A k \in for, h \in Hosts : k \in LoginsAt(ses2, h) => Reached(k, h, mine, taken, lk2)
  <2> SUFFICES ASSUME NEW k \in for, NEW h \in Hosts, k \in LoginsAt(ses2, h)
               PROVE  Reached(k, h, mine, taken, lk2)
    OBVIOUS
  <2>1. Reached(k, h, mine, taken, lk)
    BY DEF ToAll
  <2> QED
    BY <2>1 DEF Reached
<1> QED
  BY <1>1, <1>2 DEF ToAll

LEMMA OnePassed ==
  ASSUME NEW to, NEW mine, NEW taken, NEW who, NEW c \in mine, NEW on,
         \A d, e \in on : d = e,
         \A d \in on : d.sid \in Sids /\ d.meant \in 1 .. Len(who) /\ who[d.meant] = to,
         ToOne(to, mine, taken, who)
  PROVE  ToOne(to, (mine \ {c}) \cup on, taken, who)
<1>1. (mine \ {c}) \cup on = on /\ taken = <<>>
  BY DEF ToOne
<1> QED
  BY <1>1 DEF ToOne

LEMMA AllPassed ==
  ASSUME NEW for, NEW mine, NEW taken, NEW ses, NEW lk, NEW c \in mine, c.at = "servers", NEW on,
         \A d \in on : d.at = "session" /\ d.sid = 0,
         \A d, e \in on : d.host = e.host => d = e,
         \A h \in Hosts : lk[h] = "registered" => \E d \in on : d.host = h,
         ToAll(for, mine, taken, ses, lk)
  PROVE  ToAll(for, (mine \ {c}) \cup on, taken, ses, lk)
<1>1. mine = {c} /\ taken = <<>>
  BY DEF ToAll
<1>2. (mine \ {c}) \cup on = on
  BY <1>1
<1>3. ASSUME NEW n \in for, NEW h \in Hosts, n \in LoginsAt(ses, h)
      PROVE  Reached(n, h, on, taken, lk)
  <2>1. Reached(n, h, mine, taken, lk)
    BY <1>3 DEF ToAll
  <2>2. lk[h] = "registered"
    BY <1>1, <2>1 DEF Reached
  <2> QED
    BY <2>2 DEF Reached
<1>4. \A d \in on : d.at # "asked" /\ (d.at = "session" => d.sid = 0) /\ d.at # "servers"
  OBVIOUS
<1>5. \A d, e \in on : d.at = "session" /\ e.at = "session" /\ d.host = e.host => d = e
  OBVIOUS
<1>6. ToAll(for, on, taken, ses, lk)
  BY <1>1, <1>3, <1>4, <1>5 DEF ToAll
<1> QED
  BY <1>2, <1>6

(* What has been taken, and what is taken now by some logins, once each.   *)
Took(before, after, logins, meant) ==
  /\ DOMAIN before \subseteq DOMAIN after
  /\ \A i \in DOMAIN before : after[i] = before[i]
  /\ \A i \in DOMAIN after \ DOMAIN before : after[i].login \in logins /\ after[i].meant = meant
  /\ \A n \in logins : \E i \in DOMAIN after : after[i].login = n
  /\ \A i, j \in DOMAIN after \ DOMAIN before : after[i].login = after[j].login => i = j

LEMMA AllArrived ==
  ASSUME NEW for, NEW mine, NEW taken, NEW after, NEW ses, NEW lk, NEW c \in mine, c.at = "session",
         c.host \in Hosts, \A d \in mine : d.host \in Hosts,
         \A g, h \in Hosts : \A n \in LoginsAt(ses, g) : n \in LoginsAt(ses, h) => g = h,
         Took(taken, after, LoginsAt(ses, c.host), c.meant),
         ToAll(for, mine, taken, ses, lk)
  PROVE  ToAll(for, mine \ {c}, after, ses, lk)
<1>1. ASSUME NEW d \in mine
      PROVE  d.at # "asked" /\ (d.at = "session" => d.sid = 0) /\ d.at # "servers"
  BY DEF ToAll
<1>2. \A d, e \in mine : d.at = "session" /\ e.at = "session" /\ d.host = e.host => d = e
  BY DEF ToAll
<1>3. \A i \in DOMAIN taken : taken[i].login \notin LoginsAt(ses, c.host)
  BY DEF ToAll
<1>4. ASSUME NEW i \in DOMAIN after, NEW j \in DOMAIN after, after[i].login = after[j].login
      PROVE  i = j
  <2>1. CASE i \in DOMAIN taken /\ j \in DOMAIN taken
    <3>1. taken[i].login = taken[j].login
      BY <1>4, <2>1 DEF Took
    <3> QED
      BY <2>1, <3>1 DEF ToAll
  <2>2. CASE i \in DOMAIN taken /\ j \notin DOMAIN taken
    <3>1. after[i] = taken[i] /\ after[j].login \in LoginsAt(ses, c.host)
      BY <2>2 DEF Took
    <3> QED
      BY <1>3, <1>4, <2>2, <3>1
  <2>3. CASE i \notin DOMAIN taken /\ j \in DOMAIN taken
    <3>1. after[j] = taken[j] /\ after[i].login \in LoginsAt(ses, c.host)
      BY <2>3 DEF Took
    <3> QED
      BY <1>3, <1>4, <2>3, <3>1
  <2>4. CASE i \notin DOMAIN taken /\ j \notin DOMAIN taken
    BY <1>4, <2>4 DEF Took
  <2> QED
    BY <2>1, <2>2, <2>3, <2>4
<1>5. ASSUME NEW d \in mine \ {c}, NEW i \in DOMAIN after, d.at = "session"
      PROVE  after[i].login \notin LoginsAt(ses, d.host)
  <2>1. d.host # c.host
    BY <1>2, <1>5
  <2>2. CASE i \in DOMAIN taken
    <3>1. after[i] = taken[i]
      BY <2>2 DEF Took
    <3>2. taken[i].login \notin LoginsAt(ses, d.host)
      BY <1>5, <2>2 DEF ToAll
    <3> QED
      BY <3>1, <3>2
  <2>3. CASE i \notin DOMAIN taken
    <3>1. after[i].login \in LoginsAt(ses, c.host)
      BY <2>3 DEF Took
    <3> QED
      BY <2>1, <3>1
  <2> QED
    BY <2>2, <2>3
<1>6. ASSUME NEW n \in for, NEW h \in Hosts, n \in LoginsAt(ses, h)
      PROVE  Reached(n, h, mine \ {c}, after, lk)
  <2>1. Reached(n, h, mine, taken, lk)
    BY <1>6 DEF ToAll
  <2>2. CASE \E i \in DOMAIN taken : taken[i].login = n
    <3>1. PICK i \in DOMAIN taken : taken[i].login = n
      BY <2>2
    <3>2. i \in DOMAIN after /\ after[i].login = n
      BY <3>1 DEF Took
    <3> QED
      BY <3>2 DEF Reached
  <2>3. CASE \E d \in mine : d.at = "session" /\ d.host = h
    <3>1. PICK d \in mine : d.at = "session" /\ d.host = h
      BY <2>3
    <3>2. CASE d = c
      <4>1. \E i \in DOMAIN after : after[i].login = n
        BY <1>6, <3>1, <3>2 DEF Took
      <4> QED
        BY <4>1 DEF Reached
    <3>3. CASE d # c
      BY <3>1, <3>3 DEF Reached
    <3> QED
      BY <3>2, <3>3
  <2>4. CASE \E d \in mine : d.at = "servers" /\ lk[h] = "registered"
    BY <1>1, <2>4
  <2> QED
    BY <2>1, <2>2, <2>3, <2>4 DEF Reached
<1>7. \A d \in mine \ {c} : d.at # "asked" /\ (d.at = "session" => d.sid = 0) /\ d.at # "servers"
  BY <1>1
<1> QED
  BY <1>2, <1>4, <1>5, <1>6, <1>7 DEF ToAll

LEMMA OneArrived ==
  ASSUME NEW to, NEW mine, NEW taken, NEW after \in Seq(Taken), NEW who, NEW c \in mine, c.at # "servers",
         NEW logins, \A m, n \in logins : m = n, Took(taken, after, logins, c.meant),
         ToOne(to, mine, taken, who)
  PROVE  ToOne(to, mine \ {c}, after, who)
<1>1. mine \ {c} = {} /\ taken = <<>> /\ who[c.meant] = to
  BY DEF ToOne
<1>2. DOMAIN taken = {}
  BY <1>1
<1>3. \A i \in DOMAIN after : after[i].login \in logins /\ after[i].meant = c.meant
  BY <1>2 DEF Took
<1>4. \A i, j \in DOMAIN after : i = j
  BY <1>2, <1>3 DEF Took
<1>5. Len(after) <= 1
  <2>1. Len(after) \in Nat /\ DOMAIN after = 1 .. Len(after)
    OBVIOUS
  <2>2. ASSUME Len(after) >= 2
        PROVE  FALSE
    <3>1. 1 \in DOMAIN after /\ 2 \in DOMAIN after
      BY <2>1, <2>2
    <3> QED
      BY <1>4, <3>1
  <2> QED
    BY <2>1, <2>2
<1>6. \A i \in DOMAIN after : after[i].login = after[i].meant => who[after[i].login] = to
  BY <1>1, <1>3
<1> QED
  BY <1>1, <1>5, <1>6 DEF ToOne

(* The receivers of a copy are put behind those before them, in some order.*)
LEMMA InSomeOrder ==
  ASSUME NEW logins, NEW n \in Nat, logins \subseteq 1 .. n
  PROVE  /\ Cardinality(logins) \in Nat
         /\ \E f \in [1 .. Cardinality(logins) -> logins] : \A k \in logins : \E i \in DOMAIN f : f[i] = k
         /\ \A f \in [1 .. Cardinality(logins) -> logins] :
              (\A k \in logins : \E i \in DOMAIN f : f[i] = k) =>
                \A i, j \in DOMAIN f : f[i] = f[j] => i = j
<1>1. IsFiniteSet(1 .. n)
  BY FS_Interval
<1>2. IsFiniteSet(logins)
  BY <1>1, FS_Subset
<1>3. PICK len \in Nat : ExistsBijection(1 .. len, logins)
  BY <1>2, FS_NatBijection
<1>4. Cardinality(logins) = len
  BY <1>3, FS_CountingElements
<1>5. PICK f : f \in Bijection(1 .. len, logins)
  BY <1>3 DEF ExistsBijection
<1>6. f \in [1 .. len -> logins] /\ \A k \in logins : \E i \in DOMAIN f : f[i] = k
  BY <1>5 DEF Bijection, Surjection
<1>7. ASSUME NEW h \in [1 .. len -> logins], \A k \in logins : \E i \in DOMAIN h : h[i] = k
      PROVE  \A i, j \in DOMAIN h : h[i] = h[j] => i = j
  <2>1. h \in Surjection(1 .. len, logins)
    BY <1>7 DEF Surjection
  <2>2. IsFiniteSet(1 .. len) /\ Cardinality(1 .. len) = len
    BY FS_Interval
  <2>3. h \in Injection(1 .. len, logins)
    BY <1>4, <2>1, <2>2, FS_SurjSameCardinalityImpliesInj
  <2> QED
    BY <2>3 DEF Injection, IsInjective
<1> QED
  BY <1>4, <1>6, <1>7

LEMMA Joined ==
  ASSUME NEW before \in Seq(Taken), NEW more \in Seq(Taken)
  PROVE  /\ before \o more \in Seq(Taken) /\ Len(before \o more) = Len(before) + Len(more)
         /\ \A i \in 1 .. Len(before) + Len(more) :
              (before \o more)[i] = IF i <= Len(before) THEN before[i] ELSE more[i - Len(before)]
BY ConcatProperties

InTurn(more, order, len, logins, meant) ==
  /\ Len(more) = len /\ \A i \in 1 .. len : order[i] \in logins
  /\ \A k \in logins : \E i \in 1 .. len : order[i] = k
  /\ \A i, j \in 1 .. len : order[i] = order[j] => i = j
  /\ \A i \in 1 .. len : more[i].login = order[i] /\ more[i].meant = meant

LEMMA TookSome ==
  ASSUME NEW before \in Seq(Taken), NEW more \in Seq(Taken), NEW order, NEW len \in Nat,
         NEW logins, NEW meant, InTurn(more, order, len, logins, meant)
  PROVE  before \o more \in Seq(Taken) /\ Took(before, before \o more, logins, meant)
<1>1. /\ Len(more) = len /\ \A i \in 1 .. len : order[i] \in logins
      /\ \A i \in 1 .. len : more[i].login = order[i] /\ more[i].meant = meant
  BY DEF InTurn
<1>2. /\ \A k \in logins : \E i \in 1 .. len : order[i] = k
      /\ \A i, j \in 1 .. len : order[i] = order[j] => i = j
  BY DEF InTurn
<1>9. PICK old \in Nat : old = Len(before) /\ DOMAIN before = 1 .. old
  OBVIOUS
<1>10. PICK after : after = before \o more
  OBVIOUS
<1>11. /\ after \in Seq(Taken) /\ Len(after) = Len(before) + Len(more)
       /\ \A i \in 1 .. Len(before) + Len(more) :
            after[i] = IF i <= Len(before) THEN before[i] ELSE more[i - Len(before)]
  BY <1>10, Joined
<1>12. after \in Seq(Taken) /\ Len(after) = old + len /\ DOMAIN after = 1 .. old + len
  BY <1>1, <1>9, <1>11
<1>13. \A i \in 1 .. old : i \in 1 .. old + len /\ after[i] = before[i]
  BY <1>1, <1>9, <1>11
<1>14. ASSUME NEW i \in 1 .. len
       PROVE  /\ old + i \in 1 .. old + len /\ old + i \notin 1 .. old
              /\ after[old + i].login = order[i] /\ after[old + i].meant = meant
  <2>1. old + i \in 1 .. old + len /\ old + i \notin 1 .. old /\ ~(old + i <= old) /\ (old + i) - old = i
    OBVIOUS
  <2>2. after[old + i] = more[i]
    BY <1>1, <1>9, <1>11, <2>1
  <2> QED
    BY <1>1, <2>1, <2>2
<1>15. ASSUME NEW i \in (1 .. old + len) \ (1 .. old)
       PROVE  \E j \in 1 .. len : i = old + j
  <2>1. i - old \in 1 .. len /\ i = old + (i - old)
    OBVIOUS
  <2> QED
    BY <2>1
<1>16. ASSUME NEW i \in DOMAIN after \ DOMAIN before
       PROVE  after[i].login \in logins /\ after[i].meant = meant
  <2>1. PICK j \in 1 .. len : i = old + j
    BY <1>9, <1>12, <1>15
  <2> QED
    BY <1>1, <1>14, <2>1
<1>17. ASSUME NEW k \in logins
       PROVE  \E i \in DOMAIN after : after[i].login = k
  <2>1. PICK j \in 1 .. len : order[j] = k
    BY <1>2
  <2> QED
    BY <1>12, <1>14, <2>1
<1>18. ASSUME NEW i \in DOMAIN after \ DOMAIN before, NEW j \in DOMAIN after \ DOMAIN before,
              after[i].login = after[j].login
       PROVE  i = j
  <2>1. PICK a \in 1 .. len : i = old + a
    BY <1>9, <1>12, <1>15
  <2>2. PICK b \in 1 .. len : j = old + b
    BY <1>9, <1>12, <1>15
  <2>3. order[a] = order[b]
    BY <1>14, <1>18, <2>1, <2>2
  <2>4. a = b
    BY <1>2, <2>3
  <2> QED
    BY <2>1, <2>2, <2>4
<1>19. DOMAIN before \subseteq DOMAIN after /\ \A i \in DOMAIN before : after[i] = before[i]
  BY <1>9, <1>12, <1>13
<1> QED
  BY <1>10, <1>12, <1>16, <1>17, <1>18, <1>19 DEF Took

Behind(before, order, meant) == before \o [i \in DOMAIN order |-> [login |-> order[i], meant |-> meant]]

LEMMA TookThem ==
  ASSUME NEW before \in Seq(Taken), NEW logins, NEW n \in Nat, logins \subseteq 1 .. n, NEW meant \in Nat,
         NEW order \in [1 .. Cardinality(logins) -> logins],
         \A k \in logins : \E i \in DOMAIN order : order[i] = k
  PROVE  /\ Behind(before, order, meant) \in Seq(Taken)
         /\ Took(before, Behind(before, order, meant), logins, meant)
<1>1. PICK len \in Nat : len = Cardinality(logins)
  BY InSomeOrder
<1>2. logins \subseteq Nat
  OBVIOUS
<1>3. DOMAIN order = 1 .. len /\ \A i \in 1 .. len : order[i] \in logins
  BY <1>1
<1>4. \A i, j \in 1 .. len : order[i] = order[j] => i = j
  BY <1>3, InSomeOrder
<1>5. PICK more : more = [i \in DOMAIN order |-> [login |-> order[i], meant |-> meant]]
  OBVIOUS
<1>6. \A i \in 1 .. len : order[i] \in Nat
  BY <1>2, <1>3
<1>7. more \in Seq(Taken) /\ Len(more) = len
  <2>1. more \in [1 .. len -> Taken]
    BY <1>3, <1>5, <1>6 DEF Taken
  <2> QED
    BY <2>1
<1>8. \A i \in 1 .. len : more[i].login = order[i] /\ more[i].meant = meant
  BY <1>3, <1>5
<1>9. InTurn(more, order, len, logins, meant)
  BY <1>3, <1>4, <1>7, <1>8 DEF InTurn
<1>10. before \o more \in Seq(Taken) /\ Took(before, before \o more, logins, meant)
  BY <1>7, <1>9, TookSome
<1>11. Behind(before, order, meant) = before \o more
  BY <1>5 DEF Behind
<1> QED
  BY <1>10, <1>11

-----------------------------------------------------------------------------
(* What happens to all of them.                                            *)
LEMMA OpenIs == \A h : Routing!Open(h) = LoginsAt(sessions, h)
BY DEF Routing!Open, LoginsAt

LEMMA LoginsKnown ==
  ASSUME SessionInv, NEW h \in Hosts
  PROVE  /\ LoginsAt(sessions, h) \subseteq 1 .. Len(player) /\ Len(player) \in Nat
         /\ \A s \in Sids : sessions[h][s] # 0 =>
              sessions[h][s] \in LoginsAt(sessions, h) /\ sessions[h][s] \in 1 .. Len(player)
<1>1. Len(player) \in Nat
  BY DEF SessionInv
<1>2. ASSUME NEW s \in Sids, sessions[h][s] # 0
      PROVE  sessions[h][s] \in 1 .. Len(player)
  <2>1. sessions[h][s] \in Nat /\ sessions[h][s] <= Len(player)
    BY DEF SessionInv
  <2> QED
    BY <1>1, <1>2, <2>1
<1> QED
  BY <1>1, <1>2 DEF LoginsAt

LEMMA LoginOnce ==
  ASSUME SessionInv
  PROVE  \A g, h \in Hosts : \A n \in LoginsAt(sessions, g) : n \in LoginsAt(sessions, h) => g = h
BY DEF SessionInv, LoginsAt

(* While messages stay where they are.                                     *)
LEMMA MessagesStay ==
  ASSUME RoutingInv, SessionInv', UNCHANGED <<sent, copies, got>>,
         Len(player) <= Len(player'), \A n \in 1 .. Len(player) : player'[n] = player[n],
         \A h \in Hosts : \A n \in 1 .. Len(player) :
           n \in LoginsAt(sessions', h) => n \in LoginsAt(sessions, h),
         \A h \in Hosts : link[h] = "registered" => link'[h] = "registered"
  PROVE  PostInv' /\ MessageInv'
<1>1. Len(player) \in Nat /\ Len(player') \in Nat /\ player \in Seq(Players) /\ player' \in Seq(Players)
  BY DEF RoutingInv, SessionInv
<1>2. \A n \in 1 .. Len(player) : n \in 1 .. Len(player')
  BY <1>1
<1>3. PostInv'
  <2>1. \A m \in DOMAIN got : \A i \in DOMAIN got[m] : got[m][i].login \in 1 .. Len(player')
    BY <1>2 DEF RoutingInv, PostInv
  <2>2. \A m \in DOMAIN sent : sent[m].for \subseteq 1 .. Len(player')
    BY <1>2 DEF RoutingInv, PostInv
  <2> QED
    BY <2>1, <2>2 DEF RoutingInv, PostInv
<1>4. ASSUME NEW m \in DOMAIN sent
      PROVE  Right(sent[m], Mine(m), got[m], player', sessions', link')
  <2>1. Right(sent[m], Mine(m), got[m], player, sessions, link)
    BY DEF RoutingInv, MessageInv
  <2>2. m \in DOMAIN got
    BY DEF RoutingInv, PostInv
  <2>3. \A i \in DOMAIN got[m] : got[m][i].login \in 1 .. Len(player)
    BY <2>2 DEF RoutingInv, PostInv
  <2>4. sent[m].for \subseteq 1 .. Len(player)
    BY DEF RoutingInv, PostInv
  <2>5. \A c \in Mine(m) : c.host \in Hosts
    BY DEF RoutingInv, PostInv, Mine, Copies
  <2>6. sent[m].to # 0 => ToOne(sent[m].to, Mine(m), got[m], player')
    BY <1>1, <2>1, <2>3, OneKeeps DEF Right
  <2>7. sent[m].to = 0 => ToAll(sent[m].for, Mine(m), got[m], sessions', link')
    BY <1>1, <2>1, <2>3, <2>4, <2>5, AllKeeps DEF Right
  <2> QED
    BY <2>6, <2>7 DEF Right
<1>5. MessageInv'
  BY <1>4 DEF MessageInv, Mine
<1> QED
  BY <1>3, <1>5

(* When one copy is exchanged for others, and its message gets on.         *)
LEMMA MessageMoves ==
  ASSUME RoutingInv, NEW c \in copies, NEW on, on \subseteq Copies, \A d \in on : d.m = c.m,
         NEW after \in Seq(Taken), \A i \in DOMAIN after : after[i].login \in 1 .. Len(player),
         copies' = (copies \ {c}) \cup on, got' = [got EXCEPT ![c.m] = after],
         UNCHANGED <<link, sessions, player, m_player_map, sent>>,
         Right(sent[c.m], (Mine(c.m) \ {c}) \cup on, after, player, sessions, link)
  PROVE  RoutingInv'
<1>1. LinkInv' /\ SessionInv' /\ MapInv'
  BY DEF RoutingInv, LinkInv, SessionInv, MapInv
<1>2. /\ c.m \in DOMAIN sent /\ sent \in Seq(Sent) /\ got \in Seq(Seq(Taken)) /\ Len(got) = Len(sent)
      /\ copies \subseteq Copies /\ \A d \in copies : d.m \in DOMAIN sent
  BY DEF RoutingInv, PostInv
<1>3. DOMAIN got = DOMAIN sent
  BY <1>2
<1>4. /\ got' \in Seq(Seq(Taken)) /\ Len(got') = Len(got) /\ DOMAIN got' = DOMAIN got
      /\ got'[c.m] = after /\ \A m \in DOMAIN got : m # c.m => got'[m] = got[m]
  BY <1>2, <1>3
<1>5. PostInv'
  <2>1. copies' \subseteq Copies /\ \A d \in copies' : d.m \in DOMAIN sent
    BY <1>2
  <2>2. \A m \in DOMAIN got' : \A i \in DOMAIN got'[m] : got'[m][i].login \in 1 .. Len(player)
    <3> SUFFICES ASSUME NEW m \in DOMAIN got'
                 PROVE  \A i \in DOMAIN got'[m] : got'[m][i].login \in 1 .. Len(player)
      OBVIOUS
    <3>1. CASE m = c.m
      BY <1>4, <3>1
    <3>2. CASE m # c.m
      <4>1. m \in DOMAIN got /\ got'[m] = got[m]
        BY <1>4, <3>2
      <4> QED
        BY <4>1 DEF RoutingInv, PostInv
    <3> QED
      BY <3>1, <3>2
  <2>3. \A m \in DOMAIN sent : sent[m].for \subseteq 1 .. Len(player)
    BY DEF RoutingInv, PostInv
  <2> QED
    BY <1>2, <1>4, <2>1, <2>2, <2>3 DEF PostInv
<1>6. ASSUME NEW m \in DOMAIN sent
      PROVE  Right(sent[m], Mine(m)', got'[m], player, sessions, link)
  <2>1. CASE m = c.m
    <3>1. Mine(m)' = (Mine(c.m) \ {c}) \cup on
      BY <2>1 DEF Mine
    <3> QED
      BY <1>4, <2>1, <3>1
  <2>2. CASE m # c.m
    <3>1. Mine(m)' = Mine(m)
      BY <2>2 DEF Mine
    <3>2. got'[m] = got[m]
      BY <1>3, <1>4, <2>2
    <3>3. Right(sent[m], Mine(m), got[m], player, sessions, link)
      BY DEF RoutingInv, MessageInv
    <3> QED
      BY <3>1, <3>2, <3>3
  <2> QED
    BY <2>1, <2>2
<1>7. MessageInv'
  BY <1>6 DEF MessageInv
<1> QED
  BY <1>1, <1>5, <1>7 DEF RoutingInv

(* When one is sent.                                                       *)
LEMMA MessageSent ==
  ASSUME RoutingInv, NEW to \in Players \cup {0}, NEW how \in {"message", "call"}, NEW for, NEW ways,
         for \subseteq 1 .. Len(player), ways \subseteq Copies, \A c \in ways : c.m = Len(sent) + 1,
         Routing!New(to, how, for, ways),
         to # 0 => ToOne(to, ways, <<>>, player), to = 0 => ToAll(for, ways, <<>>, sessions, link)
  PROVE  RoutingInv'
<1>1. LinkInv' /\ SessionInv' /\ MapInv'
  BY DEF RoutingInv, LinkInv, SessionInv, MapInv, Routing!New
<1>2. PICK msg : msg = [to |-> to, how |-> how, for |-> for]
  OBVIOUS
<1>3. /\ sent' = Append(sent, msg) /\ got' = Append(got, <<>>) /\ copies' = copies \cup ways
      /\ UNCHANGED <<link, sessions, player, m_player_map>>
  BY <1>2 DEF Routing!New
<1>4. /\ sent \in Seq(Sent) /\ got \in Seq(Seq(Taken)) /\ Len(got) = Len(sent)
      /\ copies \subseteq Copies /\ \A d \in copies : d.m \in DOMAIN sent /\ Len(player) \in Nat
  BY DEF RoutingInv, PostInv, SessionInv
<1>5. msg \in Sent /\ msg.to = to /\ msg.for = for
  <2>1. Len(player) \in Nat
    BY DEF RoutingInv, SessionInv
  <2>2. for \in SUBSET Nat
    BY <2>1
  <2> QED
    BY <1>2, <2>2 DEF Sent
<1>6. PICK n : n = Len(sent)
  OBVIOUS
<1>7. /\ n \in Nat /\ DOMAIN sent = 1 .. n /\ DOMAIN got = 1 .. n
      /\ sent' \in Seq(Sent) /\ Len(sent') = n + 1 /\ DOMAIN sent' = 1 .. n + 1
      /\ sent'[n + 1] = msg /\ \A m \in 1 .. n : sent'[m] = sent[m]
  BY <1>3, <1>4, <1>5, <1>6
<1>8. /\ got' \in Seq(Seq(Taken)) /\ Len(got') = n + 1 /\ DOMAIN got' = 1 .. n + 1
      /\ got'[n + 1] = <<>> /\ \A m \in 1 .. n : got'[m] = got[m]
  <2>1. <<>> \in Seq(Taken)
    OBVIOUS
  <2>2. got \in Seq(Seq(Taken)) /\ Len(got) = n
    BY <1>4, <1>6
  <2> HIDE DEF Taken
  <2> QED
    BY <1>3, <1>7, <2>1, <2>2, AppendProperties
<1>9. 1 .. n + 1 = (1 .. n) \cup {n + 1} /\ n + 1 \notin 1 .. n
  BY <1>7
<1>10. PostInv'
  <2>1. copies' \subseteq Copies /\ \A d \in copies' : d.m \in DOMAIN sent'
    BY <1>3, <1>4, <1>6, <1>7, <1>9
  <2>2. \A m \in DOMAIN got' : \A i \in DOMAIN got'[m] : got'[m][i].login \in 1 .. Len(player)
    <3> SUFFICES ASSUME NEW m \in DOMAIN got'
                 PROVE  \A i \in DOMAIN got'[m] : got'[m][i].login \in 1 .. Len(player)
      OBVIOUS
    <3>1. CASE m = n + 1
      BY <1>8, <3>1
    <3>2. CASE m # n + 1
      <4>1. m \in DOMAIN got /\ got'[m] = got[m]
        BY <1>7, <1>8, <1>9, <3>2
      <4> QED
        BY <4>1 DEF RoutingInv, PostInv
    <3> QED
      BY <3>1, <3>2
  <2>3. \A m \in DOMAIN sent' : sent'[m].for \subseteq 1 .. Len(player)
    <3> SUFFICES ASSUME NEW m \in DOMAIN sent'
                 PROVE  sent'[m].for \subseteq 1 .. Len(player)
      OBVIOUS
    <3>1. CASE m = n + 1
      BY <1>5, <1>7, <3>1
    <3>2. CASE m # n + 1
      <4>1. m \in DOMAIN sent /\ sent'[m] = sent[m]
        BY <1>7, <1>9, <3>2
      <4> QED
        BY <4>1 DEF RoutingInv, PostInv
    <3> QED
      BY <3>1, <3>2
  <2> QED
    BY <1>3, <1>7, <1>8, <2>1, <2>2, <2>3 DEF PostInv
<1>11. ASSUME NEW m \in 1 .. n + 1
       PROVE  Right(sent'[m], Mine(m)', got'[m], player, sessions, link)
  <2>1. CASE m = n + 1
    <3>1. Mine(m)' = ways
      <4>1. \A d \in copies : d.m # n + 1
        BY <1>4, <1>7, <1>9
      <4> QED
        BY <1>3, <1>6, <2>1, <4>1 DEF Mine
    <3>2. sent'[m] = msg /\ got'[m] = <<>>
      BY <1>7, <1>8, <2>1
    <3>3. Right(msg, ways, <<>>, player, sessions, link)
      BY <1>5 DEF Right
    <3> QED
      BY <3>1, <3>2, <3>3
  <2>2. CASE m # n + 1
    <3>1. m \in DOMAIN sent /\ sent'[m] = sent[m] /\ got'[m] = got[m]
      BY <1>7, <1>8, <1>9, <2>2
    <3>2. Mine(m)' = Mine(m)
      BY <1>3, <1>6, <2>2 DEF Mine
    <3>3. Right(sent[m], Mine(m), got[m], player, sessions, link)
      BY <3>1 DEF RoutingInv, MessageInv
    <3> QED
      BY <3>1, <3>2, <3>3
  <2> QED
    BY <2>1, <2>2
<1>12. MessageInv'
  BY <1>3, <1>7, <1>11 DEF MessageInv
<1> QED
  BY <1>1, <1>10, <1>12 DEF RoutingInv

-----------------------------------------------------------------------------
(* Players who come and go.                                                *)
LEMMA RegisterKeeps ==
  ASSUME RoutingInv, NEW h \in Hosts, Routing!register2MgrAck(h)
  PROVE  RoutingInv'
<1>1. /\ link[h] = "new" /\ UNCHANGED <<sessions, player, m_player_map, sent, copies, got>>
      /\ link' = [link EXCEPT ![h] = "registered"] \/ link' = [link EXCEPT ![h] = "closed"]
  BY DEF Routing!register2MgrAck
<1>2. LinkInv'
  BY <1>1 DEF RoutingInv, LinkInv
<1>3. SessionInv' /\ MapInv'
  BY <1>1 DEF RoutingInv, SessionInv, MapInv
<1>4. \A g \in Hosts : link[g] = "registered" => link'[g] = "registered"
  BY <1>1 DEF RoutingInv, LinkInv
<1>5. Len(player) <= Len(player')
  BY <1>1 DEF RoutingInv, SessionInv
<1>6. PostInv' /\ MessageInv'
  BY <1>1, <1>3, <1>4, <1>5, MessagesStay
<1> QED
  BY <1>2, <1>3, <1>6 DEF RoutingInv

LEMMA LoginKeeps ==
  ASSUME RoutingInv, NEW h \in Hosts, NEW s \in Sids, NEW p \in Players, Routing!Login(h, s, p)
  PROVE  RoutingInv'
<1>1. /\ sessions[h][s] = 0 /\ player' = Append(player, p)
      /\ sessions' = [sessions EXCEPT ![h][s] = Len(player) + 1]
      /\ m_player_map' = [m_player_map EXCEPT ![h] =
                            [q \in DOMAIN m_player_map[h] \cup {p} |->
                               IF q = p THEN s ELSE m_player_map[h][q]]]
      /\ UNCHANGED <<link, sent, copies, got>>
  BY DEF Routing!Login, Routing!Add, RoutingInv, MapInv
<1>2. PICK n : n = Len(player) + 1
  OBVIOUS
<1>3. /\ player \in Seq(Players) /\ Len(player) \in Nat /\ n \in Nat /\ Len(player) < n /\ n # 0
      /\ sessions \in [Hosts -> [Sids -> Nat]]
  BY <1>2 DEF RoutingInv, SessionInv
<1>4. /\ player' \in Seq(Players) /\ Len(player') = n /\ player'[n] = p
      /\ \A k \in 1 .. Len(player) : player'[k] = player[k]
  BY <1>1, <1>2, <1>3
<1>5. /\ sessions' \in [Hosts -> [Sids -> Nat]] /\ sessions'[h][s] = n
      /\ \A g \in Hosts, t \in Sids : ~(g = h /\ t = s) => sessions'[g][t] = sessions[g][t]
  BY <1>1, <1>2, <1>3
<1>6. \A g \in Hosts, t \in Sids : sessions[g][t] <= Len(player) /\ sessions[g][t] # n /\ sessions[g][t] \in Nat
  <2> SUFFICES ASSUME NEW g \in Hosts, NEW t \in Sids
               PROVE  sessions[g][t] <= Len(player) /\ sessions[g][t] # n /\ sessions[g][t] \in Nat
    OBVIOUS
  <2>1. sessions[g][t] <= Len(player) /\ sessions[g][t] \in Nat
    BY DEF RoutingInv, SessionInv
  <2> QED
    BY <1>3, <2>1
<1>7. SessionInv'
  <2>1. ASSUME NEW g \in Hosts, NEW t \in Sids
        PROVE  sessions'[g][t] <= Len(player')
    <3>1. CASE g = h /\ t = s
      BY <1>3, <1>4, <1>5, <3>1
    <3>2. CASE ~(g = h /\ t = s)
      <4>1. sessions'[g][t] = sessions[g][t] /\ sessions[g][t] <= Len(player) /\ sessions[g][t] \in Nat
        BY <1>5, <1>6, <3>2
      <4> QED
        BY <1>3, <1>4, <4>1
    <3> QED
      BY <3>1, <3>2
  <2>2. ASSUME NEW g \in Hosts, NEW f \in Hosts, NEW t \in Sids, NEW u \in Sids,
               sessions'[g][t] # 0, sessions'[g][t] = sessions'[f][u]
        PROVE  g = f /\ t = u
    <3>1. CASE (g = h /\ t = s) \/ (f = h /\ u = s)
      BY <1>5, <1>6, <2>2, <3>1
    <3>2. CASE ~(g = h /\ t = s) /\ ~(f = h /\ u = s)
      <4>1. sessions[g][t] # 0 /\ sessions[g][t] = sessions[f][u]
        BY <1>5, <2>2, <3>2
      <4> QED
        BY <4>1 DEF RoutingInv, SessionInv
    <3> QED
      BY <3>1, <3>2
  <2> QED
    BY <1>4, <1>5, <2>1, <2>2 DEF SessionInv
<1>8. MapInv'
  <2>1. /\ DOMAIN m_player_map' = Hosts
        /\ DOMAIN m_player_map'[h] = DOMAIN m_player_map[h] \cup {p} /\ m_player_map'[h][p] = s
        /\ \A q \in DOMAIN m_player_map[h] : q # p => m_player_map'[h][q] = m_player_map[h][q]
        /\ \A g \in Hosts : g # h => m_player_map'[g] = m_player_map[g]
    BY <1>1 DEF RoutingInv, MapInv
  <2>2. ASSUME NEW g \in Hosts, NEW q \in DOMAIN m_player_map[g]
        PROVE  /\ q \in Players /\ m_player_map[g][q] \in Sids
               /\ sessions'[g][m_player_map[g][q]] # 0 /\ player'[sessions'[g][m_player_map[g][q]]] = q
    <3>1. PICK t : t = m_player_map[g][q]
      OBVIOUS
    <3>2. q \in Players /\ t \in Sids /\ sessions[g][t] # 0 /\ player[sessions[g][t]] = q
      BY <3>1 DEF RoutingInv, MapInv
    <3>3. sessions'[g][t] = sessions[g][t]
      BY <1>1, <1>5, <3>2
    <3>4. sessions[g][t] \in 1 .. Len(player)
      BY <1>3, <1>6, <3>2
    <3> QED
      BY <1>4, <3>1, <3>2, <3>3, <3>4
  <2>3. ASSUME NEW g \in Hosts, NEW q \in DOMAIN m_player_map'[g]
        PROVE  /\ q \in Players /\ m_player_map'[g][q] \in Sids
               /\ sessions'[g][m_player_map'[g][q]] # 0 /\ player'[sessions'[g][m_player_map'[g][q]]] = q
    <3>1. CASE g = h /\ q = p
      BY <1>3, <1>4, <1>5, <2>1, <3>1
    <3>2. CASE ~(g = h /\ q = p)
      <4>1. q \in DOMAIN m_player_map[g] /\ m_player_map'[g][q] = m_player_map[g][q]
        BY <2>1, <3>2
      <4> QED
        BY <2>2, <4>1
    <3> QED
      BY <3>1, <3>2
  <2> QED
    BY <2>1, <2>3 DEF MapInv
<1>9. \A g \in Hosts : \A k \in 1 .. Len(player) :
        k \in LoginsAt(sessions', g) => k \in LoginsAt(sessions, g)
  <2> SUFFICES ASSUME NEW g \in Hosts, NEW k \in 1 .. Len(player), k \in LoginsAt(sessions', g)
               PROVE  k \in LoginsAt(sessions, g)
    OBVIOUS
  <2>1. PICK t \in Sids : k = sessions'[g][t] /\ k # 0
    BY DEF LoginsAt
  <2>2. k # n
    BY <1>3
  <2>3. sessions'[g][t] = sessions[g][t]
    BY <1>5, <2>1, <2>2
  <2> QED
    BY <2>1, <2>3 DEF LoginsAt
<1>10. Len(player) <= Len(player') /\ \A g \in Hosts : link[g] = "registered" => link'[g] = "registered"
  BY <1>1, <1>3, <1>4
<1>11. UNCHANGED <<sent, copies, got>>
  BY <1>1
<1>12. PostInv' /\ MessageInv'
  BY <1>4, <1>7, <1>9, <1>10, <1>11, MessagesStay
<1> QED
  BY <1>1, <1>7, <1>8, <1>12 DEF RoutingInv, LinkInv

LEMMA CloseKeeps ==
  ASSUME RoutingInv, NEW h \in Hosts, NEW s \in Sids, Routing!Close(h, s)
  PROVE  RoutingInv'
<1>1. PICK p : p = player[sessions[h][s]]
  OBVIOUS
<1>2. /\ sessions[h][s] # 0 /\ sessions' = [sessions EXCEPT ![h][s] = 0]
      /\ m_player_map' = [m_player_map EXCEPT ![h] =
                            [q \in DOMAIN m_player_map[h] \ {p} |-> m_player_map[h][q]]]
      /\ UNCHANGED <<link, player, sent, copies, got>>
  BY <1>1 DEF Routing!Close, Routing!Del, RoutingInv, MapInv
<1>3. player \in Seq(Players) /\ Len(player) \in Nat /\ sessions \in [Hosts -> [Sids -> Nat]]
  BY DEF RoutingInv, SessionInv
<1>4. /\ sessions' \in [Hosts -> [Sids -> Nat]] /\ sessions'[h][s] = 0
      /\ \A g \in Hosts, t \in Sids : ~(g = h /\ t = s) => sessions'[g][t] = sessions[g][t]
  BY <1>2, <1>3
<1>5. SessionInv'
  <2>1. ASSUME NEW g \in Hosts, NEW t \in Sids
        PROVE  sessions'[g][t] <= Len(player)
    <3>1. CASE g = h /\ t = s
      BY <1>3, <1>4, <3>1
    <3>2. CASE ~(g = h /\ t = s)
      BY <1>4, <3>2 DEF RoutingInv, SessionInv
    <3> QED
      BY <3>1, <3>2
  <2>2. ASSUME NEW g \in Hosts, NEW f \in Hosts, NEW t \in Sids, NEW u \in Sids,
               sessions'[g][t] # 0, sessions'[g][t] = sessions'[f][u]
        PROVE  g = f /\ t = u
    <3>1. ~(g = h /\ t = s) /\ ~(f = h /\ u = s)
      BY <1>4, <2>2
    <3>2. sessions[g][t] # 0 /\ sessions[g][t] = sessions[f][u]
      BY <1>4, <2>2, <3>1
    <3> QED
      BY <3>2 DEF RoutingInv, SessionInv
  <2> QED
    BY <1>2, <1>3, <1>4, <2>1, <2>2 DEF SessionInv
<1>6. MapInv'
  <2>1. /\ DOMAIN m_player_map' = Hosts
        /\ DOMAIN m_player_map'[h] = DOMAIN m_player_map[h] \ {p}
        /\ \A q \in DOMAIN m_player_map'[h] : m_player_map'[h][q] = m_player_map[h][q]
        /\ \A g \in Hosts : g # h => m_player_map'[g] = m_player_map[g]
    BY <1>2 DEF RoutingInv, MapInv
  <2>2. ASSUME NEW g \in Hosts, NEW q \in DOMAIN m_player_map'[g]
        PROVE  /\ q \in Players /\ m_player_map'[g][q] \in Sids
               /\ sessions'[g][m_player_map'[g][q]] # 0 /\ player[sessions'[g][m_player_map'[g][q]]] = q
    <3>1. PICK t : t = m_player_map[g][q]
      OBVIOUS
    <3>2. q \in DOMAIN m_player_map[g] /\ m_player_map'[g][q] = t /\ (g = h => q # p)
      BY <2>1, <3>1
    <3>3. q \in Players /\ t \in Sids /\ sessions[g][t] # 0 /\ player[sessions[g][t]] = q
      BY <3>1, <3>2 DEF RoutingInv, MapInv
    <3>4. ~(g = h /\ t = s)
      BY <1>1, <3>2, <3>3
    <3>5. sessions'[g][t] = sessions[g][t]
      BY <1>4, <3>3, <3>4
    <3> QED
      BY <3>2, <3>3, <3>5
  <2>3. player' = player
    BY <1>2
  <2>4. ASSUME NEW g \in Hosts, NEW q \in DOMAIN m_player_map'[g]
        PROVE  /\ q \in Players /\ m_player_map'[g][q] \in Sids
               /\ sessions'[g][m_player_map'[g][q]] # 0 /\ player'[sessions'[g][m_player_map'[g][q]]] = q
    BY <2>2, <2>3
  <2> QED
    BY <2>1, <2>4 DEF MapInv
<1>7. \A g \in Hosts : \A k \in 1 .. Len(player) :
        k \in LoginsAt(sessions', g) => k \in LoginsAt(sessions, g)
  <2> SUFFICES ASSUME NEW g \in Hosts, NEW k \in 1 .. Len(player), k \in LoginsAt(sessions', g)
               PROVE  k \in LoginsAt(sessions, g)
    OBVIOUS
  <2>1. PICK t \in Sids : k = sessions'[g][t] /\ k # 0
    BY DEF LoginsAt
  <2>2. sessions'[g][t] = sessions[g][t]
    BY <1>4, <2>1
  <2> QED
    BY <2>1, <2>2 DEF LoginsAt
<1>8. /\ Len(player) <= Len(player') /\ \A n \in 1 .. Len(player) : player'[n] = player[n]
      /\ \A g \in Hosts : link[g] = "registered" => link'[g] = "registered"
  BY <1>2, <1>3
<1>9. UNCHANGED <<sent, copies, got>>
  BY <1>2
<1>10. PostInv' /\ MessageInv'
  BY <1>5, <1>7, <1>8, <1>9, MessagesStay
<1> QED
  BY <1>2, <1>5, <1>6, <1>10 DEF RoutingInv, LinkInv

-----------------------------------------------------------------------------
(* Messages that are sent.                                                 *)
LEMMA CopyIs ==
  ASSUME RoutingInv, NEW at \in {"servers", "session", "asked"}, NEW h \in Hosts, NEW sid \in {0} \cup Sids
  PROVE  \E c \in Copies :
           /\ c = Routing!Copy(at, h, sid) /\ c.m = Len(sent) + 1 /\ c.at = at /\ c.host = h /\ c.sid = sid
           /\ sid # 0 => c.meant = sessions[h][sid]
<1>1. Len(sent) \in Nat
  BY DEF RoutingInv, PostInv
<1>2. PICK meant : meant = Routing!SessionAt(h, sid)
  OBVIOUS
<1>3. meant \in Nat /\ (sid # 0 => meant = sessions[h][sid])
  BY <1>2 DEF RoutingInv, SessionInv, Routing!SessionAt
<1>4. PICK c : c = [m |-> Len(sent) + 1, at |-> at, host |-> h, sid |-> sid, meant |-> meant]
  OBVIOUS
<1>5. c = Routing!Copy(at, h, sid)
  BY <1>2, <1>4 DEF Routing!Copy
<1>6. c \in Copies /\ c.m = Len(sent) + 1 /\ c.at = at /\ c.host = h /\ c.sid = sid /\ c.meant = meant
  BY <1>1, <1>3, <1>4 DEF Copies
<1> QED
  BY <1>3, <1>5, <1>6

(* To one player: to the session the map has, or to the servers.           *)
LEMMA OneSent ==
  ASSUME RoutingInv, NEW p \in Players, NEW how \in {"message", "call"}, NEW ways,
         NEW c \in Copies, ways \subseteq {c}, c.m = Len(sent) + 1,
         c.at # "servers" => c.sid \in Sids /\ c.meant \in 1 .. Len(player) /\ player[c.meant] = p,
         Routing!New(p, how, {}, ways)
  PROVE  RoutingInv'
<1>1. p # 0 /\ p \in Players \cup {0}
  BY RoutingAssumption DEF Routing!NumbersAssumption
<1>2. ToOne(p, ways, <<>>, player)
  BY DEF ToOne
<1>3. ways \subseteq Copies /\ \A d \in ways : d.m = Len(sent) + 1
  OBVIOUS
<1>4. PICK for : for = {}
  OBVIOUS
<1>5. for \subseteq 1 .. Len(player) /\ Routing!New(p, how, for, ways)
  BY <1>4
<1> QED
  BY <1>1, <1>2, <1>3, <1>5, MessageSent

LEMMA Looked ==
  ASSUME RoutingInv, NEW h \in Hosts, NEW p \in Players,
         NEW sid, sid = Routing!GetSessionID(h, p), sid # 0
  PROVE  /\ sid \in Sids /\ sessions[h][sid] \in 1 .. Len(player)
         /\ player[sessions[h][sid]] = p
<1>1. p \in DOMAIN m_player_map[h] /\ sid = m_player_map[h][p]
  BY DEF Routing!GetSessionID
<1>2. sid \in Sids /\ sessions[h][sid] # 0 /\ player[sessions[h][sid]] = p
  BY <1>1 DEF RoutingInv, MapInv
<1>3. SessionInv
  BY DEF RoutingInv
<1> QED
  BY <1>2, <1>3, LoginsKnown

LEMMA ToPlayerKeeps ==
  ASSUME RoutingInv, NEW h \in Hosts, NEW p \in Players, NEW how \in {"message", "call"}, NEW sid,
         sid = Routing!GetSessionID(h, p),
         Routing!New(p, how, {}, IF sid # 0 THEN {Routing!Copy("session", h, sid)} ELSE Routing!wrapToWorld(h))
  PROVE  RoutingInv'
<1>1. CASE sid # 0
  <2>1. sid \in Sids /\ sessions[h][sid] \in 1 .. Len(player) /\ player[sessions[h][sid]] = p
    BY <1>1, Looked
  <2>2. PICK c \in Copies :
          /\ c = Routing!Copy("session", h, sid) /\ c.m = Len(sent) + 1 /\ c.at = "session" /\ c.host = h
          /\ c.sid = sid
          /\ sid # 0 => c.meant = sessions[h][sid]
    <3>1. sid \in {0} \cup Sids /\ "session" \in {"servers", "session", "asked"}
      BY <2>1
    <3> QED
      BY <3>1, CopyIs
  <2>3. Routing!New(p, how, {}, {c})
    BY <1>1, <2>2
  <2>4. c.sid \in Sids /\ c.meant \in 1 .. Len(player) /\ player[c.meant] = p
    BY <1>1, <2>1, <2>2
  <2> QED
    BY <2>2, <2>3, <2>4, OneSent
<1>2. CASE sid = 0
  <2>1. PICK c \in Copies : c = Routing!Copy("servers", h, 0) /\ c.m = Len(sent) + 1 /\ c.at = "servers"
    BY CopyIs
  <2>2. Routing!New(p, how, {}, Routing!wrapToWorld(h)) /\ Routing!wrapToWorld(h) \subseteq {c}
    BY <1>2, <2>1 DEF Routing!wrapToWorld
  <2> QED
    BY <2>1, <2>2, OneSent
<1> QED
  BY <1>1, <1>2

(* To all, by way of the servers: who is there then is at a host that the  *)
(* servers know.                                                           *)
LEMMA EveryoneIs ==
  ASSUME RoutingInv
  PROVE  /\ Routing!Everyone \subseteq 1 .. Len(player)
         /\ \A n \in Routing!Everyone, h \in Hosts : n \in LoginsAt(sessions, h) => link[h] = "registered"
<1>1. SessionInv
  BY DEF RoutingInv
<1>2. \A n \in Routing!Everyone : \E g \in Hosts : link[g] = "registered" /\ n \in LoginsAt(sessions, g)
  BY OpenIs DEF Routing!Everyone
<1> QED
  BY <1>1, <1>2, LoginsKnown, LoginOnce

LEMMA ToWorldKeeps ==
  ASSUME RoutingInv, NEW h \in Hosts, NEW how \in {"message", "call"},
         Routing!New(0, how, IF link[h] = "registered" THEN Routing!Everyone ELSE {}, Routing!wrapToWorld(h))
  PROVE  RoutingInv'
<1>1. PICK c \in Copies : c = Routing!Copy("servers", h, 0) /\ c.m = Len(sent) + 1 /\ c.at = "servers"
  BY CopyIs
<1>2. PICK ways : ways = Routing!wrapToWorld(h)
  OBVIOUS
<1>3. ways \subseteq {c} /\ (link[h] = "registered" => ways = {c})
  BY <1>1, <1>2 DEF Routing!wrapToWorld
<1>4. PICK for : for = IF link[h] = "registered" THEN Routing!Everyone ELSE {}
  OBVIOUS
<1>5. for \subseteq 1 .. Len(player)
  BY <1>4, EveryoneIs
<1>6. ASSUME NEW n \in for, NEW g \in Hosts, n \in LoginsAt(sessions, g)
      PROVE  Reached(n, g, ways, <<>>, link)
  <2>1. link[h] = "registered" /\ n \in Routing!Everyone
    BY <1>4
  <2>2. link[g] = "registered" /\ c \in ways
    BY <1>3, <1>6, <2>1, EveryoneIs
  <2> QED
    BY <1>1, <2>2 DEF Reached
<1>7. \A d \in ways : d = c
  BY <1>3
<1>8. ToAll(for, ways, <<>>, sessions, link)
  BY <1>1, <1>6, <1>7 DEF ToAll
<1>9. ways \subseteq Copies /\ \A d \in ways : d.m = Len(sent) + 1
  BY <1>1, <1>7
<1>10. Routing!New(0, how, for, ways)
  BY <1>2, <1>4
<1> QED
  BY <1>5, <1>8, <1>9, <1>10, MessageSent

LEMMA ToHostKeeps ==
  ASSUME RoutingInv, NEW h \in Hosts, Routing!BroadCastInHost(h)
  PROVE  RoutingInv'
<1>1. PICK c \in Copies : /\ c = Routing!Copy("session", h, 0) /\ c.m = Len(sent) + 1 /\ c.at = "session"
                          /\ c.host = h /\ c.sid = 0
  BY CopyIs
<1>2. PICK for : for = Routing!Local(h)
  OBVIOUS
<1>3. for \subseteq 1 .. Len(player) /\ for \subseteq LoginsAt(sessions, h)
  BY <1>2, OpenIs DEF Routing!Local, Routing!Logins
<1>4. Routing!New(0, "message", for, {c})
  BY <1>1, <1>2 DEF Routing!BroadCastInHost
<1>5. SessionInv
  BY DEF RoutingInv
<1>6. \A n \in for, g \in Hosts : n \in LoginsAt(sessions, g) => Reached(n, g, {c}, <<>>, link)
  <2> SUFFICES ASSUME NEW n \in for, NEW g \in Hosts, n \in LoginsAt(sessions, g)
               PROVE  Reached(n, g, {c}, <<>>, link)
    OBVIOUS
  <2>1. g = h
    BY <1>3, <1>5, LoginOnce
  <2> QED
    BY <1>1, <2>1 DEF Reached
<1>7. ToAll(for, {c}, <<>>, sessions, link)
  BY <1>1, <1>6 DEF ToAll
<1>8. {c} \subseteq Copies /\ \A d \in {c} : d.m = Len(sent) + 1
  BY <1>1
<1> QED
  BY <1>3, <1>4, <1>7, <1>8, MessageSent

LEMMA SendKeeps ==
  ASSUME RoutingInv, NEW h \in Hosts, NEW p \in Players \cup {0}, Routing!Send(h, p)
  PROVE  RoutingInv'
<1>1. PICK sid : sid = Routing!GetSessionID(h, p)
  OBVIOUS
<1>2. CASE p \in Players
  <2>1. p # 0
    BY <1>2, RoutingAssumption DEF Routing!NumbersAssumption
  <2>2. Routing!New(p, "message", {},
                    IF sid # 0 THEN {Routing!Copy("session", h, sid)} ELSE Routing!wrapToWorld(h))
    BY <1>1, <2>1 DEF Routing!Send
  <2> QED
    BY <1>1, <1>2, <2>2, ToPlayerKeeps
<1>3. CASE p = 0
  <2>1. p \notin DOMAIN m_player_map[h]
    BY <1>3, RoutingAssumption DEF Routing!NumbersAssumption, RoutingInv, MapInv
  <2>2. sid = 0
    BY <1>1, <2>1 DEF Routing!GetSessionID
  <2>3. Routing!New(0, "message", IF link[h] = "registered" THEN Routing!Everyone ELSE {},
                    Routing!wrapToWorld(h))
    BY <1>1, <1>3, <2>2 DEF Routing!Send
  <2> QED
    BY <2>3, ToWorldKeeps
<1> QED
  BY <1>2, <1>3

LEMMA CallKeeps ==
  ASSUME RoutingInv, NEW h \in Hosts, NEW p \in Players \cup {0}, Routing!CallMsgProc(h, p)
  PROVE  RoutingInv'
<1>1. PICK sid : sid = Routing!GetSessionID(h, p)
  OBVIOUS
<1>2. p \in Players /\ Routing!New(p, "call", {},
        IF sid # 0 THEN {Routing!Copy("session", h, sid)} ELSE Routing!wrapToWorld(h))
  BY <1>1 DEF Routing!CallMsgProc
<1> QED
  BY <1>1, <1>2, ToPlayerKeeps

LEMMA ResendKeeps ==
  ASSUME RoutingInv, NEW h \in Hosts, NEW s \in Sids, Routing!resend_to_world_handler(h, s)
  PROVE  RoutingInv'
<1>1. PICK n, p : n = sessions[h][s] /\ p = player[n]
  OBVIOUS
<1>2. n # 0 /\ Routing!New(p, "message", {}, {Routing!Copy("asked", h, s)})
  BY <1>1 DEF Routing!resend_to_world_handler
<1>3. SessionInv /\ s # 0
  BY RoutingAssumption DEF RoutingInv, Routing!NumbersAssumption
<1>4. n \in 1 .. Len(player)
  BY <1>1, <1>2, <1>3, LoginsKnown
<1>5. p \in Players
  BY <1>1, <1>3, <1>4 DEF SessionInv
<1>a. PICK sid : sid = s /\ sid \in {0} \cup Sids
  OBVIOUS
<1>6. PICK c \in Copies :
        /\ c = Routing!Copy("asked", h, sid) /\ c.m = Len(sent) + 1 /\ c.at = "asked" /\ c.host = h
        /\ c.sid = sid
        /\ sid # 0 => c.meant = sessions[h][sid]
  BY <1>a, CopyIs
<1>7. Routing!New(p, "message", {}, {c})
  BY <1>2, <1>6, <1>a
<1> QED
  BY <1>1, <1>3, <1>a, <1>4, <1>5, <1>6, <1>7, OneSent

-----------------------------------------------------------------------------
(* Messages that are passed on, and that arrive.                           *)
LEMMA MineOf ==
  ASSUME RoutingInv, NEW c \in copies
  PROVE  /\ c \in Copies /\ c.m \in DOMAIN sent /\ c \in Mine(c.m) /\ Mine(c.m) \subseteq copies
         /\ \A d \in Mine(c.m) : d.host \in Hosts /\ d.m = c.m
         /\ Right(sent[c.m], Mine(c.m), got[c.m], player, sessions, link)
         /\ got \in Seq(Seq(Taken)) /\ c.m \in DOMAIN got /\ got[c.m] \in Seq(Taken)
         /\ [got EXCEPT ![c.m] = got[c.m]] = got
         /\ \A i \in DOMAIN got[c.m] : got[c.m][i].login \in 1 .. Len(player)
<1>1. c \in Copies /\ c.m \in DOMAIN sent /\ copies \subseteq Copies
  BY DEF RoutingInv, PostInv
<1>2. c \in Mine(c.m) /\ Mine(c.m) \subseteq copies
  BY DEF Mine
<1>3. \A d \in Mine(c.m) : d.host \in Hosts /\ d.m = c.m
  BY <1>1, <1>2 DEF Copies, Mine
<1>4. Right(sent[c.m], Mine(c.m), got[c.m], player, sessions, link)
  BY <1>1 DEF RoutingInv, MessageInv
<1>5. got \in Seq(Seq(Taken)) /\ c.m \in DOMAIN got
  BY <1>1 DEF RoutingInv, PostInv
<1>6. got[c.m] \in Seq(Taken) /\ [got EXCEPT ![c.m] = got[c.m]] = got
  BY <1>5
<1>7. \A i \in DOMAIN got[c.m] : got[c.m][i].login \in 1 .. Len(player)
  BY <1>5 DEF RoutingInv, PostInv
<1> QED
  BY <1>1, <1>2, <1>3, <1>4, <1>5, <1>6, <1>7

(* Exchanged for others, with nothing that arrives.                        *)
LEMMA CopyMoves ==
  ASSUME RoutingInv, NEW c \in copies, NEW on, on \subseteq Copies, \A d \in on : d.m = c.m,
         copies' = (copies \ {c}) \cup on, UNCHANGED <<link, sessions, player, m_player_map, sent, got>>,
         sent[c.m].to # 0 => ToOne(sent[c.m].to, (Mine(c.m) \ {c}) \cup on, got[c.m], player),
         sent[c.m].to = 0 => ToAll(sent[c.m].for, (Mine(c.m) \ {c}) \cup on, got[c.m], sessions, link)
  PROVE  RoutingInv'
<1>1. PICK after : after = got[c.m]
  OBVIOUS
<1>2. /\ after \in Seq(Taken) /\ got' = [got EXCEPT ![c.m] = after]
      /\ \A i \in DOMAIN after : after[i].login \in 1 .. Len(player)
  BY <1>1, MineOf
<1>3. Right(sent[c.m], (Mine(c.m) \ {c}) \cup on, after, player, sessions, link)
  BY <1>1 DEF Right
<1>4. UNCHANGED <<link, sessions, player, m_player_map, sent>>
  OBVIOUS
<1> QED
  BY <1>2, <1>3, <1>4, MessageMoves

LEMMA PassOnKeeps ==
  ASSUME RoutingInv, NEW c \in copies, Routing!PassOn(c)
  PROVE  RoutingInv'
<1> DEFINE way(h, sid) == [c EXCEPT !.at = "session", !.host = h, !.sid = sid,
                                    !.meant = Routing!SessionAt(h, sid)]
           there == {h \in Hosts : link[h] = "registered"}
<1>1. PICK to : to = sent[c.m].to
  OBVIOUS
<1>2. PICK homes : homes = {hs \in there \X Sids : /\ sessions[hs[1]][hs[2]] # 0
                                                   /\ player[sessions[hs[1]][hs[2]]] = to}
  OBVIOUS
<1>3. /\ c.at = "servers" /\ UNCHANGED <<link, sessions, player, m_player_map, sent, got>>
      /\ to = 0 => copies' = (copies \ {c}) \cup {way(h, 0) : h \in there}
      /\ to # 0 /\ homes = {} => copies' = copies \ {c}
      /\ to # 0 /\ homes # {} => \E hs \in homes : copies' = (copies \ {c}) \cup {way(hs[1], hs[2])}
  BY <1>1, <1>2 DEF Routing!PassOn
<1>4. /\ c \in Copies /\ c \in Mine(c.m)
      /\ Right(sent[c.m], Mine(c.m), got[c.m], player, sessions, link)
  BY MineOf
<1>5. ASSUME NEW h \in Hosts, NEW sid \in {0} \cup Sids
      PROVE  /\ way(h, sid) \in Copies /\ way(h, sid).m = c.m /\ way(h, sid).at = "session"
             /\ way(h, sid).host = h /\ way(h, sid).sid = sid
             /\ way(h, sid).meant = Routing!SessionAt(h, sid)
  <2>1. PICK meant : meant = Routing!SessionAt(h, sid)
    OBVIOUS
  <2>2. meant \in Nat
    BY <2>1 DEF RoutingInv, SessionInv, Routing!SessionAt
  <2>3. PICK d : d = [c EXCEPT !.at = "session", !.host = h, !.sid = sid, !.meant = meant]
    OBVIOUS
  <2>4. /\ d \in Copies /\ d.m = c.m /\ d.at = "session" /\ d.host = h /\ d.sid = sid /\ d.meant = meant
    BY <1>4, <2>2, <2>3 DEF Copies
  <2>5. d = way(h, sid)
    BY <2>1, <2>3
  <2> QED
    BY <2>1, <2>4, <2>5
<1> HIDE DEF way
<1>6. CASE to = 0
  <2>1. PICK on : on = {way(h, 0) : h \in there}
    OBVIOUS
  <2>2. on \subseteq Copies /\ \A d \in on : d.m = c.m /\ d.at = "session" /\ d.sid = 0
    BY <1>5, <2>1
  <2>3. \A d, e \in on : d.host = e.host => d = e
    BY <1>5, <2>1
  <2>4. \A h \in Hosts : link[h] = "registered" => \E d \in on : d.host = h
    BY <1>5, <2>1
  <2>5. ToAll(sent[c.m].for, Mine(c.m), got[c.m], sessions, link)
    BY <1>1, <1>4, <1>6 DEF Right
  <2>6. ToAll(sent[c.m].for, (Mine(c.m) \ {c}) \cup on, got[c.m], sessions, link)
    BY <1>3, <1>4, <2>2, <2>3, <2>4, <2>5, AllPassed
  <2>7. copies' = (copies \ {c}) \cup on /\ UNCHANGED <<link, sessions, player, m_player_map, sent, got>>
    BY <1>3, <1>6, <2>1
  <2> QED
    BY <1>1, <1>6, <2>2, <2>6, <2>7, CopyMoves
<1>7. ASSUME to # 0, NEW on, on \subseteq Copies, \A d \in on : d.m = c.m,
             copies' = (copies \ {c}) \cup on, \A d, e \in on : d = e,
             \A d \in on : d.sid \in Sids /\ d.meant \in 1 .. Len(player) /\ player[d.meant] = to
      PROVE  RoutingInv'
  <2>1. ToOne(to, Mine(c.m), got[c.m], player)
    BY <1>1, <1>4, <1>7 DEF Right
  <2>2. ToOne(to, (Mine(c.m) \ {c}) \cup on, got[c.m], player)
    BY <1>4, <1>7, <2>1, OnePassed
  <2>3. UNCHANGED <<link, sessions, player, m_player_map, sent, got>>
    BY <1>3
  <2> QED
    BY <1>1, <1>7, <2>2, <2>3, CopyMoves
<1>8. CASE to # 0 /\ homes = {}
  <2>1. PICK on : on = {}
    OBVIOUS
  <2>2. copies' = (copies \ {c}) \cup on
    BY <1>3, <1>8, <2>1
  <2> QED
    BY <1>7, <1>8, <2>1, <2>2
<1>9. CASE to # 0 /\ homes # {}
  <2>1. PICK hs \in homes : copies' = (copies \ {c}) \cup {way(hs[1], hs[2])}
    BY <1>3, <1>9
  <2>2. PICK h, s : h = hs[1] /\ s = hs[2]
    OBVIOUS
  <2>3. h \in Hosts /\ s \in Sids /\ sessions[h][s] # 0 /\ player[sessions[h][s]] = to
    BY <1>2, <2>2
  <2>4. SessionInv /\ s # 0
    BY <2>3, RoutingAssumption DEF RoutingInv, Routing!NumbersAssumption
  <2>5. sessions[h][s] \in 1 .. Len(player)
    BY <2>3, <2>4, LoginsKnown
  <2>6. PICK d : d = way(h, s)
    OBVIOUS
  <2>7. d \in Copies /\ d.m = c.m /\ d.sid = s /\ d.meant = sessions[h][s]
    <3>0. s \in {0} \cup Sids
      BY <2>3
    <3>1. d \in Copies /\ d.m = c.m /\ d.sid = s /\ d.meant = Routing!SessionAt(h, s)
      <4> HIDE DEF there
      <4> QED
        BY <1>5, <2>3, <2>6, <3>0, Zenon
    <3>2. Routing!SessionAt(h, s) = sessions[h][s]
      BY <2>4 DEF Routing!SessionAt
    <3> QED
      BY <3>1, <3>2
  <2>8. copies' = (copies \ {c}) \cup {d}
    BY <2>1, <2>2, <2>6
  <2>9. PICK on : on = {d}
    OBVIOUS
  <2>10. /\ on \subseteq Copies /\ \A e \in on : e.m = c.m
         /\ \A e, f \in on : e = f
         /\ \A e \in on : e.sid \in Sids /\ e.meant \in 1 .. Len(player) /\ player[e.meant] = to
    BY <2>3, <2>5, <2>7, <2>9
  <2>11. copies' = (copies \ {c}) \cup on
    BY <2>8, <2>9
  <2> QED
    BY <1>7, <1>9, <2>10, <2>11
<1> QED
  BY <1>6, <1>8, <1>9

LEMMA AnswerKeeps ==
  ASSUME RoutingInv, NEW c \in copies, Routing!AnswerRequest(c)
  PROVE  RoutingInv'
<1>1. PICK d : d = [c EXCEPT !.at = "session"]
  OBVIOUS
<1>2. /\ c.at = "asked" /\ copies' = (copies \ {c}) \cup {d}
      /\ UNCHANGED <<link, sessions, player, m_player_map, sent, got>>
  BY <1>1 DEF Routing!AnswerRequest
<1>3. /\ c \in Copies /\ c \in Mine(c.m)
      /\ Right(sent[c.m], Mine(c.m), got[c.m], player, sessions, link)
  BY MineOf
<1>4. d \in Copies /\ d.m = c.m /\ d.sid = c.sid /\ d.meant = c.meant
  BY <1>1, <1>3 DEF Copies
<1>5. sent[c.m].to # 0
  BY <1>2, <1>3 DEF Right, ToAll
<1>6. ToOne(sent[c.m].to, Mine(c.m), got[c.m], player)
  BY <1>3, <1>5 DEF Right
<1>7. c.sid \in Sids /\ c.meant \in 1 .. Len(player) /\ player[c.meant] = sent[c.m].to
  BY <1>2, <1>3, <1>6 DEF ToOne
<1>8. PICK on : on = {d}
  OBVIOUS
<1>9. /\ on \subseteq Copies /\ \A e \in on : e.m = c.m
      /\ \A e, f \in on : e = f
      /\ \A e \in on : e.sid \in Sids /\ e.meant \in 1 .. Len(player) /\ player[e.meant] = sent[c.m].to
  BY <1>4, <1>7, <1>8
<1>10. ToOne(sent[c.m].to, (Mine(c.m) \ {c}) \cup on, got[c.m], player)
  BY <1>3, <1>6, <1>9, OnePassed
<1>11. copies' = (copies \ {c}) \cup on
  BY <1>2, <1>8
<1> QED
  BY <1>2, <1>5, <1>9, <1>10, <1>11, CopyMoves

LEMMA SameCount == \A logins : Routing!Cardinality(logins) = Cardinality(logins)
BY DEF Routing!Cardinality, Cardinality

ArrivedIn(order, c, logins) ==
  /\ order = CHOOSE f \in [1 .. Routing!Cardinality(logins) -> logins] :
               \A n \in logins : \E i \in DOMAIN f : f[i] = n
  /\ got' = [got EXCEPT ![c.m] = got[c.m] \o [i \in DOMAIN order |-> [login |-> order[i], meant |-> c.meant]]]

LEMMA ArrivesIs ==
  ASSUME NEW c, c.m \in DOMAIN got, NEW logins, Routing!Arrives(c, logins)
  PROVE  \E order : ArrivedIn(order, c, logins)
<1>1. PICK order :
        order = CHOOSE f \in [1 .. Routing!Cardinality(logins) -> logins] :
                  \A n \in logins : \E i \in DOMAIN f : f[i] = n
  OBVIOUS
<1>2. got' = [got EXCEPT ![c.m] = got[c.m] \o [i \in DOMAIN order |-> [login |-> order[i], meant |-> c.meant]]]
  BY <1>1, Zenon DEF Routing!Arrives
<1> QED
  BY <1>1, <1>2 DEF ArrivedIn

LEMMA ArrivesKeeps ==
  ASSUME RoutingInv, NEW c \in copies, c.at = "session", Routing!Arrives(c, Routing!Receivers(c))
  PROVE  RoutingInv'
<1>1. PICK logins : logins = Routing!Receivers(c)
  OBVIOUS
<1>2. Routing!Arrives(c, logins)
  BY <1>1
<1>4. /\ c \in Copies /\ c \in Mine(c.m) /\ c.host \in Hosts
      /\ \A d \in Mine(c.m) : d.host \in Hosts
      /\ Right(sent[c.m], Mine(c.m), got[c.m], player, sessions, link)
      /\ got \in Seq(Seq(Taken)) /\ c.m \in DOMAIN got /\ got[c.m] \in Seq(Taken)
      /\ \A i \in DOMAIN got[c.m] : got[c.m][i].login \in 1 .. Len(player)
  BY MineOf
<1>a. PICK order : ArrivedIn(order, c, logins)
  BY <1>2, <1>4, ArrivesIs
<1>3. PICK after : after = Behind(got[c.m], order, c.meant)
  OBVIOUS
<1>5. /\ got' = [got EXCEPT ![c.m] = after] /\ copies' = copies \ {c}
      /\ UNCHANGED <<link, sessions, player, m_player_map, sent>>
  <2>1. got' = [got EXCEPT ![c.m] = Behind(got[c.m], order, c.meant)]
    BY <1>a DEF ArrivedIn, Behind
  <2>2. copies' = copies \ {c} /\ UNCHANGED <<link, sessions, player, m_player_map, sent>>
    BY <1>2 DEF Routing!Arrives
  <2> QED
    BY <1>3, <2>1, <2>2
<1>6. SessionInv /\ Len(player) \in Nat
  BY DEF RoutingInv, SessionInv
<1>7. /\ c.sid = 0 => logins = LoginsAt(sessions, c.host)
      /\ c.sid # 0 => \A m, n \in logins : m = n
      /\ c.sid \in Sids => logins = {sessions[c.host][c.sid]} \ {0}
  BY <1>1, OpenIs, RoutingAssumption
     DEF Routing!Receivers, Routing!SessionAt, Routing!NumbersAssumption
<1>8. logins \subseteq 1 .. Len(player)
  <2>1. CASE c.sid = 0
    BY <1>4, <1>6, <1>7, <2>1, LoginsKnown
  <2>2. CASE c.sid \in Sids
    BY SMTT(30), <1>4, <1>6, <1>7, <2>2, LoginsKnown
  <2> QED
    BY <1>4, <2>1, <2>2 DEF Copies
<1>9. c.meant \in Nat
  BY <1>4 DEF Copies
<1>10. after \in Seq(Taken) /\ Took(got[c.m], after, logins, c.meant)
  <2>0. PICK len : len = Cardinality(logins)
    OBVIOUS
  <2>a. Routing!Cardinality(logins) = Cardinality(logins)
    BY SameCount
  <2>1. len = Cardinality(logins) /\ len = Routing!Cardinality(logins)
    BY <2>0, <2>a
  <2>b. \E f \in [1 .. Cardinality(logins) -> logins] : \A k \in logins : \E i \in DOMAIN f : f[i] = k
    BY <1>6, <1>8, InSomeOrder
  <2>2. \E f \in [1 .. len -> logins] : \A k \in logins : \E i \in DOMAIN f : f[i] = k
    BY <2>b, <2>1
  <2>3. \E f \in [1 .. Routing!Cardinality(logins) -> logins] : \A k \in logins : \E i \in DOMAIN f : f[i] = k
    BY <2>1, <2>2
  <2>4. order \in [1 .. Routing!Cardinality(logins) -> logins] /\ \A k \in logins : \E i \in DOMAIN order : order[i] = k
    BY <1>a, <2>3 DEF ArrivedIn
  <2>5. order \in [1 .. Cardinality(logins) -> logins]
    BY <2>1, <2>4
  <2> QED
    BY <1>3, <1>4, <1>6, <1>8, <1>9, <2>4, <2>5, TookThem
<1>11. \A i \in DOMAIN after : after[i].login \in 1 .. Len(player)
  <2> SUFFICES ASSUME NEW i \in DOMAIN after
               PROVE  after[i].login \in 1 .. Len(player)
    OBVIOUS
  <2>1. CASE i \in DOMAIN got[c.m]
    BY <1>4, <1>10, <2>1 DEF Took
  <2>2. CASE i \notin DOMAIN got[c.m]
    BY <1>8, <1>10, <2>2 DEF Took
  <2> QED
    BY <2>1, <2>2
<1>12. sent[c.m].to # 0 => ToOne(sent[c.m].to, Mine(c.m) \ {c}, after, player)
  <2> SUFFICES ASSUME sent[c.m].to # 0
               PROVE  ToOne(sent[c.m].to, Mine(c.m) \ {c}, after, player)
    OBVIOUS
  <2>1. ToOne(sent[c.m].to, Mine(c.m), got[c.m], player)
    BY <1>4 DEF Right
  <2>2. c.at # "servers"
    OBVIOUS
  <2>3. c.sid \in Sids
    BY <1>4, <2>1, <2>2 DEF ToOne
  <2>4. \A m, n \in logins : m = n
    BY <1>7, <2>3
  <2> QED
    BY <1>4, <1>10, <2>1, <2>2, <2>4, OneArrived
<1>13. sent[c.m].to = 0 => ToAll(sent[c.m].for, Mine(c.m) \ {c}, after, sessions, link)
  <2> SUFFICES ASSUME sent[c.m].to = 0
               PROVE  ToAll(sent[c.m].for, Mine(c.m) \ {c}, after, sessions, link)
    OBVIOUS
  <2>1. ToAll(sent[c.m].for, Mine(c.m), got[c.m], sessions, link)
    BY <1>4 DEF Right
  <2>2. c.sid = 0
    BY <1>4, <2>1 DEF ToAll
  <2>3. Took(got[c.m], after, LoginsAt(sessions, c.host), c.meant)
    BY <1>7, <1>10, <2>2
  <2>4. \A g, h \in Hosts : \A n \in LoginsAt(sessions, g) : n \in LoginsAt(sessions, h) => g = h
    BY <1>6, LoginOnce
  <2> QED
    BY <1>4, <2>1, <2>3, <2>4, AllArrived
<1>14. PICK on : on = {}
  OBVIOUS
<1>15. /\ on \subseteq Copies /\ \A d \in on : d.m = c.m /\ copies' = (copies \ {c}) \cup on
       /\ (Mine(c.m) \ {c}) \cup on = Mine(c.m) \ {c}
  BY <1>5, <1>14
<1>16. Right(sent[c.m], (Mine(c.m) \ {c}) \cup on, after, player, sessions, link)
  BY <1>12, <1>13, <1>15 DEF Right
<1> QED
  BY ZenonT(60), <1>5, <1>10, <1>11, <1>15, <1>16, MessageMoves

LEMMA RoutingSteps == RoutingInv /\ [MCNext]_<<part, vars, routingVars, rankVars>> => RoutingInv'
<1> SUFFICES ASSUME RoutingInv, [MCNext]_<<part, vars, routingVars, rankVars>>
             PROVE  RoutingInv'
  OBVIOUS
<1>1. CASE UNCHANGED routingVars
  <2>1. UNCHANGED link /\ UNCHANGED sessions /\ UNCHANGED player /\ UNCHANGED m_player_map
        /\ UNCHANGED sent /\ UNCHANGED copies /\ UNCHANGED got
    BY <1>1 DEF routingVars
  <2>2. LinkInv' /\ SessionInv' /\ MapInv'
    BY <2>1 DEF RoutingInv, LinkInv, SessionInv, MapInv
  <2>3. PostInv'
    BY <2>1 DEF RoutingInv, PostInv
  <2>4. MessageInv'
    BY <2>1 DEF RoutingInv, MessageInv, Mine
  <2> QED
    BY <2>2, <2>3, <2>4 DEF RoutingInv
<1>2. CASE Routing!Next
  <2>1. ASSUME NEW h \in Hosts, Routing!register2MgrAck(h)
        PROVE  RoutingInv'
    BY <2>1, RegisterKeeps
  <2>2. ASSUME NEW h \in Hosts, Routing!BroadCastInHost(h)
        PROVE  RoutingInv'
    BY <2>2, ToHostKeeps
  <2>3. ASSUME NEW h \in Hosts, NEW how \in {"message", "call"}, Routing!BroadCastInWorld(h, how)
        PROVE  RoutingInv'
    BY <2>3, ToWorldKeeps DEF Routing!BroadCastInWorld
  <2>4. ASSUME NEW h \in Hosts, NEW p \in Players \cup {0}, Routing!Send(h, p) \/ Routing!CallMsgProc(h, p)
        PROVE  RoutingInv'
    BY <2>4, SendKeeps, CallKeeps
  <2>5. ASSUME NEW h \in Hosts, NEW s \in Sids, Routing!Close(h, s) \/ Routing!resend_to_world_handler(h, s)
        PROVE  RoutingInv'
    BY <2>5, CloseKeeps, ResendKeeps
  <2>6. ASSUME NEW h \in Hosts, NEW s \in Sids, NEW p \in Players, Routing!Login(h, s, p)
        PROVE  RoutingInv'
    BY <2>6, LoginKeeps
  <2>7. ASSUME NEW c \in copies, Routing!PassOn(c) \/ Routing!AnswerRequest(c)
        PROVE  RoutingInv'
    BY <2>7, PassOnKeeps, AnswerKeeps
  <2>8. ASSUME NEW c \in copies, \/ Routing!unwrap_sendto_player_entry(c)
                                 \/ Routing!unwrap_call_session_msgproc_entry(c)
        PROVE  RoutingInv'
    BY <2>8, ArrivesKeeps
       DEF Routing!unwrap_sendto_player_entry, Routing!unwrap_call_session_msgproc_entry
  <2>9. CASE Routing!Done
    BY <1>1, <2>9 DEF Routing!Done, Routing!vars, routingVars
  <2> QED
    BY <1>2, <2>1, <2>2, <2>3, <2>4, <2>5, <2>6, <2>7, <2>8, <2>9 DEF Routing!Next
<1> QED
  BY <1>1, <1>2 DEF MCNext, routingVars

LEMMA RoutingBegins == MCInit => RoutingInv
<1> SUFFICES ASSUME MCInit
             PROVE  RoutingInv
  OBVIOUS
<1>1. /\ link = [h \in Hosts |-> "new"] /\ sessions = [h \in Hosts |-> [s \in Sids |-> 0]]
      /\ player = <<>> /\ m_player_map = [h \in Hosts |-> <<>>] /\ sent = <<>> /\ copies = {} /\ got = <<>>
  BY DEF MCInit, Routing!Init
<1>2. LinkInv /\ MapInv
  BY <1>1 DEF LinkInv, MapInv
<1>3. SessionInv
  BY <1>1 DEF SessionInv
<1>4. PostInv /\ MessageInv
  BY <1>1 DEF PostInv, MessageInv
<1> QED
  BY <1>2, <1>3, <1>4 DEF RoutingInv

LEMMA RoutingSays == RoutingInv => RoutedRight /\ Routing!TypeOK
<1> SUFFICES ASSUME RoutingInv
             PROVE  RoutedRight /\ Routing!TypeOK
  OBVIOUS
<1>1. \A m \in DOMAIN sent : Right(sent[m], Mine(m), got[m], player, sessions, link)
  BY DEF RoutingInv, MessageInv
<1>2. Routing!OnlyToPlayer
  BY <1>1 DEF Routing!OnlyToPlayer, Right, ToOne
<1>3. Routing!BroadcastOnce
  <2> SUFFICES ASSUME NEW m \in DOMAIN sent, sent[m].to = 0
               PROVE  /\ \A i, j \in DOMAIN got[m] : got[m][i].login = got[m][j].login => i = j
                      /\ (\A c \in copies : c.m # m) =>
                           \A n \in sent[m].for :
                             (\E h \in Hosts : n \in Routing!Open(h)) =>
                               \E i \in DOMAIN got[m] : got[m][i].login = n
    BY DEF Routing!BroadcastOnce
  <2>1. ToAll(sent[m].for, Mine(m), got[m], sessions, link)
    BY <1>1 DEF Right
  <2>2. \A i, j \in DOMAIN got[m] : got[m][i].login = got[m][j].login => i = j
    BY <2>1 DEF ToAll
  <2>3. ASSUME \A c \in copies : c.m # m, NEW n \in sent[m].for, NEW h \in Hosts, n \in Routing!Open(h)
        PROVE  \E i \in DOMAIN got[m] : got[m][i].login = n
    <3>1. Mine(m) = {}
      BY <2>3 DEF Mine
    <3>2. Reached(n, h, Mine(m), got[m], link)
      BY <2>1, <2>3, OpenIs DEF ToAll
    <3> QED
      BY <3>1, <3>2 DEF Reached
  <2> QED
    BY <2>2, <2>3
<1>4. Routing!TypeOK
  <2>1. SessionInv /\ LinkInv /\ PostInv
    BY DEF RoutingInv
  <2>2. \A h \in Hosts, s \in Sids : sessions[h][s] \in {0} \cup Routing!Logins
    BY <2>1, LoginsKnown DEF Routing!Logins
  <2>3. \A c \in copies : c.m \in DOMAIN sent /\ c.host \in Hosts /\ c.sid \in {0} \cup Sids
    BY <2>1 DEF PostInv, Copies
  <2>4. DOMAIN got = DOMAIN sent
    BY <2>1 DEF PostInv
  <2> QED
    BY <2>1, <2>2, <2>3, <2>4 DEF Routing!TypeOK, LinkInv
<1> QED
  BY <1>2, <1>3, <1>4 DEF RoutedRight, Routing!RoutedRight

(* A message for one player comes to him alone and once, one for all to    *)
(* each of them once, for any hosts, players and sessions.                 *)
THEOREM RoutedCorrect == MCSpec => []RoutedRight
BY RoutingBegins, RoutingSteps, RoutingSays, PTL DEF MCSpec

-----------------------------------------------------------------------------
(* The rank list.  Whether it is the best of what was offered is a matter  *)
(* of the list and the offers; while there is room everything that was     *)
(* offered is on it.                                                       *)
Ahead(of, a, b) == of[a] > of[b] \/ (of[a] = of[b] /\ a > b)
Entries(list) == {list[i] : i \in DOMAIN list}
IsTop(list, of) ==
  /\ list \in Seq(Nat) /\ of \in Seq(Int) /\ Entries(list) \subseteq DOMAIN of
  /\ Len(list) = IF Len(of) < capacity THEN Len(of) ELSE capacity
  /\ \A i, j \in DOMAIN list : i < j => Ahead(of, list[i], list[j])
  /\ \A m \in Entries(list), n \in DOMAIN of \ Entries(list) : Ahead(of, m, n)
  /\ Len(of) <= capacity => Entries(list) = DOMAIN of

(* A set of places that is not empty has a first one.                      *)
LEMMA FirstPlace ==
  ASSUME NEW n \in Nat, NEW at, at \subseteq 1 .. n, at # {}
  PROVE  \E i \in at : \A j \in at : i <= j
<1> DEFINE before(i) == {j \in at : j < i}
           All == {before(i) : i \in at}
<1>1. IsFiniteSet(at)
  <2>1. IsFiniteSet(1 .. n)
    BY FS_Interval
  <2> QED
    BY <2>1, FS_Subset
<1>2. All \subseteq FiniteSubsetsOf(at)
  BY <1>1, FS_FiniteSubsetsOfFinite
<1>3. All # {}
  <2>1. PICK i : i \in at
    OBVIOUS
  <2>2. before(i) \in All
    BY <2>1
  <2> QED
    BY <2>2
<1>4. IsWellFoundedOn(StrictSubsetOrdering(at), FiniteSubsetsOf(at))
  BY FS_StrictSubsetOrderingWellFounded
<1> HIDE DEF All
<1>5. PICK x \in All : \A y \in All : ~ (<<y, x>> \in StrictSubsetOrdering(at))
  BY <1>2, <1>3, <1>4, WFMin
<1>6. PICK i \in at : x = before(i)
  BY DEF All
<1>7. ASSUME NEW j \in at, j < i PROVE FALSE
  <2>1. before(j) \in All
    BY DEF All
  <2>2. before(j) \subseteq before(i)
    <3>1. i \in Int /\ j \in Int /\ at \subseteq Int
      OBVIOUS
    <3>2. ASSUME NEW h \in at, h < j
          PROVE  h < i
      BY <1>7, <3>1, <3>2
    <3> QED
      BY <3>2
  <2>3. j \in before(i) /\ j \notin before(j)
    BY <1>7
  <2>4. <<before(j), before(i)>> \in StrictSubsetOrdering(at)
    BY <2>2, <2>3 DEF StrictSubsetOrdering
  <2> QED
    BY <1>5, <1>6, <2>1, <2>4
<1> QED
  BY <1>7

(* What the insertion into a list and the loss of the last entry make.     *)
LEMMA Inserted ==
  ASSUME NEW list \in Seq(Nat), NEW i \in DOMAIN list, NEW n \in Nat
  PROVE  /\ Rank!InsertAt(list, i, n) \in Seq(Nat) /\ Len(Rank!InsertAt(list, i, n)) = Len(list) + 1
         /\ \A j \in 1 .. Len(list) + 1 :
              Rank!InsertAt(list, i, n)[j] = IF j < i THEN list[j] ELSE IF j = i THEN n ELSE list[j - 1]
         /\ Rank!Front(Rank!InsertAt(list, i, n)) \in Seq(Nat)
         /\ Len(Rank!Front(Rank!InsertAt(list, i, n))) = Len(list)
         /\ \A j \in 1 .. Len(list) :
              Rank!Front(Rank!InsertAt(list, i, n))[j] = Rank!InsertAt(list, i, n)[j]
<1>1. PICK len \in Nat : len = Len(list) /\ i \in 1 .. len /\ DOMAIN list = 1 .. len
  OBVIOUS
<1>2. PICK head : head = SubSeq(list, 1, i - 1)
  OBVIOUS
<1>3. head \in Seq(Nat) /\ Len(head) = i - 1 /\ \A j \in 1 .. i - 1 : head[j] = list[j]
  BY <1>1, <1>2
<1>4. PICK tail : tail = SubSeq(list, i, len)
  OBVIOUS
<1>5. /\ tail \in Seq(Nat) /\ Len(tail) = len - i + 1
      /\ \A j \in 1 .. len - i + 1 : tail[j] = list[i + j - 1]
  <2>1. i \in Int /\ len \in Int /\ i <= len
    BY <1>1
  <2>2. \A j \in i .. len : list[j] \in Nat
    BY <1>1
  <2> QED
    BY <1>4, <2>1, <2>2, SubSeqProperties
<1>6. PICK start : start = head \o <<n>>
  OBVIOUS
<1>7. /\ start \in Seq(Nat) /\ Len(start) = i /\ start[i] = n
      /\ \A j \in 1 .. i - 1 : start[j] = head[j]
  <2>1. start = Append(head, n)
    BY <1>3, <1>6
  <2>2. /\ Append(head, n) \in Seq(Nat) /\ Len(Append(head, n)) = Len(head) + 1
        /\ Append(head, n)[Len(head) + 1] = n
        /\ \A j \in 1 .. Len(head) : Append(head, n)[j] = head[j]
    BY <1>3, AppendProperties
  <2>3. Len(head) + 1 = i /\ Len(head) = i - 1
    BY <1>1, <1>3
  <2> QED
    BY <2>1, <2>2, <2>3
<1>8. PICK longer : longer = start \o tail
  OBVIOUS
<1>a. /\ longer \in Seq(Nat) /\ Len(longer) = Len(start) + Len(tail)
      /\ \A j \in 1 .. Len(start) + Len(tail) :
           longer[j] = IF j <= Len(start) THEN start[j] ELSE tail[j - Len(start)]
  BY <1>5, <1>7, <1>8, ConcatProperties
<1>b. Len(start) + Len(tail) = len + 1
  <2>1. Len(start) = i /\ Len(tail) = len - i + 1
    BY <1>5, <1>7
  <2>2. i + (len - i + 1) = len + 1
    BY <1>1
  <2> QED
    BY <2>1, <2>2
<1>c. /\ longer \in Seq(Nat) /\ Len(longer) = len + 1
      /\ \A j \in 1 .. len + 1 : longer[j] = IF j <= i THEN start[j] ELSE tail[j - i]
  BY <1>7, <1>a, <1>b
<1>d. longer = Rank!InsertAt(list, i, n)
  BY <1>1, <1>2, <1>4, <1>6, <1>8 DEF Rank!InsertAt
<1>9. ASSUME NEW j \in 1 .. len + 1
      PROVE  longer[j] = IF j < i THEN list[j] ELSE IF j = i THEN n ELSE list[j - 1]
  <2>1. CASE j < i
    <3>1. j <= i /\ j \in 1 .. i - 1
      BY <1>1, <2>1
    <3>2. longer[j] = start[j] /\ start[j] = head[j] /\ head[j] = list[j]
      BY <1>3, <1>7, <1>c, <3>1
    <3> QED
      BY <2>1, <3>2
  <2>2. CASE j = i
    <3>1. j <= i /\ ~(j < i)
      BY <1>1, <2>2
    <3>2. longer[j] = start[j] /\ start[j] = n
      BY <1>7, <1>c, <2>2, <3>1
    <3> QED
      BY <2>2, <3>1, <3>2
  <2>3. CASE j > i
    <3>1. j \in Int /\ i \in Int /\ len \in Int /\ 1 <= i /\ j <= len + 1
      BY <1>1
    <3>2. 1 <= j - i /\ j - i <= len - i + 1 /\ i + (j - i) - 1 = j - 1 /\ ~(j < i) /\ j # i /\ ~(j <= i)
      BY <2>3, <3>1
    <3>3. j - i \in 1 .. len - i + 1
      BY <3>1, <3>2
    <3>4. longer[j] = tail[j - i]
      BY <1>c, <3>2
    <3>5. tail[j - i] = list[i + (j - i) - 1]
      BY <1>5, <3>3
    <3> QED
      BY <3>2, <3>4, <3>5
  <2>4. j < i \/ j = i \/ j > i
    BY <1>1
  <2> QED
    BY <2>1, <2>2, <2>3, <2>4
<1>10. Rank!Front(longer) = SubSeq(longer, 1, len)
  BY <1>1, <1>c DEF Rank!Front
<1>11. /\ Rank!Front(longer) \in Seq(Nat) /\ Len(Rank!Front(longer)) = len
       /\ \A j \in 1 .. len : Rank!Front(longer)[j] = longer[j]
  <2>1. \A j \in 1 .. len : longer[j] \in Nat
    BY <1>1, <1>c
  <2>2. SubSeq(longer, 1, len) \in Seq(Nat)
    BY <1>1, <2>1, SubSeqProperties
  <2>3. Len(SubSeq(longer, 1, len)) = len
    BY <1>1, <2>1, SubSeqProperties
  <2>4. ASSUME NEW j \in 1 .. len
        PROVE  SubSeq(longer, 1, len)[j] = longer[j]
    <3>1. SubSeq(longer, 1, len)[j] = longer[1 + j - 1]
      BY <1>1, <2>1, SubSeqProperties
    <3>2. 1 + j - 1 = j
      BY <1>1
    <3> QED
      BY <3>1, <3>2
  <2> QED
    BY <1>10, <2>2, <2>3, <2>4
<1> QED
  BY <1>1, <1>c, <1>d, <1>9, <1>11

(* A new offer among the old ones.                                         *)
LEMMA NewOffer ==
  ASSUME NEW of \in Seq(Int), NEW index \in Int
  PROVE  /\ Append(of, index) \in Seq(Int) /\ Len(Append(of, index)) = Len(of) + 1
         /\ Len(of) \in Nat /\ DOMAIN of = 1 .. Len(of)
         /\ DOMAIN Append(of, index) = DOMAIN of \cup {Len(of) + 1}
         /\ \A a, b \in DOMAIN of : Ahead(Append(of, index), a, b) <=> Ahead(of, a, b)
         /\ \A a \in DOMAIN of : /\ Ahead(Append(of, index), Len(of) + 1, a) <=> index >= of[a]
                                 /\ Ahead(Append(of, index), a, Len(of) + 1) <=> ~(index >= of[a])
<1>1. PICK more, len : more = Append(of, index) /\ len = Len(of)
  OBVIOUS
<1>2. /\ len \in Nat
      /\ more \in Seq(Int) /\ Len(more) = len + 1 /\ DOMAIN of = 1 .. len /\ DOMAIN more = 1 .. len + 1
      /\ more[len + 1] = index /\ \A a \in 1 .. len : more[a] = of[a] /\ of[a] \in Int
  BY <1>1
<1>3. 1 .. len + 1 = (1 .. len) \cup {len + 1}
  BY <1>2
<1>4. \A a, b \in DOMAIN of : Ahead(more, a, b) <=> Ahead(of, a, b)
  BY <1>2 DEF Ahead
<1>5. ASSUME NEW a \in DOMAIN of
      PROVE  /\ Ahead(more, len + 1, a) <=> index >= of[a]
             /\ Ahead(more, a, len + 1) <=> ~(index >= of[a])
  <2>1. PICK mine : mine = of[a]
    OBVIOUS
  <2>2. a < len + 1 /\ a \in Int /\ more[a] = mine /\ mine \in Int /\ more[len + 1] = index
    BY <1>2, <2>1
  <2>3. /\ Ahead(more, len + 1, a) <=> index >= mine
        /\ Ahead(more, a, len + 1) <=> ~(index >= mine)
    BY <1>2, <2>2 DEF Ahead
  <2> QED
    BY <2>1, <2>3
<1> QED
  BY <1>1, <1>2, <1>3, <1>4, <1>5

Places(list, of, index) == {i \in DOMAIN list : index >= of[list[i]]}

(* The facts about a list of the best, and about the next one.             *)
LEMMA TopFacts ==
  ASSUME NEW list, NEW of, IsTop(list, of)
  PROVE  /\ list \in Seq(Nat) /\ DOMAIN list = 1 .. Len(list) /\ Len(list) \in Nat
         /\ \A i \in DOMAIN list : list[i] \in DOMAIN of
         /\ capacity \in Nat /\ capacity > 0 /\ Len(list) <= capacity
<1>1. capacity \in Nat /\ capacity > 0
  BY RankAssumption DEF Rank!CapacityAssumption
<1>2. list \in Seq(Nat) /\ of \in Seq(Int) /\ Entries(list) \subseteq DOMAIN of
  BY DEF IsTop
<1>3. Len(list) = IF Len(of) < capacity THEN Len(of) ELSE capacity
  BY DEF IsTop
<1>4. \A i \in DOMAIN list : list[i] \in DOMAIN of
  BY <1>2 DEF Entries
<1>5. DOMAIN list = 1 .. Len(list) /\ Len(list) \in Nat /\ Len(of) \in Nat
  BY <1>2
<1> QED
  BY <1>1, <1>2, <1>3, <1>4, <1>5

(* Where no entry is worse than the new one, it goes behind all of them or *)
(* nowhere.                                                                *)
LEMMA TopBehind ==
  ASSUME NEW list, NEW of, IsTop(list, of), NEW index \in Int, Places(list, of, index) = {}
  PROVE  /\ Len(list) < capacity => /\ IsTop(Append(list, Len(of) + 1), Append(of, index))
                                    /\ Len(of) + 1 \in Entries(Append(list, Len(of) + 1))
         /\ ~(Len(list) < capacity) => IsTop(list, Append(of, index)) /\ Len(of) + 1 \notin Entries(list)
<1>1. of \in Seq(Int) /\ Len(list) = IF Len(of) < capacity THEN Len(of) ELSE capacity
  BY DEF IsTop
<1>0. PICK more, n : more = Append(of, index) /\ n = Len(of) + 1
  OBVIOUS
<1>2. /\ more \in Seq(Int) /\ Len(more) = n /\ n \in Nat
      /\ n \notin DOMAIN of /\ DOMAIN more = DOMAIN of \cup {n}
      /\ \A a, b \in DOMAIN of : Ahead(more, a, b) <=> Ahead(of, a, b)
      /\ \A a \in DOMAIN of : Ahead(more, a, n) <=> ~(index >= of[a])
  <2>1. Len(of) \in Nat /\ DOMAIN of = 1 .. Len(of)
    BY <1>1
  <2>2. n \in Nat /\ n \notin DOMAIN of
    BY <1>0, <2>1
  <2> QED
    BY <1>0, <1>1, <2>2, NewOffer
<1>3. /\ list \in Seq(Nat) /\ DOMAIN list = 1 .. Len(list) /\ Len(list) \in Nat
      /\ \A i \in DOMAIN list : list[i] \in DOMAIN of
      /\ capacity \in Nat /\ capacity > 0 /\ Len(list) <= capacity
  BY TopFacts
<1>4. \A i, j \in DOMAIN list : i < j => Ahead(of, list[i], list[j])
  BY DEF IsTop
<1>5. \A i, j \in DOMAIN list : i < j => Ahead(more, list[i], list[j])
  BY <1>2, <1>3, <1>4
<1>6. \A i \in DOMAIN list : Ahead(more, list[i], n)
  BY <1>2, <1>3 DEF Places
<1>7. ASSUME Len(list) < capacity
      PROVE  IsTop(Append(list, n), more) /\ n \in Entries(Append(list, n))
  <2>0. PICK longer : longer = Append(list, n)
    OBVIOUS
  <2>1. /\ longer \in Seq(Nat) /\ Len(longer) = Len(list) + 1 /\ DOMAIN longer = 1 .. Len(list) + 1
        /\ longer[Len(list) + 1] = n /\ \A i \in DOMAIN list : longer[i] = list[i]
    BY <1>2, <1>3, <2>0
  <2>2. Entries(list) = DOMAIN of /\ Len(list) = Len(of)
    <3>1. PICK lo \in Nat, ll \in Nat : lo = Len(of) /\ ll = Len(list)
      BY <1>1, <1>3
    <3>2. ll = lo /\ lo <= capacity
      BY <1>1, <1>3, <1>7, <3>1
    <3> QED
      BY <3>1, <3>2 DEF IsTop
  <2>3. Entries(longer) = Entries(list) \cup {n}
    <3>1. DOMAIN longer = DOMAIN list \cup {Len(list) + 1}
      BY <1>3, <2>1
    <3>2. longer[Len(list) + 1] = n /\ \A i \in DOMAIN list : longer[i] = list[i]
      BY <2>1
    <3> QED
      BY <3>1, <3>2, ZenonT(60) DEF Entries
  <2>4. Entries(longer) = DOMAIN more
    BY <1>2, <2>2, <2>3
  <2>5. \A i, j \in DOMAIN longer : i < j => Ahead(more, longer[i], longer[j])
    <3>1. PICK ll \in Nat : ll = Len(list)
      BY <1>3
    <3>2. DOMAIN list = 1 .. ll /\ DOMAIN longer = 1 .. ll + 1 /\ longer[ll + 1] = n
      BY <1>3, <2>1, <3>1
    <3>3. \A i \in 1 .. ll : longer[i] = list[i]
      BY <2>1, <3>2
    <3>4. ASSUME NEW i \in 1 .. ll + 1, NEW j \in 1 .. ll + 1, i < j
          PROVE  Ahead(more, longer[i], longer[j])
      <4>1. i \in 1 .. ll /\ (j \in 1 .. ll \/ j = ll + 1)
        BY <3>4
      <4>2. CASE j \in 1 .. ll
        BY <1>5, <3>2, <3>3, <3>4, <4>1, <4>2
      <4>3. CASE j = ll + 1
        BY <1>6, <3>2, <3>3, <4>1, <4>3
      <4> QED
        BY <4>1, <4>2, <4>3
    <3> QED
      BY <3>2, <3>4
  <2>6. Len(longer) = IF Len(more) < capacity THEN Len(more) ELSE capacity
    <3>1. PICK ll \in Nat : ll = Len(list) /\ ll = Len(of)
      BY <1>3, <2>2
    <3>2. Len(longer) = ll + 1 /\ Len(more) = ll + 1 /\ ll < capacity
      BY <1>0, <1>2, <1>7, <2>1, <3>1
    <3>3. ll + 1 = IF ll + 1 < capacity THEN ll + 1 ELSE capacity
      BY <1>3, <3>2
    <3> QED
      BY <3>2, <3>3
  <2>7. IsTop(longer, more)
    BY <1>2, <2>1, <2>4, <2>5, <2>6 DEF IsTop
  <2> QED
    BY <2>0, <2>3, <2>7
<1>8. ASSUME ~(Len(list) < capacity)
      PROVE  IsTop(list, more) /\ n \notin Entries(list)
  <2>1. Entries(list) \subseteq DOMAIN of /\ n \notin DOMAIN of
    BY <1>2, <1>3 DEF Entries
  <2>2. \A m \in Entries(list), k \in DOMAIN of \ Entries(list) : Ahead(of, m, k)
    BY DEF IsTop
  <2>3. \A m \in Entries(list) : Ahead(more, m, n)
    BY <1>6 DEF Entries
  <2>4. \A m \in Entries(list), k \in DOMAIN more \ Entries(list) : Ahead(more, m, k)
    BY <1>2, <2>1, <2>2, <2>3
  <2>5. Len(more) > capacity /\ Len(list) = capacity
    <3>1. PICK lo \in Nat, ll \in Nat : lo = Len(of) /\ ll = Len(list)
      BY <1>1, <1>3
    <3>2. n = lo + 1 /\ ll = (IF lo < capacity THEN lo ELSE capacity) /\ ~(ll < capacity)
      BY <1>0, <1>1, <1>8, <3>1
    <3>3. n > capacity /\ ll = capacity
      BY <1>3, <3>2
    <3> QED
      BY <1>2, <3>1, <3>3
  <2>6. Entries(list) \subseteq DOMAIN more /\ more \in Seq(Int)
    BY <1>2, <2>1
  <2>7. Len(list) = (IF Len(more) < capacity THEN Len(more) ELSE capacity) /\ ~(Len(more) <= capacity)
    BY <1>2, <1>3, <2>5
  <2>8. IsTop(list, more)
    BY <1>3, <1>5, <2>4, <2>6, <2>7 DEF IsTop
  <2> QED
    BY <2>1, <2>8
<1> QED
  BY <1>0, <1>7, <1>8

After(list, of, i) ==
  LET longer == Rank!InsertAt(list, i, Len(of) + 1)
  IN IF Len(longer) > capacity THEN Rank!Front(longer) ELSE longer

(* Where there is one, the new one goes before the first of them, and what *)
(* falls out is the last.                                                  *)
LEMMA TopBefore ==
  ASSUME NEW list, NEW of, IsTop(list, of), NEW index \in Int, NEW i \in Places(list, of, index),
         \A j \in Places(list, of, index) : i <= j
  PROVE  IsTop(After(list, of, i), Append(of, index)) /\ Len(of) + 1 \in Entries(After(list, of, i))
<1>1. /\ of \in Seq(Int) /\ Len(list) = IF Len(of) < capacity THEN Len(of) ELSE capacity
      /\ Entries(list) \subseteq DOMAIN of
  BY DEF IsTop
<1>0. PICK more, n : more = Append(of, index) /\ n = Len(of) + 1
  OBVIOUS
<1>2. /\ more \in Seq(Int) /\ Len(more) = n /\ n \in Nat
      /\ DOMAIN more = DOMAIN of \cup {n}
      /\ \A a, b \in DOMAIN of : Ahead(more, a, b) <=> Ahead(of, a, b)
      /\ \A a \in DOMAIN of : /\ Ahead(more, n, a) <=> index >= of[a]
                              /\ Ahead(more, a, n) <=> ~(index >= of[a])
  <2>1. n \in Nat
    BY <1>0, <1>1
  <2> QED
    BY <1>0, <1>1, <2>1, NewOffer
<1>3. \A a, b \in DOMAIN of : Ahead(more, a, b) <=> Ahead(of, a, b)
  BY <1>2
<1>4. \A a \in DOMAIN of : /\ Ahead(more, n, a) <=> index >= of[a]
                           /\ Ahead(more, a, n) <=> ~(index >= of[a])
  BY <1>2
<1>5. /\ list \in Seq(Nat) /\ DOMAIN list = 1 .. Len(list) /\ Len(list) \in Nat
      /\ \A j \in DOMAIN list : list[j] \in DOMAIN of
      /\ capacity \in Nat /\ capacity > 0 /\ Len(list) <= capacity
  BY TopFacts
<1>6. \A a, b \in DOMAIN list : a < b => Ahead(of, list[a], list[b])
  BY DEF IsTop
<1>7. \A m \in Entries(list), k \in DOMAIN of \ Entries(list) : Ahead(of, m, k)
  BY DEF IsTop
<1>8. PICK len \in Nat, lo \in Nat :
        len = Len(list) /\ lo = Len(of) /\ DOMAIN list = 1 .. len /\ i \in 1 .. len /\ len <= capacity
  BY <1>1, <1>5 DEF Places
<1>a. PICK longer : longer = Rank!InsertAt(list, i, n)
  OBVIOUS
<1>9. /\ longer \in Seq(Nat) /\ Len(longer) = len + 1
      /\ \A j \in 1 .. len + 1 : longer[j] = IF j < i THEN list[j] ELSE IF j = i THEN n ELSE list[j - 1]
      /\ Rank!Front(longer) \in Seq(Nat) /\ Len(Rank!Front(longer)) = len
      /\ \A j \in 1 .. len : Rank!Front(longer)[j] = longer[j]
  <2>1. i \in DOMAIN list /\ list \in Seq(Nat) /\ n \in Nat
    BY <1>2, <1>5, <1>8
  <2>2. /\ Rank!InsertAt(list, i, n) \in Seq(Nat) /\ Len(Rank!InsertAt(list, i, n)) = Len(list) + 1
        /\ \A j \in 1 .. Len(list) + 1 :
             Rank!InsertAt(list, i, n)[j] = IF j < i THEN list[j] ELSE IF j = i THEN n ELSE list[j - 1]
        /\ Rank!Front(Rank!InsertAt(list, i, n)) \in Seq(Nat)
        /\ Len(Rank!Front(Rank!InsertAt(list, i, n))) = Len(list)
        /\ \A j \in 1 .. Len(list) :
             Rank!Front(Rank!InsertAt(list, i, n))[j] = Rank!InsertAt(list, i, n)[j]
    BY <2>1, Inserted, ZenonT(60)
  <2>3. len = Len(list)
    BY <1>8
  <2> QED
    BY <1>a, <2>2, <2>3, Zenon
<1>10. /\ \A j \in 1 .. len + 1 : j < i => longer[j] = list[j]
       /\ longer[i] = n
       /\ \A j \in 1 .. len + 1 : j > i => longer[j] = list[j - 1]
  <2>1. i \in 1 .. len + 1
    BY <1>8
  <2> QED
    BY <1>8, <1>9, <2>1
<1>11. PICK next : next = IF Len(longer) > capacity THEN Rank!Front(longer) ELSE longer
  OBVIOUS
<1>b. next = After(list, of, i)
  BY <1>0, <1>a, <1>11 DEF After
<1>12. PICK k \in Nat : /\ k = IF len + 1 > capacity THEN len ELSE len + 1
                        /\ i <= k /\ len <= k /\ k <= len + 1
  BY <1>8
<1>13. next \in Seq(Nat) /\ Len(next) = k /\ DOMAIN next = 1 .. k /\ \A j \in 1 .. k : next[j] = longer[j]
  <2>1. CASE len + 1 > capacity
    <3>1. next = Rank!Front(longer) /\ k = len
      BY <1>9, <1>11, <1>12, <2>1
    <3> QED
      BY <1>9, <3>1
  <2>2. CASE ~(len + 1 > capacity)
    <3>1. next = longer /\ k = len + 1
      BY <1>9, <1>11, <1>12, <2>2
    <3> QED
      BY <1>9, <3>1
  <2> QED
    BY <2>1, <2>2
<1>14. ASSUME NEW a \in 1 .. len + 1, NEW b \in 1 .. len + 1, a < b
       PROVE  Ahead(more, longer[a], longer[b])
  <2>1. CASE b < i
    <3>1. a \in DOMAIN list /\ b \in DOMAIN list /\ longer[a] = list[a] /\ longer[b] = list[b]
      BY <1>8, <1>10, <1>14, <2>1
    <3> QED
      BY <1>3, <1>5, <1>6, <1>14, <3>1
  <2>2. CASE b = i
    <3>1. a \in DOMAIN list /\ longer[a] = list[a] /\ longer[b] = n /\ ~(i <= a)
      BY <1>8, <1>10, <1>14, <2>2
    <3>2. ~(index >= of[list[a]])
      BY <3>1 DEF Places
    <3> QED
      BY <1>4, <1>5, <3>1, <3>2
  <2>3. CASE b > i /\ a = i
    <3>0. b - 1 \in 1 .. len /\ (i = b - 1 \/ i < b - 1)
      BY <1>8, <2>3
    <3>1. b - 1 \in DOMAIN list /\ longer[b] = list[b - 1] /\ longer[a] = n /\ (i = b - 1 \/ i < b - 1)
      BY <1>8, <1>10, <2>3, <3>0
    <3>2. list[i] \in DOMAIN of /\ list[b - 1] \in DOMAIN of
      BY <1>5, <1>8, <3>1
    <3>3. of[list[i]] \in Int /\ of[list[b - 1]] \in Int
      BY <1>1, <3>2
    <3>4. of[list[i]] >= of[list[b - 1]]
      <4>1. CASE i = b - 1
        BY <3>3, <4>1
      <4>2. CASE i < b - 1
        <5>1. Ahead(of, list[i], list[b - 1])
          BY <1>6, <1>8, <3>1, <4>2
        <5> QED
          BY <3>3, <5>1 DEF Ahead
      <4> QED
        BY <3>1, <4>1, <4>2
    <3>5. index >= of[list[b - 1]]
      BY <3>3, <3>4 DEF Places
    <3> QED
      BY <1>4, <3>1, <3>2, <3>5
  <2>4. CASE b > i /\ a # i
    <3>0. PICK c : c = IF a < i THEN a ELSE a - 1
      OBVIOUS
    <3>1. b - 1 \in DOMAIN list /\ c \in DOMAIN list /\ c < b - 1
      BY <1>8, <1>14, <2>4, <3>0
    <3>2. longer[b] = list[b - 1]
      BY <1>10, <2>4
    <3>3. longer[a] = list[c]
      <4>1. a < i \/ a > i
        BY <1>8, <2>4
      <4>2. a > i => ~(a < i)
        BY <1>8
      <4> QED
        BY <1>10, <3>0, <4>1, <4>2
    <3> QED
      BY <1>3, <1>5, <1>6, <3>1, <3>2, <3>3
  <2> QED
    BY <1>8, <2>1, <2>2, <2>3, <2>4
<1>15. Entries(next) = {longer[j] : j \in 1 .. k}
  BY <1>13 DEF Entries
<1>16. n \in Entries(next)
  BY <1>8, <1>10, <1>12, <1>15
<1> DEFINE all == {longer[j] : j \in 1 .. len + 1}
<1>17. all = Entries(list) \cup {n}
  <2>1. ASSUME NEW j \in 1 .. len
        PROVE  list[j] \in all
    <3>1. CASE j < i
      <4>1. j \in 1 .. len + 1
        BY <1>8
      <4> QED
        BY <1>10, <3>1, <4>1
    <3>2. CASE j >= i
      <4>1. j + 1 \in 1 .. len + 1 /\ j + 1 > i /\ (j + 1) - 1 = j
        BY <1>8, <3>2
      <4>2. longer[j + 1] = list[j]
        BY <1>10, <4>1
      <4> QED
        BY <4>1, <4>2
    <3> QED
      BY <1>8, <3>1, <3>2
  <2>2. ASSUME NEW j \in 1 .. len + 1
        PROVE  longer[j] \in Entries(list) \cup {n}
    <3>1. CASE j < i
      <4>1. j \in DOMAIN list /\ longer[j] = list[j]
        BY <1>8, <1>10, <3>1
      <4> QED
        BY <4>1 DEF Entries
    <3>2. CASE j > i
      <4>1. j - 1 \in DOMAIN list /\ longer[j] = list[j - 1]
        BY <1>8, <1>10, <3>2
      <4> QED
        BY <4>1 DEF Entries
    <3>3. CASE j = i
      BY <1>10, <3>3
    <3> QED
      BY <1>8, <3>1, <3>2, <3>3
  <2>3. n \in all
    BY <1>8, <1>10
  <2>4. Entries(list) \subseteq all
    BY <1>8, <2>1 DEF Entries
  <2> QED
    BY <2>2, <2>3, <2>4
<1>18. Entries(next) \subseteq all
  BY <1>12, <1>15
<1> HIDE DEF all
<1>19. Entries(next) \subseteq DOMAIN more
  BY <1>1, <1>2, <1>17, <1>18
<1>20. ASSUME NEW x \in Entries(next), NEW y \in DOMAIN more \ Entries(next)
       PROVE  Ahead(more, x, y)
  <2>1. PICK j \in 1 .. k : x = longer[j]
    BY <1>15
  <2>2. CASE y \in all
    <3>1. PICK h \in 1 .. len + 1 : y = longer[h]
      BY <2>2 DEF all
    <3>2. h \notin 1 .. k
      BY <1>15, <3>1
    <3>3. j < h /\ j \in 1 .. len + 1
      BY <1>8, <1>12, <3>2
    <3> QED
      BY <1>14, <2>1, <3>1, <3>3
  <2>3. CASE y \notin all
    <3>1. y \in DOMAIN of \ Entries(list)
      BY <1>2, <1>17, <2>3
    <3>2. CASE x \in Entries(list)
      <4>1. x \in DOMAIN of /\ Ahead(of, x, y)
        BY <1>1, <1>7, <3>1, <3>2
      <4> QED
        BY <1>3, <3>1, <4>1
    <3>3. CASE x = n
      <4>1. list[i] \in Entries(list) /\ list[i] \in DOMAIN of
        BY <1>5, <1>8 DEF Entries
      <4>2. Ahead(of, list[i], y)
        BY <1>7, <3>1, <4>1
      <4>3. of[list[i]] \in Int /\ of[y] \in Int
        BY <1>1, <3>1, <4>1
      <4>4. index >= of[y]
        BY <4>2, <4>3 DEF Ahead, Places
      <4> QED
        BY <1>4, <3>1, <3>3, <4>4
    <3> QED
      BY <1>17, <1>18, <3>2, <3>3
  <2> QED
    BY <2>2, <2>3
<1>21. ASSUME Len(more) <= capacity
       PROVE  Entries(next) = DOMAIN more
  <2>0. n = lo + 1 /\ len = (IF lo < capacity THEN lo ELSE capacity) /\ n <= capacity
    BY <1>0, <1>1, <1>2, <1>8, <1>21
  <2>1. lo <= capacity /\ len = lo /\ k = len + 1
    BY <1>5, <1>12, <2>0
  <2>2. Entries(list) = DOMAIN of
    BY <1>8, <2>1 DEF IsTop
  <2>3. Entries(next) = all
    BY <1>15, <2>1 DEF all
  <2> QED
    BY <1>2, <1>17, <2>2, <2>3
<1>22. Len(next) = IF Len(more) < capacity THEN Len(more) ELSE capacity
  <2>1. n = lo + 1 /\ len = IF lo < capacity THEN lo ELSE capacity
    BY <1>0, <1>1, <1>2, <1>8
  <2>2. k = IF n < capacity THEN n ELSE capacity
    BY <1>5, <1>12, <2>1
  <2> QED
    BY <1>2, <1>13, <2>2
<1>23. \A a, b \in DOMAIN next : a < b => Ahead(more, next[a], next[b])
  BY <1>12, <1>13, <1>14
<1>24. IsTop(next, more)
  BY <1>2, <1>13, <1>19, <1>20, <1>21, <1>22, <1>23 DEF IsTop
<1> QED
  BY <1>0, <1>b, <1>16, <1>24

(* The list is always the best of the offers.                              *)
RankInv ==
  /\ IsTop(m_data, offers) /\ isOk \in BOOLEAN
  /\ offers # <<>> => (isOk <=> Len(offers) \in Entries(m_data))

LEMMA EmptyTop == IsTop(<<>>, <<>>)
BY RankAssumption DEF IsTop, Entries, Rank!CapacityAssumption

LEMMA AddKeepsTop ==
  ASSUME RankInv, NEW index \in Index, Rank!trytoAdd(index)
  PROVE  RankInv'
<1>1. PICK list, of : list = m_data /\ of = offers
  OBVIOUS
<1>2. index \in Int /\ IsTop(list, of)
  BY <1>1, RankAssumption DEF RankInv, Rank!CapacityAssumption
<1>3. of \in Seq(Int) /\ offers' = Append(of, index)
  BY <1>1, <1>2 DEF IsTop, Rank!trytoAdd
<1>4. /\ list \in Seq(Nat) /\ DOMAIN list = 1 .. Len(list) /\ Len(list) \in Nat
      /\ capacity \in Nat /\ capacity > 0
  BY <1>2, TopFacts
<1>5. Rank!Place(index) = Places(list, of, index)
  BY <1>1 DEF Rank!Place, Places
<1>6. ASSUME IsTop(m_data', Append(of, index)), isOk' \in BOOLEAN,
             isOk' <=> Len(of) + 1 \in Entries(m_data')
      PROVE  RankInv'
  <2>1. Len(offers') = Len(of) + 1 /\ IsTop(m_data', offers')
    BY <1>3, <1>6
  <2>2. isOk' <=> Len(offers') \in Entries(m_data')
    BY <1>6, <2>1
  <2> QED
    BY <1>6, <2>1, <2>2 DEF RankInv, Entries
<1>7. CASE list = <<>>
  <2>1. m_data' = <<Len(of) + 1>> /\ isOk' = TRUE
    BY <1>1, <1>7 DEF Rank!trytoAdd
  <2>2. Append(list, Len(of) + 1) = <<Len(of) + 1>> /\ Len(list) < capacity
    BY <1>4, <1>7
  <2>3. Places(list, of, index) = {}
    BY <1>7 DEF Places
  <2>4. /\ IsTop(Append(list, Len(of) + 1), Append(of, index))
        /\ Len(of) + 1 \in Entries(Append(list, Len(of) + 1))
    BY <1>2, <2>2, <2>3, TopBehind
  <2> QED
    BY <1>6, <2>1, <2>2, <2>4
<1>8. CASE list # <<>> /\ Places(list, of, index) = {}
  <2>1. /\ m_data' = IF Len(list) < capacity THEN Append(list, Len(of) + 1) ELSE list
        /\ isOk' = (Len(list) < capacity)
    BY <1>1, <1>5, <1>8 DEF Rank!trytoAdd
  <2>2. /\ Len(list) < capacity => /\ IsTop(Append(list, Len(of) + 1), Append(of, index))
                                   /\ Len(of) + 1 \in Entries(Append(list, Len(of) + 1))
        /\ ~(Len(list) < capacity) => IsTop(list, Append(of, index)) /\ Len(of) + 1 \notin Entries(list)
    BY <1>2, <1>8, TopBehind
  <2>3. CASE Len(list) < capacity
    <3>1. m_data' = Append(list, Len(of) + 1) /\ isOk' = TRUE
      BY <2>1, <2>3
    <3> QED
      BY <1>6, <2>2, <2>3, <3>1
  <2>4. CASE ~(Len(list) < capacity)
    <3>1. m_data' = list /\ isOk' = FALSE
      <4>1. m_data' = list
        BY <2>1, <2>4
      <4>2. isOk' = FALSE
        <5>1. (Len(list) < capacity) = FALSE
          BY <2>4
        <5>2. isOk' = (Len(list) < capacity)
          BY <2>1
        <5> QED
          BY <5>1, <5>2
      <4> QED
        BY <4>1, <4>2
    <3>2. IsTop(list, Append(of, index)) /\ Len(of) + 1 \notin Entries(list)
      BY <2>2, <2>4, Zenon
    <3> QED
      BY <1>6, <3>1, <3>2
  <2> QED
    BY <2>3, <2>4
<1>9. CASE list # <<>> /\ Places(list, of, index) # {}
  <2>1. PICK i : i = CHOOSE p \in Rank!Place(index) : \A j \in Rank!Place(index) : p <= j
    OBVIOUS
  <2>2. i \in Places(list, of, index) /\ \A j \in Places(list, of, index) : i <= j
    <3>1. Places(list, of, index) \subseteq 1 .. Len(list)
      BY <1>4 DEF Places
    <3>2. \E p \in Places(list, of, index) : \A j \in Places(list, of, index) : p <= j
      BY <1>4, <1>9, <3>1, FirstPlace
    <3> QED
      BY <1>5, <2>1, <3>2
  <2>3. IsTop(After(list, of, i), Append(of, index)) /\ Len(of) + 1 \in Entries(After(list, of, i))
    BY <1>2, <2>2, TopBefore
  <2>4. m_data' = After(list, of, i) /\ isOk' = TRUE
    BY <1>1, <1>5, <1>9, <2>1 DEF Rank!trytoAdd, After
  <2> QED
    BY <1>6, <2>3, <2>4
<1> QED
  BY <1>7, <1>8, <1>9

LEMMA RankSteps == RankInv /\ [MCNext]_<<part, vars, routingVars, rankVars>> => RankInv'
<1> SUFFICES ASSUME RankInv, [MCNext]_<<part, vars, routingVars, rankVars>>
             PROVE  RankInv'
  OBVIOUS
<1>1. CASE UNCHANGED rankVars
  BY <1>1 DEF RankInv, rankVars
<1>2. CASE Rank!Drop
  BY <1>2, EmptyTop DEF Rank!Drop, RankInv
<1>3. CASE \E index \in Index : Rank!trytoAdd(index)
  BY <1>3, AddKeepsTop
<1> QED
  BY <1>1, <1>2, <1>3 DEF MCNext, Rank!Next, rankVars

(* Whatever is offered, for any capacity: the list is the best of it, in   *)
(* order, and trytoAdd says whether its offer is there.                    *)
THEOREM TopKept == MCSpec => []KeepsTop
<1>1. MCInit => RankInv
  BY EmptyTop DEF MCInit, Rank!Init, RankInv
<1>2. RankInv => KeepsTop
  BY DEF RankInv, IsTop, Entries, Ahead, KeepsTop, Rank!KeepsTop, Rank!Listed, Rank!Better
<1> QED
  BY <1>1, <1>2, RankSteps, PTL DEF MCSpec
-----------------------------------------------------------------------------
(* Sampling: both objects that remember their draws keep to their rates.   *)
T == SAMPLE_TOTAL_TIMES

(* The weight is the account of what was owed and what was won, and lies   *)
(* within one draw of zero: this is what makes the draws fair.             *)
Account ==
  /\ weight.cur = base + owed - T * lucky
  /\ weight.cur \in (1 - T)..(T - 1)

(* What ndSampling has won is bounded by what it has counted, and by the   *)
(* draws when it must always win, so that restoring it with the draws in   *)
(* the place of the wins only makes it win less often.  After its round    *)
(* its rate is 0 and it wins no more.                                      *)
Counted ==
  /\ quota.rate = 0 => quota.wins = 0
  /\ quota.rate > 0 =>
       /\ quota.rate = goal
       /\ quota.wins <= quota.times /\ quota.times < T
       /\ quota.rate < T => won <= quota.wins
       /\ quota.rate = T => won <= quota.times
  /\ won <= goal

IInv == TypeOK /\ Account /\ Counted

USE DEF T

LEMMA TotalPositive == T \in Nat /\ T > 0
BY TotalAssumption

\* One more draw won is one SAMPLE_TOTAL_TIMES more that was paid.
LEMMA OneMore == ASSUME NEW n \in Nat PROVE T * n \in Int /\ T * (n + 1) = T * n + T
BY TotalPositive, SMT

LEMMA InitInv == Init => IInv
<1> SUFFICES ASSUME Init PROVE IInv
  OBVIOUS
<1>1. T * 0 = 0
  BY TotalPositive
<1> QED
  BY <1>1, TotalPositive DEF Init, IInv, TypeOK, Account, Counted, NewSampling

\* A draw that wins was allowed to: the wins counted are below the rate.
LEMMA Wins ==
  ASSUME TypeOK, Counted, NEW r
  PROVE  /\ QuotaWins(r).counted \in {0, 1}
         /\ QuotaWins(r).win => quota.rate > 0 /\ quota.wins < quota.rate
         /\ QuotaWins(r).win /\ quota.rate < T => QuotaWins(r).counted = 1
<1> DEFINE win == ProbSampling1(quota.rate, r)
           left_success == quota.rate - quota.wins
           left_times == T - quota.wins
<1>1. quota.rate \in Nat /\ quota.wins \in Nat /\ quota.rate <= T /\ T \in Nat /\ T > 0
  BY TotalPositive DEF TypeOK
<1>2. quota.rate = 0 => left_success <= 0
  BY <1>1 DEF Counted
<1>3. CASE left_success <= 0
  <2>1. QuotaWins(r) = [win |-> FALSE, counted |-> 0]
    BY <1>3 DEF QuotaWins
  <2> QED
    BY <2>1
<1>4. CASE ~(left_success <= 0) /\ left_times <= left_success
  <2>1. QuotaWins(r) = [win |-> TRUE, counted |-> 0]
    BY <1>4 DEF QuotaWins
  <2>2. quota.rate > 0 /\ quota.wins < quota.rate /\ quota.rate = T
    BY <1>1, <1>2, <1>4
  <2> QED
    BY <1>1, <2>1, <2>2
<1>5. CASE ~(left_success <= 0) /\ ~(left_times <= left_success)
  <2>1. QuotaWins(r) = [win |-> win, counted |-> IF win THEN 1 ELSE 0]
    BY <1>5, Zenon DEF QuotaWins
  <2>2. quota.rate > 0 /\ quota.wins < quota.rate
    BY <1>1, <1>2, <1>5
  <2> HIDE DEF win
  <2>3. QuotaWins(r).win = win
    BY <2>1
  <2>4. QuotaWins(r).counted = IF win THEN 1 ELSE 0
    BY <2>1
  <2> QED
    BY <2>2, <2>3, <2>4
<1> QED
  BY <1>3, <1>4, <1>5

LEMMA QuotaInv ==
  ASSUME IInv, NEW r \in Rand, DrawQuota(r)
  PROVE  IInv'
<1> DEFINE w == QuotaWins(r)
<1>1. /\ w.counted \in {0, 1}
      /\ w.win => quota.rate > 0 /\ quota.wins < quota.rate
      /\ w.win /\ quota.rate < T => w.counted = 1
  BY Wins DEF IInv
<1>2. /\ quota \in [rate : Nat, times : Nat, wins : Nat] /\ quota.rate <= T
      /\ T \in Nat /\ T > 0 /\ goal \in 0..T /\ won \in Nat
  BY TotalPositive DEF IInv, TypeOK
<1>3. /\ won' = IF w.win THEN won + 1 ELSE won
      /\ quota' = IF quota.times + 1 >= T THEN NewSampling
                  ELSE [quota EXCEPT !.times = @ + 1, !.wins = @ + w.counted]
      /\ draws' = draws + 1
      /\ UNCHANGED <<goal, weight, base, owed, lucky, table>>
  BY DEF DrawQuota
<1> HIDE DEF w
<1>4. w.win => won + 1 <= goal
  <2> SUFFICES ASSUME w.win PROVE won + 1 <= goal
    OBVIOUS
  <2>1. CASE quota.rate < T
    BY <1>1, <1>2, <2>1 DEF IInv, Counted
  <2>2. CASE quota.rate = T
    BY <1>1, <1>2, <2>2 DEF IInv, Counted
  <2> QED
    BY <1>2, <2>1, <2>2
<1>5. won' \in Nat /\ won' <= goal
  BY <1>2, <1>3, <1>4 DEF IInv, Counted
<1>6. /\ quota' \in [rate : Nat, times : Nat, wins : Nat] /\ quota.rate' <= T
      /\ quota.rate' = 0 => quota.wins' = 0
      /\ quota.rate' > 0 =>
           /\ quota.rate' = goal
           /\ quota.wins' <= quota.times' /\ quota.times' < T
           /\ quota.rate' < T => won' <= quota.wins'
           /\ quota.rate' = T => won' <= quota.times'
  <2>1. CASE quota.times + 1 >= T
    BY <1>2, <1>3, <2>1 DEF NewSampling
  <2>2. CASE ~(quota.times + 1 >= T)
    <3>1. quota' = [quota EXCEPT !.times = @ + 1, !.wins = @ + w.counted]
      BY <1>3, <2>2
    <3>2. /\ quota' \in [rate : Nat, times : Nat, wins : Nat]
          /\ quota.rate' = quota.rate /\ quota.times' = quota.times + 1
          /\ quota.wins' = quota.wins + w.counted
      <4>1. w.counted \in Nat
        BY <1>1
      <4>2. quota' = [rate |-> quota.rate, times |-> quota.times + 1, wins |-> quota.wins + w.counted]
        BY <1>2, <3>1
      <4> QED
        BY <1>2, <4>1, <4>2
    <3>3. CASE quota.rate = 0
      <4>1. w.counted = 0
        <5>1. quota.rate - quota.wins <= 0
          BY <1>2, <3>3 DEF IInv, Counted
        <5>2. w = [win |-> FALSE, counted |-> 0]
          BY <5>1 DEF w, QuotaWins
        <5> QED
          BY <5>2
      <4> QED
        BY <1>2, <3>2, <3>3, <4>1 DEF IInv, Counted
    <3>4. CASE quota.rate > 0
      <4>1. /\ quota.rate = goal /\ quota.wins <= quota.times
            /\ quota.rate < T => won <= quota.wins
            /\ quota.rate = T => won <= quota.times
        BY <3>4 DEF IInv, Counted
      <4>2. quota.rate < T => won' <= quota.wins'
        BY <1>1, <1>2, <1>3, <3>2, <4>1
      <4>3. quota.rate = T => won' <= quota.times'
        BY <1>2, <1>3, <3>2, <4>1
      <4>4. quota.wins' <= quota.times' /\ quota.times' < T
        BY <1>1, <1>2, <2>2, <3>2, <4>1
      <4> QED
        BY <1>2, <3>2, <3>4, <4>1, <4>2, <4>3, <4>4
    <3> QED
      BY <1>2, <3>3, <3>4
  <2> QED
    BY <2>1, <2>2
<1>7. TypeOK'
  BY <1>2, <1>3, <1>5, <1>6 DEF IInv, TypeOK
<1>8. Account'
  BY <1>3 DEF IInv, Account
<1>9. Counted'
  BY <1>3, <1>5, <1>6 DEF Counted
<1> QED
  BY <1>7, <1>8, <1>9 DEF IInv

LEMMA WeightInv ==
  ASSUME IInv, NEW r \in Rand, DrawWeight(r)
  PROVE  IInv'
<1> DEFINE cur == weight.cur + weight.rate
           win == cur > 0 /\ ProbSampling1(cur, r)
<1>1. /\ weight.rate \in 1..T /\ weight.cur \in (1 - T)..(T - 1)
      /\ T \in Nat /\ T > 0 /\ base \in Int /\ owed \in Nat /\ lucky \in Nat /\ draws \in Nat
  BY TotalPositive DEF IInv, TypeOK, DrawWeight
<1>2. /\ weight' = [weight EXCEPT !.cur = IF win THEN cur - T ELSE cur]
      /\ owed' = owed + weight.rate
      /\ lucky' = IF win THEN lucky + 1 ELSE lucky
      /\ draws' = draws + 1
      /\ UNCHANGED <<quota, goal, won, base, table>>
  BY DEF DrawWeight, Paid
<1>3. cur \in Int /\ cur >= 2 - T /\ cur <= 2 * T - 1
  BY <1>1
<1>4. win => cur > 0
  OBVIOUS
<1>5. ~win => cur <= T - 1
  <2> SUFFICES ASSUME cur >= T PROVE win
    BY <1>1, <1>3
  <2>1. ProbSampling1(cur, r)
    BY DEF ProbSampling1
  <2>2. cur > 0
    BY <1>1, <1>3
  <2> QED
    BY <2>1, <2>2
<1>6. weight.cur = base + owed - T * lucky
  BY DEF IInv, Account
<1>7. T * lucky \in Int /\ T * (lucky + 1) = T * lucky + T
  BY <1>1, OneMore
<1>8. weight' = [rate |-> weight.rate, cur |-> IF win THEN cur - T ELSE cur]
  BY <1>2 DEF IInv, TypeOK
<1> HIDE DEF win
<1>9. CASE win
  <2>1. /\ weight.rate' = weight.rate /\ weight.cur' = cur - T
        /\ owed' = owed + weight.rate /\ lucky' = lucky + 1
    BY <1>2, <1>8, <1>9
  <2>2. weight.cur' \in (1 - T)..(T - 1)
    BY <1>1, <1>3, <1>4, <1>9, <2>1
  <2>3. weight.cur' = base + owed' - T * lucky'
    BY <1>1, <1>6, <1>7, <2>1
  <2>4. weight' \in [rate : 0..T, cur : (1 - T)..(T - 1)]
    BY <1>1, <1>8, <2>1, <2>2
  <2>5. TypeOK'
    BY <1>1, <1>2, <2>1, <2>4 DEF IInv, TypeOK
  <2>6. Account'
    BY <1>2, <2>2, <2>3 DEF Account
  <2> QED
    BY <1>2, <2>5, <2>6 DEF IInv, Counted
<1>10. CASE ~win
  <2>1. /\ weight.rate' = weight.rate /\ weight.cur' = cur
        /\ owed' = owed + weight.rate /\ lucky' = lucky
    BY <1>2, <1>8, <1>10
  <2>2. weight.cur' \in (1 - T)..(T - 1)
    BY <1>1, <1>3, <1>5, <1>10, <2>1
  <2>3. weight.cur' = base + owed' - T * lucky'
    BY <1>1, <1>6, <1>7, <2>1
  <2>4. weight' \in [rate : 0..T, cur : (1 - T)..(T - 1)]
    BY <1>1, <1>8, <2>1, <2>2
  <2>5. TypeOK'
    BY <1>1, <1>2, <2>1, <2>4 DEF IInv, TypeOK
  <2>6. Account'
    BY <1>2, <2>2, <2>3 DEF Account
  <2> QED
    BY <1>2, <2>5, <2>6 DEF IInv, Counted
<1> QED
  BY <1>9, <1>10

LEMMA NextInv == IInv /\ [Next]_vars => IInv'
<1> SUFFICES ASSUME IInv, [Next]_vars PROVE IInv'
  OBVIOUS
<1>1. T \in Nat /\ T > 0 /\ Rates \subseteq 1..T /\ T * 0 = 0
  BY TotalPositive, RatesAssumption
<1>2. ASSUME NEW rate \in Rates, InitSampling(rate) PROVE IInv'
  BY <1>1, <1>2 DEF InitSampling, Fresh, NewSampling, IInv, TypeOK, Account, Counted
<1>3. ASSUME NEW rate \in Rates, NEW cur \in (1 - T)..(T - 1), InitWeight(rate, cur) PROVE IInv'
  BY <1>1, <1>3 DEF InitWeight, Fresh, IInv, TypeOK, Account, Counted
<1>4. ASSUME NEW prob \in Tables, NEW n \in 1..Len(prob), SamplingSpecial(prob, n) PROVE IInv'
  BY <1>4 DEF SamplingSpecial, IInv, TypeOK, Account, Counted
<1>5. ASSUME NEW r \in Rand, DrawQuota(r) PROVE IInv'
  BY <1>5, QuotaInv
<1>6. ASSUME NEW r \in Rand, DrawWeight(r) PROVE IInv'
  BY <1>6, WeightInv
<1>7. ASSUME NEW r \in Rand, DrawTable(r) PROVE IInv'
  BY <1>7 DEF DrawTable, IInv, TypeOK, Account, Counted
<1>8. CASE Restore
  <2>1. quota' = [rate |-> quota.rate, times |-> quota.times, wins |-> quota.times]
    BY <1>8 DEF Restore, IInv, TypeOK
  <2> QED
    BY <1>1, <1>8, <2>1 DEF Restore, IInv, TypeOK, Account, Counted
<1>9. CASE FillTable
  BY <1>9 DEF FillTable, IInv, TypeOK, Account, Counted
<1>10. CASE Drop
  BY <1>1, <1>10 DEF Drop, NewSampling, IInv, TypeOK, Account, Counted
<1>11. CASE UNCHANGED vars
  BY <1>11 DEF vars, IInv, TypeOK, Account, Counted
<1> QED
  BY <1>2, <1>3, <1>4, <1>5, <1>6, <1>7, <1>8, <1>9, <1>10, <1>11 DEF Next

LEMMA Invariant == Spec => []IInv
BY InitInv, NextInv, PTL DEF Spec

(* Type correctness: a weight stays in the range in which one draw decides *)
(* about it, for every SAMPLE_TOTAL_TIMES.                                  *)
THEOREM TypeCorrect == Spec => []TypeOK
<1>1. IInv => TypeOK
  BY DEF IInv
<1> QED
  BY <1>1, Invariant, PTL

(* ndAccumulateWeightProb is never a whole draw ahead of its rates or       *)
(* behind, and ndSampling never wins more often than its rate says, however *)
(* long they go on and whatever rand() returns.                             *)
THEOREM DrawsCorrect == Spec => []DrawsFair
<1>1. IInv => DrawsFair
  <2> SUFFICES ASSUME IInv PROVE DrawsFair
    OBVIOUS
  <2>1. lucky \in Nat /\ base \in Int /\ owed \in Nat /\ T \in Nat
    BY TotalPositive DEF IInv, TypeOK
  <2>2. T * lucky \in Int /\ T * (lucky + 1) = T * lucky + T
    BY <2>1, OneMore
  <2>3. FairDraw
    BY <2>1, <2>2 DEF IInv, Account, FairDraw
  <2>4. AtMostRate
    BY DEF IInv, Counted, AtMostRate
  <2> QED
    BY <2>3, <2>4 DEF DrawsFair
<1> QED
  BY <1>1, Invariant, PTL

(* Nothing else in the composition draws: it is the specification of the   *)
(* objects that do.                                                        *)
LEMMA OnlySamplingDraws == MCSpec => Spec
<1>1. MCInit => Init
  BY DEF MCInit
<1>2. [MCNext]_<<part, vars, routingVars, rankVars>> => [Next]_vars
  BY DEF MCNext
<1> QED
  BY <1>1, <1>2, PTL DEF MCSpec, Spec

(* What is kept for the players stays within its types: the weights within *)
(* one draw of zero, every copy under way with a message that was sent, to *)
(* a host and a session there are.                                         *)
THEOREM TypesCorrect == MCSpec => []TypesOK
<1>1. TypeOK /\ Routing!TypeOK => TypesOK
  BY DEF TypesOK
<1> QED
  BY <1>1, OnlySamplingDraws, TypeCorrect, RoutingBegins, RoutingSteps, RoutingSays, PTL DEF MCSpec
===============================================================================
