------------------------------ MODULE MCPlayers ------------------------------
(***************************************************************************)
(* What a server does for its players: it sends messages on to them, here  *)
(* and elsewhere (PlayerRouting), keeps lists of the best (RankMap), and   *)
(* draws (Sampling).  One of them at a time; the others stay as they       *)
(* began.                                                                  *)
(***************************************************************************)
EXTENDS Sampling

CONSTANTS Hosts, Players, Sids, MaxLogins, MaxMessages,  \* of PlayerRouting
          Index, capacity, MaxOffers                     \* of RankMap

VARIABLES part,
          link, sessions, player, m_player_map, sent, copies, got,
          m_data, offers, isOk

\* Tables to draw from.
MCTables == {<<1, 2>>, <<1, 1, 1>>, <<3, 0, 1>>}

Routing == INSTANCE PlayerRouting

ASSUME RoutingAssumption == Routing!NumbersAssumption

routingVars == <<link, sessions, player, m_player_map, sent, copies, got>>

Rank == INSTANCE RankMap

ASSUME RankAssumption == Rank!CapacityAssumption

rankVars == <<m_data, offers, isOk>>

----------------------------------------------------------------------------
MCInit ==
  /\ part \in {"routing", "rank", "sampling"}
  /\ Init /\ Routing!Init /\ Rank!Init

MCNext ==
  /\ UNCHANGED part
  /\ \/ part = "routing" /\ Routing!Next /\ UNCHANGED <<vars, rankVars>>
     \/ part = "rank" /\ Rank!Next /\ UNCHANGED <<vars, routingVars>>
     \/ part = "sampling" /\ Next /\ UNCHANGED <<routingVars, rankVars>>

MCSpec == MCInit /\ [][MCNext]_<<part, vars, routingVars, rankVars>>
----------------------------------------------------------------------------
\* The types of the objects that draw, and of what is under way to players.
TypesOK == TypeOK /\ Routing!TypeOK

\* A message for one player comes to no one else, one for all to each of them
\* once.
RoutedRight == Routing!RoutedRight

\* The rank list has the best of all that was offered.
KeepsTop == Rank!KeepsTop
=============================================================================
