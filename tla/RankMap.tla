------------------------------ MODULE RankMap ------------------------------
(***************************************************************************)
(* ApoRankMap (include/rankMap.h): a list of the best, of whom trytoAdd is *)
(* told one at a time.                                                     *)
(***************************************************************************)
EXTENDS Integers, Sequences, SequencesExt

CONSTANTS Index,     \* what the list is ordered by, numbers
          capacity,  \* how many it holds
          MaxOffers  \* bound: calls of trytoAdd

CapacityAssumption == Index \subseteq Int /\ capacity \in Nat \ {0}

VARIABLES m_data,  \* the list, of offers by their number
          offers,  \* the index of every offer made
          isOk     \* what trytoAdd returned last

vars == <<m_data, offers, isOk>>

Init == m_data = <<>> /\ offers = <<>> /\ isOk = FALSE

\* mutant: behind its equals
Place_behind(index) == {i \in DOMAIN m_data : index > offers[m_data[i]]}
\* Where the list has an index that is not larger.
Place(index) == {i \in DOMAIN m_data : index >= offers[m_data[i]]}

\* Into the list before the first such place, and the last one out of it when
\* there are too many; or behind the list when there is room.
trytoAdd(index) ==
  LET n == Len(offers) + 1
      at == Place(index)
      longer == InsertAt(m_data, CHOOSE i \in at : \A j \in at : i <= j, n)
  IN
  /\ n <= MaxOffers
  /\ offers' = Append(offers, index)
  /\ CASE m_data = <<>> -> m_data' = <<n>> /\ isOk' = TRUE
       [] m_data # <<>> /\ at # {} ->
            /\ m_data' = IF Len(longer) > capacity THEN Front(longer) ELSE longer
            /\ isOk' = TRUE
       [] m_data # <<>> /\ at = {} ->
            /\ m_data' = IF Len(m_data) < capacity THEN Append(m_data, n) ELSE m_data
            /\ isOk' = (Len(m_data) < capacity)

\* The list is thrown away.
Drop ==
  /\ Len(offers) = MaxOffers
  /\ m_data' = <<>> /\ offers' = <<>> /\ isOk' = FALSE

Next == (\E index \in Index : trytoAdd(index)) \/ Drop

Spec == Init /\ [][Next]_vars
----------------------------------------------------------------------------
Better(a, b) == offers[a] > offers[b] \/ (offers[a] = offers[b] /\ a > b)
Listed == {m_data[i] : i \in DOMAIN m_data}

\* The list holds the best of all that was ever offered, in order, the newer
\* first of those that are equal; and trytoAdd says whether its offer is there.
KeepsTop ==
  /\ Listed \subseteq DOMAIN offers
  /\ Len(m_data) = IF Len(offers) < capacity THEN Len(offers) ELSE capacity
  /\ \A i, j \in DOMAIN m_data : i < j => Better(m_data[i], m_data[j])
  /\ \A m \in Listed, n \in DOMAIN offers \ Listed : Better(m, n)
  /\ offers # <<>> => (isOk <=> Len(offers) \in Listed)
=============================================================================
