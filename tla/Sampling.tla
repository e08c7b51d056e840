------------------------------ MODULE Sampling ------------------------------
(***************************************************************************)
(* Random sampling (srv_common/ndrand.h, ndrand.cpp): draws of an object   *)
(* that wins a number of times in SAMPLE_TOTAL_TIMES (ndSampling), of one  *)
(* that carries over what it has not won yet (ndAccumulateWeightProb), and *)
(* the choice of several entries of a table of weights (SamplingSpecial).  *)
(***************************************************************************)
EXTENDS Integers, FiniteSets, Sequences

CONSTANTS SAMPLE_TOTAL_TIMES,
          RAND_MAX, Rand,  \* rand() returns one of Rand, which RAND_MAX bounds
          Rates,           \* rates objects are given
          Tables,          \* tables of weights
          MaxDraws         \* bound: draws of an object

ASSUME TotalAssumption == SAMPLE_TOTAL_TIMES \in Nat \ {0}
ASSUME RandAssumption == RAND_MAX \in Nat \ {0} /\ Rand \subseteq 0..RAND_MAX
ASSUME RatesAssumption == Rates \subseteq 1..SAMPLE_TOTAL_TIMES

VARIABLES quota,   \* ndSampling
          goal, won,    \* the rate it was given, and what it has won since
          weight,  \* ndAccumulateWeightProb
          base, owed, lucky, \* its first weight, the rates added since, and the draws it won
          table,   \* SamplingSpecial: the table, pTmpBuf, what it still has to find and to try
          draws    \* draws so far

vars == <<quota, goal, won, weight, base, owed, lucky, table, draws>>

\* The last value of the range has a share like any other, and one more
\* follows when rand() is RAND_MAX.
ndrand_range(low, high, r) ==
  IF low = high THEN low ELSE low + (r * (high - low + 1)) \div RAND_MAX

ProbSampling1(rate, r) ==
  rate >= SAMPLE_TOTAL_TIMES \/ rate >= ndrand_range(0, SAMPLE_TOTAL_TIMES, r)

NewSampling == [rate |-> 0, times |-> 0, wins |-> 0]

\* Weights before and up to the i-th, which is index i - 1.
UpTo(prob) ==
  LET sum[i \in 0..Len(prob)] == IF i = 0 THEN 0 ELSE sum[i - 1] + prob[i] IN sum

\* ProbSampling: the first index whose weights reach the draw, or num when
\* the draw is beyond all of them.
ProbSampling(prob, r) ==
  LET num == Len(prob)
      sampled == ndrand_range(0, UpTo(prob)[num] - 1, r)
      hit == {i \in 1..num : sampled < UpTo(prob)[i]}
  IN IF hit = {} THEN num ELSE (CHOOSE i \in hit : \A j \in hit : i <= j) - 1

NoTable == [prob |-> <<>>, want |-> 0, marked |-> {}, tries |-> 0, result |-> {}, at |-> "none"]

Init ==
  /\ quota = NewSampling /\ goal = 0 /\ won = 0
  /\ weight = [rate |-> 0, cur |-> 0] /\ base = 0 /\ owed = 0 /\ lucky = 0
  /\ table = NoTable
  /\ draws = 0

Fresh == draws = 0 /\ quota = NewSampling /\ weight.rate = 0 /\ table = NoTable

----------------------------------------------------------------------------
(* ndSampling                                                              *)

InitSampling(rate) ==
  /\ Fresh
  /\ quota' = [rate |-> rate, times |-> 0, wins |-> 0]
  /\ goal' = rate /\ won' = 0
  /\ UNCHANGED <<weight, base, owed, lucky, table, draws>>

\* Saved and made again of what the getters return: both return the draws.
Restore ==
  /\ quota.rate > 0
  /\ quota' = [quota EXCEPT !.wins = quota.times]
  /\ UNCHANGED <<goal, won, weight, base, owed, lucky, table, draws>>

\* A win that had to be is not counted, nor does it need to.
QuotaWins(r) ==
  LET left_success == quota.rate - quota.wins
      left_times == SAMPLE_TOTAL_TIMES - quota.wins
      win == ProbSampling1(quota.rate, r)
  IN IF left_success <= 0 THEN [win |-> FALSE, counted |-> 0]
     ELSE IF left_times <= left_success THEN [win |-> TRUE, counted |-> 0]
     ELSE [win |-> win, counted |-> IF win THEN 1 ELSE 0]

\* ndSampling::doSampling: after the last draw of a round the object is reset
\* with its rate.
DrawQuota(r) ==
  /\ goal > 0 /\ draws < MaxDraws
  /\ quota' = IF quota.times + 1 >= SAMPLE_TOTAL_TIMES THEN NewSampling
              ELSE [quota EXCEPT !.times = @ + 1, !.wins = @ + QuotaWins(r).counted]
  /\ won' = IF QuotaWins(r).win THEN won + 1 ELSE won
  /\ draws' = draws + 1
  /\ UNCHANGED <<goal, weight, base, owed, lucky, table>>

----------------------------------------------------------------------------
(* ndAccumulateWeightProb                                                  *)

InitWeight(rate, curWeight) ==
  /\ Fresh
  /\ weight' = [rate |-> rate, cur |-> curWeight]
  /\ base' = curWeight /\ owed' = 0 /\ lucky' = 0
  /\ UNCHANGED <<quota, goal, won, table, draws>>

\* mutant: who wins begins at zero
Paid_zero(cur) == 0
Paid(cur) == cur - SAMPLE_TOTAL_TIMES

\* ndAccumulateWeightProb::doSampling
DrawWeight(r) ==
  LET cur == weight.cur + weight.rate
      win == cur > 0 /\ ProbSampling1(cur, r)
  IN
  /\ weight.rate > 0 /\ draws < MaxDraws
  /\ weight' = [weight EXCEPT !.cur = IF win THEN Paid(cur) ELSE cur]
  /\ owed' = owed + weight.rate
  /\ lucky' = IF win THEN lucky + 1 ELSE lucky
  /\ draws' = draws + 1
  /\ UNCHANGED <<quota, goal, won, base, table>>

----------------------------------------------------------------------------
(* SamplingSpecial                                                         *)

Indices(t) == 0..(Len(t.prob) - 1)

\* All of the table when it is not larger than what is asked for.
SamplingSpecial(prob, res_num) ==
  /\ Fresh
  /\ LET t == [NoTable EXCEPT !.prob = prob, !.want = res_num, !.tries = 2 * Len(prob), !.at = "draw"] IN
       table' = IF res_num >= Len(prob) THEN [t EXCEPT !.result = Indices(t), !.at = "done"] ELSE t
  /\ UNCHANGED <<quota, goal, won, weight, base, owed, lucky, draws>>

\* One turn of the loop; pTmpBuf has room for an index behind the table.
DrawTable(r) ==
  /\ table.at = "draw"
  /\ LET marked == table.marked \cup {ProbSampling(table.prob, r)} IN
       table' = [table EXCEPT !.marked = marked, !.tries = @ - 1,
                              !.at = IF Cardinality(marked) < table.want /\ table.tries > 1
                                     THEN "draw" ELSE "fill"]
  /\ UNCHANGED <<quota, goal, won, weight, base, owed, lucky, draws>>

\* What is missing is taken from the front of the table.
Filled(t) ==
  LET free == Indices(t) \ t.marked
      missing == t.want - Cardinality(t.marked)
  IN t.marked \cup {i \in free : Cardinality({j \in free : j < i}) < missing}

FillTable ==
  /\ table.at = "fill"
  /\ table' = [table EXCEPT !.marked = Filled(table), !.result = Filled(table) \cap Indices(table),
                            !.at = "done"]
  /\ UNCHANGED <<quota, goal, won, weight, base, owed, lucky, draws>>

\* The object is used no more.
Drop ==
  /\ draws = MaxDraws \/ table.at = "done"
  /\ quota' = NewSampling /\ goal' = 0 /\ won' = 0
  /\ weight' = [rate |-> 0, cur |-> 0] /\ base' = 0 /\ owed' = 0 /\ lucky' = 0
  /\ table' = NoTable /\ draws' = 0

Next ==
  \/ \E rate \in Rates : InitSampling(rate)
  \/ \E rate \in Rates, cur \in (1 - SAMPLE_TOTAL_TIMES)..(SAMPLE_TOTAL_TIMES - 1) : InitWeight(rate, cur)
  \/ \E prob \in Tables : \E n \in 1..Len(prob) : SamplingSpecial(prob, n)
  \/ \E r \in Rand : DrawQuota(r) \/ DrawWeight(r) \/ DrawTable(r)
  \/ Restore \/ FillTable \/ Drop

Spec == Init /\ [][Next]_vars
----------------------------------------------------------------------------
\* The objects hold numbers, and a weight never leaves the range in which one
\* draw decides about it, so its 16 bits are enough.
TypeOK ==
  /\ quota \in [rate : Nat, times : Nat, wins : Nat] /\ quota.rate <= SAMPLE_TOTAL_TIMES
  /\ weight \in [rate : 0..SAMPLE_TOTAL_TIMES,
                 cur : (1 - SAMPLE_TOTAL_TIMES)..(SAMPLE_TOTAL_TIMES - 1)]
  /\ goal \in 0..SAMPLE_TOTAL_TIMES /\ won \in Nat
  /\ base \in Int /\ owed \in Nat /\ lucky \in Nat
  /\ draws \in Nat

\* The draws won with ndAccumulateWeightProb are what the rates are worth: it
\* is never a whole draw ahead or behind, however long it goes on.
FairDraw ==
  LET due == base + owed IN
  /\ SAMPLE_TOTAL_TIMES * lucky < due + SAMPLE_TOTAL_TIMES
  /\ due < SAMPLE_TOTAL_TIMES * (lucky + 1)

\* ndSampling wins no more often than its rate says, in its round and after
\* it, also when it is saved and restored in between.
AtMostRate == won <= goal

\* Both objects that remember their draws keep to their rates.
DrawsFair == FairDraw /\ AtMostRate

\* SamplingSpecial returns as many entries of the table as it is asked for
\* (ndrand.h:44).
GivesAsAsked == table.at = "done" => Cardinality(table.result) = table.want
=============================================================================
