----------------------------- MODULE MCStat_proofs -----------------------------
(***************************************************************************)
(* Proofs about StatMachine, StatHold and the composition of the two that  *)
(* MCStat is, for every table, every number of slots, every width of the   *)
(* reference counts and every set of owners.  BooksOK is the inductive     *)
(* heart: what the three caches say about a given set A of active          *)
(* sub-states.                                                             *)
(***************************************************************************)
EXTENDS MCStat, FiniteSetTheorems, TLAPS

BooksType(b) ==
  /\ b = [refcount |-> b.refcount, forbid |-> b.forbid, raisers |-> b.raisers]
  /\ b.refcount \in [State -> 0 .. RefMod - 1]
  /\ b.forbid \in [Forbid -> Nat]
  /\ b.raisers \in [Forbid -> SUBSET State]

ForbidOK(b, A, f) ==
  /\ b.forbid[f] = Cardinality(A \cap Raising(f))
  /\ b.raisers[f] \subseteq A \cap Raising(f)
  /\ Cardinality(b.raisers[f]) <= Slots
  /\ Cardinality(Raising(f)) <= Slots => b.raisers[f] = A \cap Raising(f)

BooksOK(b, A) == BooksType(b) /\ \A f \in Forbid : ForbidOK(b, A, f)

CoreInv == /\ m_stbuf \subseteq State
           /\ \A f \in ValField : \E s \in State : Value(f) = {s}
           /\ BooksOK(Books, m_stbuf)

IInv == CoreInv /\ ret \in BOOLEAN

-----------------------------------------------------------------------------
(* Every set of sub-states is finite.                                      *)
LEMMA StateFinite ==
  ASSUME NEW S, S \subseteq State
  PROVE  IsFiniteSet(S) /\ Cardinality(S) \in Nat
<1>1. IsFiniteSet(State)
  BY TableAssumption, FS_Interval DEF State
<1>2. IsFiniteSet(S)
  BY <1>1, FS_Subset
<1> QED
  BY <1>2, FS_CardinalityType

(* A non-empty set of sub-states has a highest member.                     *)
LEMMA Highest ==
  ASSUME NEW T, T \subseteq State, T # {}
  PROVE  \E t \in T : \A u \in T : u <= t
<1> DEFINE above(t) == {u \in T : u > t}
           F == {above(t) : t \in T}
<1>1. IsFiniteSet(T)
  BY StateFinite
<1>2. F \subseteq FiniteSubsetsOf(T)
  BY <1>1, FS_FiniteSubsetsOfFinite
<1>3. F # {}
  <2>1. PICK t0 : t0 \in T
    OBVIOUS
  <2>2. above(t0) \in F
    BY <2>1
  <2> QED
    BY <2>2
<1>4. IsWellFoundedOn(StrictSubsetOrdering(T), FiniteSubsetsOf(T))
  BY FS_StrictSubsetOrderingWellFounded
<1> HIDE DEF F
<1>5. PICK x \in F : \A y \in F : ~ (<<y, x>> \in StrictSubsetOrdering(T))
  BY <1>2, <1>3, <1>4, WFMin
<1>6. PICK t \in T : x = above(t)
  BY DEF F
<1>7. ASSUME NEW u \in T, u > t PROVE FALSE
  <2>1. above(u) \in F
    BY DEF F
  <2>2. above(u) \subseteq above(t)
    <3>1. ASSUME NEW v \in T, v > u PROVE v > t
      BY <1>7, <3>1 DEF State
    <3> QED
      BY <3>1
  <2>3. u \in above(t) /\ u \notin above(u)
    BY <1>7 DEF State
  <2>4. <<above(u), above(t)>> \in StrictSubsetOrdering(T)
    BY <2>2, <2>3 DEF StrictSubsetOrdering
  <2> QED
    BY <1>5, <1>6, <2>1, <2>4
<1> QED
  BY <1>7 DEF State

(* The k lowest members are members, no more than k, and all of them when  *)
(* the set has no more than k.                                             *)
LEMMA LowestOfFacts ==
  ASSUME NEW S, S \subseteq State, NEW k \in Int
  PROVE  /\ LowestOf(S, k) \subseteq S
         /\ k >= 0 => Cardinality(LowestOf(S, k)) <= k
         /\ Cardinality(S) <= k => LowestOf(S, k) = S
<1> DEFINE below(s) == {t \in S : t < s}
           T == LowestOf(S, k)
<1>0. T \subseteq S
  BY DEF LowestOf
<1>1. ASSUME Cardinality(S) <= k, NEW s \in S
      PROVE  Cardinality(below(s)) < k
  <2>1. below(s) \subseteq S \ {s}
    BY DEF State
  <2>2. /\ IsFiniteSet(S) /\ Cardinality(S) \in Nat
        /\ Cardinality(S \ {s}) \in Nat /\ IsFiniteSet(S \ {s})
        /\ Cardinality(below(s)) \in Nat
    BY StateFinite
  <2>3. Cardinality(S \ {s}) = Cardinality(S) - 1
    BY <2>2, FS_RemoveElement
  <2>4. Cardinality(below(s)) <= Cardinality(S \ {s})
    BY <2>1, <2>2, FS_Subset
  <2> QED
    BY <1>1, <2>2, <2>3, <2>4
<1>2. ASSUME k >= 0 PROVE Cardinality(T) <= k
  <2>1. CASE T = {}
    BY <1>2, <2>1, FS_EmptySet
  <2>2. CASE T # {}
    <3>1. PICK t \in T : \A u \in T : u <= t
      BY <1>0, <2>2, Highest
    <3>2. T \ {t} \subseteq below(t)
      <4>1. ASSUME NEW v \in T, v # t PROVE v \in S /\ v < t
        <5>1. v \in Int /\ t \in Int /\ v <= t
          <6> HIDE DEF T
          <6> QED
            BY <1>0, <3>1 DEF State
        <5> QED
          BY <1>0, <4>1, <5>1
      <4> QED
        BY <4>1
    <3>3. /\ IsFiniteSet(below(t)) /\ Cardinality(below(t)) \in Nat
          /\ IsFiniteSet(T) /\ Cardinality(T) \in Nat
          /\ Cardinality(T \ {t}) \in Nat
      <4>1. below(t) \subseteq State /\ T \subseteq State /\ T \ {t} \subseteq State
        BY <1>0
      <4> HIDE DEF T, below
      <4> QED
        BY <4>1, StateFinite
    <3>4. Cardinality(T \ {t}) = Cardinality(T) - 1
      BY <3>1, <3>3, FS_RemoveElement
    <3>5. Cardinality(T \ {t}) <= Cardinality(below(t))
      BY <3>2, <3>3, FS_Subset
    <3>6. Cardinality(below(t)) < k
      BY <3>1 DEF LowestOf
    <3> QED
      BY <3>3, <3>4, <3>5, <3>6
  <2> QED
    BY <2>1, <2>2
<1> QED
  BY <1>0, <1>1, <1>2 DEF LowestOf

-----------------------------------------------------------------------------
(* on_status_set keeps the caches in step with the active sub-states.      *)
LEMMA EnterKeepsBooks ==
  ASSUME NEW A, NEW S, A \subseteq State, S \subseteq State, S \cap A = {},
         NEW b, BooksOK(b, A)
  PROVE  BooksOK(on_status_set(b, S), A \cup S)
<1> DEFINE n == on_status_set(b, S)
<1>1. BooksType(n)
  <2>1. \A s \in State : n.refcount[s] \in 0 .. RefMod - 1
    BY TableAssumption DEF BooksOK, BooksType, on_status_set
  <2>2. \A f \in Forbid : Cardinality(S \cap Raising(f)) \in Nat
    BY StateFinite DEF Raising
  <2>3. \A f \in Forbid : n.forbid[f] \in Nat
    BY <2>2 DEF BooksOK, BooksType, on_status_set
  <2>4. \A f \in Forbid : n.raisers[f] \subseteq State
    BY DEF BooksOK, BooksType, on_status_set, LowestOf
  <2> QED
    BY <2>1, <2>3, <2>4 DEF BooksType, on_status_set
<1>2. ASSUME NEW f \in Forbid PROVE ForbidOK(n, A \cup S, f)
  <2> DEFINE R == Raising(f)
             L == LowestOf(S \cap R, Slots - Cardinality(b.raisers[f]))
  <2>1. ForbidOK(b, A, f) /\ b.forbid[f] \in Nat /\ b.raisers[f] \subseteq State
    BY DEF BooksOK, BooksType
  <2>2. n.forbid[f] = b.forbid[f] + Cardinality(S \cap R)
    BY DEF on_status_set
  <2>3. n.raisers[f] = b.raisers[f] \cup L
    BY DEF on_status_set
  <2>4. /\ R \subseteq State
        /\ IsFiniteSet(R) /\ Cardinality(R) \in Nat
        /\ IsFiniteSet(A \cap R) /\ Cardinality(A \cap R) \in Nat
        /\ IsFiniteSet(S \cap R) /\ Cardinality(S \cap R) \in Nat
        /\ IsFiniteSet(b.raisers[f]) /\ Cardinality(b.raisers[f]) \in Nat
    <3>1. R \subseteq State
      BY DEF Raising
    <3> QED
      BY <2>1, <3>1, StateFinite
  <2>5. (A \cup S) \cap R = (A \cap R) \cup (S \cap R)
    OBVIOUS
  <2>6. Cardinality((A \cup S) \cap R) = Cardinality(A \cap R) + Cardinality(S \cap R)
    <3>1. (A \cap R) \cap (S \cap R) = {}
      OBVIOUS
    <3> QED
      BY <2>4, <2>5, <3>1, FS_Union, FS_EmptySet
  <2>7. Slots - Cardinality(b.raisers[f]) \in Nat
    BY <2>1, <2>4, TableAssumption DEF ForbidOK
  <2>8. /\ L \subseteq S \cap R
        /\ Cardinality(L) <= Slots - Cardinality(b.raisers[f])
        /\ Cardinality(S \cap R) <= Slots - Cardinality(b.raisers[f]) => L = S \cap R
    <3> DEFINE k == Slots - Cardinality(b.raisers[f])
    <3>1. S \cap R \subseteq State /\ k \in Int /\ k >= 0
      BY <2>4, <2>7
    <3>2. L = LowestOf(S \cap R, k)
      OBVIOUS
    <3>3. /\ LowestOf(S \cap R, k) \subseteq S \cap R
          /\ Cardinality(LowestOf(S \cap R, k)) <= k
          /\ Cardinality(S \cap R) <= k => LowestOf(S \cap R, k) = S \cap R
      <4> HIDE DEF k, R, L
      <4> QED
        BY <3>1, LowestOfFacts
    <3> HIDE DEF L, R
    <3> QED
      BY <3>2, <3>3
  <2>9. Cardinality(b.raisers[f] \cup L) <= Slots
    <3>1. L \subseteq State /\ IsFiniteSet(L) /\ Cardinality(L) \in Nat
      BY <2>4, <2>8, StateFinite
    <3>2. b.raisers[f] \cap L = {}
      BY <2>1, <2>8 DEF ForbidOK
    <3>3. Cardinality(b.raisers[f] \cup L) = Cardinality(b.raisers[f]) + Cardinality(L)
      <4> HIDE DEF L
      <4> QED
        BY <2>4, <3>1, <3>2, FS_Union, FS_EmptySet
    <3> QED
      BY <2>4, <2>8, <3>1, <3>3, TableAssumption
  <2>10. ASSUME Cardinality(R) <= Slots
         PROVE  n.raisers[f] = (A \cup S) \cap R
    <3>1. b.raisers[f] = A \cap R
      BY <2>1, <2>10 DEF ForbidOK
    <3>2. Cardinality((A \cup S) \cap R) <= Cardinality(R)
      BY <2>4, FS_Subset
    <3>3. Cardinality(S \cap R) <= Slots - Cardinality(b.raisers[f])
      BY <2>4, <2>6, <2>10, <3>1, <3>2, TableAssumption
    <3> QED
      BY <2>3, <2>5, <2>8, <3>1, <3>3
  <2> HIDE DEF n
  <2> QED
    BY <2>1, <2>2, <2>3, <2>6, <2>8, <2>9, <2>10 DEF ForbidOK
<1> QED
  BY <1>1, <1>2 DEF BooksOK

(* on_status_clear keeps the caches in step with the active sub-states:    *)
(* the counters are high enough for every decrement to happen.             *)
LEMMA LeaveKeepsBooks ==
  ASSUME NEW A, NEW S, A \subseteq State, S \subseteq A,
         NEW b, BooksOK(b, A)
  PROVE  BooksOK(on_status_clear(b, S), A \ S)
<1> DEFINE n == on_status_clear(b, S)
<1>1. ASSUME NEW f \in Forbid
      PROVE  /\ LowestOf(S \cap Raising(f), b.forbid[f]) = S \cap Raising(f)
             /\ Cardinality((A \ S) \cap Raising(f))
                  = b.forbid[f] - Cardinality(S \cap Raising(f))
             /\ Cardinality((A \ S) \cap Raising(f)) \in Nat
  <2> DEFINE R == Raising(f)
  <2>1. ForbidOK(b, A, f) /\ b.forbid[f] \in Nat
    BY DEF BooksOK, BooksType
  <2>2. R \subseteq State /\ S \cap R \subseteq State
    BY DEF Raising
  <2>3. /\ IsFiniteSet(A \cap R) /\ Cardinality(A \cap R) \in Nat
        /\ IsFiniteSet(S \cap R) /\ Cardinality(S \cap R) \in Nat
        /\ Cardinality((A \ S) \cap R) \in Nat
    BY <2>2, StateFinite
  <2>4. (A \cap R) \ (S \cap R) = (A \ S) \cap R /\ (A \cap R) \cap (S \cap R) = S \cap R
    OBVIOUS
  <2>5. Cardinality(S \cap R) <= Cardinality(A \cap R)
    BY <2>3, FS_Subset
  <2>6. LowestOf(S \cap R, b.forbid[f]) = S \cap R
    <3>1. b.forbid[f] \in Int /\ Cardinality(S \cap R) <= b.forbid[f]
      BY <2>1, <2>3, <2>5 DEF ForbidOK
    <3> HIDE DEF R
    <3> QED
      BY <2>2, <3>1, LowestOfFacts
  <2>7. Cardinality((A \cap R) \ (S \cap R)) = Cardinality(A \cap R) - Cardinality(S \cap R)
    <3>1. Cardinality((A \cap R) \ (S \cap R))
            = Cardinality(A \cap R) - Cardinality((A \cap R) \cap (S \cap R))
      <4> HIDE DEF R
      <4> QED
        BY <2>3, FS_Difference
    <3> QED
      BY <2>4, <3>1
  <2> QED
    BY <2>1, <2>3, <2>4, <2>6, <2>7 DEF ForbidOK
<1>2. \A f \in Forbid : /\ n.forbid[f] = b.forbid[f] - Cardinality(S \cap Raising(f))
                        /\ n.raisers[f] = b.raisers[f] \ (S \cap Raising(f))
  BY <1>1 DEF on_status_clear
<1>3. BooksType(n)
  <2>1. \A s \in State : n.refcount[s] \in 0 .. RefMod - 1
    BY TableAssumption DEF BooksOK, BooksType, on_status_clear
  <2>2. \A f \in Forbid : n.forbid[f] \in Nat
    BY <1>1, <1>2
  <2>3. \A f \in Forbid : n.raisers[f] \subseteq State
    BY <1>2 DEF BooksOK, BooksType
  <2> QED
    BY <2>1, <2>2, <2>3 DEF BooksType, on_status_clear
<1>4. ASSUME NEW f \in Forbid PROVE ForbidOK(n, A \ S, f)
  <2>1. ForbidOK(b, A, f) /\ b.raisers[f] \subseteq State
    BY DEF BooksOK, BooksType
  <2>2. Cardinality(b.raisers[f] \ (S \cap Raising(f))) <= Slots
    <3>1. IsFiniteSet(b.raisers[f]) /\ Cardinality(b.raisers[f]) \in Nat
      BY <2>1, StateFinite
    <3>2. Cardinality(b.raisers[f] \ (S \cap Raising(f))) \in Nat
      BY <2>1, StateFinite
    <3>3. Cardinality(b.raisers[f] \ (S \cap Raising(f))) <= Cardinality(b.raisers[f])
      BY <3>1, FS_Subset
    <3> QED
      BY <2>1, <3>1, <3>2, <3>3, TableAssumption DEF ForbidOK
  <2> HIDE DEF n
  <2> QED
    BY <1>1, <1>2, <2>1, <2>2 DEF ForbidOK
<1> QED
  BY <1>3, <1>4 DEF BooksOK

(* The reference counts do not touch the forbids.                          *)
LEMMA ReferencesKeepBooks ==
  ASSUME NEW A, NEW S, NEW b, BooksOK(b, A)
  PROVE  BooksOK(AddReference(b, S), A) /\ BooksOK(DropReference(b, S), A)
<1> DEFINE add == AddReference(b, S)  drop == DropReference(b, S)
<1>1. \A x \in Int : x % RefMod \in 0 .. RefMod - 1
  BY TableAssumption
<1>2. BooksType(b)
  BY DEF BooksOK
<1>3. /\ add = [refcount |-> add.refcount, forbid |-> b.forbid, raisers |-> b.raisers]
      /\ drop = [refcount |-> drop.refcount, forbid |-> b.forbid, raisers |-> b.raisers]
  BY <1>2 DEF BooksType, AddReference, DropReference
<1>4. /\ add.refcount \in [State -> 0 .. RefMod - 1]
      /\ drop.refcount \in [State -> 0 .. RefMod - 1]
  BY <1>1, <1>2, TableAssumption DEF BooksType, AddReference, DropReference
<1>5. BooksType(add) /\ BooksType(drop)
  <2> HIDE DEF add, drop
  <2> QED
    BY <1>2, <1>3, <1>4 DEF BooksType
<1>6. \A f \in Forbid : ForbidOK(add, A, f) /\ ForbidOK(drop, A, f)
  <2> HIDE DEF add, drop
  <2> QED
    BY <1>3 DEF ForbidOK, BooksOK
<1> QED
  BY <1>5, <1>6 DEF BooksOK

-----------------------------------------------------------------------------
(* Writing caches that fit the new active sub-states keeps the invariant.  *)
LEMMA WriteBooks ==
  ASSUME NEW b, BooksOK(b, m_stbuf'), SetBooks(b)
  PROVE  BooksOK(Books, m_stbuf)'
<1>1. Books' = b
  BY DEF BooksOK, BooksType, SetBooks, Books
<1>2. BooksOK(Books', m_stbuf')
  BY <1>1
<1> QED
  BY <1>2 DEF BooksOK, BooksType, ForbidOK, Raising, Books

LEMMA KeepBooks ==
  ASSUME CoreInv, UNCHANGED <<m_stbuf, books>>
  PROVE  CoreInv'
BY DEF CoreInv, books, Value, BooksOK, BooksType, ForbidOK, Books

(* A change of the sub-states of bit field f leaves the value fields.      *)
LEMMA OtherFields ==
  ASSUME CoreInv, NEW f \in BitField, NEW V, V \subseteq Sub(f),
         m_stbuf' \subseteq m_stbuf \cup V, m_stbuf \subseteq m_stbuf' \cup Sub(f)
  PROVE  /\ m_stbuf' \subseteq State
         /\ \A g \in ValField : \E s \in State : Value(g)' = {s}
<1>1. V \subseteq State
  BY DEF Sub
<1>2. \A g \in ValField : Value(g)' = Value(g)
  BY DEF ValField, Value, Sub
<1> QED
  BY <1>1, <1>2 DEF CoreInv

LEMMA AssignValueStep ==
  ASSUME CoreInv, NEW f \in ValField, NEW s \in Sub(f), AssignValue(f, s)
  PROVE  CoreInv'
<1>1. s \in State /\ FieldOf[s] = f /\ s \in m_stbuf'
  BY DEF Sub, AssignValue
<1>2. m_stbuf' \subseteq State
  BY <1>1 DEF AssignValue, CoreInv
<1>3. Value(f)' = {s}
  BY <1>1 DEF AssignValue, Value, Sub
<1>4. ASSUME NEW g \in ValField, g # f PROVE Value(g)' = Value(g)
  BY <1>1, <1>4 DEF AssignValue, Value, Sub
<1>5. \A g \in ValField : \E t \in State : Value(g)' = {t}
  BY <1>1, <1>3, <1>4 DEF CoreInv
<1>6. BooksOK(Books, m_stbuf)'
  <2>1. CASE Value(f) = {s}
    <3>1. m_stbuf' = m_stbuf /\ UNCHANGED books
      BY <2>1 DEF AssignValue, Value
    <3> QED
      BY <3>1, KeepBooks DEF CoreInv
  <2>2. CASE Value(f) # {s}
    <3> DEFINE b1 == on_status_clear(Books, Value(f))
               b2 == on_status_set(b1, {s})
    <3>1. s \notin m_stbuf
      BY <1>1, <2>2 DEF CoreInv, Value, Sub
    <3>2. SetBooks(b2)
      BY <2>2 DEF AssignValue
    <3>3. BooksOK(b1, m_stbuf \ Value(f))
      <4>1. Value(f) \subseteq m_stbuf /\ m_stbuf \subseteq State
        BY DEF Value, CoreInv
      <4> QED
        BY <4>1, LeaveKeepsBooks DEF CoreInv
    <3>4. BooksOK(b2, m_stbuf')
      <4>1. /\ m_stbuf \ Value(f) \subseteq State
            /\ {s} \subseteq State
            /\ {s} \cap (m_stbuf \ Value(f)) = {}
        BY <1>1, <3>1 DEF CoreInv
      <4>2. m_stbuf' = (m_stbuf \ Value(f)) \cup {s}
        BY DEF AssignValue
      <4> HIDE DEF b1
      <4> QED
        BY <3>3, <4>1, <4>2, EnterKeepsBooks
    <3> HIDE DEF b2
    <3> QED
      BY <3>2, <3>4, WriteBooks
  <2> QED
    BY <2>1, <2>2
<1> QED
  BY <1>2, <1>5, <1>6 DEF CoreInv

LEMMA SetBitsStep ==
  ASSUME CoreInv, NEW f \in BitField, NEW V, V \subseteq Sub(f), SetBits(V)
  PROVE  CoreInv'
<1> DEFINE b1 == on_status_set(Books, V \ m_stbuf)
           b2 == AddReference(b1, V \cap m_stbuf)
<1>1. SetBooks(b2) /\ m_stbuf' = m_stbuf \cup V
  BY DEF SetBits
<1>2. V \subseteq State /\ m_stbuf \cup (V \ m_stbuf) = m_stbuf'
  BY <1>1 DEF Sub
<1>3. BooksOK(b1, m_stbuf')
  <2>1. /\ m_stbuf \subseteq State /\ V \ m_stbuf \subseteq State
        /\ (V \ m_stbuf) \cap m_stbuf = {}
    BY <1>2 DEF CoreInv
  <2>2. BooksOK(b1, m_stbuf \cup (V \ m_stbuf))
    BY <2>1, EnterKeepsBooks DEF CoreInv
  <2> QED
    BY <1>2, <2>2
<1>4. BooksOK(b2, m_stbuf')
  <2> HIDE DEF b1
  <2> QED
    BY <1>3, ReferencesKeepBooks
<1>5. BooksOK(Books, m_stbuf)'
  <2> HIDE DEF b2
  <2> QED
    BY <1>1, <1>4, WriteBooks
<1> QED
  BY <1>1, <1>5, OtherFields DEF CoreInv

LEMMA ClearBitsStep ==
  ASSUME CoreInv, NEW f \in BitField, NEW V, V \subseteq Sub(f), ClearBits(V)
  PROVE  CoreInv'
<1> DEFINE b1 == DropReference(Books, V \cap m_stbuf)
           gone == {s \in V \cap m_stbuf : b1.refcount[s] = 0}
           b2 == on_status_clear(b1, gone)
<1>1. SetBooks(b2) /\ m_stbuf' = m_stbuf \ gone
  BY DEF ClearBits
<1>2. gone \subseteq V /\ gone \subseteq m_stbuf
  OBVIOUS
<1>3. BooksOK(b1, m_stbuf)
  BY ReferencesKeepBooks DEF CoreInv
<1>4. BooksOK(b2, m_stbuf')
  <2>1. m_stbuf \subseteq State
    BY DEF CoreInv
  <2> HIDE DEF b1, gone
  <2> QED
    BY <1>1, <1>2, <1>3, <2>1, LeaveKeepsBooks
<1>5. BooksOK(Books, m_stbuf)'
  <2> HIDE DEF b2
  <2> QED
    BY <1>1, <1>4, WriteBooks
<1>6. m_stbuf' \subseteq m_stbuf \cup V /\ m_stbuf \subseteq m_stbuf' \cup Sub(f)
  <2> HIDE DEF gone
  <2> QED
    BY <1>1, <1>2
<1> QED
  BY <1>5, <1>6, OtherFields DEF CoreInv

LEMMA ReplaceBitsStep ==
  ASSUME CoreInv, NEW f \in BitField, NEW V, V \subseteq Sub(f), ReplaceBits(f, V)
  PROVE  CoreInv'
<1> DEFINE b1 == on_status_set(Books, V \ Value(f))
           b2 == on_status_clear(b1, Value(f) \ V)
<1>1. SetBooks(b2) /\ m_stbuf' = (m_stbuf \ Sub(f)) \cup V
  BY DEF ReplaceBits
<1>2. V \subseteq State /\ m_stbuf \subseteq State
  BY DEF Sub, CoreInv
<1>3. BooksOK(b1, m_stbuf \cup (V \ Value(f)))
  <2>1. (V \ Value(f)) \cap m_stbuf = {} /\ V \ Value(f) \subseteq State
    BY <1>2 DEF Value
  <2> QED
    BY <1>2, <2>1, EnterKeepsBooks DEF CoreInv
<1>4. BooksOK(b2, m_stbuf')
  <2>1. /\ m_stbuf \cup (V \ Value(f)) \subseteq State
        /\ Value(f) \ V \subseteq m_stbuf \cup (V \ Value(f))
        /\ (m_stbuf \cup (V \ Value(f))) \ (Value(f) \ V) = m_stbuf'
    BY <1>1, <1>2 DEF Value
  <2> DEFINE A == m_stbuf \cup (V \ Value(f))  S == Value(f) \ V
  <2>2. A \subseteq State /\ S \subseteq A /\ A \ S = m_stbuf' /\ BooksOK(b1, A)
    BY <1>3, <2>1
  <2>3. BooksOK(on_status_clear(b1, S), A \ S)
    <3> HIDE DEF b1, A, S
    <3> QED
      BY <2>2, LeaveKeepsBooks
  <2> QED
    BY <2>2, <2>3
<1>5. BooksOK(Books, m_stbuf)'
  <2> HIDE DEF b2
  <2> QED
    BY <1>1, <1>4, WriteBooks
<1> QED
  BY <1>1, <1>5, OtherFields DEF CoreInv

-----------------------------------------------------------------------------
LEMMA InitInv == Init => IInv
<1> SUFFICES ASSUME Init PROVE IInv
  OBVIOUS
<1>1. m_stbuf \subseteq State
  BY TableAssumption DEF Init
<1>2. \A f \in ValField : Value(f) = {DefaultStat[f]} /\ DefaultStat[f] \in State
  BY TableAssumption DEF Init, Value, Sub
<1>3. \A f \in Forbid : m_stbuf \cap Raising(f) = {}
  BY TableAssumption DEF Init, Raising
<1>4. BooksOK(Books, m_stbuf)
  <2>1. BooksType(Books)
    BY TableAssumption DEF Init, Books, BooksType
  <2>2. Cardinality({}) = 0
    BY FS_EmptySet
  <2>3. \A f \in Forbid : ForbidOK(Books, m_stbuf, f)
    <3>1. ASSUME NEW f \in Forbid
          PROVE  /\ Books.forbid[f] = 0 /\ Books.raisers[f] = {}
                 /\ m_stbuf \cap Raising(f) = {} /\ 0 <= Slots
      BY <1>3, TableAssumption DEF Init, Books
    <3> QED
      BY <2>2, <3>1 DEF ForbidOK
  <2> QED
    BY <2>1, <2>3 DEF BooksOK
<1> QED
  BY <1>1, <1>2, <1>4 DEF IInv, CoreInv, Init

(* SetStat and ClearStat, the value and the bit branch together.           *)
LEMMA SetStatStep ==
  ASSUME CoreInv, NEW f \in Field, NEW V, V \subseteq Sub(f), SetStat(f, V)
  PROVE  CoreInv'
BY AssignValueStep, SetBitsStep DEF SetStat

LEMMA ClearStatStep ==
  ASSUME CoreInv, NEW f \in Field, NEW V, V \subseteq Sub(f), ClearStat(f, V)
  PROVE  CoreInv'
<1>1. CASE f \in ValField /\ Value(f) = V /\ AssignValue(f, DefaultStat[f])
  <2>1. DefaultStat[f] \in Sub(f)
    BY <1>1, TableAssumption DEF Sub
  <2> QED
    BY <1>1, <2>1, AssignValueStep
<1>2. CASE f \in ValField /\ Value(f) # V /\ UNCHANGED <<m_stbuf, books>>
  BY <1>2, KeepBooks
<1>3. CASE f \in BitField /\ ClearBits(V)
  BY <1>3, ClearBitsStep
<1> QED
  BY <1>1, <1>2, <1>3 DEF ClearStat

LEMMA ReplaceStep ==
  ASSUME CoreInv, NEW f \in Field, NEW V, V \subseteq Sub(f), Replace(f, V)
  PROVE  CoreInv' /\ ret' = ret
BY AssignValueStep, ReplaceBitsStep DEF Replace

LEMMA NextInv == IInv /\ [Next]_vars => IInv'
<1> SUFFICES ASSUME IInv, [Next]_vars PROVE IInv'
  OBVIOUS
<1>0. CoreInv /\ ret \in BOOLEAN
  BY DEF IInv
<1>1. ASSUME NEW s \in State
      PROVE  FieldOf[s] \in Field /\ {s} \subseteq Sub(FieldOf[s])
  BY TableAssumption DEF Sub
<1>2. ASSUME NEW s \in State, SetByIndex(s) PROVE IInv'
  <2>1. SetStat(FieldOf[s], {s}) /\ ret' \in BOOLEAN
    BY <1>2 DEF SetByIndex
  <2> QED
    BY <1>0, <1>1, <2>1, SetStatStep DEF IInv
<1>3. ASSUME NEW s \in State, ClearByIndex(s) PROVE IInv'
  <2>1. ClearStat(FieldOf[s], {s}) /\ ret' \in BOOLEAN
    BY <1>3 DEF ClearByIndex
  <2> QED
    BY <1>0, <1>1, <2>1, ClearStatStep DEF IInv
<1>4. ASSUME NEW f \in BitField, NEW V, V \subseteq Sub(f), SetMany(f, V)
      PROVE  IInv'
  <2>1. f \in Field
    BY TableAssumption
  <2> QED
    BY <1>0, <1>4, <2>1, SetStatStep DEF SetMany, IInv
<1>5. ASSUME NEW f \in BitField, NEW V, V \subseteq Sub(f), ClearMany(f, V)
      PROVE  IInv'
  <2>1. f \in Field
    BY TableAssumption
  <2> QED
    BY <1>0, <1>5, <2>1, ClearStatStep DEF ClearMany, IInv
<1>6. ASSUME NEW f \in Field, NEW V, V \subseteq Sub(f), Replace(f, V)
      PROVE  IInv'
  BY <1>0, <1>6, ReplaceStep DEF IInv
<1>7. ASSUME NEW f \in Field, ClearField(f) PROVE IInv'
  <2> DEFINE V == IF f \in BitField THEN {} ELSE {DefaultStat[f]}
  <2>1. V \subseteq Sub(f)
    BY TableAssumption DEF Sub, ValField
  <2>2. Replace(f, V)
    BY <1>7 DEF ClearField
  <2> HIDE DEF V
  <2> QED
    BY <1>6, <2>1, <2>2
<1>8. CASE UNCHANGED vars
  BY <1>0, <1>8, KeepBooks DEF vars, IInv
<1> QED
  BY <1>2, <1>3, <1>4, <1>5, <1>6, <1>7, <1>8 DEF Next

THEOREM Inductive == Spec => []IInv
BY InitInv, NextInv, PTL DEF Spec

-----------------------------------------------------------------------------
(* The types of all variables, with exactly one active sub-state in every  *)
(* value field and no list of raisers over its slots, for every table.     *)
THEOREM TypeCorrect == Spec => []TypeOK
<1>1. IInv => TypeOK
  BY DEF IInv, CoreInv, TypeOK, BooksOK, BooksType, ForbidOK, Books
<1> QED
  BY <1>1, Inductive, PTL

(* The counter of every forbid is the number of active sub-states that     *)
(* raise it, for every table, whatever calls were made and however often   *)
(* the reference counts wrapped.                                           *)
THEOREM ForbidCountCorrect == Spec => []ForbidExact
<1>1. IInv => ForbidExact
  BY DEF IInv, CoreInv, ForbidExact, BooksOK, ForbidOK, Books
<1> QED
  BY <1>1, Inductive, PTL

(* The recorded raisers are active sub-states that raise the forbid, and   *)
(* all of them when the slots suffice for the table.                       *)
THEOREM ReasonCorrect == Spec => []ReasonExact
<1>1. IInv => ReasonExact
  BY DEF IInv, CoreInv, ReasonExact, BooksOK, ForbidOK, Books
<1> QED
  BY <1>1, Inductive, PTL

(* An operation is refused exactly while an active sub-state raises one of *)
(* the forbids that it checks.                                             *)
THEOREM OperateCorrect == Spec => []OperateExact
<1>1. IInv => OperateExact
  <2> SUFFICES ASSUME IInv, NEW op \in Operate
               PROVE  CheckOperate(op) <=> Culprits(op) = {}
    BY DEF OperateExact
  <2>1. m_stbuf \subseteq State /\ ForbidExact
    BY DEF IInv, CoreInv, ForbidExact, BooksOK, ForbidOK, Books
  <2>2. ASSUME NEW f \in Forbid
        PROVE  m_forbid_buf[f] > 0 <=> \E s \in m_stbuf : f \in ForbidList[s]
    <3>1. IsFiniteSet(m_stbuf \cap Raising(f)) /\ Cardinality(m_stbuf \cap Raising(f)) \in Nat
      BY <2>1, StateFinite
    <3>2. Cardinality(m_stbuf \cap Raising(f)) = 0 <=> m_stbuf \cap Raising(f) = {}
      BY <3>1, FS_EmptySet
    <3>3. m_forbid_buf[f] > 0 <=> m_stbuf \cap Raising(f) # {}
      BY <2>1, <3>1, <3>2 DEF ForbidExact
    <3> QED
      BY <2>1, <3>3 DEF Raising
  <2>3. \A s \in m_stbuf : ForbidList[s] \subseteq Forbid
    BY <2>1, TableAssumption
  <2> QED
    BY <2>2, <2>3 DEF CheckOperate, CheckForbids, CheckForbid, Culprits
<1> QED
  BY <1>1, Inductive, PTL
(* Both: the counters, and the answers that are taken from them.           *)
THEOREM BlockedCorrect == Spec => []BlockedExact
<1>1. ForbidExact /\ OperateExact => BlockedExact
  BY DEF BlockedExact
<1> QED
  BY <1>1, ForbidCountCorrect, OperateCorrect, PTL

(* What a single Set or Clear did, told from what it answered.             *)
LEMMA SetAnswersFalse ==
  ASSUME NEW s \in State, SetByIndex(s), ret' = FALSE
  PROVE  UNCHANGED m_stbuf
<1> DEFINE f == FieldOf[s]
<1>1. f \in Field /\ s \in Sub(f)
  BY TableAssumption DEF Sub
<1>2. SetStat(f, {s}) /\ (IF f \in ValField THEN Value(f) ELSE Value(f) \cap {s}) = Value(f)'
  BY DEF SetByIndex
<1>3. Value(f)' = m_stbuf' \cap Sub(f) /\ Value(f) = m_stbuf \cap Sub(f)
  BY DEF Value, Sub
<1> HIDE DEF f
<1>4. CASE f \in ValField
  <2>1. m_stbuf' = (m_stbuf \ Value(f)) \cup {s}
    BY <1>2, <1>4 DEF SetStat, AssignValue, ValField
  <2>2. Value(f)' = {s}
    BY <1>1, <1>3, <2>1
  <2>3. Value(f) = {s}
    BY <1>2, <1>4, <2>2
  <2> QED
    BY <1>3, <2>1, <2>3
<1>5. CASE f \notin ValField
  <2>1. m_stbuf' = m_stbuf \cup {s}
    BY <1>1, <1>2, <1>5 DEF SetStat, SetBits, ValField
  <2>2. s \in Value(f)'
    BY <1>1, <1>3, <2>1
  <2>3. s \in m_stbuf
    BY <1>2, <1>3, <1>5, <2>2
  <2> QED
    BY <2>1, <2>3
<1> QED
  BY <1>4, <1>5

LEMMA ClearAnswersFalse ==
  ASSUME NEW s \in State, ClearByIndex(s), ret' = FALSE
  PROVE  UNCHANGED m_stbuf
<1> DEFINE f == FieldOf[s]
<1>1. f \in Field /\ s \in Sub(f)
  BY TableAssumption DEF Sub
<1>2. ClearStat(f, {s}) /\ (IF f \in ValField THEN Value(f) ELSE Value(f) \ Value(f)') = Value(f)'
  BY DEF ClearByIndex
<1>3. Value(f)' = m_stbuf' \cap Sub(f) /\ Value(f) = m_stbuf \cap Sub(f)
  BY DEF Value, Sub
<1> HIDE DEF f
<1>4. CASE f \in ValField /\ Value(f) = {s}
  <2>1. m_stbuf' = (m_stbuf \ Value(f)) \cup {DefaultStat[f]} /\ DefaultStat[f] \in Sub(f)
    BY <1>2, <1>4, TableAssumption DEF ClearStat, AssignValue, ValField, Sub
  <2>2. Value(f)' = {DefaultStat[f]}
    BY <1>3, <2>1
  <2> QED
    BY <1>2, <1>3, <1>4, <2>1, <2>2
<1>5. CASE f \in ValField /\ Value(f) # {s}
  BY <1>2, <1>5 DEF ClearStat, ValField
<1>6. CASE f \notin ValField
  <2>1. PICK gone \in SUBSET {s} : gone \subseteq m_stbuf /\ m_stbuf' = m_stbuf \ gone
    BY <1>1, <1>2, <1>6 DEF ClearStat, ClearBits, ValField
  <2>2. s \notin gone
    BY <1>1, <1>2, <1>3, <1>6, <2>1
  <2> QED
    BY <2>1, <2>2
<1> QED
  BY <1>4, <1>5, <1>6

(* An answer FALSE is the truth, for every table: what the call compares   *)
(* is enough to see that nothing happened, in a value field (where Clear   *)
(* may fall back to the default that is set already) and in a bit field.   *)
THEOREM FalseCorrect == Spec => FalseMeansUnchanged
<1>1. [Next]_vars => [\A s \in State :
         (SetByIndex(s) \/ ClearByIndex(s)) /\ ret' = FALSE => UNCHANGED m_stbuf]_vars
  BY SetAnswersFalse, ClearAnswersFalse
<1> QED
  BY <1>1, PTL DEF Spec, FalseMeansUnchanged

-----------------------------------------------------------------------------
(* The reference count keeps a sub-state exactly as long as it has a       *)
(* holder, for every table and every set of at most RefMod owners.  The    *)
(* bound is exact: with one owner more the count of a sub-state they all   *)
(* hold comes round to 1, and the first Release drops it for the others.   *)
HoldInv == IInv /\ HoldTypeOK /\ HeldIffActive

(* What n holders are in the width of the counter.                         *)
LEMMA CountFacts ==
  ASSUME NEW n \in 0 .. RefMod
  PROVE  /\ n % RefMod = IF n = RefMod THEN 0 ELSE n
         /\ (0 - 1) % RefMod = RefMod - 1
<1>1. RefMod \in Nat /\ RefMod > 1
  BY TableAssumption
<1> QED
  BY <1>1

(* Writing the caches of AssignValue leaves the counted sub-states.        *)
LEMMA AssignEffect ==
  ASSUME CoreInv, NEW f \in ValField, NEW s \in Sub(f), AssignValue(f, s),
         NEW t \in Counted
  PROVE  m_refcount'[t] = m_refcount[t] /\ (t \in m_stbuf' <=> t \in m_stbuf)
<1>1. t \in State /\ FieldOf[t] # f /\ t \notin Value(f) /\ t # s
  BY DEF Counted, ValField, Value, Sub
<1>2. t \in m_stbuf' <=> t \in m_stbuf
  BY <1>1 DEF AssignValue
<1>3. m_refcount'[t] = m_refcount[t]
  BY <1>1 DEF AssignValue, books, SetBooks, on_status_set, on_status_clear, Books
<1> QED
  BY <1>2, <1>3

LEMMA SetEffect ==
  ASSUME CoreInv, NEW s \in State, SetByIndex(s)
  PROVE  /\ \A t \in Counted \ {s} : /\ m_refcount'[t] = m_refcount[t]
                                     /\ t \in m_stbuf' <=> t \in m_stbuf
         /\ s \in Counted =>
              /\ s \in m_stbuf'
              /\ m_refcount'[s] = IF s \in m_stbuf THEN (m_refcount[s] + 1) % RefMod
                                                   ELSE 1
<1> DEFINE f == FieldOf[s]
<1>1. f \in Field /\ s \in Sub(f)
  BY TableAssumption DEF Sub
<1>2. CASE f \in ValField
  <2>1. AssignValue(f, s)
    BY <1>2 DEF SetByIndex, SetStat, ValField
  <2>2. s \notin Counted
    BY <1>2 DEF Counted, ValField
  <2> QED
    BY <1>1, <1>2, <2>1, <2>2, AssignEffect
<1>3. CASE f \in BitField
  <2>1. SetBits({s})
    BY <1>3 DEF SetByIndex, SetStat, ValField
  <2>2. m_stbuf' = m_stbuf \cup {s}
    BY <2>1 DEF SetBits
  <2>3. ASSUME NEW t \in State
        PROVE  m_refcount'[t] =
                 IF t \notin {s} \cap m_stbuf
                 THEN IF t \in {s} \ m_stbuf THEN 1 ELSE m_refcount[t]
                 ELSE IF t \in NeedCounter THEN (m_refcount[t] + 1) % RefMod ELSE 1
    <3> DEFINE b1 == on_status_set(Books, {s} \ m_stbuf)
    <3>1. b1.refcount[t] = IF t \in {s} \ m_stbuf THEN 1 ELSE m_refcount[t]
      BY DEF on_status_set, Books
    <3>2. m_refcount' = AddReference(b1, {s} \cap m_stbuf).refcount
      BY <2>1 DEF SetBits, SetBooks
    <3>3. b1 = [refcount |-> b1.refcount, forbid |-> b1.forbid, raisers |-> b1.raisers]
      BY DEF on_status_set
    <3> HIDE DEF b1
    <3> QED
      BY <3>1, <3>2, <3>3 DEF AddReference
  <2> QED
    BY <2>2, <2>3 DEF Counted
<1> QED
  BY <1>1, <1>2, <1>3 DEF ValField

LEMMA ClearEffect ==
  ASSUME CoreInv, NEW s \in State, ClearByIndex(s)
  PROVE  /\ \A t \in Counted \ {s} : /\ m_refcount'[t] = m_refcount[t]
                                     /\ t \in m_stbuf' <=> t \in m_stbuf
         /\ s \in Counted /\ s \in m_stbuf =>
              /\ m_refcount'[s] = (m_refcount[s] - 1) % RefMod
              /\ s \in m_stbuf' <=> (m_refcount[s] - 1) % RefMod # 0
<1> DEFINE f == FieldOf[s]
<1>1. f \in Field /\ s \in Sub(f)
  BY TableAssumption DEF Sub
<1>2. CASE f \in ValField
  <2>1. s \notin Counted
    BY <1>2 DEF Counted, ValField
  <2>2. \/ AssignValue(f, DefaultStat[f])
        \/ UNCHANGED <<m_stbuf, books>>
    BY <1>2 DEF ClearByIndex, ClearStat, ValField
  <2>3. DefaultStat[f] \in Sub(f)
    BY <1>2, TableAssumption DEF Sub
  <2>4. CASE AssignValue(f, DefaultStat[f])
    BY <1>2, <2>1, <2>3, <2>4, AssignEffect
  <2>5. CASE UNCHANGED <<m_stbuf, books>>
    BY <2>1, <2>5 DEF books
  <2> QED
    BY <2>2, <2>4, <2>5
<1>3. CASE f \in BitField
  <2> DEFINE b1 == DropReference(Books, {s} \cap m_stbuf)
             gone == {u \in {s} \cap m_stbuf : b1.refcount[u] = 0}
  <2>1. /\ m_stbuf' = m_stbuf \ gone
        /\ m_refcount' = on_status_clear(b1, gone).refcount
    BY <1>3 DEF ClearByIndex, ClearStat, ClearBits, ValField, SetBooks
  <2>2. ASSUME NEW t \in State
        PROVE  b1.refcount[t] = IF t \in {s} \cap m_stbuf THEN (m_refcount[t] - 1) % RefMod
                                                          ELSE m_refcount[t]
    BY DEF DropReference, Books
  <2>3. ASSUME NEW t \in State
        PROVE  m_refcount'[t] = IF t \in gone THEN 0 ELSE b1.refcount[t]
    <3> HIDE DEF b1, gone
    <3> QED
      BY <2>1 DEF on_status_clear
  <2>4. gone = IF s \in m_stbuf /\ (m_refcount[s] - 1) % RefMod = 0 THEN {s} ELSE {}
    <3> HIDE DEF b1
    <3> QED
      BY <2>2
  <2> HIDE DEF b1, gone
  <2> QED
    BY <2>1, <2>2, <2>3, <2>4 DEF Counted
<1> QED
  BY <1>1, <1>2, <1>3 DEF ValField

LEMMA DispelEffect ==
  ASSUME CoreInv, NEW f \in Field, ClearField(f), NEW t \in Counted
  PROVE  /\ FieldOf[t] # f => /\ m_refcount'[t] = m_refcount[t]
                              /\ t \in m_stbuf' <=> t \in m_stbuf
         /\ FieldOf[t] = f => /\ t \notin m_stbuf'
                              /\ m_refcount'[t] = IF t \in m_stbuf THEN 0
                                                                   ELSE m_refcount[t]
<1>0. t \in State /\ FieldOf[t] \in BitField
  BY DEF Counted
<1>1. CASE f \in ValField
  <2>1. DefaultStat[f] \in Sub(f) /\ FieldOf[t] # f
    BY <1>0, <1>1, TableAssumption DEF Sub, ValField
  <2>2. AssignValue(f, DefaultStat[f])
    BY <1>1 DEF ClearField, Replace, ValField
  <2> QED
    BY <1>1, <2>1, <2>2, AssignEffect
<1>2. CASE f \in BitField
  <2>1. ReplaceBits(f, {})
    BY <1>2 DEF ClearField, Replace, ValField
  <2>2. m_stbuf' = m_stbuf \ Sub(f)
    BY <2>1 DEF ReplaceBits
  <2>3. m_refcount'[t] = IF t \in Value(f) THEN 0 ELSE m_refcount[t]
    BY <1>0, <2>1 DEF ReplaceBits, SetBooks, on_status_set, on_status_clear, Books
  <2> QED
    BY <1>0, <2>2, <2>3 DEF Value, Sub
<1> QED
  BY <1>1, <1>2 DEF ValField

-----------------------------------------------------------------------------
LEMMA HoldInitInv == HoldInit => HoldInv
<1> SUFFICES ASSUME HoldInit PROVE HoldInv
  OBVIOUS
<1>1. IInv
  BY InitInv DEF HoldInit
<1>2. HoldTypeOK
  <2>1. 0 % RefMod = 0
    BY CountFacts, TableAssumption
  <2> QED
    BY <2>1, FS_EmptySet DEF HoldInit, HoldTypeOK, Init, Counted
<1>3. \A s \in Counted : s \notin m_stbuf
  BY TableAssumption DEF HoldInit, Init, Counted, ValField
<1> QED
  BY <1>1, <1>2, <1>3 DEF HoldInv, HeldIffActive, HoldInit

LEMMA HoldNextInv ==
  ASSUME Cardinality(Owner) <= RefMod, HoldInv, [HoldNext]_holdVars
  PROVE  HoldInv'
<1>0. CoreInv /\ IInv /\ HoldTypeOK /\ HeldIffActive /\ RefMod \in Nat /\ RefMod > 1
  BY TableAssumption DEF HoldInv, IInv
<1>1. ASSUME NEW H \in SUBSET Owner
      PROVE  IsFiniteSet(H) /\ Cardinality(H) \in 0 .. RefMod
  BY OwnerAssumption, <1>0, FS_Subset, FS_CardinalityType
<1>2. ASSUME NEW o \in Owner, NEW s \in Counted, Acquire(o, s) PROVE HoldInv'
  <2> DEFINE H == holders[s]
  <2>1. SetByIndex(s) /\ s \in State /\ o \notin H /\ H \in SUBSET Owner
    BY <1>0, <1>2 DEF Acquire, HoldTypeOK, Counted
  <2>2. IInv'
    BY <1>0, <2>1, NextInv DEF Next
  <2>3. /\ holders' \in [Counted -> SUBSET Owner]
        /\ holders'[s] = H \cup {o}
        /\ \A t \in Counted \ {s} : holders'[t] = holders[t]
    BY <1>0, <1>2 DEF Acquire, HoldTypeOK
  <2>4. /\ Cardinality(H) \in 0 .. RefMod - 1
        /\ Cardinality(H \cup {o}) = Cardinality(H) + 1
    <3>1. IsFiniteSet(H) /\ Cardinality(H) \in Nat
      BY <1>1, <2>1
    <3>2. Cardinality(H \cup {o}) = Cardinality(H) + 1
      BY <2>1, <3>1, FS_AddElement
    <3>3. Cardinality(H \cup {o}) \in 0 .. RefMod
      BY <1>1, <2>1
    <3> QED
      BY <1>0, <3>1, <3>2, <3>3
  <2>5. m_refcount'[s] = Cardinality(H \cup {o}) % RefMod
    <3>1. s \in m_stbuf <=> H # {}
      BY <1>0 DEF HeldIffActive
    <3>2. m_refcount[s] = Cardinality(H) /\ (H = {} => Cardinality(H) = 0)
      <4>1. m_refcount[s] = Cardinality(H) % RefMod
        BY <1>0 DEF HoldTypeOK
      <4>2. Cardinality(H) % RefMod = Cardinality(H)
        BY <1>0, <2>4, CountFacts
      <4> QED
        BY <4>1, <4>2, FS_EmptySet
    <3>3. m_refcount'[s] = IF s \in m_stbuf THEN (m_refcount[s] + 1) % RefMod ELSE 1
      BY <1>0, <2>1, SetEffect
    <3>4. 1 % RefMod = 1
      BY <1>0, CountFacts
    <3> QED
      BY <2>4, <3>1, <3>2, <3>3, <3>4
  <2>6. HoldTypeOK'
    BY <1>0, <2>1, <2>3, <2>5, SetEffect DEF HoldTypeOK
  <2>7. HeldIffActive'
    BY <1>0, <2>1, <2>3, SetEffect DEF HeldIffActive
  <2> QED
    BY <2>2, <2>6, <2>7 DEF HoldInv
<1>3. ASSUME NEW o \in Owner, NEW s \in Counted, Release(o, s) PROVE HoldInv'
  <2> DEFINE H == holders[s]
  <2>1. ClearByIndex(s) /\ s \in State /\ o \in H /\ H \in SUBSET Owner /\ s \in m_stbuf
    BY <1>0, <1>3 DEF Release, HoldTypeOK, HeldIffActive, Counted
  <2>2. IInv'
    BY <1>0, <2>1, NextInv DEF Next
  <2>3. /\ holders' \in [Counted -> SUBSET Owner]
        /\ holders'[s] = H \ {o}
        /\ \A t \in Counted \ {s} : holders'[t] = holders[t]
    BY <1>0, <1>3 DEF Release, HoldTypeOK
  <2>4. /\ Cardinality(H) \in 1 .. RefMod
        /\ Cardinality(H \ {o}) = Cardinality(H) - 1
        /\ H \ {o} = {} <=> Cardinality(H \ {o}) = 0
    <3>1. /\ IsFiniteSet(H) /\ Cardinality(H) \in 0 .. RefMod
          /\ IsFiniteSet(H \ {o}) /\ Cardinality(H \ {o}) \in 0 .. RefMod
      BY <1>1, <2>1
    <3>2. Cardinality(H \ {o}) = Cardinality(H) - 1
      BY <2>1, <3>1, FS_RemoveElement
    <3>3. H \ {o} = {} <=> Cardinality(H \ {o}) = 0
      BY <3>1, FS_EmptySet
    <3> QED
      BY <1>0, <3>1, <3>2, <3>3
  <2>5. (m_refcount[s] - 1) % RefMod = Cardinality(H \ {o})
    <3>1. m_refcount[s] = Cardinality(H) % RefMod
      BY <1>0 DEF HoldTypeOK
    <3>2. CASE Cardinality(H) = RefMod
      <4>1. m_refcount[s] = 0
        BY <1>0, <3>1, <3>2, CountFacts
      <4> QED
        BY <1>0, <2>4, <3>2, <4>1, CountFacts
    <3>3. CASE Cardinality(H) # RefMod
      <4>1. m_refcount[s] = Cardinality(H) /\ Cardinality(H) - 1 \in 0 .. RefMod
        BY <1>0, <2>4, <3>1, <3>3, CountFacts
      <4>2. (Cardinality(H) - 1) % RefMod = Cardinality(H) - 1
        BY <1>0, <2>4, <3>3, <4>1, CountFacts
      <4> QED
        BY <2>4, <4>1, <4>2
    <3> QED
      BY <3>2, <3>3
  <2>6. /\ m_refcount'[s] = Cardinality(H \ {o})
        /\ s \in m_stbuf' <=> Cardinality(H \ {o}) # 0
    BY <1>0, <2>1, <2>5, ClearEffect
  <2>7. Cardinality(H \ {o}) % RefMod = Cardinality(H \ {o})
    BY <1>0, <2>4, CountFacts
  <2>8. HoldTypeOK'
    BY ZenonT(60), <1>0, <2>1, <2>3, <2>6, <2>7, ClearEffect DEF HoldTypeOK
  <2>9. HeldIffActive'
    BY <1>0, <2>1, <2>3, <2>4, <2>6, ClearEffect DEF HeldIffActive
  <2> QED
    BY <2>2, <2>8, <2>9 DEF HoldInv
<1>4. ASSUME NEW s \in State, Plain(s) PROVE HoldInv'
  <2>1. s \notin Counted /\ holders' = holders /\ (SetByIndex(s) \/ ClearByIndex(s))
    BY <1>4 DEF Plain
  <2>2. IInv'
    BY <1>0, <2>1, NextInv DEF Next
  <2>3. ASSUME NEW t \in Counted
        PROVE  m_refcount'[t] = m_refcount[t] /\ (t \in m_stbuf' <=> t \in m_stbuf)
    BY <1>0, <2>1, SetEffect, ClearEffect
  <2> QED
    BY <1>0, <2>1, <2>2, <2>3 DEF HoldInv, HoldTypeOK, HeldIffActive
<1>5. ASSUME NEW f \in Field, Dispel(f) PROVE HoldInv'
  <2>1. /\ ClearField(f)
        /\ holders' = [s \in Counted |-> IF FieldOf[s] = f THEN {} ELSE holders[s]]
    BY <1>5 DEF Dispel
  <2>2. IInv'
    BY <1>0, <2>1, NextInv DEF Next
  <2>3. 0 % RefMod = 0 /\ Cardinality({}) = 0
    BY <1>0, CountFacts, FS_EmptySet
  <2>4. ASSUME NEW t \in Counted
        PROVE  /\ m_refcount'[t] = Cardinality(holders'[t]) % RefMod
               /\ t \in m_stbuf' <=> holders'[t] # {}
    <3>1. CASE FieldOf[t] # f
      BY <1>0, <2>1, <3>1, DispelEffect DEF HoldTypeOK, HeldIffActive
    <3>2. CASE FieldOf[t] = f
      <4>1. holders'[t] = {} /\ t \notin m_stbuf'
        BY <1>0, <2>1, <3>2, DispelEffect
      <4>2. t \notin m_stbuf => m_refcount[t] = 0
        BY <1>0, <2>3 DEF HoldTypeOK, HeldIffActive
      <4> QED
        BY <1>0, <2>1, <2>3, <3>2, <4>1, <4>2, DispelEffect
    <3> QED
      BY <3>1, <3>2
  <2>5. holders' \in [Counted -> SUBSET Owner]
    BY <1>0, <2>1 DEF HoldTypeOK
  <2> QED
    BY <2>2, <2>4, <2>5 DEF HoldInv, HoldTypeOK, HeldIffActive
<1>6. CASE UNCHANGED holdVars
  <2>1. UNCHANGED vars /\ UNCHANGED <<m_stbuf, m_refcount, holders>>
    BY <1>6 DEF holdVars, vars, books
  <2>2. IInv'
    BY <1>0, <2>1, NextInv
  <2> QED
    BY <1>0, <2>1, <2>2 DEF HoldInv, HoldTypeOK, HeldIffActive
<1> QED
  BY <1>2, <1>3, <1>4, <1>5, <1>6 DEF HoldNext

-----------------------------------------------------------------------------
(* A counted sub-state is active exactly while it has a holder and its     *)
(* count is the number of holders modulo the counter's range, for every    *)
(* table and any owners, not more of them than the counter's range.        *)
THEOREM HoldCorrect ==
  ASSUME Cardinality(Owner) <= RefMod
  PROVE  HoldSpec => [](HeldIffActive /\ HoldTypeOK)
<1>1. HoldInv /\ [HoldNext]_holdVars => HoldInv'
  BY HoldNextInv
<1>2. HoldInv => HeldIffActive /\ HoldTypeOK
  BY DEF HoldInv
<1> QED
  BY HoldInitInv, <1>1, <1>2, PTL DEF HoldSpec

(* The same of the composition, in which part of the behaviours belongs to *)
(* owners and part to calls that nobody counts.                            *)
THEOREM HeldCorrect ==
  ASSUME Cardinality(Owner) <= RefMod
  PROVE  MCSpec => []HeldExact
<1> DEFINE Inv == part = "hold" => HoldInv
<1>1. MCInit => Inv
  BY HoldInitInv DEF MCInit
<1>2. Inv /\ [MCNext]_<<part, holdVars>> => Inv'
  <2> SUFFICES ASSUME Inv, [MCNext]_<<part, holdVars>>, part' = "hold" PROVE HoldInv'
    OBVIOUS
  <2>1. part = "hold" /\ HoldInv /\ [HoldNext]_holdVars
    BY DEF MCNext
  <2> QED
    BY <2>1, HoldNextInv
<1>3. Inv => HeldExact
  BY DEF HoldInv, HeldExact
<1> QED
  BY <1>1, <1>2, <1>3, PTL DEF MCSpec
=============================================================================
