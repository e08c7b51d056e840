------------------------- MODULE FormulaOrder_proofs -------------------------
(***************************************************************************)
(* The formulas of the client's table, and the order the server brings its *)
(* own into.  A walk over a sequence is a fold; the first part reads a     *)
(* fold as a path of its steps, along which facts are proved by induction. *)
(***************************************************************************)
EXTENDS FormulaOrder, FiniteSetTheorems, SequenceTheorems, WellFoundedInduction, TLAPS

(* A set of numbers that is not empty has a least one.                     *)
LEMMA LeastNumber ==
  ASSUME NEW T, T \subseteq Nat, T # {}
  PROVE  \E m \in T : \A k \in T : m <= k
<1>1. IsWellFoundedOn(OpToRel(<, Nat), Nat)
  BY NatLessThanWellFounded
<1>2. PICK m \in T : \A k \in T : ~ (<<k, m>> \in OpToRel(<, Nat))
  BY <1>1, WFMin
<1>3. \A k \in T : ~ (k < m)
  BY <1>2 DEF OpToRel
<1> QED
  BY <1>3

(* Induction along an interval, with the set of the numbers it holds for.  *)
LEMMA Along ==
  ASSUME NEW n \in Nat, NEW S, 0 \in S, \A i \in 1 .. n : i - 1 \in S => i \in S
  PROVE  0 .. n \subseteq S
<1> DEFINE T == {i \in 0 .. n : i \notin S}
<1> SUFFICES ASSUME T # {} PROVE FALSE
  OBVIOUS
<1>0. T \subseteq Nat
  OBVIOUS
<1> HIDE DEF T
<1>1. PICK m \in T : \A k \in T : m <= k
  BY <1>0, LeastNumber
<1> USE DEF T
<1>2. m \in 1 .. n /\ m - 1 \in 0 .. n
  OBVIOUS
<1>3. m - 1 \in S
  BY <1>1, <1>2
<1> QED
  BY <1>2, <1>3

(* The last number of a set of places, which Max chooses.                  *)
LEMMA LastOf ==
  ASSUME NEW n \in Nat, NEW s \in SUBSET (1 .. n), s # {}
  PROVE  Max(s) \in s /\ \A j \in s : j <= Max(s)
<1> DEFINE T == {n - j : j \in s}
<1>1. T \subseteq Nat /\ T # {}
  <2>1. \A j \in s : n - j \in Nat
    OBVIOUS
  <2>2. T # {}
    OBVIOUS
  <2> QED
    BY <2>1, <2>2
<1> HIDE DEF T
<1>2. PICK m \in T : \A k \in T : m <= k
  BY <1>1, LeastNumber
<1> USE DEF T
<1>3. PICK j \in s : m = n - j
  OBVIOUS
<1>4. \A i \in s : n - j <= n - i
  BY <1>2, <1>3
<1>5. \A i \in s : j >= i
  BY <1>4
<1>6. \E x \in s : \A y \in s : x >= y
  BY <1>5
<1>7. Max(s) \in s /\ \A y \in s : Max(s) >= y
  BY <1>6 DEF Max
<1> QED
  BY <1>7

(* The least number of a set, which Min chooses.                           *)
LEMMA FirstOf ==
  ASSUME NEW T, T \subseteq Nat, T # {}
  PROVE  Min(T) \in T /\ \A j \in T : Min(T) <= j
<1>1. \E x \in T : \A y \in T : x <= y
  BY LeastNumber
<1> QED
  BY <1>1 DEF Min

(* The first k places without the last of them are the first k - 1.        *)
LEMMA IntervalStart ==
  ASSUME NEW n \in Nat, NEW k \in 1 .. n
  PROVE  /\ (1 .. k) \in SUBSET (1 .. n)
         /\ (1 .. k) # {}
         /\ (1 .. k) \ {k} = 1 .. (k - 1)
<1>1. (1 .. k) \in SUBSET (1 .. n)
  OBVIOUS
<1>2. (1 .. k) # {}
  OBVIOUS
<1>3. (1 .. k) \ {k} = 1 .. (k - 1)
  OBVIOUS
<1> QED
  BY <1>1, <1>2, <1>3

(* The last of the first k places is k.                                    *)
LEMMA LastOfPrefix ==
  ASSUME NEW n \in Nat, NEW k \in 1 .. n
  PROVE  Max(1 .. k) = k
<1>1. (1 .. k) \in SUBSET (1 .. n) /\ (1 .. k) # {} /\ k \in 1 .. k
  OBVIOUS
<1>2. Max(1 .. k) \in 1 .. k /\ \A j \in 1 .. k : j <= Max(1 .. k)
  BY <1>1, LastOf
<1> QED
  BY <1>1, <1>2

(* What a fold is defined by can be defined: a step G on values of D, taken *)
(* for the members of a set from the least to the last.                    *)
IsFold(f, n, D, base, G) ==
  /\ f \in [SUBSET (1 .. n) -> D]
  /\ \A s \in SUBSET (1 .. n) :
       f[s] = IF s = {} THEN base ELSE G[<<f[s \ {Max(s)}], Max(s)>>]

(* Such a function exists, for every step and every length: by induction   *)
(* over the length, each function extended by one place.                   *)
LEMMA FoldDefined ==
  ASSUME NEW n \in Nat, NEW D, NEW base \in D, NEW G,
         \A x \in D : \A i \in 1 .. n : G[<<x, i>>] \in D
  PROVE  \E f : IsFold(f, n, D, base, G)
<1> DEFINE Ok(k) == \E f \in [SUBSET (1 .. k) -> D] :
                      \A s \in SUBSET (1 .. k) :
                        f[s] = IF s = {} THEN base ELSE G[<<f[s \ {Max(s)}], Max(s)>>]
           S == {k \in 0 .. n : Ok(k)}
<1>1. Ok(0)
  <2> DEFINE f == [s \in SUBSET (1 .. 0) |-> base]
  <2>1. \A s \in SUBSET (1 .. 0) : s = {}
    OBVIOUS
  <2>2. f \in [SUBSET (1 .. 0) -> D]
    OBVIOUS
  <2>3. \A s \in SUBSET (1 .. 0) : f[s] = base
    BY <2>1
  <2> HIDE DEF f
  <2> QED
    BY <2>1, <2>2, <2>3
<1>2. ASSUME NEW k \in 1 .. n, Ok(k - 1)
      PROVE  Ok(k)
  <2>1. PICK f \in [SUBSET (1 .. k - 1) -> D] :
          \A s \in SUBSET (1 .. k - 1) :
            f[s] = IF s = {} THEN base ELSE G[<<f[s \ {Max(s)}], Max(s)>>]
    BY <1>2
  <2> DEFINE g == [s \in SUBSET (1 .. k) |->
                     IF s \subseteq 1 .. (k - 1) THEN f[s] ELSE G[<<f[s \ {k}], k>>]]
  <2>2. ASSUME NEW s \in SUBSET (1 .. k)
        PROVE  /\ g[s] \in D
               /\ g[s] = IF s = {} THEN base ELSE G[<<g[s \ {Max(s)}], Max(s)>>]
    <3>1. CASE s \subseteq 1 .. (k - 1)
      <4>1. g[s] = f[s] /\ f[s] \in D
        BY <3>1
      <4>2. f[s] = IF s = {} THEN base ELSE G[<<f[s \ {Max(s)}], Max(s)>>]
        BY <2>1, <3>1
      <4>3. s \ {Max(s)} \subseteq 1 .. (k - 1)
        BY <3>1
      <4>4. g[s \ {Max(s)}] = f[s \ {Max(s)}]
        BY <4>3
      <4> QED
        BY <4>1, <4>2, <4>4
    <3>2. CASE ~(s \subseteq 1 .. (k - 1))
      <4>1. k \in s
        BY <3>2
      <4>2. Max(s) \in s /\ \A j \in s : j <= Max(s)
        <5>1. k \in Nat
          OBVIOUS
        <5> QED
          BY <4>1, <5>1, LastOf
      <4>3. Max(s) = k
        <5>1. Max(s) \in 1 .. k /\ k <= Max(s)
          BY <4>1, <4>2
        <5> QED
          BY <5>1
      <4>4. s \ {k} \subseteq 1 .. (k - 1) /\ s \ {k} \in SUBSET (1 .. k)
        OBVIOUS
      <4>5. f[s \ {k}] \in D /\ g[s \ {k}] = f[s \ {k}]
        BY <4>4
      <4>6. g[s] = G[<<f[s \ {k}], k>>]
        BY <3>2
      <4> QED
        BY <4>1, <4>3, <4>5, <4>6
    <3> QED
      BY <3>1, <3>2
  <2>3. g \in [SUBSET (1 .. k) -> D]
    BY <2>2
  <2> HIDE DEF g
  <2> QED
    BY <2>2, <2>3
<1> HIDE DEF Ok
<1>3. 0 \in S
  BY <1>1
<1>4. \A i \in 1 .. n : i - 1 \in S => i \in S
  BY <1>2
<1> HIDE DEF S
<1>5. n \in S
  <2>1. 0 .. n \subseteq S
    BY <1>3, <1>4, Along
  <2> QED
    BY <2>1
<1> QED
  BY <1>5 DEF S, Ok, IsFold

(* What is defined by a fold is a path of its steps.                       *)
IsPath(h, n, D, base, G, last) ==
  /\ h \in [0 .. n -> D]
  /\ h[0] = base
  /\ \A i \in 1 .. n : h[i] = G[<<h[i - 1], i>>]
  /\ last = h[n]

(* A fold over all n places ends where the path of its n steps ends.       *)
LEMMA FoldPath ==
  ASSUME NEW n \in Nat, NEW D, NEW base \in D, NEW G, NEW it,
         \A x \in D : \A j \in 1 .. n : G[<<x, j>>] \in D,
         it[{}] = base,
         \A s \in SUBSET (1 .. n) : s # {} /\ it[s \ {Max(s)}] \in D => it[s] = G[<<it[s \ {Max(s)}], Max(s)>>]
  PROVE  \E h : IsPath(h, n, D, base, G, it[1 .. n])
<1> DEFINE h == [k \in 0 .. n |-> it[1 .. k]]
           S == {k \in 0 .. n : h[k] \in D}
<1>1. h[0] = base
  <2>1. (1 .. 0) = {} /\ 0 \in 0 .. n
    OBVIOUS
  <2>2. h[0] = it[1 .. 0]
    BY <2>1
  <2> HIDE DEF h
  <2> QED
    BY <2>1, <2>2
<1>2. ASSUME NEW i \in 1 .. n, h[i - 1] \in D
      PROVE  h[i] = G[<<h[i - 1], i>>]
  <2>1. (1 .. i) \in SUBSET (1 .. n) /\ (1 .. i) # {} /\ (1 .. i) \ {i} = 1 .. (i - 1)
    <3>1. n \in Nat /\ i \in 1 .. n
      OBVIOUS
    <3> HIDE DEF h, S
    <3> QED
      BY <3>1, IntervalStart
  <2>2. Max(1 .. i) = i
    BY LastOfPrefix
  <2>6. i \in 0 .. n /\ i - 1 \in 0 .. n
    OBVIOUS
  <2>3. h[i] = it[1 .. i] /\ h[i - 1] = it[1 .. (i - 1)]
    BY <2>6
  <2>4. it[(1 .. i) \ {Max(1 .. i)}] \in D
    BY <1>2, <2>1, <2>2, <2>3
  <2>5. it[1 .. i] = G[<<it[(1 .. i) \ {Max(1 .. i)}], Max(1 .. i)>>]
    BY <2>1, <2>4
  <2> HIDE DEF h
  <2> QED
    BY <2>1, <2>2, <2>3, <2>5
<1>3. h[n] = it[1 .. n] /\ h = [k \in 0 .. n |-> h[k]]
  OBVIOUS
<1> HIDE DEF h
<1>4. 0 .. n \subseteq S
  <2>1. 0 \in S
    BY <1>1
  <2>2. ASSUME NEW i \in 1 .. n, i - 1 \in S
        PROVE  i \in S
    <3>1. h[i - 1] \in D /\ i \in 0 .. n
      BY <2>2
    <3>2. h[i] = G[<<h[i - 1], i>>]
      BY <1>2, <3>1
    <3>3. h[i] \in D
      BY <3>1, <3>2
    <3> QED
      BY <3>1, <3>3
  <2> HIDE DEF S
  <2> QED
    BY <2>1, <2>2, Along
<1>5. h \in [0 .. n -> D]
  BY <1>3, <1>4
<1>6. \A i \in 1 .. n : h[i] = G[<<h[i - 1], i>>]
  <2>1. ASSUME NEW i \in 1 .. n
        PROVE  h[i - 1] \in D
    <3>1. i - 1 \in 0 .. n
      OBVIOUS
    <3> QED
      BY <1>5, <3>1
  <2> QED
    BY <1>2, <2>1
<1> QED
  BY <1>1, <1>3, <1>5, <1>6 DEF IsPath

(* The same for a function over an interval.                               *)
IsIteration(f, n, D, base, G) ==
  /\ f \in [0 .. n -> D]
  /\ \A k \in 0 .. n : f[k] = IF k = 0 THEN base ELSE G[f[k - 1]]

(* A function that says how each value follows from the one before exists. *)
LEMMA IterationDefined ==
  ASSUME NEW n \in Nat, NEW D, NEW base \in D, NEW G, \A x \in D : G[x] \in D
  PROVE  \E f : IsIteration(f, n, D, base, G)
<1> DEFINE Ok(k) == \E f \in [0 .. k -> D] :
                      \A i \in 0 .. k : f[i] = IF i = 0 THEN base ELSE G[f[i - 1]]
           S == {k \in 0 .. n : Ok(k)}
<1>1. Ok(0)
  <2> DEFINE f == [i \in 0 .. 0 |-> base]
  <2>1. f \in [0 .. 0 -> D] /\ \A i \in 0 .. 0 : f[i] = IF i = 0 THEN base ELSE G[f[i - 1]]
    OBVIOUS
  <2> QED
    BY <2>1
<1>2. ASSUME NEW k \in 1 .. n, Ok(k - 1)
      PROVE  Ok(k)
  <2>1. PICK f \in [0 .. k - 1 -> D] :
          \A i \in 0 .. k - 1 : f[i] = IF i = 0 THEN base ELSE G[f[i - 1]]
    BY <1>2
  <2> DEFINE g == [i \in 0 .. k |-> IF i = k THEN G[f[k - 1]] ELSE f[i]]
  <2>2. f[k - 1] \in D
    OBVIOUS
  <2>3. ASSUME NEW i \in 0 .. k
        PROVE  g[i] \in D /\ g[i] = IF i = 0 THEN base ELSE G[g[i - 1]]
    <3>1. CASE i = k
      BY <2>2, <3>1
    <3>2. CASE i # k
      <4>1. i \in 0 .. k - 1 /\ g[i] = f[i] /\ f[i] \in D
        BY <3>2
      <4>2. f[i] = IF i = 0 THEN base ELSE G[f[i - 1]]
        BY <2>1, <4>1
      <4>3. i # 0 => g[i - 1] = f[i - 1]
        BY <4>1
      <4> QED
        BY <4>1, <4>2, <4>3
    <3> QED
      BY <3>1, <3>2
  <2>4. g \in [0 .. k -> D]
    BY <2>3
  <2> HIDE DEF g
  <2> QED
    BY <2>3, <2>4
<1> HIDE DEF Ok
<1>3. 0 \in S
  BY <1>1
<1>4. \A i \in 1 .. n : i - 1 \in S => i \in S
  BY <1>2
<1> HIDE DEF S
<1>5. n \in S
  <2>1. 0 .. n \subseteq S
    BY <1>3, <1>4, Along
  <2> QED
    BY <2>1
<1> QED
  BY <1>5 DEF S, Ok, IsIteration

-----------------------------------------------------------------------------
(* Values: formulas in an order that holds.                                *)

(* A formula with the attributes it reads computed one after the other.    *)
LEMMA RunSteps ==
  ASSUME TableAssumption, NEW reads \in Seq(Attr), NEW v \in [Attr -> Value]
  PROVE  \E h \in [0 .. Len(reads) -> Value] :
           /\ h[0] = 1
           /\ \A i \in 1 .. Len(reads) : h[i] = (h[i - 1] + v[reads[i]]) % Modulus
           /\ Run(reads, v) = h[Len(reads)]
<1> DEFINE n == Len(reads)
           G == [z \in Value \X (1 .. n) |-> (z[1] + v[reads[z[2]]]) % Modulus]
           Result(g) == [s \in SUBSET (1 .. n) |->
                            IF s = {} THEN 1 ELSE (g[s \ {Max(s)}] + v[reads[Max(s)]]) % Modulus]
           it == CHOOSE g : g = Result(g)
           h == [k \in 0 .. n |-> it[1 .. k]]
<1>1. n \in Nat /\ DOMAIN reads = 1 .. n /\ 1 \in Value
  BY DEF TableAssumption, Value
<1>2. \A x \in Value, i \in 1 .. n : (x + v[reads[i]]) % Modulus \in Value
  BY DEF TableAssumption, Value
<1>3. \A x \in Value, i \in 1 .. n : G[<<x, i>>] = (x + v[reads[i]]) % Modulus
  OBVIOUS
<1>4. PICK f : IsFold(f, n, Value, 1, G)
  <2>1. \A x \in Value : \A i \in 1 .. n : G[<<x, i>>] \in Value
    BY <1>2, <1>3
  <2> HIDE DEF G, n
  <2> QED
    BY <1>1, <2>1, FoldDefined
<1>5. f = Result(f)
  <2> USE DEF IsFold
  <2>1. ASSUME NEW s \in SUBSET (1 .. n), s # {}
        PROVE  G[<<f[s \ {Max(s)}], Max(s)>>] = (f[s \ {Max(s)}] + v[reads[Max(s)]]) % Modulus
    <3>1. Max(s) \in 1 .. n
      BY <1>1, <2>1, LastOf
    <3>2. f[s \ {Max(s)}] \in Value
      BY <1>4
    <3> HIDE DEF G
    <3> QED
      BY <1>3, <3>1, <3>2
  <2>2. ASSUME NEW s \in SUBSET (1 .. n)
        PROVE  f[s] = IF s = {} THEN 1 ELSE (f[s \ {Max(s)}] + v[reads[Max(s)]]) % Modulus
    <3> HIDE DEF G
    <3> QED
      BY <1>4, <2>1
  <2>3. f \in [SUBSET (1 .. n) -> Value]
    BY <1>4
  <2> HIDE DEF n
  <2> QED
    BY <2>2, <2>3
<1>6. it = Result(it)
  <2> HIDE DEF Result
  <2> QED
    BY <1>5
<1>7. Run(reads, v) = it[1 .. n]
  BY <1>1 DEF Run, FoldLeft, MapThenFoldSet
<1> HIDE DEF it
<1>12. \A s \in SUBSET (1 .. n) :
          it[s] = IF s = {} THEN 1 ELSE (it[s \ {Max(s)}] + v[reads[Max(s)]]) % Modulus
  BY <1>6
<1> HIDE DEF Result
<1>8. h[0] = 1
  <2>1. (1 .. 0) = {} /\ {} \in SUBSET (1 .. n)
    OBVIOUS
  <2>2. it[{}] = 1
    BY <1>12, <2>1
  <2> QED
    BY <1>1, <2>1, <2>2
<1>9. ASSUME NEW i \in 1 .. n
      PROVE  h[i] = (h[i - 1] + v[reads[i]]) % Modulus
  <2>1. (1 .. i) \in SUBSET (1 .. n)
    <3> HIDE DEF n
    <3> QED
      BY <1>1
  <2>5. (1 .. i) \ {i} = 1 .. (i - 1)
    BY <1>1
  <2>6. (1 .. i) # {}
    <3>1. i \in 1 .. i
      BY <1>1
    <3> QED
      BY <3>1
  <2>2. Max(1 .. i) = i
    BY <1>1, LastOfPrefix
  <2>3. it[1 .. i] = (it[(1 .. i) \ {Max(1 .. i)}] + v[reads[Max(1 .. i)]]) % Modulus
    BY <1>12, <2>1, <2>6
  <2>4. h[i] = it[1 .. i] /\ h[i - 1] = it[1 .. (i - 1)]
    BY <1>1
  <2> HIDE DEF h
  <2> QED
    BY <2>1, <2>2, <2>3, <2>4, <2>5
<1>10. h \in [0 .. n -> Value]
  <2> DEFINE S == {k \in 0 .. n : h[k] \in Value}
  <2>1. 0 \in S
    BY <1>1, <1>8
  <2>2. ASSUME NEW i \in 1 .. n, i - 1 \in S
        PROVE  i \in S
    <3> HIDE DEF h
    <3> QED
      BY <1>2, <1>9, <2>2
  <2>3. 0 .. n \subseteq S
    <3> HIDE DEF S
    <3> QED
      BY <1>1, <2>1, <2>2, Along
  <2> QED
    BY <2>3
<1>11. h[n] = it[1 .. n]
  BY <1>1
<1> HIDE DEF h
<1> QED
  BY <1>7, <1>8, <1>9, <1>10, <1>11

(* What a formula computes is a value, and depends on nothing but what it  *)
(* reads.                                                                  *)
LEMMA RunFacts ==
  ASSUME TableAssumption, NEW reads \in Seq(Attr), NEW v \in [Attr -> Value]
  PROVE  /\ Run(reads, v) \in Value
         /\ \A w \in [Attr -> Value] :
              (\A i \in 1 .. Len(reads) : w[reads[i]] = v[reads[i]]) => Run(reads, w) = Run(reads, v)
<1>1. PICK h \in [0 .. Len(reads) -> Value] :
           /\ h[0] = 1
           /\ \A i \in 1 .. Len(reads) : h[i] = (h[i - 1] + v[reads[i]]) % Modulus
           /\ Run(reads, v) = h[Len(reads)]
  BY RunSteps
<1>2. Len(reads) \in Nat
  OBVIOUS
<1>3. Run(reads, v) \in Value
  BY <1>1, <1>2
<1>4. ASSUME NEW w \in [Attr -> Value],
             \A i \in 1 .. Len(reads) : w[reads[i]] = v[reads[i]]
      PROVE  Run(reads, w) = Run(reads, v)
  <2>1. PICK g \in [0 .. Len(reads) -> Value] :
           /\ g[0] = 1
           /\ \A i \in 1 .. Len(reads) : g[i] = (g[i - 1] + w[reads[i]]) % Modulus
           /\ Run(reads, w) = g[Len(reads)]
    BY RunSteps
  <2> DEFINE S == {k \in 0 .. Len(reads) : g[k] = h[k]}
  <2>2. 0 \in S
    BY <1>1, <1>2, <2>1
  <2>3. ASSUME NEW i \in 1 .. Len(reads), i - 1 \in S
        PROVE  i \in S
    <3>1. h[i] = (h[i - 1] + v[reads[i]]) % Modulus
      BY <1>1
    <3>2. g[i] = (g[i - 1] + w[reads[i]]) % Modulus
      BY <2>1
    <3>3. g[i - 1] = h[i - 1] /\ w[reads[i]] = v[reads[i]]
      BY <1>4, <2>3
    <3> QED
      BY <3>1, <3>2, <3>3
  <2>4. 0 .. Len(reads) \subseteq S
    <3> HIDE DEF S
    <3> QED
      BY <1>2, <2>2, <2>3, Along
  <2> QED
    BY <1>1, <1>2, <2>1, <2>4
<1> QED
  BY <1>3, <1>4

(* What a row of the table holds.                                          *)
NodeType == [inited : BOOLEAN, input_for : AnyText, infections : SUBSET Attr,
             need_buf : SUBSET Attr, cmd_data : AnyText]
Table == [Attr -> NodeType]

(* A text with a formula has one that reads attributes.                    *)
LEMMA TextFacts ==
  ASSUME NEW t \in AnyText
  PROVE  t # <<>> => t[1] \in Seq(Attr)
BY DEF AnyText

(* CalcAll, one formula of the order after the other.                      *)
CalcStep(v, a) == IF node[a].cmd_data = <<>> THEN v
                  ELSE [v EXCEPT ![a] = Run(node[a].cmd_data[1], v)]

(* A step of CalcAll leaves every attribute with a value.                  *)
LEMMA CalcStepType ==
  ASSUME TableAssumption, node \in Table, NEW v \in [Attr -> Value], NEW a \in Attr
  PROVE  CalcStep(v, a) \in [Attr -> Value]
<1>1. node[a].cmd_data \in AnyText
  BY DEF Table, NodeType
<1>2. CASE node[a].cmd_data = <<>>
  BY <1>2 DEF CalcStep
<1>3. CASE node[a].cmd_data # <<>>
  <2>1. Run(node[a].cmd_data[1], v) \in Value
    BY <1>1, <1>3, TextFacts, RunFacts
  <2> QED
    BY <1>3, <2>1 DEF CalcStep
<1> QED
  BY <1>2, <1>3

(* CalcAll computes the formulas of m_run_sort one after the other.        *)
LEMMA CalculatedSteps ==
  ASSUME TableAssumption, node \in Table, m_run_sort \in Seq(Attr), NEW v \in [Attr -> Value]
  PROVE  \E h \in [0 .. Len(m_run_sort) -> [Attr -> Value]] :
           /\ h[0] = v
           /\ \A i \in 1 .. Len(m_run_sort) : h[i] = CalcStep(h[i - 1], m_run_sort[i])
           /\ Calculated(v) = h[Len(m_run_sort)]
<1> DEFINE n == Len(m_run_sort)
           D == [Attr -> Value]
           G == [z \in D \X (1 .. n) |-> CalcStep(z[1], m_run_sort[z[2]])]
           Result(g) == [s \in SUBSET (1 .. n) |->
                           IF s = {} THEN v ELSE CalcStep(g[s \ {Max(s)}], m_run_sort[Max(s)])]
           it == CHOOSE g : g = Result(g)
           h == [k \in 0 .. n |-> it[1 .. k]]
<1>1. n \in Nat /\ DOMAIN m_run_sort = 1 .. n /\ v \in D
  OBVIOUS
<1>2. \A x \in D, i \in 1 .. n : CalcStep(x, m_run_sort[i]) \in D
  BY CalcStepType
<1>3. \A x \in D, i \in 1 .. n : G[<<x, i>>] = CalcStep(x, m_run_sort[i])
  OBVIOUS
<1>7. Calculated(v) = it[1 .. n]
  BY <1>1 DEF Calculated, CalcStep, FoldLeft, MapThenFoldSet
<1> HIDE DEF n, D
<1>4. PICK f : IsFold(f, n, D, v, G)
  <2>1. \A x \in D : \A i \in 1 .. n : G[<<x, i>>] \in D
    BY <1>2, <1>3
  <2> HIDE DEF G
  <2> QED
    BY <1>1, <2>1, FoldDefined
<1> HIDE DEF G
<1>5. f = Result(f)
  <2> USE DEF IsFold
  <2>1. ASSUME NEW s \in SUBSET (1 .. n), s # {}
        PROVE  G[<<f[s \ {Max(s)}], Max(s)>>] = CalcStep(f[s \ {Max(s)}], m_run_sort[Max(s)])
    <3>1. Max(s) \in 1 .. n
      BY <1>1, <2>1, LastOf
    <3>2. f[s \ {Max(s)}] \in D
      BY <1>4
    <3> QED
      BY <1>3, <3>1, <3>2
  <2>2. ASSUME NEW s \in SUBSET (1 .. n)
        PROVE  f[s] = IF s = {} THEN v ELSE CalcStep(f[s \ {Max(s)}], m_run_sort[Max(s)])
    BY <1>4, <2>1
  <2>3. f \in [SUBSET (1 .. n) -> D]
    BY <1>4
  <2> QED
    BY <2>2, <2>3
<1>6. it = Result(it)
  <2> HIDE DEF Result
  <2> QED
    BY <1>5
<1> HIDE DEF it
<1>8. \A s \in SUBSET (1 .. n) :
        it[s] = IF s = {} THEN v ELSE CalcStep(it[s \ {Max(s)}], m_run_sort[Max(s)])
  BY <1>6
<1> HIDE DEF Result
<1>9. h[0] = v
  <2>1. (1 .. 0) = {} /\ {} \in SUBSET (1 .. n)
    OBVIOUS
  <2>2. it[{}] = v
    BY <1>8, <2>1
  <2> QED
    BY <1>1, <2>1, <2>2
<1>10. ASSUME NEW i \in 1 .. n
       PROVE  h[i] = CalcStep(h[i - 1], m_run_sort[i])
  <2>1. (1 .. i) \in SUBSET (1 .. n)
    BY <1>1
  <2>2. (1 .. i) # {}
    <3>1. i \in 1 .. i
      BY <1>1
    <3> QED
      BY <3>1
  <2>3. (1 .. i) \ {i} = 1 .. (i - 1)
    BY <1>1
  <2>4. Max(1 .. i) = i
    BY <1>1, LastOfPrefix
  <2>5. it[1 .. i] = CalcStep(it[(1 .. i) \ {Max(1 .. i)}], m_run_sort[Max(1 .. i)])
    BY <1>8, <2>1, <2>2
  <2>6. h[i] = it[1 .. i] /\ h[i - 1] = it[1 .. (i - 1)]
    BY <1>1
  <2> HIDE DEF h
  <2> QED
    BY <2>3, <2>4, <2>5, <2>6
<1>11. h \in [0 .. n -> D]
  <2> DEFINE S == {k \in 0 .. n : h[k] \in D}
  <2>1. 0 \in S
    BY <1>1, <1>9
  <2>2. ASSUME NEW i \in 1 .. n, i - 1 \in S
        PROVE  i \in S
    <3> HIDE DEF h
    <3> QED
      BY <1>2, <1>10, <2>2
  <2>3. 0 .. n \subseteq S
    <3> HIDE DEF S
    <3> QED
      BY <1>1, <2>1, <2>2, Along
  <2> QED
    BY <2>3
<1>12. h[n] = it[1 .. n]
  BY <1>1
<1> HIDE DEF h
<1> QED
  BY <1>7, <1>9, <1>10, <1>11, <1>12 DEF n, D

(* The attributes a formula reads, in any table.                           *)
ReadsIn(n, a) == IF n[a].input_for = <<>> THEN {} ELSE ToSet(n[a].input_for[1])
Needs(n, a) == ReadsIn(n, a) \ {a}
HasFormula(n, a) == n[a].input_for # <<>>
CompleteIn(n) == \A a \in 0..(m_wa_num(n) - 1) : n[a].inited

(* The nodes of a table.                                                   *)
NodesOK(n) == \A a \in Attr :
  /\ ~n[a].inited => ~HasFormula(n, a)
  /\ n[a].cmd_data \in {<<>>, n[a].input_for}
  /\ n[a].need_buf \subseteq {b \in Needs(n, a) : n[b].inited}

(* Every formula is compiled, and who reads whom is recorded.              *)
Compiled(n) == \A a \in Attr :
  /\ n[a].cmd_data = n[a].input_for /\ n[a].need_buf = Needs(n, a)
  /\ \A b \in ReadsIn(n, a) : n[b].inited
  /\ \A b \in Needs(n, a) : a \in n[b].infections

(* Behind p, nothing comes twice, nor before what it reads, and all        *)
(* formulas are there, but the one of the attribute 0 if there are rows    *)
(* nobody told.                                                            *)
Ordered(n, order, p) ==
  /\ \A k \in (p+1)..Len(order) : \A j \in (k+1)..Len(order) :
       order[j] \notin Needs(n, order[k]) \cup {order[k]}
  /\ \A a \in Attr : HasFormula(n, a) /\ (a # 0 \/ CompleteIn(n)) =>
       \E k \in (p+1)..Len(order) : order[k] = a

(* What a formula reads is what stands in its text.                        *)
LEMMA ReadsFacts ==
  ASSUME NEW n \in Table, NEW a \in Attr
  PROVE  /\ ReadsIn(n, a) \subseteq Attr
         /\ HasFormula(n, a) => /\ n[a].input_for[1] \in Seq(Attr)
                                /\ \A i \in 1 .. Len(n[a].input_for[1]) : n[a].input_for[1][i] \in ReadsIn(n, a)
                                /\ \A b \in ReadsIn(n, a) : \E i \in 1 .. Len(n[a].input_for[1]) : n[a].input_for[1][i] = b
<1>1. n[a].input_for \in AnyText
  BY DEF Table, NodeType
<1>2. CASE n[a].input_for = <<>>
  BY <1>2 DEF ReadsIn, HasFormula
<1>3. CASE n[a].input_for # <<>>
  <2> DEFINE r == n[a].input_for[1]
  <2>1. r \in Seq(Attr)
    BY <1>1, <1>3, TextFacts
  <2>2. ReadsIn(n, a) = {r[i] : i \in DOMAIN r}
    BY <1>3 DEF ReadsIn, ToSet
  <2>3. DOMAIN r = 1 .. Len(r) /\ \A i \in 1 .. Len(r) : r[i] \in Attr
    BY <2>1
  <2> HIDE DEF r
  <2>4. /\ ReadsIn(n, a) \subseteq Attr
        /\ \A i \in 1 .. Len(r) : r[i] \in ReadsIn(n, a)
        /\ \A b \in ReadsIn(n, a) : \E i \in 1 .. Len(r) : r[i] = b
    BY <2>2, <2>3
  <2> QED
    BY <2>1, <2>4 DEF r
<1> QED
  BY <1>2, <1>3

(* Where the order holds, CalcAll leaves a formula with what it computes   *)
(* from the values all attributes have at the end: what it reads is        *)
(* computed before it for the last time, and it does not change again.     *)
LEMMA CalculatedRight ==
  ASSUME TableAssumption, node \in Table, m_run_sort \in Seq(Attr), NEW v \in [Attr -> Value],
         NEW p \in 0 .. Len(m_run_sort), Ordered(node, m_run_sort, p), Compiled(node),
         NEW a \in Attr, node[a].input_for # <<>>, a \notin Reads(a), a # 0 \/ Complete
  PROVE  Calculated(v)[a] = Run(node[a].input_for[1], Calculated(v))
<1> DEFINE n == Len(m_run_sort)
           r == node[a].input_for[1]
<1>0. n \in Nat /\ p \in 0 .. n
  OBVIOUS
<1>1. PICK h \in [0 .. n -> [Attr -> Value]] :
        /\ h[0] = v
        /\ \A i \in 1 .. n : h[i] = CalcStep(h[i - 1], m_run_sort[i])
        /\ Calculated(v) = h[n]
  BY CalculatedSteps
<1>2. HasFormula(node, a) /\ Needs(node, a) = ReadsIn(node, a) /\ (a # 0 \/ CompleteIn(node))
  BY DEF HasFormula, Needs, ReadsIn, Reads, Complete, CompleteIn
<1>3. /\ r \in Seq(Attr) /\ ReadsIn(node, a) \subseteq Attr /\ a \notin ReadsIn(node, a)
      /\ \A i \in 1 .. Len(r) : r[i] \in ReadsIn(node, a)
  BY <1>2, ReadsFacts DEF Needs
<1>4. node[a].cmd_data = node[a].input_for
  BY DEF Compiled
<1>5. PICK k \in (p + 1) .. n : m_run_sort[k] = a
  BY <1>2 DEF Ordered
<1>6. ASSUME NEW j \in (k + 1) .. n
      PROVE  m_run_sort[j] \in Attr /\ m_run_sort[j] \notin ReadsIn(node, a) \cup {a}
  <2>1. m_run_sort[j] \notin Needs(node, m_run_sort[k]) \cup {m_run_sort[k]}
    BY DEF Ordered
  <2>2. j \in 1 .. n
    BY <1>0
  <2> QED
    BY <1>2, <1>5, <2>1, <2>2
<1> HIDE DEF n, r
<1>7. k \in 1 .. n /\ k - 1 \in 0 .. n /\ n \in 0 .. n /\ k \in Nat
  BY <1>0
<1>8. h[k] = [h[k - 1] EXCEPT ![a] = Run(r, h[k - 1])]
  <2>1. h[k] = CalcStep(h[k - 1], a)
    BY <1>1, <1>5, <1>7
  <2> QED
    BY <1>4, <2>1 DEF CalcStep, r
<1>9. h[k - 1] \in [Attr -> Value] /\ h[n] \in [Attr -> Value]
  BY <1>1, <1>7
<1>10. /\ h[k][a] = Run(r, h[k - 1])
       /\ \A b \in ReadsIn(node, a) : h[k][b] = h[k - 1][b]
  BY <1>3, <1>8, <1>9
<1>11. \A b \in ReadsIn(node, a) \cup {a} : h[n][b] = h[k][b]
  <2> DEFINE Kept(j) == \A b \in ReadsIn(node, a) \cup {a} : h[j][b] = h[k][b]
             S == {j \in 0 .. n : j >= k => Kept(j)}
  <2>1. 0 \in S
    BY <1>0, <1>7
  <2>2. ASSUME NEW i \in 1 .. n, i - 1 \in S
        PROVE  i \in S
    <3>1. CASE i < k
      BY <1>7, <3>1
    <3>2. CASE i = k
      BY <3>2
    <3>3. CASE i > k
      <4>1. i \in (k + 1) .. n /\ i - 1 \in 0 .. n /\ i - 1 >= k
        BY <1>0, <1>7, <3>3
      <4>2. h[i] = CalcStep(h[i - 1], m_run_sort[i]) /\ h[i - 1] \in [Attr -> Value]
        BY <1>1, <4>1
      <4>3. m_run_sort[i] \notin ReadsIn(node, a) \cup {a}
        BY <1>6, <4>1
      <4>4. \A b \in Attr : b # m_run_sort[i] => h[i][b] = h[i - 1][b]
        BY <4>2 DEF CalcStep
      <4>5. \A b \in ReadsIn(node, a) \cup {a} : h[i][b] = h[i - 1][b]
        BY <1>3, <4>3, <4>4
      <4>6. Kept(i - 1)
        BY <2>2, <4>1
      <4> QED
        BY <4>5, <4>6
    <3> QED
      BY <1>0, <1>7, <3>1, <3>2, <3>3
  <2>3. 0 .. n \subseteq S
    <3> HIDE DEF S
    <3> QED
      BY <1>0, <2>1, <2>2, Along
  <2> QED
    BY <1>7, <2>3
<1>12. Run(r, h[n]) = Run(r, h[k - 1])
  <2>1. \A i \in 1 .. Len(r) : h[n][r[i]] = h[k - 1][r[i]]
    BY <1>3, <1>10, <1>11
  <2> QED
    BY <1>3, <1>9, <2>1, RunFacts
<1> QED
  BY <1>1, <1>10, <1>11, <1>12 DEF r

-----------------------------------------------------------------------------
(* The order: rounds over the rows.                                        *)

(* The rows are the numbers up to the last one told.                       *)
LEMMA RowsFacts ==
  ASSUME TableAssumption, NEW n \in Table
  PROVE  /\ m_wa_num(n) \in 0 .. Capacity
         /\ 0 .. (m_wa_num(n) - 1) \subseteq Attr
         /\ \A a \in Attr : n[a].inited => a \in 0 .. (m_wa_num(n) - 1)
         /\ Rows(n) \in Seq(Attr) /\ Len(Rows(n)) = m_wa_num(n)
         /\ \A r \in 1 .. m_wa_num(n) : Rows(n)[r] = r - 1
<1> DEFINE T == {b + 1 : b \in {a \in Attr : n[a].inited}}
           U == {a \in Attr : \E b \in a .. (Capacity - 1) : n[b].inited}
<1>0. Capacity \in Nat \ {0}
  BY DEF TableAssumption
<1>1. T \in SUBSET (1 .. Capacity)
  BY <1>0 DEF Attr
<1>2. /\ m_wa_num(n) \in 0 .. Capacity
      /\ \A a \in Attr : n[a].inited => a < m_wa_num(n)
  <2>1. CASE T = {}
    <3>1. U = {}
      BY <1>0, <2>1 DEF Attr
    <3>2. m_wa_num(n) = 0
      BY <3>1, FS_EmptySet DEF m_wa_num
    <3> QED
      BY <1>0, <2>1, <3>2
  <2>2. CASE T # {}
    <3>1. Max(T) \in T /\ \A j \in T : j <= Max(T)
      <4> HIDE DEF T
      <4> QED
        BY <1>0, <1>1, <2>2, LastOf
    <3>2. PICK b \in Attr : n[b].inited /\ Max(T) = b + 1
      BY <3>1
    <3>3. \A a \in Attr : n[a].inited => a + 1 <= b + 1
      BY <3>1, <3>2
    <3>4. b \in 0 .. (Capacity - 1)
      BY DEF Attr
    <3>5. U = 0 .. b
      <4>1. ASSUME NEW a \in U PROVE a \in 0 .. b
        <5>1. PICK c \in a .. (Capacity - 1) : n[c].inited
          OBVIOUS
        <5>2. c \in Attr /\ a \in Nat
          BY <1>0 DEF Attr
        <5> QED
          BY <3>3, <3>4, <5>1, <5>2
      <4>2. ASSUME NEW a \in 0 .. b PROVE a \in U
        <5>1. a \in Attr /\ b \in a .. (Capacity - 1)
          BY <1>0, <3>4 DEF Attr
        <5> QED
          BY <3>2, <5>1
      <4> QED
        BY <4>1, <4>2
    <3>6. m_wa_num(n) = b + 1
      <4>1. Cardinality(0 .. b) = b + 1
        BY <3>4, FS_Interval
      <4> QED
        BY <3>5, <4>1 DEF m_wa_num
    <3> QED
      BY <1>0, <3>3, <3>4, <3>6 DEF Attr
  <2> QED
    BY <2>1, <2>2
<1> DEFINE m == m_wa_num(n)
<1>3. Rows(n) = [r \in 1 .. m |-> r - 1]
  BY DEF Rows
<1> HIDE DEF m, T, U
<1>4. m \in Nat /\ m <= Capacity
  BY <1>0, <1>2 DEF m
<1>5. \A r \in 1 .. m : r - 1 \in Attr
  BY <1>0, <1>4 DEF Attr
<1>6. Rows(n) \in [1 .. m -> Attr]
  BY <1>3, <1>5
<1>7. Rows(n) \in Seq(Attr) /\ Len(Rows(n)) = m
  <2>1. Rows(n) \in Seq(Attr)
    BY <1>4, <1>6, IsASeq
  <2> QED
    BY <1>4, <1>6, <2>1
<1>8. 0 .. (m - 1) \subseteq Attr
  BY <1>0, <1>4 DEF Attr
<1>9. \A a \in Attr : n[a].inited => a \in 0 .. (m - 1)
  BY <1>2, <1>4 DEF m, Attr
<1> QED
  BY <1>2, <1>3, <1>7, <1>8, <1>9 DEF m

(* What parse_run_sort keeps.                                              *)
SortState == [walked : SUBSET Attr, sort : Seq(Attr), done : Nat]

(* One row of a round.                                                     *)
LEMMA RowSorted ==
  ASSUME TableAssumption, NEW n \in Table, NodesOK(n), NEW s \in SortState, NEW i \in Attr,
         NEW t, t = SortRow(n, s, i)
  PROVE  /\ t \in SortState
         /\ s.walked \subseteq t.walked /\ t.walked \subseteq s.walked \cup {wa_id(n, i)}
         /\ s.done <= t.done
         /\ t.sort = s.sort \/ /\ i \notin s.walked /\ n[i].need_buf \subseteq s.walked
                               /\ n[i].cmd_data # <<>>
                               /\ t.walked = s.walked \cup {i} /\ t.sort = Append(s.sort, i)
         /\ t.sort = s.sort => \A a \in t.walked \ s.walked : a = wa_id(n, i) /\ n[i].cmd_data = <<>>
         /\ t.done = s.done \/ n[i].cmd_data = <<>> => wa_id(n, i) \in t.walked
         /\ wa_id(n, i) \notin t.walked => /\ n[i].inited /\ n[i].cmd_data # <<>>
                                           /\ ~(n[i].need_buf \subseteq s.walked)
         /\ t.done # s.done => wa_id(n, i) \notin t.walked
<1>1. n[i].cmd_data # <<>> => n[i].inited /\ wa_id(n, i) = i
  BY DEF NodesOK, HasFormula, wa_id
<1>2. wa_id(n, i) \in Attr
  BY DEF wa_id, TableAssumption, Attr
<1>3. CASE wa_id(n, i) \in s.walked
  <2>1. t = s
    BY <1>3 DEF SortRow
  <2> QED
    BY <1>3, <2>1 DEF SortState
<1>4. CASE wa_id(n, i) \notin s.walked /\ n[i].cmd_data = <<>>
  <2>1. t = [s EXCEPT !.walked = @ \cup {wa_id(n, i)}]
    BY <1>4 DEF SortRow
  <2> QED
    BY <1>2, <1>4, <2>1 DEF SortState
<1>5. CASE wa_id(n, i) \notin s.walked /\ n[i].cmd_data # <<>> /\ n[i].need_buf \subseteq s.walked
  <2>1. t = [s EXCEPT !.walked = @ \cup {i}, !.sort = Append(@, i)]
    BY <1>5 DEF SortRow, check_canbe_run
  <2>2. s.sort \in Seq(Attr) /\ Append(s.sort, i) \in Seq(Attr) /\ Append(s.sort, i) # s.sort
    <3>1. s.sort \in Seq(Attr)
      BY DEF SortState
    <3>2. Append(s.sort, i) \in Seq(Attr) /\ Len(Append(s.sort, i)) = Len(s.sort) + 1
      BY <3>1, AppendProperties
    <3> QED
      BY <3>1, <3>2
  <2>3. t.walked = s.walked \cup {i} /\ t.sort = Append(s.sort, i) /\ t.done = s.done
    BY <2>1 DEF SortState
  <2>4. t \in SortState
    BY <2>1, <2>2 DEF SortState
  <2> QED
    BY <1>1, <1>5, <2>2, <2>3, <2>4 DEF SortState
<1>6. CASE wa_id(n, i) \notin s.walked /\ n[i].cmd_data # <<>> /\ ~(n[i].need_buf \subseteq s.walked)
  <2>1. t = [s EXCEPT !.done = @ + 1]
    BY <1>6 DEF SortRow, check_canbe_run
  <2> QED
    BY <1>1, <1>6, <2>1 DEF SortState
<1> QED
  BY <1>3, <1>4, <1>5, <1>6

(* A round of parse_run_sort looks at one row after the other.             *)
LEMMA RoundSteps ==
  ASSUME TableAssumption, NEW n \in Table, NodesOK(n), NEW s \in SortState
  PROVE  \E h \in [0 .. m_wa_num(n) -> SortState] :
           /\ h[0] = [s EXCEPT !.done = 0]
           /\ \A i \in 1 .. m_wa_num(n) : h[i] = SortRow(n, h[i - 1], i - 1)
           /\ SortRound(n, s) = h[m_wa_num(n)]
<1> DEFINE m == Len(Rows(n))
           base == [s EXCEPT !.done = 0]
           D == SortState
           G == [z \in D \X (1 .. m) |-> SortRow(n, z[1], Rows(n)[z[2]])]
           Result(g) == [q \in SUBSET (1 .. m) |->
                           IF q = {} THEN base ELSE SortRow(n, g[q \ {Max(q)}], Rows(n)[Max(q)])]
           it == CHOOSE g : g = Result(g)
<1>0. m = m_wa_num(n)
  BY RowsFacts
<1>1. m \in Nat /\ base \in D /\ \A i \in 1 .. m : Rows(n)[i] = i - 1 /\ Rows(n)[i] \in Attr
  <2>1. m \in Nat /\ \A i \in 1 .. m : Rows(n)[i] = i - 1 /\ Rows(n)[i] \in Attr
    <3>1. Capacity \in Nat
      BY DEF TableAssumption
    <3>2. m \in Nat
      BY <1>0, <3>1, RowsFacts
    <3> HIDE DEF m
    <3>3. \A i \in 1 .. m : Rows(n)[i] = i - 1 /\ i - 1 \in 0 .. (m - 1)
      BY <1>0, <3>2, RowsFacts
    <3>4. \A i \in 0 .. (m - 1) : i \in Attr
      BY <1>0, RowsFacts
    <3> QED
      BY <3>2, <3>3, <3>4
  <2> QED
    BY <2>1 DEF SortState
<1>2. \A x \in D, i \in 1 .. m : SortRow(n, x, Rows(n)[i]) \in D
  BY <1>1, RowSorted
<1>3. \A x \in D, i \in 1 .. m : G[<<x, i>>] = SortRow(n, x, Rows(n)[i])
  OBVIOUS
<1>13. DOMAIN Rows(n) = 1 .. m
  BY RowsFacts
<1>7. SortRound(n, s) = it[1 .. m]
  BY <1>13 DEF SortRound, FoldLeft, MapThenFoldSet
<1> HIDE DEF m, D, base
<1>4. PICK f : IsFold(f, m, D, base, G)
  <2>1. \A x \in D : \A i \in 1 .. m : G[<<x, i>>] \in D
    BY <1>2, <1>3
  <2> HIDE DEF G
  <2> QED
    BY <1>1, <2>1, FoldDefined
<1> HIDE DEF G
<1>5. f = Result(f)
  <2> USE DEF IsFold
  <2>1. ASSUME NEW q \in SUBSET (1 .. m), q # {}
        PROVE  G[<<f[q \ {Max(q)}], Max(q)>>] = SortRow(n, f[q \ {Max(q)}], Rows(n)[Max(q)])
    <3>1. Max(q) \in 1 .. m
      BY <1>1, <2>1, LastOf
    <3>2. f[q \ {Max(q)}] \in D
      BY <1>4
    <3> QED
      BY <1>3, <3>1, <3>2
  <2>2. ASSUME NEW q \in SUBSET (1 .. m)
        PROVE  f[q] = IF q = {} THEN base ELSE SortRow(n, f[q \ {Max(q)}], Rows(n)[Max(q)])
    BY <1>4, <2>1
  <2>3. f \in [SUBSET (1 .. m) -> D]
    BY <1>4
  <2> QED
    BY <2>2, <2>3
<1>6. it = Result(it)
  <2> HIDE DEF Result
  <2> QED
    BY <1>5
<1> HIDE DEF it
<1>8. it[{}] = base
  <2>1. {} \in SUBSET (1 .. m)
    OBVIOUS
  <2> QED
    BY <1>6, <2>1
<1>9. ASSUME NEW q \in SUBSET (1 .. m), q # {}, it[q \ {Max(q)}] \in D
      PROVE  it[q] = G[<<it[q \ {Max(q)}], Max(q)>>]
  <2>1. Max(q) \in 1 .. m
    BY <1>1, <1>9, LastOf
  <2>2. it[q] = SortRow(n, it[q \ {Max(q)}], Rows(n)[Max(q)])
    BY <1>6, <1>9
  <2> QED
    BY <1>3, <1>9, <2>1, <2>2
<1> HIDE DEF Result
<1>10. PICK h : IsPath(h, m, D, base, G, it[1 .. m])
  <2>1. \A x \in D : \A i \in 1 .. m : G[<<x, i>>] \in D
    BY <1>2, <1>3
  <2> QED
    BY <1>1, <1>8, <1>9, <2>1, FoldPath
<1>11. ASSUME NEW i \in 1 .. m
       PROVE  h[i] = SortRow(n, h[i - 1], i - 1)
  <2>1. i - 1 \in 0 .. m
    BY <1>1
  <2>2. h[i - 1] \in D /\ h[i] = G[<<h[i - 1], i>>] /\ Rows(n)[i] = i - 1
    BY <1>1, <1>10, <2>1 DEF IsPath
  <2> QED
    BY <1>3, <2>2
<1>12. m_wa_num(n) = m
  BY <1>0 DEF m
<1> QED
  BY <1>7, <1>10, <1>11, <1>12 DEF D, base, IsPath

(* The order behind p while the rounds go on: what is in it and what that  *)
(* needs is walked, nothing comes twice or before what it needs, and every *)
(* formula that is walked is there.                                        *)
InOrder(n, p, order) ==
  \A k \in (p + 1) .. Len(order) : \A j \in (k + 1) .. Len(order) :
    order[j] \notin n[order[k]].need_buf \cup {order[k]}

SortInv(n, p, s) ==
  /\ p \in 0 .. Len(s.sort)
  /\ \A k \in (p + 1) .. Len(s.sort) : s.sort[k] \in s.walked /\ n[s.sort[k]].need_buf \subseteq s.walked
  /\ InOrder(n, p, s.sort)
  /\ \A a \in s.walked : n[a].cmd_data # <<>> /\ (a # 0 \/ CompleteIn(n)) =>
       \E k \in (p + 1) .. Len(s.sort) : s.sort[k] = a

(* A row of a round keeps what a round relies on: the order it continues   *)
(* and the formulas it has walked.                                         *)
LEMMA RowKeepsOrder ==
  ASSUME TableAssumption, NEW n \in Table, NodesOK(n), NEW s \in SortState,
         NEW i \in 0 .. (m_wa_num(n) - 1), i \in Attr, NEW p, SortInv(n, p, s),
         NEW t, t = SortRow(n, s, i)
  PROVE  SortInv(n, p, t)
<1>1. /\ t \in SortState /\ s.walked \subseteq t.walked
      /\ t.sort = s.sort \/ /\ i \notin s.walked /\ n[i].need_buf \subseteq s.walked
                            /\ n[i].cmd_data # <<>>
                            /\ t.walked = s.walked \cup {i} /\ t.sort = Append(s.sort, i)
      /\ t.sort = s.sort => \A a \in t.walked \ s.walked : a = wa_id(n, i) /\ n[i].cmd_data = <<>>
  BY RowSorted
<1>2. p \in 0 .. Len(s.sort) /\ Len(s.sort) \in Nat /\ s.sort \in Seq(Attr)
  BY DEF SortInv, SortState
<1>3. CASE t.sort = s.sort
  <2>1. ASSUME NEW a \in t.walked \ s.walked, n[a].cmd_data # <<>>, a # 0 \/ CompleteIn(n)
        PROVE  FALSE
    <3>1. a = wa_id(n, i) /\ n[i].cmd_data = <<>>
      BY <1>1, <1>3
    <3>2. n[i].inited => a = i
      BY <3>1 DEF wa_id
    <3>3. ~n[i].inited /\ a = 0
      BY <2>1, <3>1, <3>2 DEF wa_id
    <3>4. ~CompleteIn(n)
      BY <3>3 DEF CompleteIn
    <3> QED
      BY <2>1, <3>3, <3>4
  <2>2. \A a \in t.walked : n[a].cmd_data # <<>> /\ (a # 0 \/ CompleteIn(n)) =>
          \E k \in (p + 1) .. Len(t.sort) : t.sort[k] = a
    BY <1>3, <2>1 DEF SortInv
  <2> QED
    BY <1>1, <1>3, <2>2 DEF SortInv
<1>4. CASE t.sort # s.sort
  <2> DEFINE l == Len(s.sort)
             q == s.sort
             u == t.sort
  <2>1. /\ i \notin s.walked /\ n[i].need_buf \subseteq s.walked
        /\ t.walked = s.walked \cup {i} /\ u = Append(q, i)
    BY <1>1, <1>4
  <2>2. /\ Len(u) = l + 1 /\ u[l + 1] = i
        /\ \A k \in 1 .. l : u[k] = q[k]
    BY <1>2, <2>1, AppendProperties
  <2>3. \A k \in (p + 1) .. l : /\ q[k] \in s.walked /\ n[q[k]].need_buf \subseteq s.walked
    BY DEF SortInv
  <2>4. \A k \in (p + 1) .. l : \A j \in (k + 1) .. l : q[j] \notin n[q[k]].need_buf \cup {q[k]}
    BY DEF SortInv, InOrder
  <2>5. \A a \in s.walked : n[a].cmd_data # <<>> /\ (a # 0 \/ CompleteIn(n)) =>
       \E k \in (p + 1) .. l : q[k] = a
    BY DEF SortInv
  <2> HIDE DEF l, q, u
  <2>6. l \in Nat /\ p \in 0 .. l
    BY <1>2 DEF l
  <2>7. \A k \in (p + 1) .. (l + 1) : k = l + 1 \/ (k \in (p + 1) .. l /\ k \in 1 .. l)
    BY <2>6
  <2>8. p \in 0 .. (l + 1) /\ l + 1 \in (p + 1) .. (l + 1)
    BY <2>6
  <2>9. \A k \in (p + 1) .. (l + 1) : u[k] \in t.walked /\ n[u[k]].need_buf \subseteq t.walked
    BY <2>1, <2>2, <2>3, <2>7
  <2>10. ASSUME NEW k \in (p + 1) .. (l + 1), NEW j \in (k + 1) .. (l + 1)
         PROVE  u[j] \notin n[u[k]].need_buf \cup {u[k]}
    <3>1. k \in (p + 1) .. l /\ k \in 1 .. l /\ (j = l + 1 \/ (j \in (k + 1) .. l /\ j \in 1 .. l))
      BY <2>6
    <3>2. CASE j = l + 1
      BY <2>1, <2>2, <2>3, <3>1, <3>2
    <3>3. CASE j \in (k + 1) .. l /\ j \in 1 .. l
      BY <2>2, <2>4, <3>1, <3>3
    <3> QED
      BY <3>1, <3>2, <3>3
  <2>11. ASSUME NEW a \in t.walked, n[a].cmd_data # <<>> /\ (a # 0 \/ CompleteIn(n))
         PROVE  \E k \in (p + 1) .. (l + 1) : u[k] = a
    <3>1. CASE a = i
      BY <2>2, <2>8, <3>1
    <3>2. CASE a \in s.walked
      <4>1. PICK k \in (p + 1) .. l : q[k] = a
        BY <2>5, <2>11, <3>2
      <4>2. k \in (p + 1) .. (l + 1) /\ k \in 1 .. l
        BY <2>6
      <4> QED
        BY <2>2, <4>1, <4>2
    <3> QED
      BY <2>1, <3>1, <3>2
  <2>12. Len(t.sort) = l + 1
    BY <2>2 DEF u
  <2> QED
    BY <2>8, <2>9, <2>10, <2>11, <2>12 DEF SortInv, InOrder, u
<1> QED
  BY <1>3, <1>4

(* What a round does.                                                      *)
LEMMA RoundSorted ==
  ASSUME TableAssumption, NEW n \in Table, NodesOK(n), NEW s \in SortState, NEW t, t = SortRound(n, s)
  PROVE  /\ t \in SortState
         /\ s.walked \subseteq t.walked /\ t.walked \subseteq s.walked \cup 0 .. (m_wa_num(n) - 1)
         /\ \A p : SortInv(n, p, s) => SortInv(n, p, t)
         /\ \A i \in 0 .. (m_wa_num(n) - 1) : t.done = 0 \/ n[i].cmd_data = <<>> => wa_id(n, i) \in t.walked
         /\ t.walked = s.walked =>
              \A i \in 0 .. (m_wa_num(n) - 1) : wa_id(n, i) \notin t.walked =>
                n[i].inited /\ n[i].cmd_data # <<>> /\ ~(n[i].need_buf \subseteq t.walked)
         /\ t.done # 0 =>
              \E i \in 0 .. (m_wa_num(n) - 1) :
                /\ n[i].inited /\ n[i].cmd_data # <<>> /\ i \notin s.walked
                /\ i \in t.walked => i = 0 /\ \E j \in 1 .. (m_wa_num(n) - 1) : ~n[j].inited
<1> DEFINE m == m_wa_num(n)
<1>1. PICK h \in [0 .. m -> SortState] :
           /\ h[0] = [s EXCEPT !.done = 0]
           /\ \A i \in 1 .. m : h[i] = SortRow(n, h[i - 1], i - 1)
           /\ SortRound(n, s) = h[m]
  BY RoundSteps
<1>2. m \in Nat /\ 0 .. (m - 1) \subseteq Attr
  <2>1. Capacity \in Nat
    BY DEF TableAssumption
  <2> QED
    BY <2>1, RowsFacts
<1>3. h[0].walked = s.walked /\ h[0].sort = s.sort /\ h[0].done = 0
  BY <1>1 DEF SortState
<1>15. \A i \in Attr : n[i].cmd_data # <<>> => n[i].inited /\ wa_id(n, i) = i
  BY DEF NodesOK, HasFormula, wa_id
<1> HIDE DEF m
<1>4. ASSUME NEW i \in 1 .. m
      PROVE  /\ i - 1 \in 0 .. m /\ i - 1 \in 0 .. (m - 1) /\ i - 1 \in Attr /\ i \in 0 .. m
             /\ h[i - 1] \in SortState /\ h[i] \in SortState
             /\ h[i] = SortRow(n, h[i - 1], i - 1)
  <2>1. i - 1 \in 0 .. m /\ i \in 0 .. m /\ i - 1 \in 0 .. (m - 1)
    BY <1>2
  <2> QED
    BY <1>1, <1>2, <2>1
<1>5. ASSUME NEW i \in 1 .. m
      PROVE  /\ h[i - 1].walked \subseteq h[i].walked /\ h[i].walked \subseteq h[i - 1].walked \cup {wa_id(n, i - 1)}
             /\ h[i - 1].done <= h[i].done
             /\ h[i].done = h[i - 1].done \/ n[i - 1].cmd_data = <<>> => wa_id(n, i - 1) \in h[i].walked
             /\ wa_id(n, i - 1) \notin h[i].walked => /\ n[i - 1].inited /\ n[i - 1].cmd_data # <<>>
                                                      /\ ~(n[i - 1].need_buf \subseteq h[i - 1].walked)
             /\ h[i].done # h[i - 1].done => wa_id(n, i - 1) \notin h[i].walked
  <2> HIDE DEF NodesOK
  <2>1. h[i] = SortRow(n, h[i - 1], i - 1) /\ h[i - 1] \in SortState /\ i - 1 \in Attr
    BY <1>4
  <2> DEFINE x == h[i - 1]
             y == h[i]
             r == i - 1
  <2>2. y = SortRow(n, x, r) /\ x \in SortState /\ r \in Attr
    BY <2>1
  <2> HIDE DEF x, y, r
  <2>3. /\ x.walked \subseteq y.walked /\ y.walked \subseteq x.walked \cup {wa_id(n, r)}
        /\ x.done <= y.done
        /\ y.done = x.done \/ n[r].cmd_data = <<>> => wa_id(n, r) \in y.walked
        /\ wa_id(n, r) \notin y.walked => /\ n[r].inited /\ n[r].cmd_data # <<>>
                                          /\ ~(n[r].need_buf \subseteq x.walked)
        /\ y.done # x.done => wa_id(n, r) \notin y.walked
    BY <2>2, RowSorted
  <2> QED
    BY <2>3 DEF x, y, r
<1>6. \A k \in 0 .. m : h[k] \in SortState /\ h[k].done \in Nat
  BY <1>1 DEF SortState
<1>7. \A k \in 0 .. m : \A j \in 0 .. k : h[j].walked \subseteq h[k].walked /\ h[j].done <= h[k].done
  <2> DEFINE S == {k \in 0 .. m : \A j \in 0 .. k : h[j].walked \subseteq h[k].walked /\ h[j].done <= h[k].done}
  <2>1. 0 \in S
    <3>1. \A j \in 0 .. 0 : j = 0
      OBVIOUS
    <3>2. 0 \in 0 .. m
      BY <1>2
    <3> QED
      BY <1>3, <3>1, <3>2
  <2>2. ASSUME NEW i \in 1 .. m, i - 1 \in S
        PROVE  i \in S
    <3>1. ASSUME NEW j \in 0 .. i
          PROVE  h[j].walked \subseteq h[i].walked /\ h[j].done <= h[i].done
      <4>1. j = i \/ j \in 0 .. (i - 1)
        BY <1>2
      <4>2. j \in 0 .. m /\ h[j].done \in Nat /\ h[i].done \in Nat /\ h[i - 1].done \in Nat
        BY <1>2, <1>4, <1>6
      <4>3. CASE j = i
        BY <4>2, <4>3
      <4>4. CASE j \in 0 .. (i - 1)
        <5>1. h[j].walked \subseteq h[i - 1].walked /\ h[j].done <= h[i - 1].done
          BY <2>2, <4>4
        <5>2. h[i - 1].walked \subseteq h[i].walked /\ h[i - 1].done <= h[i].done
          BY <1>5
        <5> QED
          BY <4>2, <5>1, <5>2
      <4> QED
        BY <4>1, <4>3, <4>4
    <3> QED
      BY <1>4, <3>1
  <2>3. 0 .. m \subseteq S
    <3> HIDE DEF S
    <3> QED
      BY <1>2, <2>1, <2>2, Along
  <2> QED
    BY <2>3
<1>8. t = h[m] /\ m \in 0 .. m /\ t \in SortState
  BY <1>1, <1>2 DEF m
<1>9. s.walked \subseteq t.walked
  BY <1>2, <1>3, <1>7, <1>8
<1>10. t.walked \subseteq s.walked \cup 0 .. (m - 1)
  <2> DEFINE S == {k \in 0 .. m : h[k].walked \subseteq s.walked \cup 0 .. (m - 1)}
  <2>1. 0 \in S
    BY <1>2, <1>3
  <2>2. ASSUME NEW i \in 1 .. m, i - 1 \in S
        PROVE  i \in S
    <3>1. wa_id(n, i - 1) \in 0 .. (m - 1)
      BY <1>2, <1>4 DEF wa_id
    <3> QED
      BY <1>4, <1>5, <2>2, <3>1
  <2>3. 0 .. m \subseteq S
    <3> HIDE DEF S
    <3> QED
      BY <1>2, <2>1, <2>2, Along
  <2> QED
    BY <1>8, <2>3
<1>11. ASSUME NEW p, SortInv(n, p, s)
       PROVE  SortInv(n, p, t)
  <2> DEFINE S == {k \in 0 .. m : SortInv(n, p, h[k])}
  <2>1. 0 \in S
    <3>1. 0 \in 0 .. m
      BY <1>2
    <3>2. SortInv(n, p, h[0])
      BY <1>3, <1>11 DEF SortInv
    <3> QED
      BY <3>1, <3>2
  <2>2. ASSUME NEW i \in 1 .. m, i - 1 \in S
        PROVE  i \in S
    <3> DEFINE x == h[i - 1]
               r == i - 1
    <3>1. h[i] = SortRow(n, x, r) /\ x \in SortState /\ r \in Attr /\ r \in 0 .. (m_wa_num(n) - 1) /\ i \in 0 .. m
      BY <1>4 DEF m
    <3>2. SortInv(n, p, x)
      BY <2>2
    <3> HIDE DEF x, r
    <3>3. SortInv(n, p, h[i])
      BY <3>1, <3>2, RowKeepsOrder
    <3> QED
      BY <3>1, <3>3
  <2>3. 0 .. m \subseteq S
    <3> HIDE DEF S
    <3> QED
      BY <1>2, <2>1, <2>2, Along
  <2> QED
    BY <1>8, <2>3
<1>12. ASSUME NEW i \in 0 .. (m - 1), t.done = 0 \/ n[i].cmd_data = <<>>
       PROVE  wa_id(n, i) \in t.walked
  <2>1. i + 1 \in 1 .. m /\ i + 1 \in 0 .. m /\ (i + 1) - 1 = i
    BY <1>2
  <2>2. h[i + 1].walked \subseteq t.walked /\ h[i + 1].done <= t.done
    BY <1>7, <1>8, <2>1
  <2>3. h[i + 1].done = h[i].done \/ n[i].cmd_data = <<>> => wa_id(n, i) \in h[i + 1].walked
    BY <1>5, <2>1
  <2>4. t.done = 0 => h[i + 1].done = h[i].done
    <3>1. i \in 0 .. m /\ i \in 0 .. (i + 1)
      BY <1>2
    <3>2. h[i].done \in Nat /\ h[i + 1].done \in Nat /\ h[i].done <= h[i + 1].done
      BY <1>6, <1>7, <2>1, <3>1
    <3> QED
      BY <2>2, <3>2
  <2> QED
    BY <1>12, <2>2, <2>3, <2>4
<1>13. ASSUME NEW i \in 0 .. (m - 1), t.walked = s.walked, wa_id(n, i) \notin t.walked
       PROVE  n[i].inited /\ n[i].cmd_data # <<>> /\ ~(n[i].need_buf \subseteq t.walked)
  <2>1. i + 1 \in 1 .. m /\ i + 1 \in 0 .. m /\ i \in 0 .. m /\ (i + 1) - 1 = i /\ 0 \in 0 .. i
    BY <1>2
  <2>2. h[i + 1].walked \subseteq t.walked /\ h[i].walked \subseteq t.walked
    BY <1>7, <1>8, <2>1
  <2>3. t.walked \subseteq h[i].walked
    BY <1>3, <1>7, <1>13, <2>1
  <2>4. wa_id(n, i) \notin h[i + 1].walked => /\ n[i].inited /\ n[i].cmd_data # <<>>
                                              /\ ~(n[i].need_buf \subseteq h[i].walked)
    BY <1>5, <2>1
  <2> QED
    BY <1>13, <2>2, <2>3, <2>4
<1>14. t.done # 0 =>
              \E i \in 0 .. (m - 1) :
                /\ n[i].inited /\ n[i].cmd_data # <<>> /\ i \notin s.walked
                /\ i \in t.walked => i = 0 /\ \E j \in 1 .. (m - 1) : ~n[j].inited
  <2> DEFINE Left(k) == \E i \in 0 .. (k - 1) :
                         /\ n[i].inited /\ n[i].cmd_data # <<>> /\ i \notin s.walked
                         /\ i \in h[k].walked => i = 0 /\ \E j \in 1 .. (m - 1) : ~n[j].inited
             S == {k \in 0 .. m : h[k].done # 0 => Left(k)}
  <2>1. 0 \in S
    BY <1>2, <1>3
  <2>2. ASSUME NEW i \in 1 .. m, i - 1 \in S
        PROVE  i \in S
    <3>1. SUFFICES ASSUME h[i].done # 0 PROVE Left(i)
      BY <1>4
    <3>2. CASE h[i - 1].done # 0
      <4>1. PICK b \in 0 .. ((i - 1) - 1) :
              /\ n[b].inited /\ n[b].cmd_data # <<>> /\ b \notin s.walked
              /\ b \in h[i - 1].walked => b = 0 /\ \E j \in 1 .. (m - 1) : ~n[j].inited
        BY <2>2, <3>2
      <4>2. b \in 0 .. (i - 1) /\ b # i - 1
        BY <1>2
      <4>3. ASSUME b \in h[i].walked, b \notin h[i - 1].walked
            PROVE  b = 0 /\ \E j \in 1 .. (m - 1) : ~n[j].inited
        <5>1. b = wa_id(n, i - 1)
          BY <1>5, <4>3
        <5>2. ~n[i - 1].inited /\ b = 0
          BY <4>2, <5>1 DEF wa_id
        <5>3. i - 1 \in 1 .. (m - 1)
          BY <1>2, <4>2, <5>2
        <5> QED
          BY <5>2, <5>3
      <4> QED
        BY <4>1, <4>2, <4>3
    <3>3. CASE h[i - 1].done = 0
      <4>1. wa_id(n, i - 1) \notin h[i].walked
        BY <1>5, <3>1, <3>3
      <4>2. n[i - 1].inited /\ n[i - 1].cmd_data # <<>>
        BY <1>5, <4>1
      <4>3. wa_id(n, i - 1) = i - 1
        BY <4>2 DEF wa_id
      <4>4. s.walked \subseteq h[i].walked
        <5>1. 0 \in 0 .. i /\ i \in 0 .. m
          BY <1>2
        <5> QED
          BY <1>3, <1>7, <5>1
      <4>5. i - 1 \in 0 .. (i - 1)
        BY <1>2
      <4> QED
        BY <4>1, <4>2, <4>3, <4>4, <4>5
    <3> QED
      BY <3>2, <3>3
  <2>3. 0 .. m \subseteq S
    <3> HIDE DEF S
    <3> QED
      BY <1>2, <2>1, <2>2, Along
  <2> QED
    BY <1>8, <2>3
<1> QED
  BY <1>8, <1>9, <1>10, <1>11, <1>12, <1>13, <1>14 DEF m

(* parse_run_sort is a path of rounds, which stays where it is once a round*)
(* left nothing over.                                                      *)
LEMMA SortSteps ==
  ASSUME TableAssumption, NEW n \in Table, NodesOK(n), m_run_sort \in Seq(Attr)
  PROVE  \E f \in [0 .. m_wa_num(n) -> SortState] :
           /\ f[0] = [walked |-> {}, sort |-> m_run_sort, done |-> 1]
           /\ \A k \in 1 .. m_wa_num(n) :
                f[k] = IF f[k - 1].done = 0 THEN f[k - 1] ELSE SortRound(n, f[k - 1])
           /\ parse_run_sort(n) = f[m_wa_num(n)]
<1> DEFINE m == m_wa_num(n)
           base == [walked |-> {}, sort |-> m_run_sort, done |-> 1]
           Step(x) == IF x.done = 0 THEN x ELSE SortRound(n, x)
           G == [x \in SortState |-> Step(x)]
           Result(g) == [k \in 0 .. m |-> IF k = 0 THEN base
                                         ELSE IF g[k - 1].done = 0 THEN g[k - 1]
                                         ELSE SortRound(n, g[k - 1])]
           round == CHOOSE g : g = Result(g)
<1>1. m \in Nat /\ base \in SortState
  <2>1. Capacity \in Nat
    BY DEF TableAssumption
  <2> QED
    BY <2>1, RowsFacts DEF SortState
<1>2. \A x \in SortState : G[x] = Step(x) /\ Step(x) \in SortState
  <2>1. \A x \in SortState : Step(x) \in SortState
    BY RoundSorted
  <2> QED
    BY <2>1
<1>3. parse_run_sort(n) = round[m]
  BY DEF parse_run_sort
<1> HIDE DEF m, base
<1>4. PICK f : IsIteration(f, m, SortState, base, G)
  <2>1. \A x \in SortState : G[x] \in SortState
    BY <1>2
  <2> HIDE DEF G
  <2> QED
    BY <1>1, <2>1, IterationDefined
<1> HIDE DEF G
<1>5. f \in [0 .. m -> SortState] /\ \A k \in 0 .. m : f[k] = IF k = 0 THEN base ELSE G[f[k - 1]]
  BY <1>4 DEF IsIteration
<1>6. \A k \in 0 .. m : f[k] = IF k = 0 THEN base ELSE Step(f[k - 1])
  <2>1. ASSUME NEW k \in 0 .. m, k # 0
        PROVE  f[k - 1] \in SortState
    <3>1. k - 1 \in 0 .. m
      BY <1>1, <2>1
    <3> QED
      BY <1>5, <3>1
  <2> HIDE DEF Step
  <2> QED
    BY <1>2, <1>5, <2>1
<1>7. f = Result(f)
  BY <1>5, <1>6
<1>8. round = Result(round)
  <2> HIDE DEF Result
  <2> QED
    BY <1>7
<1> HIDE DEF round
<1>9. \A k \in 0 .. m : round[k] = IF k = 0 THEN base ELSE Step(round[k - 1])
  BY <1>8
<1>10. 0 .. m \subseteq {k \in 0 .. m : round[k] = f[k]}
  <2> DEFINE S == {k \in 0 .. m : round[k] = f[k]}
  <2>1. 0 \in S
    BY <1>1, <1>6, <1>9
  <2>2. ASSUME NEW i \in 1 .. m, i - 1 \in S
        PROVE  i \in S
    <3>1. i \in 0 .. m /\ i # 0 /\ round[i - 1] = f[i - 1]
      BY <1>1, <2>2
    <3>2. round[i] = Step(round[i - 1]) /\ f[i] = Step(f[i - 1])
      BY <1>6, <1>9, <3>1
    <3> HIDE DEF Step
    <3> QED
      BY <3>1, <3>2
  <2> HIDE DEF S
  <2>3. 0 .. m \subseteq S
    BY <1>1, <2>1, <2>2, Along
  <2> QED
    BY <2>3 DEF S
<1>11. f[0] = base /\ round[m] = f[m] /\ \A k \in 1 .. m : f[k] = Step(f[k - 1])
  <2>1. 0 \in 0 .. m /\ m \in 0 .. m /\ \A k \in 1 .. m : k \in 0 .. m /\ k # 0
    BY <1>1
  <2> HIDE DEF Step
  <2> QED
    BY <1>6, <1>10, <2>1
<1> QED
  BY <1>3, <1>5, <1>11 DEF m, base

(* The formulas that a sort that fails leaves need one another.            *)
LEMMA SortFacts ==
  ASSUME TableAssumption, NEW n \in Table, NodesOK(n), m_run_sort \in Seq(Attr),
         NEW t, t = parse_run_sort(n)
  PROVE  /\ t \in SortState /\ SortInv(n, Len(m_run_sort), t)
         /\ t.done = 0 => \A i \in 0 .. (m_wa_num(n) - 1) : wa_id(n, i) \in t.walked
         /\ t.done # 0 => \/ m_wa_num(n) = 0
                          \/ \E S \in SUBSET Attr : S # {} /\ \A a \in S : n[a].need_buf \cap S # {}
<1> DEFINE m == m_wa_num(n)
<1>1. PICK f \in [0 .. m -> SortState] :
           /\ f[0] = [walked |-> {}, sort |-> m_run_sort, done |-> 1]
           /\ \A k \in 1 .. m :
                f[k] = IF f[k - 1].done = 0 THEN f[k - 1] ELSE SortRound(n, f[k - 1])
           /\ parse_run_sort(n) = f[m]
  BY SortSteps
<1>2. m \in Nat /\ 0 .. (m - 1) \subseteq Attr /\ \A a \in Attr : n[a].inited => a \in 0 .. (m - 1)
  <2>1. Capacity \in Nat
    BY DEF TableAssumption
  <2> QED
    BY <2>1, RowsFacts
<1> HIDE DEF m
<1>3. /\ 0 \in 0 .. m /\ m \in 0 .. m /\ t = f[m]
      /\ \A k \in 1 .. m : k \in 0 .. m /\ k - 1 \in 0 .. m /\ f[k] \in SortState /\ f[k - 1] \in SortState
  <2>1. \A k \in 1 .. m : k \in 0 .. m /\ k - 1 \in 0 .. m
    BY <1>2
  <2> QED
    <3>1. t = f[m]
      BY <1>1 DEF m
    <3>2. \A k \in 0 .. m : f[k] \in SortState
      BY <1>1
    <3>3. 0 \in 0 .. m /\ m \in 0 .. m
      BY <1>2
    <3> QED
      BY <2>1, <3>1, <3>2, <3>3
<1>4. ASSUME NEW i \in Attr
      PROVE  /\ ~n[i].inited => n[i].cmd_data = <<>>
             /\ n[i].need_buf \subseteq {b \in Attr : n[b].inited}
             /\ n[i].inited => wa_id(n, i) = i
             /\ ~n[i].inited => wa_id(n, i) = 0
  <2>1. n[i].need_buf \subseteq Attr
    BY DEF Table, NodeType
  <2>2. wa_id(n, i) = IF n[i].inited THEN i ELSE 0
    BY DEF wa_id
  <2>3. /\ ~n[i].inited => n[i].input_for = <<>>
        /\ n[i].cmd_data \in {<<>>, n[i].input_for}
        /\ \A b \in n[i].need_buf : n[b].inited
    BY DEF NodesOK, HasFormula
  <2> QED
    BY <2>1, <2>2, <2>3
<1>5. t \in SortState /\ SortInv(n, Len(m_run_sort), t)
  <2> DEFINE p == Len(m_run_sort)
             S == {k \in 0 .. m : SortInv(n, p, f[k])}
  <2>1. 0 \in S
    <3>1. p \in Nat
      OBVIOUS
    <3>2. f[0].sort = m_run_sort /\ f[0].walked = {}
      BY <1>1
    <3>3. p \in 0 .. Len(f[0].sort) /\ (p + 1) .. Len(f[0].sort) = {}
      BY <3>1, <3>2
    <3>4. SortInv(n, p, f[0])
      BY <3>2, <3>3 DEF SortInv, InOrder
    <3> QED
      BY <1>3, <3>4
  <2>2. ASSUME NEW i \in 1 .. m, i - 1 \in S
        PROVE  i \in S
    <3> DEFINE x == f[i - 1]
    <3>1. SortInv(n, p, x) /\ x \in SortState /\ i \in 0 .. m
      BY <1>3, <2>2
    <3>2. f[i] = IF x.done = 0 THEN x ELSE SortRound(n, x)
      BY <1>1
    <3> HIDE DEF x
    <3>3. SortInv(n, p, f[i])
      BY <3>1, <3>2, RoundSorted
    <3> QED
      BY <3>1, <3>3
  <2>3. 0 .. m \subseteq S
    <3> HIDE DEF S
    <3> QED
      BY <1>2, <2>1, <2>2, Along
  <2>4. SortInv(n, p, f[m])
    BY <1>3, <2>3
  <2>5. f[m] \in SortState
    BY <1>1, <1>3
  <2> HIDE DEF p
  <2>6. t \in SortState /\ SortInv(n, p, t)
    BY <1>3, <2>4, <2>5
  <2> QED
    BY <2>6 DEF p
<1>6. ASSUME t.done = 0, NEW i \in 0 .. (m - 1)
      PROVE  wa_id(n, i) \in t.walked
  <2> DEFINE S == {k \in 0 .. m : f[k].done = 0 => wa_id(n, i) \in f[k].walked}
  <2>1. 0 \in S
    BY <1>1, <1>3
  <2>2. ASSUME NEW j \in 1 .. m, j - 1 \in S
        PROVE  j \in S
    <3> DEFINE x == f[j - 1]
    <3>1. x \in SortState /\ j \in 0 .. m /\ (x.done = 0 => wa_id(n, i) \in x.walked)
      BY <1>3, <2>2
    <3>2. f[j] = IF x.done = 0 THEN x ELSE SortRound(n, x)
      BY <1>1
    <3> HIDE DEF x
    <3>3. SortRound(n, x).done = 0 => wa_id(n, i) \in SortRound(n, x).walked
      BY <3>1, RoundSorted DEF m
    <3> QED
      BY <3>1, <3>2, <3>3
  <2>3. 0 .. m \subseteq S
    <3> HIDE DEF S
    <3> QED
      BY <1>2, <2>1, <2>2, Along
  <2> QED
    BY <1>3, <1>6, <2>3
<1>7. ASSUME t.done # 0, m # 0
      PROVE  \E S \in SUBSET Attr : S # {} /\ \A a \in S : n[a].need_buf \cap S # {}
  <2>1. \A k \in 0 .. m : f[m - k].done # 0
    <3> DEFINE S == {k \in 0 .. m : f[m - k].done # 0}
    <3>1. 0 \in S
      BY <1>2, <1>3, <1>7
    <3>2. ASSUME NEW i \in 1 .. m, i - 1 \in S
          PROVE  i \in S
      <4>1. /\ m - (i - 1) \in 1 .. m /\ (m - (i - 1)) - 1 = m - i /\ i \in 0 .. m
        BY <1>2
      <4>2. f[m - (i - 1)] = IF f[m - i].done = 0 THEN f[m - i] ELSE SortRound(n, f[m - i])
        BY <1>1, <4>1
      <4>3. f[m - (i - 1)].done # 0
        BY <3>2
      <4> QED
        BY <4>1, <4>2, <4>3
    <3>3. 0 .. m \subseteq S
      <4> HIDE DEF S
      <4> QED
        BY <1>2, <3>1, <3>2, Along
    <3> QED
      BY <3>3
  <2>2. \A k \in 0 .. m : f[k].done # 0
    <3>1. ASSUME NEW k \in 0 .. m PROVE f[k].done # 0
      <4>1. m - k \in 0 .. m /\ m - (m - k) = k
        BY <1>2
      <4>2. f[m - (m - k)].done # 0
        BY <2>1, <4>1
      <4> QED
        BY <4>1, <4>2
    <3> QED
      BY <3>1
  <2>3. ASSUME NEW k \in 1 .. m
        PROVE  /\ f[k - 1].walked \subseteq f[k].walked /\ f[k].walked \subseteq f[k - 1].walked \cup 0 .. (m - 1)
               /\ \A i \in 0 .. (m - 1) : n[i].cmd_data = <<>> => wa_id(n, i) \in f[k].walked
               /\ f[k].walked = f[k - 1].walked =>
                    \A i \in 0 .. (m - 1) : wa_id(n, i) \notin f[k].walked =>
                      n[i].inited /\ n[i].cmd_data # <<>> /\ ~(n[i].need_buf \subseteq f[k].walked)
               /\ \E i \in 0 .. (m - 1) :
                    /\ n[i].inited /\ n[i].cmd_data # <<>> /\ i \notin f[k - 1].walked
                    /\ i \in f[k].walked => i = 0 /\ \E j \in 1 .. (m - 1) : ~n[j].inited
    <3> DEFINE x == f[k - 1]
               y == f[k]
    <3>1. x \in SortState /\ y = SortRound(n, x) /\ y.done # 0
      BY <1>1, <1>3, <2>2
    <3> HIDE DEF x, y
    <3>2. /\ x.walked \subseteq y.walked /\ y.walked \subseteq x.walked \cup 0 .. (m - 1)
          /\ \A i \in 0 .. (m - 1) : n[i].cmd_data = <<>> => wa_id(n, i) \in y.walked
          /\ y.walked = x.walked =>
               \A i \in 0 .. (m - 1) : wa_id(n, i) \notin y.walked =>
                 n[i].inited /\ n[i].cmd_data # <<>> /\ ~(n[i].need_buf \subseteq y.walked)
          /\ \E i \in 0 .. (m - 1) :
               /\ n[i].inited /\ n[i].cmd_data # <<>> /\ i \notin x.walked
               /\ i \in y.walked => i = 0 /\ \E j \in 1 .. (m - 1) : ~n[j].inited
      BY <3>1, RoundSorted DEF m
    <3> QED
      BY <3>2 DEF x, y
  <2>4. ASSUME NEW k \in 1 .. m, f[k].walked = f[k - 1].walked
        PROVE  \E S \in SUBSET Attr : S # {} /\ \A a \in S : n[a].need_buf \cap S # {}
    <3> DEFINE S == {a \in 0 .. (m - 1) : n[a].inited /\ a \notin f[k].walked}
    <3>1. S \in SUBSET Attr
      BY <1>2
    <3>2. S # {}
      BY <2>3, <2>4
    <3>3. ASSUME NEW a \in S
          PROVE  n[a].need_buf \cap S # {}
      <4>1. a \in Attr /\ wa_id(n, a) = a
        BY <1>2, <1>4
      <4>2. ~(n[a].need_buf \subseteq f[k].walked)
        BY <2>3, <2>4, <4>1
      <4>3. PICK b \in n[a].need_buf : b \notin f[k].walked
        BY <4>2
      <4>4. b \in Attr /\ n[b].inited
        BY <1>4, <4>1
      <4>5. b \in S
        BY <1>2, <4>3, <4>4
      <4> QED
        BY <4>5
    <3> QED
      BY <3>1, <3>2, <3>3
  <2>5. ASSUME \A k \in 1 .. m : f[k].walked # f[k - 1].walked
        PROVE  FALSE
    <3>1. 0 .. m \subseteq {k \in 0 .. m : /\ f[k].walked \subseteq 0 .. (m - 1)
                                           /\ Cardinality(f[k].walked) >= k}
      <4> DEFINE S == {k \in 0 .. m : /\ f[k].walked \subseteq 0 .. (m - 1)
                                      /\ Cardinality(f[k].walked) >= k}
      <4>1. 0 \in S
        <5>1. f[0].walked = {} /\ Cardinality(f[0].walked) = 0
          BY <1>1, FS_EmptySet
        <5> HIDE DEF NodesOK
        <5>2. f[0].walked \subseteq 0 .. (m - 1) /\ 0 >= 0
          BY <5>1
        <5>3. Cardinality(f[0].walked) >= 0
          BY <5>1
        <5> QED
          BY <1>3, <5>2, <5>3
      <4>2. ASSUME NEW i \in 1 .. m, i - 1 \in S
            PROVE  i \in S
        <5> DEFINE x == f[i - 1].walked
                   y == f[i].walked
        <5>1. /\ x \subseteq 0 .. (m - 1) /\ y \subseteq 0 .. (m - 1) /\ x \subseteq y /\ x # y
              /\ Cardinality(x) >= i - 1 /\ i \in 0 .. m
          BY <1>3, <2>3, <2>5, <4>2
        <5> HIDE DEF x, y
        <5>2. IsFiniteSet(0 .. (m - 1))
          <6>1. 0 \in Int /\ m - 1 \in Int
            BY <1>2
          <6> QED
            BY <6>1, FS_Interval
        <5>3. IsFiniteSet(y)
          BY <5>1, <5>2, FS_Subset
        <5>4. Cardinality(x) < Cardinality(y) /\ Cardinality(x) \in Nat /\ Cardinality(y) \in Nat
          <6>1. /\ IsFiniteSet(x) /\ Cardinality(x) <= Cardinality(y)
                /\ Cardinality(x) = Cardinality(y) => x = y
            BY <5>1, <5>3, FS_Subset
          <6>2. Cardinality(x) \in Nat /\ Cardinality(y) \in Nat
            BY <5>3, <6>1, FS_CardinalityType
          <6> QED
            BY <5>1, <6>1, <6>2
        <5>5. Cardinality(y) >= i
          BY <1>2, <5>1, <5>4
        <5> QED
          BY <5>1, <5>5 DEF y
      <4> HIDE DEF S
      <4>3. 0 .. m \subseteq S
        BY <1>2, <4>1, <4>2, Along
      <4> QED
        BY <4>3 DEF S
    <3>2. f[m].walked = 0 .. (m - 1)
      <4> DEFINE y == f[m].walked
      <4>1. y \subseteq 0 .. (m - 1) /\ Cardinality(y) >= m
        BY <1>3, <3>1
      <4> HIDE DEF y
      <4>2. IsFiniteSet(0 .. (m - 1)) /\ Cardinality(0 .. (m - 1)) = m
        <5>1. 0 \in Int /\ m - 1 \in Int /\ (0 > m - 1) = FALSE /\ (m - 1) - 0 + 1 = m
          BY <1>2, <1>7
        <5> QED
          BY <5>1, FS_Interval
      <4>3. Cardinality(y) <= m /\ Cardinality(y) \in Nat /\ IsFiniteSet(y)
        <5>1. IsFiniteSet(y) /\ Cardinality(y) <= m
          <6> DEFINE Z == 0 .. (m - 1)
          <6>1. y \in SUBSET Z /\ IsFiniteSet(Z) /\ Cardinality(Z) = m
            BY <4>1, <4>2
          <6> HIDE DEF Z
          <6> QED
            BY <6>1, FS_Subset
        <5> QED
          BY <5>1, FS_CardinalityType
      <4>4. Cardinality(y) = m
        BY <1>2, <4>1, <4>3
      <4>5. y = 0 .. (m - 1)
        BY <4>1, <4>2, <4>4, FS_Subset
      <4> QED
        BY <4>5 DEF y
    <3>3. m \in 1 .. m
      BY <1>2, <1>7
    <3>4. 0 \notin f[m - 1].walked /\ \E j \in 1 .. (m - 1) : ~n[j].inited
      BY <2>3, <3>2, <3>3
    <3>5. PICK j \in 1 .. (m - 1) : ~n[j].inited
      BY <3>4
    <3>6. j \in 0 .. (m - 1) /\ m - 1 \in 1 .. m
      BY <1>2
    <3>7. n[j].cmd_data = <<>> /\ wa_id(n, j) = 0
      BY <1>2, <1>4, <3>5, <3>6
    <3>8. 0 \in f[m - 1].walked
      BY <2>3, <3>6, <3>7
    <3> QED
      BY <3>4, <3>8
  <2> QED
    BY <2>4, <2>5
<1> QED
  BY <1>5, <1>6, <1>7 DEF m

-----------------------------------------------------------------------------
(* The parse of the rows.                                                  *)

ParseState == [ok : BOOLEAN, node : Table]
Unready(n) == \E a \in Attr : \E b \in ReadsIn(n, a) : ~n[b].inited
SameTold(n, q) == \A a \in Attr : q[a].inited = n[a].inited /\ q[a].input_for = n[a].input_for

(* The formula of a is compiled, what it reads is told and records it.     *)
RowCompiled(n, a) ==
  /\ n[a].cmd_data = n[a].input_for /\ n[a].need_buf = Needs(n, a)
  /\ \A b \in ReadsIn(n, a) : n[b].inited
  /\ \A b \in Needs(n, a) : a \in n[b].infections

(* What the row of i recorded: i reads K.                                  *)
Recorded(n, i, K, ok, q) ==
  \A a \in Attr :
    /\ q[a].inited = n[a].inited /\ q[a].input_for = n[a].input_for
    /\ q[a].infections = IF a \in K THEN n[a].infections \cup {i} ELSE n[a].infections
    /\ q[a].need_buf = IF a = i THEN n[a].need_buf \cup K ELSE n[a].need_buf
    /\ q[a].cmd_data = IF a = i /\ ok THEN n[a].input_for ELSE n[a].cmd_data

(* A table with a result is what ParseRow works on.                        *)
LEMMA ParseStateType ==
  ASSUME NEW u \in Table, NEW ok \in BOOLEAN
  PROVE  [ok |-> ok, node |-> u] \in ParseState
BY DEF ParseState

(* Recording what a formula reads gives a table, and changes the readers   *)
(* and the needs alone.                                                    *)
LEMMA RecordType ==
  ASSUME NEW n \in Table, NEW i \in Attr, NEW K \in SUBSET Attr
  PROVE  /\ place_param_name(n, i, K) \in Table
         /\ Recorded(n, i, K, FALSE, place_param_name(n, i, K))
         /\ [place_param_name(n, i, K) EXCEPT ![i].cmd_data = n[i].input_for] \in Table
         /\ Recorded(n, i, K, TRUE, [place_param_name(n, i, K) EXCEPT ![i].cmd_data = n[i].input_for])
<1> DEFINE q == place_param_name(n, i, K)
           u == [q EXCEPT ![i].cmd_data = n[i].input_for]
<1>1. ASSUME NEW a \in Attr
      PROVE  /\ q[a] \in NodeType
             /\ q[a].inited = n[a].inited /\ q[a].input_for = n[a].input_for
             /\ q[a].infections = IF a \in K THEN n[a].infections \cup {i} ELSE n[a].infections
             /\ q[a].need_buf = IF a = i THEN n[a].need_buf \cup K ELSE n[a].need_buf
             /\ q[a].cmd_data = n[a].cmd_data
  <2>1. n[a] \in NodeType
    BY DEF Table
  <2>2. q[a] = [n[a] EXCEPT !.infections = IF a \in K THEN @ \cup {i} ELSE @,
                            !.need_buf = IF a = i THEN @ \cup K ELSE @]
    BY DEF place_param_name
  <2> HIDE DEF q
  <2> DEFINE inf == IF a \in K THEN n[a].infections \cup {i} ELSE n[a].infections
             need == IF a = i THEN n[a].need_buf \cup K ELSE n[a].need_buf
  <2>3. inf \in SUBSET Attr /\ need \in SUBSET Attr
    BY <2>1 DEF NodeType
  <2>4. q[a] = [n[a] EXCEPT !.infections = inf, !.need_buf = need]
    BY <2>2
  <2> HIDE DEF inf, need
  <2>5. /\ q[a] \in NodeType
        /\ q[a].inited = n[a].inited /\ q[a].input_for = n[a].input_for
        /\ q[a].infections = inf /\ q[a].need_buf = need
        /\ q[a].cmd_data = n[a].cmd_data
    BY <2>1, <2>3, <2>4 DEF NodeType
  <2> QED
    BY <2>5 DEF inf, need
<1>2. q = [a \in Attr |-> q[a]]
  BY DEF place_param_name
<1> HIDE DEF q
<1>3. q \in Table
  BY <1>1, <1>2 DEF Table
<1>4. Recorded(n, i, K, FALSE, q)
  BY <1>1 DEF Recorded
<1>5. n[i].input_for \in AnyText
  BY DEF Table, NodeType
<1>6. ASSUME NEW a \in Attr
      PROVE  /\ u[a] \in NodeType
             /\ u[a].inited = q[a].inited /\ u[a].input_for = q[a].input_for
             /\ u[a].infections = q[a].infections /\ u[a].need_buf = q[a].need_buf
             /\ u[a].cmd_data = IF a = i THEN n[a].input_for ELSE q[a].cmd_data
  <2>1. q[a] \in NodeType /\ q[i] \in NodeType
    BY <1>1
  <2>2. u[a] = IF a = i THEN [q[i] EXCEPT !.cmd_data = n[i].input_for] ELSE q[a]
    BY <1>2
  <2> HIDE DEF u
  <2> QED
    BY <1>5, <2>1, <2>2 DEF NodeType
<1>7. u = [a \in Attr |-> u[a]]
  BY <1>2
<1> HIDE DEF u
<1>8. u \in Table
  BY <1>6, <1>7 DEF Table
<1>9. Recorded(n, i, K, TRUE, u)
  <2>1. ASSUME NEW a \in Attr
        PROVE  /\ u[a].inited = n[a].inited /\ u[a].input_for = n[a].input_for
               /\ u[a].infections = IF a \in K THEN n[a].infections \cup {i} ELSE n[a].infections
               /\ u[a].need_buf = IF a = i THEN n[a].need_buf \cup K ELSE n[a].need_buf
               /\ u[a].cmd_data = IF a = i THEN n[a].input_for ELSE n[a].cmd_data
    <3>1. /\ q[a].inited = n[a].inited /\ q[a].input_for = n[a].input_for
          /\ q[a].infections = IF a \in K THEN n[a].infections \cup {i} ELSE n[a].infections
          /\ q[a].need_buf = IF a = i THEN n[a].need_buf \cup K ELSE n[a].need_buf
          /\ q[a].cmd_data = n[a].cmd_data
      BY <1>1
    <3> QED
      BY <1>6, <3>1
  <2> QED
    BY <2>1 DEF Recorded
<1> QED
  BY <1>3, <1>4, <1>8, <1>9 DEF q, u

(* A formula is parsed as a whole when all it reads was told; otherwise the*)
(* parse fails, and the names before the unknown one stay recorded.        *)
LEMMA RowParsed ==
  ASSUME TableAssumption, NEW n \in Table, NEW i \in Attr, HasFormula(n, i),
         NEW r, r = ParseRow([ok |-> TRUE, node |-> n], i)
  PROVE  \E K \in SUBSET {b \in Needs(n, i) : n[b].inited} :
           /\ r \in ParseState
           /\ Recorded(n, i, K, r.ok, r.node)
           /\ r.ok => K = Needs(n, i) /\ \A b \in ReadsIn(n, i) : n[b].inited
           /\ ~r.ok => Unready(n)
<1> DEFINE reads == n[i].input_for[1]
           I == {j \in 1 .. Len(reads) : ~n[reads[j]].inited}
           stop == IF I # {} THEN Min(I) ELSE 0
           last == IF stop = 0 THEN Len(reads) ELSE stop - 1
           K == ToSet(SubSeq(reads, 1, last)) \ {i}
           q == place_param_name(n, i, K)
<1>1. /\ reads \in Seq(Attr) /\ Len(reads) \in Nat
      /\ \A j \in 1 .. Len(reads) : reads[j] \in Attr /\ reads[j] \in ReadsIn(n, i)
      /\ \A b \in ReadsIn(n, i) : \E j \in 1 .. Len(reads) : reads[j] = b
  BY ReadsFacts
<1>2. r = [ok |-> stop = 0, node |-> IF stop # 0 THEN q ELSE [q EXCEPT ![i].cmd_data = q[i].input_for]]
  BY ZenonT(40) DEF ParseRow, SelectInSeq, HasFormula
<1>3. /\ stop = 0 => \A j \in 1 .. Len(reads) : n[reads[j]].inited
      /\ stop # 0 => /\ stop \in 1 .. Len(reads) /\ ~n[reads[stop]].inited
                     /\ \A j \in 1 .. (stop - 1) : n[reads[j]].inited
  <2>1. CASE I = {}
    BY <2>1
  <2>2. CASE I # {}
    <3>1. I \subseteq Nat
      OBVIOUS
    <3>2. Min(I) \in I /\ \A j \in I : Min(I) <= j
      <4> HIDE DEF I
      <4> QED
        BY <2>2, <3>1, FirstOf
    <3>3. stop = Min(I)
      BY <2>2
    <3> HIDE DEF stop
    <3> HIDE DEF reads
    <3>4. stop \in 1 .. Len(reads) /\ ~n[reads[stop]].inited
      BY <3>2, <3>3
    <3>5. ASSUME NEW j \in 1 .. (stop - 1)
          PROVE  n[reads[j]].inited
      <4>1. j \in 1 .. Len(reads) /\ ~(stop <= j)
        BY <1>1, <3>4
      <4> QED
        BY <3>2, <3>3, <4>1
    <3> QED
      BY <3>4, <3>5
  <2> HIDE DEF I, stop, reads
  <2> QED
    BY <2>1, <2>2
<1> HIDE DEF I
<1>4. last \in 0 .. Len(reads) /\ \A j \in 1 .. last : j \in 1 .. Len(reads) /\ n[reads[j]].inited
  <2> HIDE DEF stop, reads
  <2> QED
    BY <1>1, <1>3
<1>5. K = {reads[j] : j \in 1 .. last} \ {i}
  <2> HIDE DEF last
  <2> HIDE DEF reads
  <2>1. last \in Nat /\ last <= Len(reads)
    BY <1>1, <1>4
  <2>2. SubSeq(reads, 1, last) = [j \in 1 .. last |-> reads[j]]
    <3>1. last - 1 + 1 = last /\ \A j \in 1 .. last : 1 + j - 1 = j
      BY <2>1
    <3>2. SubSeq(reads, 1, last) = [j \in 1 .. (1 + last - 1) |-> reads[1 + j - 1]]
      BY <1>1, <2>1
    <3> QED
      BY <2>1, <3>1, <3>2
  <2> QED
    BY <2>2 DEF ToSet
<1>6. K \in SUBSET {b \in Needs(n, i) : n[b].inited}
  <2> HIDE DEF last, reads, K
  <2> QED
    BY <1>1, <1>4, <1>5 DEF Needs
<1>7. K \in SUBSET Attr
  BY <1>6, ReadsFacts DEF Needs
<1> HIDE DEF K
<1>8. q \in Table /\ Recorded(n, i, K, FALSE, q) /\ q[i].input_for = n[i].input_for
  <2>1. q \in Table /\ Recorded(n, i, K, FALSE, q)
    BY <1>7, RecordType
  <2> HIDE DEF q
  <2>2. q[i].input_for = n[i].input_for
    BY <2>1 DEF Recorded
  <2> QED
    BY <2>1, <2>2
<1>9. CASE stop = 0
  <2>1. last = Len(reads)
    BY <1>9
  <2> HIDE DEF stop, last, reads
  <2>2. K = Needs(n, i)
    BY <1>1, <1>5, <2>1 DEF Needs
  <2>3. \A b \in ReadsIn(n, i) : n[b].inited
    BY <1>1, <1>3, <1>9
  <2>4. r = [ok |-> TRUE, node |-> [q EXCEPT ![i].cmd_data = n[i].input_for]]
    BY <1>2, <1>8, <1>9
  <2>5. [q EXCEPT ![i].cmd_data = n[i].input_for] \in Table
        /\ Recorded(n, i, K, TRUE, [q EXCEPT ![i].cmd_data = n[i].input_for])
    BY <1>7, RecordType
  <2>6. r \in ParseState /\ Recorded(n, i, K, r.ok, r.node) /\ r.ok = TRUE
    <3> DEFINE u == [q EXCEPT ![i].cmd_data = n[i].input_for]
    <3>1. r = [ok |-> TRUE, node |-> u] /\ u \in Table /\ Recorded(n, i, K, TRUE, u)
      BY <2>4, <2>5
    <3> HIDE DEF u
    <3>3. r.ok = TRUE
      BY <3>1
    <3>4. r.node = u
      BY <3>1
    <3>5. r \in ParseState
      BY <3>1, ParseStateType
    <3>2. r.ok = TRUE /\ r.node = u /\ r \in ParseState
      BY <3>3, <3>4, <3>5
    <3> QED
      BY <3>1, <3>2 DEF Recorded
  <2> QED
    BY <1>6, <2>2, <2>3, <2>6
<1>10. CASE stop # 0
  <2> HIDE DEF stop, last, reads
  <2>1. Unready(n)
    BY <1>1, <1>3, <1>10 DEF Unready
  <2>2. r = [ok |-> FALSE, node |-> q]
    BY <1>2, <1>10
  <2> HIDE DEF q
  <2>3. r \in ParseState /\ Recorded(n, i, K, r.ok, r.node) /\ r.ok = FALSE
    <3>1. r.ok = FALSE /\ r.node = q
      BY <2>2
    <3>2. r \in ParseState
      BY <1>8, <2>2, ParseStateType
    <3> QED
      BY <1>8, <3>1, <3>2 DEF Recorded
  <2> QED
    BY <1>6, <2>1, <2>3
<1> QED
  BY <1>9, <1>10

(* Only attributes that read it are infected by one.                       *)
OnlyReaders(n) == \A a \in Attr : \A c \in n[a].infections : a \in Needs(n, c)

(* Parsing changes nothing of what was told.                               *)
LEMMA SameToldFacts ==
  ASSUME NEW n \in Table, NEW q \in Table, SameTold(n, q)
  PROVE  /\ \A a \in Attr : /\ ReadsIn(q, a) = ReadsIn(n, a) /\ Needs(q, a) = Needs(n, a)
                            /\ HasFormula(q, a) = HasFormula(n, a) /\ q[a].inited = n[a].inited
                            /\ q[a].input_for = n[a].input_for
         /\ Unready(q) => Unready(n)
<1>1. ASSUME NEW a \in Attr
      PROVE  /\ ReadsIn(q, a) = ReadsIn(n, a) /\ Needs(q, a) = Needs(n, a)
             /\ HasFormula(q, a) = HasFormula(n, a) /\ q[a].inited = n[a].inited
             /\ q[a].input_for = n[a].input_for
  BY DEF SameTold, ReadsIn, Needs, HasFormula
<1>2. Unready(q) => Unready(n)
  <2>1. SUFFICES ASSUME NEW a \in Attr, NEW b \in ReadsIn(q, a), ~q[b].inited PROVE Unready(n)
    BY DEF Unready
  <2>2. b \in ReadsIn(n, a) /\ b \in Attr
    BY <1>1, ReadsFacts
  <2>3. ~n[b].inited
    BY <1>1, <2>1, <2>2
  <2> QED
    BY <2>2, <2>3 DEF Unready
<1> QED
  BY <1>1, <1>2

(* The rows before k are parsed.                                           *)
ParseInv(n, k, x) ==
  /\ SameTold(n, x.node) /\ NodesOK(x.node)
  /\ OnlyReaders(n) => OnlyReaders(x.node)
  /\ ~x.ok => Unready(n)
  /\ x.ok => \A a \in 0 .. (k - 1) : HasFormula(n, a) => RowCompiled(x.node, a)

(* A row of preParseFormula keeps what it relies on: the rows before are   *)
(* compiled, or one reads what nobody told.                                *)
LEMMA RowKeepsParse ==
  ASSUME TableAssumption, NEW n \in Table, NEW i \in 0 .. (m_wa_num(n) - 1), i \in Attr,
         0 .. (m_wa_num(n) - 1) \subseteq Attr, m_wa_num(n) \in Nat,
         NEW x \in ParseState, ParseInv(n, i, x), NEW y, y = ParseRow(x, i)
  PROVE  y \in ParseState /\ ParseInv(n, i + 1, y)
<1> DEFINE q == x.node
           w == y.node
<1>1. q \in Table /\ x.ok \in BOOLEAN /\ SameTold(n, q)
  BY DEF ParseState, ParseInv
<1>2. /\ \A a \in Attr : /\ ReadsIn(q, a) = ReadsIn(n, a) /\ Needs(q, a) = Needs(n, a)
                         /\ HasFormula(q, a) = HasFormula(n, a) /\ q[a].inited = n[a].inited
                         /\ q[a].input_for = n[a].input_for
      /\ Unready(q) => Unready(n)
  BY <1>1, SameToldFacts
<1>3. \A a \in 0 .. ((i + 1) - 1) : a \in Attr /\ (a = i \/ (a \in 0 .. (i - 1) /\ a # i))
  OBVIOUS
<1>4. CASE ~x.ok \/ ~HasFormula(n, i)
  <2>1. ~HasFormula(n, i) => q[i].input_for = <<>>
    <3>1. q[i].input_for = n[i].input_for
      BY <1>2
    <3> QED
      BY <3>1 DEF HasFormula
  <2>2. y = x
    BY <1>4, <2>1 DEF ParseRow
  <2>3. x.ok => \A a \in 0 .. ((i + 1) - 1) : HasFormula(n, a) => RowCompiled(x.node, a)
    BY <1>3, <1>4 DEF ParseInv
  <2> QED
    BY <2>2, <2>3 DEF ParseInv
<1>5. CASE x.ok /\ HasFormula(n, i)
  <2>1. x = [ok |-> TRUE, node |-> q]
    BY <1>1, <1>5 DEF ParseState
  <2> HIDE DEF q
  <2>2. PICK K \in SUBSET {b \in Needs(q, i) : q[b].inited} :
           /\ y \in ParseState
           /\ Recorded(q, i, K, y.ok, y.node)
           /\ y.ok => K = Needs(q, i) /\ \A b \in ReadsIn(q, i) : q[b].inited
           /\ ~y.ok => Unready(q)
    BY <1>1, <1>2, <1>5, <2>1, RowParsed
  <2>3. /\ NodesOK(q) /\ (OnlyReaders(n) => OnlyReaders(q))
        /\ \A a \in 0 .. (i - 1) : HasFormula(n, a) => RowCompiled(q, a)
    BY <1>5 DEF ParseInv, q
  <2>4. w \in Table
    BY <2>2 DEF ParseState
  <2>5. ASSUME NEW a \in Attr
        PROVE  /\ w[a].inited = q[a].inited /\ w[a].input_for = q[a].input_for
               /\ w[a].infections = IF a \in K THEN q[a].infections \cup {i} ELSE q[a].infections
               /\ w[a].need_buf = IF a = i THEN q[a].need_buf \cup K ELSE q[a].need_buf
               /\ w[a].cmd_data = IF a = i /\ y.ok THEN q[a].input_for ELSE q[a].cmd_data
    BY <2>2 DEF Recorded
  <2> HIDE DEF w
  <2>6. SameTold(n, w) /\ SameTold(q, w)
    BY <1>2, <2>5 DEF SameTold
  <2>7. \A a \in Attr : /\ ReadsIn(w, a) = ReadsIn(q, a) /\ Needs(w, a) = Needs(q, a)
                        /\ HasFormula(w, a) = HasFormula(q, a)
                        /\ ReadsIn(q, a) \subseteq Attr /\ Needs(q, a) \subseteq Attr
    BY <1>1, <2>4, <2>6, SameToldFacts, ReadsFacts DEF Needs
  <2>8. NodesOK(w)
    <3>1. ASSUME NEW a \in Attr
          PROVE  /\ ~w[a].inited => ~HasFormula(w, a)
                 /\ w[a].cmd_data \in {<<>>, w[a].input_for}
                 /\ w[a].need_buf \subseteq {b \in Needs(w, a) : w[b].inited}
      <4>1. /\ ~q[a].inited => ~HasFormula(q, a)
            /\ q[a].cmd_data \in {<<>>, q[a].input_for}
            /\ q[a].need_buf \subseteq {b \in Needs(q, a) : q[b].inited}
        BY <2>3 DEF NodesOK
      <4>2. \A b \in Needs(q, a) : w[b].inited = q[b].inited
        BY <2>5, <2>7
      <4>3. w[a].need_buf \subseteq {b \in Needs(q, a) : q[b].inited}
        BY <2>2, <2>5, <4>1
      <4> QED
        BY <2>5, <2>7, <4>1, <4>2, <4>3
    <3> QED
      BY <3>1 DEF NodesOK
  <2>9. OnlyReaders(n) => OnlyReaders(w)
    <3>1. SUFFICES ASSUME OnlyReaders(q), NEW a \in Attr, NEW c \in w[a].infections
                   PROVE  a \in Needs(w, c)
      BY <2>3 DEF OnlyReaders
    <3>2. w[a].infections \subseteq Attr
      BY <2>4 DEF Table, NodeType
    <3>3. CASE c \in q[a].infections
      BY <2>7, <3>1, <3>2, <3>3 DEF OnlyReaders
    <3>4. CASE c = i /\ a \in K
      BY <2>2, <2>7, <3>4
    <3>5. a \in K => w[a].infections = q[a].infections \cup {i}
      BY <2>5
    <3>6. a \notin K => w[a].infections = q[a].infections
      BY <2>5
    <3>7. c \in q[a].infections \/ (c = i /\ a \in K)
      BY <3>5, <3>6
    <3> QED
      BY <3>3, <3>4, <3>7
  <2>10. ~y.ok => Unready(n)
    BY <1>2, <2>2
  <2>11. ASSUME y.ok, NEW a \in 0 .. ((i + 1) - 1), HasFormula(n, a)
         PROVE  RowCompiled(w, a)
    <3>1. K = Needs(q, i) /\ \A b \in ReadsIn(q, i) : q[b].inited
      BY <2>2, <2>11
    <3>2. a \in Attr
      BY <1>3
    <3>3. \A b \in ReadsIn(q, a) : w[b].inited = q[b].inited
      BY <2>5, <2>7, <3>2
    <3>4. \A b \in Needs(q, a) : b \in Attr /\ q[b].infections \subseteq w[b].infections
      BY <2>5, <2>7, <3>2
    <3>5. CASE a = i
      <4>1. w[a].cmd_data = w[a].input_for
        BY <2>5, <2>11, <3>2, <3>5
      <4>2. w[a].need_buf = Needs(w, a)
        <5>1. q[a].need_buf \subseteq Needs(q, a)
          BY <2>3, <3>2 DEF NodesOK
        <5> QED
          BY <2>5, <2>7, <3>1, <3>2, <3>5, <5>1
      <4>3. \A b \in Needs(w, a) : a \in w[b].infections
        BY <2>5, <2>7, <3>1, <3>2, <3>5
      <4> QED
        BY <2>7, <3>1, <3>2, <3>3, <3>5, <4>1, <4>2, <4>3 DEF RowCompiled
    <3>6. CASE a \in 0 .. (i - 1) /\ a # i
      <4>1. RowCompiled(q, a)
        BY <2>3, <2>11, <3>6
      <4> QED
        BY <2>5, <2>7, <3>2, <3>3, <3>4, <3>6, <4>1 DEF RowCompiled
    <3> QED
      BY <1>3, <3>5, <3>6
  <2> QED
    BY <2>2, <2>6, <2>8, <2>9, <2>10, <2>11 DEF ParseInv, w
<1> QED
  BY <1>1, <1>4, <1>5

(* A row of preParseFormula gives a table and a result.                    *)
LEMMA RowParseType ==
  ASSUME TableAssumption, NEW x \in ParseState, NEW i \in Attr
  PROVE  ParseRow(x, i) \in ParseState
<1>1. CASE ~x.ok \/ ~HasFormula(x.node, i)
  BY <1>1 DEF ParseRow, HasFormula
<1>2. CASE x.ok /\ HasFormula(x.node, i)
  <2>1. x = [ok |-> TRUE, node |-> x.node] /\ x.node \in Table
    BY <1>2 DEF ParseState
  <2>2. \E K \in SUBSET {b \in Needs(x.node, i) : x.node[b].inited} : ParseRow(x, i) \in ParseState
    BY <1>2, <2>1, RowParsed
  <2> QED
    BY <2>2
<1> QED
  BY <1>1, <1>2

(* preParseFormula parses one row after the other.                         *)
LEMMA ParseSteps ==
  ASSUME TableAssumption, NEW n \in Table
  PROVE  \E h \in [0 .. m_wa_num(n) -> ParseState] :
           /\ h[0] = [ok |-> TRUE, node |-> n]
           /\ \A i \in 1 .. m_wa_num(n) : h[i] = ParseRow(h[i - 1], i - 1)
           /\ ParseRows(n) = h[m_wa_num(n)]
<1> DEFINE m == Len(Rows(n))
           base == [ok |-> TRUE, node |-> n]
           D == ParseState
           G == [z \in D \X (1 .. m) |-> ParseRow(z[1], Rows(n)[z[2]])]
           Result(g) == [q \in SUBSET (1 .. m) |->
                           IF q = {} THEN base ELSE ParseRow(g[q \ {Max(q)}], Rows(n)[Max(q)])]
           it == CHOOSE g : g = Result(g)
<1>0. m = m_wa_num(n)
  BY RowsFacts
<1>1. m \in Nat /\ base \in D /\ \A i \in 1 .. m : Rows(n)[i] = i - 1 /\ Rows(n)[i] \in Attr
  <2>1. m \in Nat /\ \A i \in 1 .. m : Rows(n)[i] = i - 1 /\ Rows(n)[i] \in Attr
    <3>1. Capacity \in Nat
      BY DEF TableAssumption
    <3>2. m \in Nat
      BY <1>0, <3>1, RowsFacts
    <3> HIDE DEF m
    <3>3. \A i \in 1 .. m : Rows(n)[i] = i - 1 /\ i - 1 \in 0 .. (m - 1)
      BY <1>0, <3>2, RowsFacts
    <3>4. \A i \in 0 .. (m - 1) : i \in Attr
      BY <1>0, RowsFacts
    <3> QED
      BY <3>2, <3>3, <3>4
  <2> QED
    BY <2>1, ParseStateType
<1>2. \A x \in D, i \in 1 .. m : ParseRow(x, Rows(n)[i]) \in D
  BY <1>1, RowParseType
<1>3. \A x \in D, i \in 1 .. m : G[<<x, i>>] = ParseRow(x, Rows(n)[i])
  OBVIOUS
<1>13. DOMAIN Rows(n) = 1 .. m
  BY RowsFacts
<1>7. ParseRows(n) = it[1 .. m]
  BY <1>13 DEF ParseRows, FoldLeft, MapThenFoldSet
<1> HIDE DEF m, D, base
<1>4. PICK f : IsFold(f, m, D, base, G)
  <2>1. \A x \in D : \A i \in 1 .. m : G[<<x, i>>] \in D
    BY <1>2, <1>3
  <2> HIDE DEF G
  <2> QED
    BY <1>1, <2>1, FoldDefined
<1> HIDE DEF G
<1>5. f = Result(f)
  <2> USE DEF IsFold
  <2>1. ASSUME NEW q \in SUBSET (1 .. m), q # {}
        PROVE  G[<<f[q \ {Max(q)}], Max(q)>>] = ParseRow(f[q \ {Max(q)}], Rows(n)[Max(q)])
    <3>1. Max(q) \in 1 .. m
      BY <1>1, <2>1, LastOf
    <3>2. f[q \ {Max(q)}] \in D
      BY <1>4
    <3> QED
      BY <1>3, <3>1, <3>2
  <2>2. ASSUME NEW q \in SUBSET (1 .. m)
        PROVE  f[q] = IF q = {} THEN base ELSE ParseRow(f[q \ {Max(q)}], Rows(n)[Max(q)])
    BY <1>4, <2>1
  <2>3. f \in [SUBSET (1 .. m) -> D]
    BY <1>4
  <2> QED
    BY <2>2, <2>3
<1>6. it = Result(it)
  <2> HIDE DEF Result
  <2> QED
    BY <1>5
<1> HIDE DEF it
<1>8. it[{}] = base
  <2>1. {} \in SUBSET (1 .. m)
    OBVIOUS
  <2> QED
    BY <1>6, <2>1
<1>9. ASSUME NEW q \in SUBSET (1 .. m), q # {}, it[q \ {Max(q)}] \in D
      PROVE  it[q] = G[<<it[q \ {Max(q)}], Max(q)>>]
  <2>1. Max(q) \in 1 .. m
    BY <1>1, <1>9, LastOf
  <2>2. it[q] = ParseRow(it[q \ {Max(q)}], Rows(n)[Max(q)])
    BY <1>6, <1>9
  <2> QED
    BY <1>3, <1>9, <2>1, <2>2
<1> HIDE DEF Result
<1>10. PICK h : IsPath(h, m, D, base, G, it[1 .. m])
  <2>1. \A x \in D : \A i \in 1 .. m : G[<<x, i>>] \in D
    BY <1>2, <1>3
  <2> QED
    BY <1>1, <1>8, <1>9, <2>1, FoldPath
<1>11. ASSUME NEW i \in 1 .. m
       PROVE  h[i] = ParseRow(h[i - 1], i - 1)
  <2>1. i - 1 \in 0 .. m
    BY <1>1
  <2>2. h[i - 1] \in D /\ h[i] = G[<<h[i - 1], i>>] /\ Rows(n)[i] = i - 1
    BY <1>1, <1>10, <2>1 DEF IsPath
  <2> QED
    BY <1>3, <2>2
<1>12. m_wa_num(n) = m
  BY <1>0 DEF m
<1> QED
  BY <1>7, <1>10, <1>11, <1>12 DEF D, base, IsPath

(* What the parse of the rows leaves.                                      *)
LEMMA ParseFacts ==
  ASSUME TableAssumption, NEW n \in Table, NodesOK(n), NEW y, y = ParseRows(n)
  PROVE  /\ y \in ParseState /\ SameTold(n, y.node) /\ NodesOK(y.node)
         /\ OnlyReaders(n) => OnlyReaders(y.node)
         /\ ~y.ok => Unready(y.node)
         /\ y.ok => Compiled(y.node)
<1> DEFINE m == m_wa_num(n)
<1>1. PICK h \in [0 .. m -> ParseState] :
           /\ h[0] = [ok |-> TRUE, node |-> n]
           /\ \A i \in 1 .. m : h[i] = ParseRow(h[i - 1], i - 1)
           /\ ParseRows(n) = h[m]
  BY ParseSteps
<1>2. m \in Nat /\ 0 .. (m - 1) \subseteq Attr /\ \A a \in Attr : n[a].inited => a \in 0 .. (m - 1)
  <2>1. Capacity \in Nat
    BY DEF TableAssumption
  <2> QED
    BY <2>1, RowsFacts
<1>3. /\ 0 \in 0 .. m /\ m \in 0 .. m
      /\ \A i \in 1 .. m : i \in 0 .. m /\ i - 1 \in 0 .. m /\ i - 1 \in 0 .. (m - 1) /\ (i - 1) + 1 = i
  <2> HIDE DEF m
  <2> QED
    BY <1>2
<1>4. 0 .. m \subseteq {k \in 0 .. m : ParseInv(n, k, h[k])}
  <2> DEFINE S == {k \in 0 .. m : ParseInv(n, k, h[k])}
  <2>1. 0 \in S
    <3>1. SameTold(n, n) /\ h[0].ok = TRUE /\ h[0].node = n
      BY <1>1 DEF SameTold
    <3>2. 0 .. (0 - 1) = {}
      OBVIOUS
    <3>3. ParseInv(n, 0, h[0])
      BY <3>1, <3>2 DEF ParseInv
    <3> QED
      BY <1>3, <3>3
  <2>2. ASSUME NEW i \in 1 .. m, i - 1 \in S
        PROVE  i \in S
    <3> DEFINE x == h[i - 1]
               r == i - 1
    <3>1. ParseInv(n, r, x) /\ x \in ParseState /\ h[i] = ParseRow(x, r)
      BY <1>1, <1>3, <2>2
    <3>2. r \in 0 .. (m_wa_num(n) - 1) /\ r \in Attr /\ r + 1 = i /\ i \in 0 .. m
      BY <1>2, <1>3
    <3> HIDE DEF x, r
    <3>3. ParseInv(n, r + 1, h[i])
      BY <1>2, <3>1, <3>2, RowKeepsParse
    <3> QED
      BY <3>2, <3>3
  <2>3. 0 .. m \subseteq S
    <3> HIDE DEF S, m
    <3> QED
      BY <1>2, <2>1, <2>2, Along
  <2> QED
    BY <2>3
<1>5. ParseInv(n, m, y) /\ y \in ParseState /\ y.node \in Table
  <2>1. y = h[m] /\ y \in ParseState
    BY <1>1, <1>3
  <2> QED
    BY <1>3, <1>4, <2>1 DEF ParseState
<1> HIDE DEF m
<1> DEFINE q == y.node
<1>6. /\ SameTold(n, q) /\ NodesOK(q) /\ (OnlyReaders(n) => OnlyReaders(q))
      /\ ~y.ok => Unready(n)
      /\ y.ok => \A a \in 0 .. (m - 1) : HasFormula(n, a) => RowCompiled(q, a)
  BY <1>5 DEF ParseInv
<1>7. q \in Table
  BY <1>5
<1> HIDE DEF q
<1>8. SameTold(q, n)
  BY <1>6 DEF SameTold
<1>9. ~y.ok => Unready(q)
  BY <1>6, <1>7, <1>8, SameToldFacts
<1>10. ASSUME y.ok, NEW a \in Attr
       PROVE  RowCompiled(q, a)
  <2>1. HasFormula(q, a) = HasFormula(n, a)
    BY <1>6, <1>7, SameToldFacts
  <2>2. CASE HasFormula(n, a)
    <3>1. a \in 0 .. (m - 1)
      BY <1>2, <2>2 DEF NodesOK
    <3> QED
      BY <1>6, <1>10, <2>2, <3>1
  <2>3. CASE ~HasFormula(n, a)
    <3>1. ReadsIn(q, a) = {} /\ Needs(q, a) = {} /\ q[a].input_for = <<>>
      BY <2>1, <2>3 DEF HasFormula, ReadsIn, Needs
    <3>2. q[a].cmd_data = <<>> /\ q[a].need_buf = {}
      BY <1>6, <3>1 DEF NodesOK
    <3> QED
      BY <3>1, <3>2 DEF RowCompiled
  <2> QED
    BY <2>2, <2>3
<1>11. y.ok => Compiled(q)
  BY <1>10 DEF Compiled, RowCompiled
<1> QED
  BY <1>5, <1>6, <1>9, <1>11 DEF q

-----------------------------------------------------------------------------
(* What a change reaches.                                                  *)

(* Reach is a path of unions, one for each attribute.                      *)
LEMMA ReachSteps ==
  ASSUME TableAssumption, NEW next \in [Attr -> SUBSET Attr], NEW a \in Attr
  PROVE  \E f \in [0 .. Capacity -> SUBSET Attr] :
           /\ f[0] = next[a]
           /\ \A k \in 1 .. Capacity : f[k] = f[k - 1] \cup UNION {next[b] : b \in f[k - 1]}
           /\ Reach(next, a) = f[Capacity]
<1> DEFINE m == Capacity
           D == SUBSET Attr
           base == next[a]
           Step(x) == x \cup UNION {next[b] : b \in x}
           G == [x \in D |-> Step(x)]
           Result(g) == [k \in 0 .. m |-> IF k = 0 THEN base
                                         ELSE g[k - 1] \cup UNION {next[b] : b \in g[k - 1]}]
           reach == CHOOSE g : g = Result(g)
<1>1. m \in Nat /\ base \in D
  BY DEF TableAssumption
<1>2. \A x \in D : G[x] = Step(x) /\ Step(x) \in D
  <2>1. ASSUME NEW x \in D PROVE Step(x) \in D
    <3>1. \A b \in x : next[b] \subseteq Attr
      OBVIOUS
    <3> QED
      BY <3>1
  <2> QED
    BY <2>1
<1>3. Reach(next, a) = reach[m]
  BY DEF Reach
<1> HIDE DEF m, base, D
<1>4. PICK f : IsIteration(f, m, D, base, G)
  <2>1. \A x \in D : G[x] \in D
    BY <1>2
  <2> HIDE DEF G
  <2> QED
    BY <1>1, <2>1, IterationDefined
<1> HIDE DEF G
<1>5. f \in [0 .. m -> D] /\ \A k \in 0 .. m : f[k] = IF k = 0 THEN base ELSE G[f[k - 1]]
  BY <1>4 DEF IsIteration
<1>6. \A k \in 0 .. m : f[k] = IF k = 0 THEN base ELSE Step(f[k - 1])
  <2>1. ASSUME NEW k \in 0 .. m, k # 0
        PROVE  f[k - 1] \in D
    <3>1. k - 1 \in 0 .. m
      BY <1>1, <2>1
    <3> QED
      BY <1>5, <3>1
  <2> HIDE DEF Step
  <2> QED
    BY <1>2, <1>5, <2>1
<1>7. f = Result(f)
  BY <1>5, <1>6
<1>8. reach = Result(reach)
  <2> HIDE DEF Result
  <2> QED
    BY <1>7
<1> HIDE DEF reach
<1>9. \A k \in 0 .. m : reach[k] = IF k = 0 THEN base ELSE Step(reach[k - 1])
  BY <1>8
<1>10. 0 .. m \subseteq {k \in 0 .. m : reach[k] = f[k]}
  <2> DEFINE S == {k \in 0 .. m : reach[k] = f[k]}
  <2>1. 0 \in S
    <3>1. 0 \in 0 .. m
      BY <1>1
    <3> HIDE DEF Step
    <3>2. reach[0] = base /\ f[0] = base
      BY <1>6, <1>9, <3>1
    <3> QED
      BY <3>1, <3>2
  <2>2. ASSUME NEW i \in 1 .. m, i - 1 \in S
        PROVE  i \in S
    <3>1. i \in 0 .. m /\ i # 0 /\ reach[i - 1] = f[i - 1]
      BY <1>1, <2>2
    <3>2. reach[i] = Step(reach[i - 1]) /\ f[i] = Step(f[i - 1])
      BY <1>6, <1>9, <3>1
    <3> HIDE DEF Step
    <3> QED
      BY <3>1, <3>2
  <2> HIDE DEF S
  <2>3. 0 .. m \subseteq S
    BY <1>1, <2>1, <2>2, Along
  <2> QED
    BY <2>3 DEF S
<1>11. f[0] = base /\ reach[m] = f[m] /\ \A k \in 1 .. m : f[k] = Step(f[k - 1])
  <2>1. 0 \in 0 .. m /\ m \in 0 .. m /\ \A k \in 1 .. m : k \in 0 .. m /\ k # 0
    BY <1>1
  <2> HIDE DEF Step
  <2> QED
    BY <1>6, <1>10, <2>1
<1> QED
  BY <1>3, <1>5, <1>11 DEF m, base, D

(* A set that holds what a changes and is left by nothing holds what is    *)
(* reached.                                                                *)
LEMMA ReachWithin ==
  ASSUME TableAssumption, NEW next \in [Attr -> SUBSET Attr], NEW a \in Attr,
         NEW T, next[a] \subseteq T, \A b \in T : next[b] \subseteq T
  PROVE  Reach(next, a) \subseteq T
<1>1. PICK f \in [0 .. Capacity -> SUBSET Attr] :
           /\ f[0] = next[a]
           /\ \A k \in 1 .. Capacity : f[k] = f[k - 1] \cup UNION {next[b] : b \in f[k - 1]}
           /\ Reach(next, a) = f[Capacity]
  BY ReachSteps
<1>2. Capacity \in Nat
  BY DEF TableAssumption
<1> DEFINE S == {k \in 0 .. Capacity : f[k] \subseteq T}
<1>3. 0 \in S
  BY <1>1, <1>2
<1>4. ASSUME NEW i \in 1 .. Capacity, i - 1 \in S
      PROVE  i \in S
  <2>1. f[i] = f[i - 1] \cup UNION {next[b] : b \in f[i - 1]} /\ f[i - 1] \subseteq T /\ i \in 0 .. Capacity
    BY <1>1, <1>2, <1>4
  <2> QED
    BY <2>1
<1>5. 0 .. Capacity \subseteq S
  <2> HIDE DEF S
  <2> QED
    BY <1>2, <1>3, <1>4, Along
<1> QED
  BY <1>1, <1>2, <1>5

(* Where every attribute leads to no less, no less is reached.             *)
LEMMA ReachMonotone ==
  ASSUME TableAssumption, NEW less \in [Attr -> SUBSET Attr], NEW more \in [Attr -> SUBSET Attr],
         \A b \in Attr : less[b] \subseteq more[b], NEW a \in Attr
  PROVE  Reach(less, a) \subseteq Reach(more, a) /\ Reach(less, a) \subseteq Attr
<1>1. PICK f \in [0 .. Capacity -> SUBSET Attr] :
           /\ f[0] = less[a]
           /\ \A k \in 1 .. Capacity : f[k] = f[k - 1] \cup UNION {less[b] : b \in f[k - 1]}
           /\ Reach(less, a) = f[Capacity]
  BY ReachSteps
<1>2. PICK g \in [0 .. Capacity -> SUBSET Attr] :
           /\ g[0] = more[a]
           /\ \A k \in 1 .. Capacity : g[k] = g[k - 1] \cup UNION {more[b] : b \in g[k - 1]}
           /\ Reach(more, a) = g[Capacity]
  BY ReachSteps
<1>3. Capacity \in Nat
  BY DEF TableAssumption
<1> DEFINE S == {k \in 0 .. Capacity : f[k] \subseteq g[k]}
<1>4. 0 \in S
  BY <1>1, <1>2, <1>3
<1>5. ASSUME NEW i \in 1 .. Capacity, i - 1 \in S
      PROVE  i \in S
  <2>1. /\ f[i] = f[i - 1] \cup UNION {less[b] : b \in f[i - 1]}
        /\ g[i] = g[i - 1] \cup UNION {more[b] : b \in g[i - 1]}
        /\ f[i - 1] \subseteq g[i - 1] /\ i \in 0 .. Capacity /\ i - 1 \in 0 .. Capacity
    BY <1>1, <1>2, <1>3, <1>5
  <2>2. \A b \in f[i - 1] : b \in Attr /\ b \in g[i - 1] /\ less[b] \subseteq more[b]
    BY <1>1, <2>1
  <2> QED
    BY <2>1, <2>2
<1>6. 0 .. Capacity \subseteq S
  <2> HIDE DEF S
  <2> QED
    BY <1>3, <1>4, <1>5, Along
<1>7. Capacity \in 0 .. Capacity
  BY <1>3
<1> QED
  BY <1>1, <1>2, <1>6, <1>7

(* What an attribute reaches directly: the formulas that read it.          *)
Affects == [b \in Attr |-> {c \in Attr \ {0, b} : b \in Reads(c)}]

(* In an order that holds, nothing affects itself.                         *)
LEMMA NoCircle ==
  ASSUME TableAssumption, node \in Table, NEW order \in Seq(Attr), NEW p \in Nat, Ordered(node, order, p),
         NEW b \in Attr
  PROVE  b \notin Reach(Affects, b)
<1> DEFINE n == Len(order)
           T == {c \in Attr : \E k \in (p + 1) .. n :
                   order[k] = c /\ \A j \in (p + 1) .. n : order[j] = b => j < k}
<1>1. n \in Nat /\ \A k \in (p + 1) .. n : k \in 1 .. n /\ order[k] \in Attr
  OBVIOUS
<1>2. /\ \A k \in (p + 1) .. n : \A j \in (k + 1) .. n : order[j] \notin Needs(node, order[k]) \cup {order[k]}
      /\ \A a \in Attr : HasFormula(node, a) /\ (a # 0 \/ CompleteIn(node)) =>
           \E k \in (p + 1) .. n : order[k] = a
  BY DEF Ordered
<1> HIDE DEF n
<1>3. ASSUME NEW c \in Attr, NEW d \in Affects[c]
      PROVE  \E k \in (p + 1) .. n : /\ order[k] = d /\ d \in Attr
                                     /\ \A j \in (p + 1) .. n : order[j] = c => j < k
  <2>1. d \in Attr /\ d # 0 /\ d # c /\ c \in Reads(d)
    BY DEF Affects
  <2>2. HasFormula(node, d) /\ c \in Needs(node, d)
    BY <2>1 DEF Reads, HasFormula, Needs, ReadsIn
  <2>3. PICK k \in (p + 1) .. n : order[k] = d
    BY <1>2, <2>1, <2>2
  <2>4. ASSUME NEW j \in (p + 1) .. n, order[j] = c
        PROVE  j < k
    <3>1. ~(j \in (k + 1) .. n)
      BY <1>2, <2>2, <2>3, <2>4
    <3>2. j # k
      BY <2>1, <2>3, <2>4
    <3> QED
      BY <1>1, <3>1, <3>2
  <2> QED
    BY <2>1, <2>3, <2>4
<1>4. Affects \in [Attr -> SUBSET Attr]
  BY DEF Affects
<1>5. Affects[b] \subseteq T
  BY <1>3
<1>6. ASSUME NEW c \in T
      PROVE  Affects[c] \subseteq T
  <2>1. SUFFICES ASSUME NEW d \in Affects[c] PROVE d \in T
    OBVIOUS
  <2>2. PICK l \in (p + 1) .. n : order[l] = c /\ \A j \in (p + 1) .. n : order[j] = b => j < l
    OBVIOUS
  <2>3. PICK k \in (p + 1) .. n : /\ order[k] = d /\ d \in Attr
                                  /\ \A j \in (p + 1) .. n : order[j] = c => j < k
    BY <1>3
  <2>4. \A j \in (p + 1) .. n : order[j] = b => j < k
    BY <1>1, <2>2, <2>3
  <2> QED
    BY <2>3, <2>4
<1>7. Reach(Affects, b) \subseteq T
  <2> HIDE DEF T
  <2> QED
    BY <1>4, <1>5, <1>6, ReachWithin
<1>8. b \notin T
  <2>1. SUFFICES ASSUME NEW k \in (p + 1) .. n, order[k] = b, \A j \in (p + 1) .. n : order[j] = b => j < k
                 PROVE  FALSE
    OBVIOUS
  <2>2. k < k /\ k \in Nat
    BY <1>1, <2>1
  <2> QED
    BY <2>2
<1> QED
  BY <1>7, <1>8

(* A table that was accepted knows whom a change affects.                  *)
LEMMA InfectionsRight ==
  ASSUME TableAssumption, node \in Table, NEW order \in Seq(Attr), NEW p \in Nat, Ordered(node, order, p),
         Compiled(node), ~reinited => OnlyReaders(node)
  PROVE  \A a \in Attr : /\ Reach(Affects, a) \subseteq Infected(a)
                         /\ ~reinited => Infected(a) = Reach(Affects, a) /\ ~Endless(a)
<1>1. Affects \in [Attr -> SUBSET Attr]
  BY DEF Affects
<1>2. Infects \in [Attr -> SUBSET Attr]
  BY DEF Infects, Table, NodeType
<1>3. \A c \in Attr : Reads(c) = ReadsIn(node, c)
  BY DEF Reads, ReadsIn
<1>4. ASSUME NEW b \in Attr
      PROVE  Affects[b] \subseteq Infects[b]
  <2>1. SUFFICES ASSUME NEW c \in Affects[b] PROVE c \in Infects[b]
    OBVIOUS
  <2>2. c \in Attr /\ c # 0 /\ b \in Needs(node, c)
    BY <1>3 DEF Affects, Needs
  <2>3. c \in node[b].infections
    BY <2>2 DEF Compiled
  <2> QED
    BY <2>2, <2>3 DEF Infects
<1>5. ASSUME ~reinited, NEW b \in Attr
      PROVE  Infects[b] \subseteq Affects[b]
  <2>1. SUFFICES ASSUME NEW c \in Infects[b] PROVE c \in Affects[b]
    OBVIOUS
  <2>2. c \in Attr
    BY <1>2
  <2>3. c \in node[b].infections /\ c # 0
    BY DEF Infects
  <2>4. b \in Needs(node, c)
    BY <1>5, <2>3 DEF OnlyReaders
  <2> QED
    BY <1>3, <2>2, <2>3, <2>4 DEF Affects, Needs
<1>6. ASSUME NEW a \in Attr
      PROVE  /\ Reach(Affects, a) \subseteq Infected(a)
             /\ Reach(Infects, a) \subseteq Attr
  BY <1>1, <1>2, <1>4, ReachMonotone DEF Infected
<1>7. ASSUME ~reinited, NEW a \in Attr
      PROVE  Infected(a) = Reach(Affects, a)
  <2>1. Reach(Infects, a) \subseteq Reach(Affects, a)
    BY <1>1, <1>2, <1>5, <1>7, ReachMonotone
  <2> QED
    BY <1>6, <2>1 DEF Infected
<1>8. ASSUME ~reinited, NEW a \in Attr
      PROVE  ~Endless(a)
  <2>1. SUFFICES ASSUME NEW b \in Infected(a) \cup {a}, b \in Infected(b) PROVE FALSE
    BY DEF Endless
  <2>2. b \in Attr
    BY <1>6 DEF Infected
  <2>3. b \in Reach(Affects, b)
    BY <1>7, <1>8, <2>1, <2>2
  <2> QED
    BY <2>2, <2>3, NoCircle
<1> QED
  BY <1>6, <1>7, <1>8

-----------------------------------------------------------------------------
(* The invariant.                                                          *)

Fresh(n) == \A a \in Attr : n[a].infections = {} /\ n[a].need_buf = {} /\ n[a].cmd_data = <<>>

(* The inductive invariant.                                                *)
IInv ==
  /\ node \in Table /\ NodesOK(node)
  /\ m_run_sort \in Seq(Attr) /\ values \in [Attr -> Value]
  /\ parsed \in {"never", "ok", "error", "changed"}
  /\ inits \in 0 .. MaxInits /\ writes \in 0 .. MaxWrites
  /\ parsed = "never" => Fresh(node)
  /\ ~reinited => OnlyReaders(node)
  /\ parsed = "ok" => Compiled(node) /\ \E p \in 0 .. Len(m_run_sort) : Ordered(node, m_run_sort, p)
  /\ CalcExact /\ RefusedRightly

(* The invariant says all that the run checks.                             *)
LEMMA InvRight ==
  ASSUME TableAssumption, IInv
  PROVE  FormulasRight
<1>1. TypeOK
  <2>1. \A a \in Attr : /\ node[a].infections \cup node[a].need_buf \subseteq Attr
                        /\ node[a].cmd_data \in {<<>>, node[a].input_for}
    BY DEF IInv, Table, NodeType, NodesOK
  <2> QED
    BY <2>1 DEF IInv, TypeOK
<1>2. ASSUME parsed = "ok", NEW a \in Attr
      PROVE  /\ Reach(Affects, a) \subseteq Infected(a)
             /\ ~reinited => Infected(a) = Reach(Affects, a) /\ ~Endless(a)
  <2>1. Compiled(node) /\ node \in Table /\ m_run_sort \in Seq(Attr) /\ (~reinited => OnlyReaders(node))
    BY <1>2 DEF IInv
  <2>2. PICK p \in 0 .. Len(m_run_sort) : Ordered(node, m_run_sort, p)
    BY <1>2 DEF IInv
  <2>3. p \in Nat
    OBVIOUS
  <2> QED
    BY <2>1, <2>2, <2>3, InfectionsRight
<1>3. InfectionsExact
  BY <1>2 DEF InfectionsExact, Affects
<1> QED
  BY <1>1, <1>3 DEF FormulasRight, IInv

(* A table nobody told anything has no formula, no reader and nothing      *)
(* compiled.                                                               *)
LEMMA EmptyTableFacts ==
  ASSUME TableAssumption
  PROVE  /\ EmptyTable \in Table /\ NodesOK(EmptyTable) /\ Fresh(EmptyTable) /\ OnlyReaders(EmptyTable)
         /\ Zero \in [Attr -> Value]
<1>1. <<>> \in AnyText
  BY DEF AnyText
<1>2. EmptyNode \in NodeType
  BY <1>1 DEF EmptyNode, Node, NodeType
<1>3. \A a \in Attr : EmptyTable[a] = EmptyNode
  BY DEF EmptyTable
<1>4. /\ EmptyNode.input_for = <<>> /\ EmptyNode.infections = {} /\ EmptyNode.need_buf = {}
      /\ EmptyNode.cmd_data = <<>> /\ EmptyNode.inited = FALSE
  BY DEF EmptyNode, Node
<1>5. EmptyTable \in Table
  BY <1>2 DEF EmptyTable, Table
<1>6. NodesOK(EmptyTable) /\ Fresh(EmptyTable) /\ OnlyReaders(EmptyTable)
  BY <1>3, <1>4 DEF NodesOK, Fresh, OnlyReaders, HasFormula
<1>7. Zero \in [Attr -> Value]
  BY DEF Zero, Value, TableAssumption
<1> QED
  BY <1>5, <1>6, <1>7

(* The process begins with such a table.                                   *)
LEMMA InitInv ==
  ASSUME TableAssumption, Init
  PROVE  IInv
<1>1. <<>> \in Seq(Attr)
  OBVIOUS
<1>2. 0 \in 0 .. MaxInits /\ 0 \in 0 .. MaxWrites
  BY DEF TableAssumption
<1> QED
  BY <1>1, <1>2, EmptyTableFacts DEF Init, IInv, CalcExact, RefusedRightly

(* What was told about an attribute is told of it alone.                   *)
LEMMA ToldFacts ==
  ASSUME TableAssumption, node \in Table, NodesOK(node), NEW config, DOMAIN config \subseteq Attr,
         \A a \in DOMAIN config : config[a] \in AnyText
  PROVE  /\ Told(config) \in Table /\ NodesOK(Told(config))
         /\ Fresh(node) => Fresh(Told(config)) /\ OnlyReaders(Told(config))
         /\ OnlyReaders(node) /\ (\A a \in DOMAIN config : ~node[a].inited) => OnlyReaders(Told(config))
<1> DEFINE q == Told(config)
<1>1. \A a \in DOMAIN config : q[a] = Node(config[a])
  BY DEF Told
<1>2. \A a \in Attr \ DOMAIN config : q[a] = node[a]
  BY DEF Told
<1>3. \A a \in DOMAIN config : /\ a \in Attr /\ q[a] \in NodeType /\ q[a].inited = TRUE
                               /\ q[a].infections = {} /\ q[a].need_buf = {} /\ q[a].cmd_data = <<>>
  <2>1. <<>> \in AnyText
    BY DEF AnyText
  <2>2. \A t \in AnyText : Node(t) \in NodeType /\ Node(t).inited = TRUE /\ Node(t).infections = {}
                           /\ Node(t).need_buf = {} /\ Node(t).cmd_data = <<>>
    BY <2>1 DEF Node, NodeType
  <2> QED
    BY <1>1, <2>2
<1>4. q = [a \in Attr |-> q[a]]
  BY DEF Told
<1> HIDE DEF q
<1>5. q \in Table
  BY <1>2, <1>3, <1>4 DEF Table
<1>6. \A a \in Attr \ DOMAIN config : ReadsIn(q, a) = ReadsIn(node, a) /\ Needs(q, a) = Needs(node, a)
                                      /\ HasFormula(q, a) = HasFormula(node, a)
  BY <1>2 DEF ReadsIn, Needs, HasFormula
<1>7. NodesOK(q)
  <2>1. ASSUME NEW a \in Attr
        PROVE  /\ ~q[a].inited => ~HasFormula(q, a)
               /\ q[a].cmd_data \in {<<>>, q[a].input_for}
               /\ q[a].need_buf \subseteq {b \in Needs(q, a) : q[b].inited}
    <3>1. CASE a \in DOMAIN config
      BY <1>3, <3>1
    <3>2. CASE a \notin DOMAIN config
      <4>1. /\ ~node[a].inited => ~HasFormula(node, a)
            /\ node[a].cmd_data \in {<<>>, node[a].input_for}
            /\ node[a].need_buf \subseteq {b \in Needs(node, a) : node[b].inited}
            /\ node[a].need_buf \subseteq Attr
        BY DEF NodesOK, Table, NodeType
      <4>2. \A b \in Attr : node[b].inited => q[b].inited
        BY <1>2, <1>3
      <4> QED
        BY <1>2, <1>6, <3>2, <4>1, <4>2
    <3> QED
      BY <3>1, <3>2
  <2> QED
    BY <2>1 DEF NodesOK
<1>8. Fresh(node) => Fresh(q) /\ OnlyReaders(q)
  BY <1>2, <1>3 DEF Fresh, OnlyReaders
<1>9. ASSUME OnlyReaders(node), \A a \in DOMAIN config : ~node[a].inited
      PROVE  OnlyReaders(q)
  <2>1. SUFFICES ASSUME NEW a \in Attr, NEW c \in q[a].infections PROVE a \in Needs(q, c)
    BY DEF OnlyReaders
  <2>2. a \notin DOMAIN config /\ c \in node[a].infections
    BY <1>2, <1>3, <2>1
  <2>3. c \in Attr /\ a \in Needs(node, c)
    BY <1>9, <2>2 DEF OnlyReaders, Table, NodeType
  <2>4. CASE c \in DOMAIN config
    <3>1. ~HasFormula(node, c)
      BY <1>9, <2>3, <2>4 DEF NodesOK
    <3>2. Needs(node, c) = {}
      BY <3>1 DEF HasFormula, Needs, ReadsIn
    <3> QED
      BY <2>3, <3>2
  <2>5. CASE c \notin DOMAIN config
    BY <1>6, <2>3, <2>5
  <2> QED
    BY <2>4, <2>5
<1> QED
  BY <1>5, <1>7, <1>8, <1>9 DEF q

(* A parse accepts a table in order, or refuses it for a reason.           *)
LEMMA ParseRight ==
  ASSUME TableAssumption, NEW n \in Table, NodesOK(n), m_run_sort \in Seq(Attr), Parse(n)
  PROVE  /\ node' \in Table /\ NodesOK(node') /\ m_run_sort' \in Seq(Attr)
         /\ parsed' \in {"ok", "error"}
         /\ OnlyReaders(n) => OnlyReaders(node')
         /\ parsed' = "ok" =>
              Compiled(node') /\ \E p \in 0 .. Len(m_run_sort') : Ordered(node', m_run_sort', p)
         /\ RefusedRightly'
<1> DEFINE y == ParseRows(n)
           q == y.node
           t == parse_run_sort(q)
<1>1. /\ node' = q
      /\ \/ /\ y.ok /\ m_run_sort' = t.sort
            /\ parsed' = IF t.done = 0 THEN "ok" ELSE "error"
         \/ ~y.ok /\ parsed' = "error" /\ m_run_sort' = m_run_sort
  BY DEF Parse
<1>2. /\ y \in ParseState /\ NodesOK(q) /\ (OnlyReaders(n) => OnlyReaders(q))
      /\ ~y.ok => Unready(q)
      /\ y.ok => Compiled(q)
  BY ParseFacts
<1> HIDE DEF y
<1>3. q \in Table
  BY <1>2 DEF ParseState
<1> HIDE DEF q
<1>4. /\ t \in SortState /\ SortInv(q, Len(m_run_sort), t)
      /\ t.done = 0 => \A i \in 0 .. (m_wa_num(q) - 1) : wa_id(q, i) \in t.walked
      /\ t.done # 0 => \/ m_wa_num(q) = 0
                       \/ \E S \in SUBSET Attr : S # {} /\ \A a \in S : q[a].need_buf \cap S # {}
  BY <1>2, <1>3, SortFacts
<1> HIDE DEF t
<1>5. t.sort \in Seq(Attr)
  BY <1>4 DEF SortState
<1>6. ASSUME y.ok, t.done = 0
      PROVE  \E p \in 0 .. Len(t.sort) : Ordered(q, t.sort, p)
  <2> DEFINE p == Len(m_run_sort)
  <2> HIDE DEF p
  <2>1. /\ p \in 0 .. Len(t.sort)
        /\ InOrder(q, p, t.sort)
        /\ \A a \in t.walked : q[a].cmd_data # <<>> /\ (a # 0 \/ CompleteIn(q)) =>
             \E k \in (p + 1) .. Len(t.sort) : t.sort[k] = a
    BY <1>4 DEF SortInv, p
  <2>2. Compiled(q)
    BY <1>2, <1>6
  <2>3. ASSUME NEW k \in (p + 1) .. Len(t.sort), NEW j \in (k + 1) .. Len(t.sort)
        PROVE  t.sort[j] \notin Needs(q, t.sort[k]) \cup {t.sort[k]}
    <3>1. t.sort[j] \notin q[t.sort[k]].need_buf \cup {t.sort[k]}
      BY <2>1 DEF InOrder
    <3>2. k \in 1 .. Len(t.sort)
      BY <1>5, <2>1
    <3>3. t.sort[k] \in Attr
      BY <1>5, <3>2
    <3>4. q[t.sort[k]].need_buf = Needs(q, t.sort[k])
      BY <2>2, <3>3 DEF Compiled
    <3> QED
      BY <3>1, <3>4
  <2>4. ASSUME NEW a \in Attr, HasFormula(q, a), a # 0 \/ CompleteIn(q)
        PROVE  \E k \in (p + 1) .. Len(t.sort) : t.sort[k] = a
    <3>1. q[a].inited /\ q[a].cmd_data = q[a].input_for
      BY <1>2, <2>2, <2>4 DEF NodesOK, Compiled
    <3>2. a \in 0 .. (m_wa_num(q) - 1) /\ wa_id(q, a) = a
      BY <1>3, <3>1, RowsFacts DEF wa_id
    <3>3. a \in t.walked
      BY <1>4, <1>6, <3>2
    <3> QED
      BY <2>1, <2>4, <3>1, <3>3 DEF HasFormula
  <2>5. Ordered(q, t.sort, p)
    BY <2>3, <2>4 DEF Ordered
  <2> QED
    BY <2>1, <2>5
<1>7. /\ \A a \in Attr : Reads(a)' = ReadsIn(q, a)
      /\ m_wa_num(node)' = m_wa_num(q)
  BY <1>1 DEF Reads, ReadsIn, m_wa_num
<1>8. RefusedRightly'
  <2>1. SUFFICES ASSUME parsed' = "error"
                 PROVE  \/ m_wa_num(q) = 0
                        \/ \E a \in Attr : \E b \in ReadsIn(q, a) : ~q[b].inited
                        \/ \E S \in SUBSET Attr : S # {} /\ \A a \in S : ReadsIn(q, a) \cap (S \ {a}) # {}
    BY <1>1, <1>7 DEF RefusedRightly
  <2>2. CASE ~y.ok
    BY <1>2, <2>2 DEF Unready
  <2>3. CASE y.ok
    <3>1. t.done # 0
      BY <1>1, <2>1, <2>3
    <3>2. CASE m_wa_num(q) = 0
      BY <3>2
    <3>3. CASE \E S \in SUBSET Attr : S # {} /\ \A a \in S : q[a].need_buf \cap S # {}
      <4>1. PICK S \in SUBSET Attr : S # {} /\ \A a \in S : q[a].need_buf \cap S # {}
        BY <3>3
      <4>2. \A a \in S : q[a].need_buf \subseteq ReadsIn(q, a) \ {a}
        BY <1>2 DEF NodesOK, Needs
      <4>3. \A a \in S : ReadsIn(q, a) \cap (S \ {a}) # {}
        BY <4>1, <4>2
      <4> QED
        BY <4>1, <4>3
    <3> QED
      BY <1>4, <3>1, <3>2, <3>3
  <2> QED
    BY <2>2, <2>3
<1>9. m_run_sort' \in Seq(Attr) /\ parsed' \in {"ok", "error"}
  BY <1>1, <1>5
<1>10. ASSUME parsed' = "ok"
       PROVE  Compiled(node') /\ \E p \in 0 .. Len(m_run_sort') : Ordered(node', m_run_sort', p)
  <2>1. y.ok /\ t.done = 0 /\ m_run_sort' = t.sort
    BY <1>1, <1>10
  <2> QED
    BY <1>1, <1>2, <1>6, <2>1
<1> QED
  BY <1>1, <1>2, <1>3, <1>8, <1>9, <1>10

(* CalcAll leaves every attribute with a value.                            *)
LEMMA CalculatedType ==
  ASSUME TableAssumption, node \in Table, m_run_sort \in Seq(Attr), NEW v \in [Attr -> Value]
  PROVE  Calculated(v) \in [Attr -> Value]
<1>1. PICK h \in [0 .. Len(m_run_sort) -> [Attr -> Value]] :
           /\ h[0] = v
           /\ \A i \in 1 .. Len(m_run_sort) : h[i] = CalcStep(h[i - 1], m_run_sort[i])
           /\ Calculated(v) = h[Len(m_run_sort)]
  BY CalculatedSteps
<1>2. Len(m_run_sort) \in 0 .. Len(m_run_sort)
  OBVIOUS
<1> QED
  BY <1>1, <1>2

(* Everything of the invariant but the values.                             *)
TableInv ==
  /\ node \in Table /\ NodesOK(node) /\ m_run_sort \in Seq(Attr)
  /\ parsed \in {"never", "ok", "error", "changed"} /\ inits \in 0 .. MaxInits
  /\ parsed = "never" => Fresh(node)
  /\ ~reinited => OnlyReaders(node)
  /\ parsed = "ok" => Compiled(node) /\ \E p \in 0 .. Len(m_run_sort) : Ordered(node, m_run_sort, p)
  /\ RefusedRightly

(* The invariant has a part about the table and a part about the values.   *)
LEMMA InvParts ==
  IInv <=> TableInv /\ values \in [Attr -> Value] /\ writes \in 0 .. MaxWrites /\ CalcExact
BY DEF IInv, TableInv

(* A step that leaves the table alone keeps the part about the table.      *)
LEMMA TableUnchanged ==
  ASSUME TableInv, UNCHANGED table
  PROVE  TableInv'
<1>1. /\ node' = node /\ m_run_sort' = m_run_sort /\ parsed' = parsed /\ reinited' = reinited /\ inits' = inits
  BY DEF table
<1>2. RefusedRightly' = RefusedRightly
  BY <1>1 DEF RefusedRightly, Reads, m_wa_num
<1> QED
  BY <1>1, <1>2 DEF TableInv

(* After a change nothing is said of the values before CalcAll.            *)
LEMMA NotCalculated ==
  ASSUME calculated' = FALSE
  PROVE  CalcExact'
BY DEF CalcExact

(* CalcAll over any values keeps the invariant.                            *)
LEMMA ValuesComputed ==
  ASSUME TableAssumption, IInv, NEW v \in [Attr -> Value], UNCHANGED table, values' = Calculated(v),
         writes' \in 0 .. MaxWrites
  PROVE  IInv'
<1>1. TableInv'
  BY InvParts, TableUnchanged
<1>2. node \in Table /\ m_run_sort \in Seq(Attr) /\ values' \in [Attr -> Value]
  BY InvParts, CalculatedType DEF TableInv
<1>3. /\ node' = node /\ m_run_sort' = m_run_sort /\ parsed' = parsed
  BY DEF table
<1>4. (Complete' <=> Complete) /\ \A a \in Attr : Reads(a)' = Reads(a)
  BY <1>3 DEF Complete, Reads, m_wa_num
<1>5. ASSUME parsed = "ok", NEW a \in Attr, node[a].input_for # <<>>, a \notin Reads(a), a # 0 \/ Complete
      PROVE  values'[a] = Run(node[a].input_for[1], values')
  <2>1. Compiled(node)
    BY <1>5 DEF IInv
  <2>2. PICK p \in 0 .. Len(m_run_sort) : Ordered(node, m_run_sort, p)
    BY <1>5 DEF IInv
  <2>3. Calculated(v)[a] = Run(node[a].input_for[1], Calculated(v))
    BY <1>2, <1>5, <2>1, <2>2, CalculatedRight
  <2> QED
    BY <2>3
<1>6. CalcExact'
  BY <1>3, <1>4, <1>5 DEF CalcExact
<1> QED
  BY <1>1, <1>2, <1>6 DEF IInv, TableInv

(* Values that the caller writes keep the invariant.                       *)
LEMMA ValuesWritten ==
  ASSUME TableAssumption, IInv, NEW v \in [Attr -> Value], Write(v), calculated' = FALSE
  PROVE  IInv'
<1>1. TableInv'
  BY InvParts, TableUnchanged DEF Write
<1>2. writes' \in 0 .. MaxWrites
  BY DEF Write, IInv, TableAssumption
<1> QED
  BY <1>1, <1>2, NotCalculated DEF Write, IInv, TableInv

(* What is known of an attribute told again is gone; the others keep what  *)
(* they have, with readers that may no longer be readers.                  *)
LEMMA TellFacts ==
  ASSUME TableAssumption, IInv, NEW config, DOMAIN config \subseteq Attr,
         \A a \in DOMAIN config : config[a] \in AnyText, Tell(config)
  PROVE  /\ Told(config) \in Table /\ NodesOK(Told(config))
         /\ parsed = "never" => Fresh(Told(config))
         /\ ~reinited' => OnlyReaders(Told(config))
         /\ inits' \in 0 .. MaxInits /\ calculated' = FALSE
<1>1. node \in Table /\ NodesOK(node)
  BY DEF IInv
<1>2. /\ Told(config) \in Table /\ NodesOK(Told(config))
      /\ Fresh(node) => Fresh(Told(config)) /\ OnlyReaders(Told(config))
      /\ OnlyReaders(node) /\ (\A a \in DOMAIN config : ~node[a].inited) => OnlyReaders(Told(config))
  BY <1>1, ToldFacts
<1>3. parsed = "never" => Fresh(node)
  BY DEF IInv
<1>4. ASSUME ~reinited'
      PROVE  OnlyReaders(Told(config))
  <2>1. ~reinited /\ (parsed = "never" \/ \A a \in DOMAIN config : ~node[a].inited)
    BY <1>4 DEF Tell
  <2>2. OnlyReaders(node)
    BY <2>1 DEF IInv
  <2> QED
    BY <1>2, <1>3, <2>1, <2>2
<1>5. inits' \in 0 .. MaxInits /\ calculated' = FALSE
  BY DEF Tell, IInv, TableAssumption
<1> QED
  BY <1>2, <1>3, <1>4, <1>5

(* Every call keeps the invariant.                                         *)
LEMMA NextInv ==
  ASSUME TableAssumption, IInv, [Next]_vars
  PROVE  IInv'
<1>1. ASSUME NEW a \in Attr, NEW text \in Texts, InitAttrNode(a, text)
      PROVE  IInv'
  <2> DEFINE config == [b \in {a} |-> text]
  <2>1. DOMAIN config = {a} /\ config[a] = text
    OBVIOUS
  <2>2. text \in AnyText
    <3>1. CASE text = <<>>
      BY <3>1 DEF AnyText
    <3>2. CASE text # <<>>
      <4>1. PICK f \in Formulas : text = <<f>>
        BY <3>2 DEF Texts
      <4>2. f \in Seq(Attr)
        BY DEF TableAssumption
      <4>3. <<f>> \in Seq(Seq(Attr)) /\ Len(<<f>>) = 1
        BY <4>2
      <4> QED
        BY <4>1, <4>3 DEF AnyText
    <3> QED
      BY <3>1, <3>2
  <2>3. /\ Tell(config) /\ node' = Told(config)
        /\ parsed' = IF parsed = "never" THEN "never" ELSE "changed"
        /\ m_run_sort' = m_run_sort /\ values' = values /\ writes' = writes
    BY <1>1 DEF InitAttrNode
  <2> HIDE DEF config
  <2>4. /\ Told(config) \in Table /\ NodesOK(Told(config))
        /\ parsed = "never" => Fresh(Told(config))
        /\ ~reinited' => OnlyReaders(Told(config))
        /\ inits' \in 0 .. MaxInits /\ calculated' = FALSE
    BY <2>1, <2>2, <2>3, TellFacts
  <2>5. RefusedRightly' /\ CalcExact'
    BY <2>3, <2>4, NotCalculated DEF RefusedRightly
  <2> QED
    BY <2>3, <2>4, <2>5 DEF IInv
<1>2. CASE preParseFormula
  <2>1. node \in Table /\ NodesOK(node) /\ m_run_sort \in Seq(Attr) /\ Parse(node)
    BY <1>2 DEF IInv, preParseFormula
  <2>2. /\ node' \in Table /\ NodesOK(node') /\ m_run_sort' \in Seq(Attr)
        /\ parsed' \in {"ok", "error"}
        /\ OnlyReaders(node) => OnlyReaders(node')
        /\ parsed' = "ok" =>
             Compiled(node') /\ \E p \in 0 .. Len(m_run_sort') : Ordered(node', m_run_sort', p)
        /\ RefusedRightly'
    BY <2>1, ParseRight
  <2>3. calculated' = FALSE /\ UNCHANGED <<reinited, values, inits, writes>>
    BY <1>2 DEF preParseFormula
  <2>4. CalcExact'
    BY <2>3, NotCalculated
  <2> QED
    BY <2>2, <2>3, <2>4 DEF IInv
<1>3. ASSUME NEW config \in Configs, globalInitConfig(config)
      PROVE  IInv'
  <2>1. DOMAIN config \subseteq Attr /\ \A a \in DOMAIN config : config[a] \in AnyText
    BY DEF TableAssumption
  <2>2. Tell(config) /\ Parse(Told(config)) /\ UNCHANGED <<values, writes>>
    BY <1>3 DEF globalInitConfig
  <2>3. /\ Told(config) \in Table /\ NodesOK(Told(config))
        /\ ~reinited' => OnlyReaders(Told(config))
        /\ inits' \in 0 .. MaxInits /\ calculated' = FALSE
    BY <2>1, <2>2, TellFacts
  <2> DEFINE n == Told(config)
  <2>4. n \in Table /\ NodesOK(n) /\ m_run_sort \in Seq(Attr) /\ Parse(n)
    BY <2>2, <2>3 DEF IInv
  <2> HIDE DEF n
  <2>5. /\ node' \in Table /\ NodesOK(node') /\ m_run_sort' \in Seq(Attr)
        /\ parsed' \in {"ok", "error"}
        /\ OnlyReaders(n) => OnlyReaders(node')
        /\ parsed' = "ok" =>
             Compiled(node') /\ \E p \in 0 .. Len(m_run_sort') : Ordered(node', m_run_sort', p)
        /\ RefusedRightly'
    BY <2>4, ParseRight
  <2>6. CalcExact'
    BY <2>3, NotCalculated
  <2>7. ~reinited' => OnlyReaders(node')
    BY <2>3, <2>5 DEF n
  <2> QED
    BY <2>2, <2>3, <2>5, <2>6, <2>7 DEF IInv
<1>4. CASE CalcAll
  BY <1>4, ValuesComputed DEF CalcAll, IInv
<1>5. ASSUME NEW a \in Attr, NEW x \in Value, setValue(a, x) \/ addValue(a, x)
      PROVE  IInv'
  <2>1. values \in [Attr -> Value]
    BY DEF IInv
  <2>2. [values EXCEPT ![a] = x] \in [Attr -> Value]
    BY <2>1
  <2>3. [values EXCEPT ![a] = (@ + x) % Modulus] \in [Attr -> Value]
    <3>1. (values[a] + x) % Modulus \in Value
      BY <2>1 DEF Value, TableAssumption
    <3> QED
      BY <2>1, <3>1
  <2>4. CASE setValue(a, x)
    BY <2>2, <2>4, ValuesWritten DEF setValue
  <2>5. CASE addValue(a, x)
    BY <2>3, <2>5, ValuesWritten DEF addValue
  <2> QED
    BY <1>5, <2>4, <2>5
<1>6. CASE resetValues
  BY <1>6, ValuesWritten, EmptyTableFacts DEF resetValues
<1>7. ASSUME NEW x \in [Attr -> Value], calcAllAttr(x) \/ \E count \in 0 .. Capacity : SetValues(x, count)
      PROVE  IInv'
  <2>1. values \in [Attr -> Value]
    BY DEF IInv
  <2>2. CASE calcAllAttr(x)
    <3> DEFINE v == [a \in Attr |-> IF x[a] # 0 THEN x[a] ELSE values[a]]
    <3>1. v \in [Attr -> Value]
      BY <2>1
    <3>2. Write(Calculated(v))
      BY <2>2 DEF calcAllAttr
    <3> HIDE DEF v
    <3>3. writes' \in 0 .. MaxWrites
      BY <3>2 DEF Write, IInv, TableAssumption
    <3> QED
      BY <3>1, <3>2, <3>3, ValuesComputed DEF Write
  <2>3. ASSUME NEW count \in 0 .. Capacity, SetValues(x, count)
        PROVE  IInv'
    <3> DEFINE v == [a \in Attr |-> IF a < count THEN x[a] ELSE values[a]]
    <3>1. v \in [Attr -> Value]
      BY <2>1
    <3>2. Write(v) /\ calculated' = FALSE
      BY <2>3 DEF SetValues
    <3> HIDE DEF v
    <3> QED
      BY <3>1, <3>2, ValuesWritten
  <2> QED
    BY <1>7, <2>2, <2>3
<1>8. ASSUME NEW a \in Attr, getInfections(a)
      PROVE  IInv'
  <2>1. /\ node' = EmptyTable /\ m_run_sort' = <<>> /\ values' = Zero
        /\ parsed' = "never" /\ reinited' = FALSE /\ calculated' = FALSE
        /\ inits' = inits /\ writes' = writes
    BY <1>8 DEF getInfections
  <2>2. RefusedRightly' /\ CalcExact'
    BY <2>1, NotCalculated DEF RefusedRightly
  <2>3. m_run_sort' \in Seq(Attr)
    BY <2>1
  <2> QED
    BY <2>1, <2>2, <2>3, EmptyTableFacts DEF IInv
<1>9. CASE UNCHANGED vars
  <2>1. /\ UNCHANGED table /\ values' = values /\ calculated' = calculated /\ writes' = writes
    BY <1>9 DEF vars
  <2>2. TableInv'
    BY <2>1, InvParts, TableUnchanged
  <2>3. CalcExact'
    <3>1. /\ node' = node /\ parsed' = parsed
      BY <2>1 DEF table
    <3>2. CalcExact
      BY DEF IInv
    <3> QED
      BY <2>1, <3>1, <3>2 DEF CalcExact, Complete, Reads, m_wa_num
  <2> QED
    BY <2>1, <2>2, <2>3 DEF IInv, TableInv
<1> QED
  BY <1>1, <1>2, <1>3, <1>4, <1>5, <1>6, <1>7, <1>8, <1>9 DEF Next

(* FormulasRight, for every table and all formulas it may be told.         *)
THEOREM FormulasCorrect ==
  ASSUME TableAssumption
  PROVE  Spec => []FormulasRight
<1>1. Init => IInv
  BY InitInv
<1>2. IInv /\ [Next]_vars => IInv'
  BY NextInv
<1>3. IInv => FormulasRight
  BY InvRight
<1> QED
  BY <1>1, <1>2, <1>3, PTL DEF Spec

-----------------------------------------------------------------------------
(* RunSort, the server's parse_run_sort: for any number of attributes and  *)
(* any formulas the order found is topological and, once the table is      *)
(* accepted, complete; and a table is refused only when it has a cycle,    *)
(* that is, WaNum rounds are enough for every other one.                   *)

(* The formulas that are walked are those placed.                          *)
WalkInv == /\ Sort!Placed \subseteq formula
           /\ walked \cap formula = Sort!Placed

(* `done` counts: it is 0 exactly while the round left nothing behind.     *)
RoundInv == /\ done = 0 => \A a \in 0 .. row - 1 : a \in walked
            /\ done > 0 => \E a \in 0 .. row - 1 : a \notin walked
            /\ result = "ok" => walked = Sort!Attr
            /\ result = "running" => number > 0

(* No formulas read each other in a circle.                                *)
Acyclic == \A S \in SUBSET formula : S # {} => \E a \in S : needs[a] \cap S = {}

(* A formula that reads one not walked yet.                                *)
Blocked(b) == b \in formula /\ ~(needs[b] \subseteq walked)

(* Without a cycle each finished round has walked one attribute at least;  *)
(* a round that has walked none yet has met only blocked formulas.         *)
ProgressInv ==
  Acyclic =>
    /\ result # "error"
    /\ Cardinality(walked) >= WaNum - number
    /\ Cardinality(walked) = WaNum - number =>
         \A b \in 0 .. row - 1 : b \notin walked => Blocked(b)

RunSortInv == Sort!TypeOK /\ WalkInv /\ Sort!NeedsFirst /\ RoundInv /\ ProgressInv

(* The attributes of the server's table, and the cardinalities of sets of  *)
(* them.                                                                   *)
LEMMA SortAttrFacts ==
  ASSUME Sort!WaNumAssumption
  PROVE  /\ IsFiniteSet(Sort!Attr) /\ Cardinality(Sort!Attr) = WaNum
         /\ WaNum \in Nat /\ WaNum > 0
         /\ \A W \in SUBSET Sort!Attr : IsFiniteSet(W) /\ Cardinality(W) \in Nat
                                        /\ Cardinality(W) <= WaNum
                                        /\ (Cardinality(W) = WaNum => W = Sort!Attr)
<1>1. WaNum \in Nat /\ WaNum > 0
  BY DEF Sort!WaNumAssumption
<1>2. IsFiniteSet(Sort!Attr) /\ Cardinality(Sort!Attr) = WaNum
  <2>1. 0 \in Int /\ WaNum - 1 \in Int /\ ~(0 > WaNum - 1)
    BY <1>1
  <2>2. IsFiniteSet(0 .. WaNum - 1) /\ Cardinality(0 .. WaNum - 1) = (WaNum - 1) - 0 + 1
    BY <2>1, FS_Interval
  <2> QED
    BY <1>1, <2>2 DEF Sort!Attr
<1>3. ASSUME NEW W \in SUBSET Sort!Attr
      PROVE  IsFiniteSet(W) /\ Cardinality(W) \in Nat /\ Cardinality(W) <= WaNum
             /\ (Cardinality(W) = WaNum => W = Sort!Attr)
  BY <1>2, FS_Subset, FS_CardinalityType
<1> QED
  BY <1>1, <1>2, <1>3

(* Before the first row nothing is walked.                                 *)
LEMMA SortInitInv ==
  ASSUME Sort!WaNumAssumption
  PROVE  Sort!Init => RunSortInv
<1> SUFFICES ASSUME Sort!Init PROVE RunSortInv
  OBVIOUS
<1>1. Sort!TypeOK
  BY SortAttrFacts DEF Sort!Init, Sort!TypeOK
<1>2. Sort!Placed = {}
  BY DEF Sort!Init, Sort!Placed
<1>3. WalkInv /\ Sort!NeedsFirst
  BY <1>2 DEF Sort!Init, WalkInv, Sort!NeedsFirst
<1>4. RoundInv
  BY SortAttrFacts DEF Sort!Init, RoundInv
<1>5. ProgressInv
  <2>1. Cardinality(walked) = 0
    BY FS_EmptySet DEF Sort!Init
  <2> QED
    BY <2>1, SortAttrFacts DEF Sort!Init, ProgressInv
<1> QED
  BY <1>1, <1>3, <1>4, <1>5 DEF RunSortInv

-----------------------------------------------------------------------------
(* What a visit does, whichever of its cases applies.                      *)
LEMMA VisitCases ==
  ASSUME Sort!WaNumAssumption, Sort!TypeOK, Sort!Visit
  PROVE  /\ row \in Sort!Attr /\ row' = row + 1 /\ row' \in 0 .. WaNum
         /\ result = "running" /\ UNCHANGED <<formula, needs, number, result>>
         /\ \/ /\ row \in walked' /\ walked' = walked \cup {row} /\ done' = done
               /\ \/ row \in walked /\ sort_buf' = sort_buf
                  \/ row \notin walked /\ row \notin formula /\ sort_buf' = sort_buf
                  \/ /\ row \notin walked /\ row \in formula /\ needs[row] \subseteq walked
                     /\ sort_buf' = Append(sort_buf, row)
            \/ /\ row \notin walked /\ Blocked(row) /\ done' = done + 1
               /\ UNCHANGED <<walked, sort_buf>>
<1>1. row \in Sort!Attr /\ row' = row + 1 /\ row' \in 0 .. WaNum
  BY SortAttrFacts DEF Sort!TypeOK, Sort!Visit, Sort!Attr
<1>2. result = "running" /\ UNCHANGED <<formula, needs, number, result>>
  BY DEF Sort!Visit
<1>3. CASE Sort!Skip
  BY <1>1, <1>2, <1>3 DEF Sort!Skip
<1>4. CASE Sort!WalkPlain
  BY <1>1, <1>2, <1>4 DEF Sort!WalkPlain
<1>5. CASE Sort!PlaceFormula
  BY <1>1, <1>2, <1>5 DEF Sort!PlaceFormula, Sort!check_canbe_run
<1>6. CASE Sort!Postpone
  BY <1>1, <1>2, <1>6 DEF Sort!Postpone, Sort!check_canbe_run, Blocked
<1> QED
  BY <1>3, <1>4, <1>5, <1>6 DEF Sort!Visit

(* A formula appended to the order is its last place, and the others stay. *)
LEMMA AppendPlaced ==
  ASSUME NEW s \in Seq(Sort!Attr), NEW a \in Sort!Attr
  PROVE  /\ Append(s, a) \in Seq(Sort!Attr)
         /\ DOMAIN s = 1 .. Len(s) /\ DOMAIN Append(s, a) = 1 .. Len(s) + 1
         /\ \A p \in 1 .. Len(s) : Append(s, a)[p] = s[p]
         /\ Append(s, a)[Len(s) + 1] = a
         /\ Len(s) \in Nat
OBVIOUS

(* A row keeps the order: a formula is placed when all it reads is walked, *)
(* and no formula is walked that was not placed.                           *)
LEMMA VisitOrder ==
  ASSUME Sort!WaNumAssumption, Sort!TypeOK, WalkInv, Sort!NeedsFirst, Sort!Visit
  PROVE  Sort!TypeOK' /\ WalkInv' /\ Sort!NeedsFirst'
<1> USE VisitCases
<1>1. /\ row \in Sort!Attr /\ row' \in 0 .. WaNum /\ UNCHANGED <<formula, needs, number, result>>
      /\ sort_buf \in Seq(Sort!Attr) /\ walked \subseteq Sort!Attr /\ done \in Nat
  BY DEF Sort!TypeOK
<1>2. CASE sort_buf' = sort_buf /\ \/ walked' = walked
                                   \/ row \notin formula /\ walked' = walked \cup {row}
  <2>1. Sort!Placed' = Sort!Placed
    BY <1>2 DEF Sort!Placed
  <2>2. WalkInv'
    BY <1>1, <1>2, <2>1 DEF WalkInv
  <2>3. Sort!NeedsFirst'
    BY <1>1, <1>2 DEF Sort!NeedsFirst
  <2>4. done' \in Nat
    BY <1>1
  <2>5. Sort!TypeOK'
    BY <1>1, <1>2, <2>4 DEF Sort!TypeOK
  <2> QED
    BY <2>2, <2>3, <2>5
<1>3. CASE /\ row \notin walked /\ row \in formula /\ needs[row] \subseteq walked
           /\ sort_buf' = Append(sort_buf, row) /\ walked' = walked \cup {row}
           /\ done' = done
  <2> DEFINE n == Len(sort_buf)
  <2>1. /\ sort_buf' \in Seq(Sort!Attr) /\ DOMAIN sort_buf = 1 .. n /\ n \in Nat
        /\ DOMAIN sort_buf' = 1 .. n + 1
        /\ \A p \in 1 .. n : sort_buf'[p] = sort_buf[p]
        /\ sort_buf'[n + 1] = row
    BY <1>1, <1>3, AppendPlaced
  <2> HIDE DEF n
  <2>2. Sort!Placed' = Sort!Placed \cup {row}
    BY <2>1 DEF Sort!Placed
  <2>3. Sort!TypeOK'
    BY <1>1, <1>3, <2>1 DEF Sort!TypeOK
  <2>4. WalkInv'
    BY <1>1, <1>3, <2>2 DEF WalkInv
  <2>5. Sort!NeedsFirst'
    <3> SUFFICES ASSUME NEW p \in 1 .. n + 1
                 PROVE  /\ \A b \in needs[sort_buf'[p]] \cap formula :
                             \E q \in 1 .. p - 1 : sort_buf'[q] = b
                        /\ \A q \in 1 .. p - 1 : sort_buf'[q] # sort_buf'[p]
      BY <1>1, <2>1 DEF Sort!NeedsFirst
    <3>1. CASE p \in 1 .. n
      <4>1. \A q \in 1 .. p - 1 : q \in 1 .. n
        BY <2>1, <3>1
      <4>2. p \in DOMAIN sort_buf /\ sort_buf'[p] = sort_buf[p]
        BY <2>1, <3>1
      <4>3. /\ \A b \in needs[sort_buf[p]] \cap formula : \E q \in 1 .. p - 1 : sort_buf[q] = b
            /\ \A q \in 1 .. p - 1 : sort_buf[q] # sort_buf[p]
        BY <4>2 DEF Sort!NeedsFirst
      <4>4. \A q \in 1 .. p - 1 : sort_buf'[q] = sort_buf[q]
        BY <2>1, <4>1
      <4> QED
        BY <4>2, <4>3, <4>4
    <3>2. CASE p = n + 1
      <4>1. sort_buf'[p] = row /\ 1 .. p - 1 = 1 .. n
        BY <2>1, <3>2
      <4>2. \A b \in needs[row] \cap formula : \E q \in 1 .. n : sort_buf[q] = b
        BY <1>3, <2>1 DEF WalkInv, Sort!Placed
      <4>3. \A q \in 1 .. n : sort_buf[q] # row
        BY <1>3, <2>1 DEF WalkInv, Sort!Placed
      <4> QED
        BY <2>1, <4>1, <4>2, <4>3
    <3> QED
      BY <2>1, <3>1, <3>2
  <2> QED
    BY <2>3, <2>4, <2>5
<1> QED
  BY <1>2, <1>3

(* A row keeps count of the formulas left over in the round, and the round *)
(* walks more as long as some formula is not blocked.                      *)
LEMMA VisitRound ==
  ASSUME Sort!WaNumAssumption, Sort!TypeOK, RoundInv, ProgressInv, Sort!Visit
  PROVE  RoundInv' /\ ProgressInv'
<1>1. /\ row \in Sort!Attr /\ row' = row + 1 /\ row \in Nat /\ done \in Nat /\ walked \subseteq Sort!Attr
      /\ number \in Int /\ result = "running"
      /\ UNCHANGED <<formula, needs, number, result>>
  BY VisitCases, SortAttrFacts DEF Sort!TypeOK, Sort!Attr
<1>2. \A a \in 0 .. row' - 1 : a \in 0 .. row - 1 \/ a = row
  BY <1>1
<1>3. \A a \in 0 .. row - 1 : a \in 0 .. row' - 1 /\ a # row
  BY <1>1
<1>4. row \in 0 .. row' - 1
  BY <1>1
<1>5. Acyclic' = Acyclic
  BY <1>1 DEF Acyclic
<1>6. CASE walked' = walked \cup {row} /\ done' = done
  <2>1. RoundInv'
    BY <1>1, <1>2, <1>3, <1>6 DEF RoundInv
  <2>2. ProgressInv'
    <3> SUFFICES ASSUME Acyclic
                 PROVE  /\ Cardinality(walked') >= WaNum - number
                        /\ Cardinality(walked') = WaNum - number =>
                             \A b \in 0 .. row' - 1 : b \notin walked' => Blocked(b)'
      BY <1>1, <1>5 DEF ProgressInv
    <3>1. CASE row \in walked
      <4>1. walked' = walked
        BY <1>6, <3>1
      <4>2. \A b : Blocked(b)' = Blocked(b)
        BY <1>1, <4>1 DEF Blocked
      <4> QED
        BY <1>2, <3>1, <4>1, <4>2 DEF ProgressInv
    <3>2. CASE row \notin walked
      <4>1. Cardinality(walked') = Cardinality(walked) + 1 /\ Cardinality(walked) \in Nat
        BY <1>1, <1>6, <3>2, SortAttrFacts, FS_AddElement
      <4>2. Cardinality(walked) >= WaNum - number
        BY DEF ProgressInv
      <4> QED
        BY <1>1, <4>1, <4>2, SortAttrFacts
    <3> QED
      BY <3>1, <3>2
  <2> QED
    BY <2>1, <2>2
<1>7. CASE /\ row \notin walked /\ Blocked(row) /\ done' = done + 1
           /\ UNCHANGED <<walked, sort_buf>>
  <2>1. done' > 0 /\ done' # 0
    BY <1>1, <1>7
  <2>2. RoundInv'
    BY <1>1, <1>4, <1>7, <2>1 DEF RoundInv
  <2>3. \A b : Blocked(b)' = Blocked(b)
    BY <1>1, <1>7 DEF Blocked
  <2>4. ProgressInv'
    BY <1>1, <1>2, <1>5, <1>7, <2>3 DEF ProgressInv
  <2> QED
    BY <2>2, <2>4
<1> QED
  BY <1>6, <1>7, VisitCases

(* A round that ends with something left has walked something, unless      *)
(* there is a cycle.                                                       *)
LEMMA RoundProgress ==
  ASSUME Sort!WaNumAssumption, Sort!TypeOK, RoundInv, ProgressInv, Acyclic, row = WaNum, done > 0
  PROVE  /\ Cardinality(walked) \in Nat /\ Cardinality(walked) < WaNum
         /\ Cardinality(walked) > WaNum - number
<1>1. /\ walked \subseteq Sort!Attr /\ Cardinality(walked) \in Nat /\ Cardinality(walked) <= WaNum
      /\ (Cardinality(walked) = WaNum => walked = Sort!Attr)
  BY SortAttrFacts DEF Sort!TypeOK
<1>2. PICK a \in Sort!Attr : a \notin walked
  BY DEF RoundInv, Sort!Attr
<1>3. Cardinality(walked) < WaNum
  BY <1>1, <1>2, SortAttrFacts
<1>4. Cardinality(walked) # WaNum - number
  <2> SUFFICES ASSUME Cardinality(walked) = WaNum - number PROVE FALSE
    OBVIOUS
  <2> DEFINE U == Sort!Attr \ walked
  <2>1. \A b \in U : Blocked(b)
    BY DEF ProgressInv, Sort!Attr
  <2>2. U \in SUBSET formula /\ U # {}
    BY <1>2, <2>1 DEF Blocked
  <2>3. PICK b \in U : needs[b] \cap U = {}
    BY <2>2 DEF Acyclic
  <2>4. needs[b] \subseteq Sort!Attr
    BY DEF Sort!TypeOK
  <2>5. needs[b] \subseteq walked
    BY <2>3, <2>4
  <2> QED
    BY <2>1, <2>3, <2>5 DEF Blocked
<1> QED
  BY <1>1, <1>3, <1>4, SortAttrFacts DEF ProgressInv, Sort!TypeOK

(* A further round is worth it: the last one walked more, unless there is a*)
(* circle.                                                                 *)
LEMMA SortNextRound ==
  ASSUME Sort!WaNumAssumption
  PROVE  RunSortInv /\ Sort!NextRound => RunSortInv'
<1> SUFFICES ASSUME RunSortInv, Sort!NextRound PROVE RunSortInv'
  OBVIOUS
<1>1. /\ Sort!TypeOK /\ row = WaNum /\ done > 0 /\ number' = number - 1 /\ number \in Int
      /\ number > 0 /\ result = "running"
      /\ UNCHANGED <<formula, needs, walked, sort_buf>>
      /\ RoundInv /\ ProgressInv
  BY DEF Sort!NextRound, RunSortInv, Sort!TypeOK, RoundInv
<1>2. /\ number' > 0 => row' = 0 /\ done' = 0 /\ result' = result
      /\ ~(number' > 0) => row' = row /\ done' = done /\ result' = "error"
  BY DEF Sort!NextRound
<1>3. Sort!TypeOK'
  BY <1>1, <1>2, SortAttrFacts DEF Sort!TypeOK
<1>4. WalkInv' /\ Sort!NeedsFirst'
  BY <1>1 DEF RunSortInv, WalkInv, Sort!NeedsFirst, Sort!Placed
<1>5. RoundInv'
  <2>1. CASE number' > 0
    BY <1>1, <1>2, <2>1 DEF RoundInv
  <2>2. CASE ~(number' > 0)
    BY <1>1, <1>2, <2>2 DEF RoundInv
  <2> QED
    BY <2>1, <2>2
<1>6. ProgressInv'
  <2> SUFFICES ASSUME Acyclic
               PROVE  /\ result' # "error"
                      /\ Cardinality(walked) >= WaNum - number'
                      /\ Cardinality(walked) = WaNum - number' =>
                           \A b \in 0 .. row' - 1 : b \notin walked' => Blocked(b)'
    BY <1>1 DEF ProgressInv, Acyclic
  <2>1. /\ Cardinality(walked) \in Nat /\ Cardinality(walked) < WaNum
        /\ Cardinality(walked) > WaNum - number
    BY <1>1, RoundProgress
  <2>2. number' > 0
    BY <1>1, <2>1, SortAttrFacts
  <2>3. Cardinality(walked) >= WaNum - number'
    BY <1>1, <2>1, SortAttrFacts
  <2> QED
    BY <1>1, <1>2, <2>2, <2>3
<1> QED
  BY <1>3, <1>4, <1>5, <1>6 DEF RunSortInv

(* The rounds end when a round left nothing over.                          *)
LEMMA SortFinish ==
  ASSUME Sort!WaNumAssumption
  PROVE  RunSortInv /\ Sort!Finish => RunSortInv'
<1> SUFFICES ASSUME RunSortInv, Sort!Finish PROVE RunSortInv'
  OBVIOUS
<1>1. /\ Sort!TypeOK /\ row = WaNum /\ done = 0 /\ number > 0
      /\ UNCHANGED <<formula, needs, walked, sort_buf, done, number, row>>
      /\ result = "running" /\ number \in Int
  BY DEF Sort!Finish, RunSortInv, RoundInv, Sort!TypeOK
<1>2. result' = "ok"
  BY <1>1 DEF Sort!Finish
<1>3. Sort!TypeOK'
  BY <1>1, <1>2 DEF Sort!TypeOK
<1>4. WalkInv' /\ Sort!NeedsFirst'
  BY <1>1 DEF RunSortInv, WalkInv, Sort!NeedsFirst, Sort!Placed
<1>5. walked = Sort!Attr
  BY <1>1 DEF RunSortInv, RoundInv, Sort!TypeOK, Sort!Attr
<1>6. RoundInv'
  BY <1>1, <1>2, <1>5 DEF RunSortInv, RoundInv
<1>7. ProgressInv'
  BY <1>1, <1>2 DEF RunSortInv, ProgressInv, Acyclic, Blocked
<1> QED
  BY <1>3, <1>4, <1>6, <1>7 DEF RunSortInv

(* What changes nothing keeps the invariant.                               *)
LEMMA SortStutterInv ==
  ASSUME Sort!WaNumAssumption
  PROVE  RunSortInv /\ UNCHANGED Sort!vars => RunSortInv'
<1> SUFFICES ASSUME RunSortInv, UNCHANGED Sort!vars PROVE RunSortInv'
  OBVIOUS
<1>1. UNCHANGED <<formula, needs, walked, sort_buf, done, number, row, result>>
  BY DEF Sort!vars
<1>2. Sort!TypeOK'
  BY <1>1 DEF RunSortInv, Sort!TypeOK
<1>3. WalkInv' /\ Sort!NeedsFirst'
  BY <1>1 DEF RunSortInv, WalkInv, Sort!NeedsFirst, Sort!Placed
<1>4. RoundInv'
  BY <1>1 DEF RunSortInv, RoundInv
<1>5. ProgressInv'
  BY <1>1 DEF RunSortInv, ProgressInv, Acyclic, Blocked
<1> QED
  BY <1>2, <1>3, <1>4, <1>5 DEF RunSortInv

(* The strengthened invariant.                                             *)
THEOREM SortInvariant ==
  ASSUME Sort!WaNumAssumption
  PROVE  Sort!Spec => []RunSortInv
<1>1. RunSortInv /\ [Sort!Next]_(Sort!vars) => RunSortInv'
  <2>1. RunSortInv /\ Sort!Visit => RunSortInv'
    BY VisitOrder, VisitRound DEF RunSortInv
  <2> QED
    BY <2>1, SortNextRound, SortFinish, SortStutterInv DEF Sort!Next
<1> QED
  BY SortInitInv, <1>1, PTL DEF Sort!Spec

(* "If A uses B, then B must be computed first", for every table.          *)
THEOREM OrderCorrect ==
  ASSUME Sort!WaNumAssumption
  PROVE  Sort!Spec => [](Sort!TypeOK /\ Sort!NeedsFirst)
<1>1. RunSortInv => Sort!TypeOK /\ Sort!NeedsFirst
  BY DEF RunSortInv
<1> QED
  BY <1>1, SortInvariant, PTL

(* An accepted table has every formula in the order.                       *)
THEOREM OrderComplete ==
  ASSUME Sort!WaNumAssumption
  PROVE  Sort!Spec => []Sort!OkIsComplete
<1>1. RunSortInv => Sort!OkIsComplete
  BY DEF RunSortInv, WalkInv, RoundInv, Sort!TypeOK, Sort!OkIsComplete
<1> QED
  BY <1>1, SortInvariant, PTL

(* A refused table has a cycle.                                            *)
THEOREM RefusalCorrect ==
  ASSUME Sort!WaNumAssumption
  PROVE  Sort!Spec => []Sort!ErrorIsCycle
<1>1. RunSortInv => Sort!ErrorIsCycle
  BY DEF RunSortInv, ProgressInv, Acyclic, Sort!ErrorIsCycle
<1> QED
  BY <1>1, SortInvariant, PTL

(* All of it, for every number of attributes.                              *)
THEOREM SortCorrect ==
  ASSUME Sort!WaNumAssumption
  PROVE  Sort!Spec => []SortedRight
<1>1. Sort!TypeOK /\ Sort!NeedsFirst /\ Sort!OkIsComplete /\ Sort!ErrorIsCycle => SortedRight
  BY DEF SortedRight, Sort!SortedRight
<1> QED
  BY <1>1, OrderCorrect, OrderComplete, RefusalCorrect, PTL

(* How many steps parse_run_sort can still take: each round left looks at  *)
(* every attribute and counts.                                             *)
SortStepsLeft == IF result = "running" THEN number * (WaNum + 1) + (WaNum - row) + 1 ELSE 0

SortNearer == Sort!Next => SortStepsLeft' < SortStepsLeft

(* A round less.                                                           *)
LEMMA RoundLess ==
  ASSUME NEW n \in Nat, NEW m \in Nat
  PROVE  /\ (m + 1) * (n + 1) = m * (n + 1) + (n + 1)
         /\ m * (n + 1) \in Nat
OBVIOUS

(* The steps left are a number, and in a round there is one to count.      *)
LEMMA SortLeftType ==
  ASSUME Sort!WaNumAssumption, RunSortInv
  PROVE  /\ WaNum \in Nat /\ row \in 0 .. WaNum
         /\ result = "running" => /\ number \in Nat /\ number - 1 \in Nat
                                 /\ number * (WaNum + 1) = (number - 1) * (WaNum + 1) + (WaNum + 1)
                                 /\ (number - 1) * (WaNum + 1) \in Nat
         /\ SortStepsLeft \in Nat
<1>1. WaNum \in Nat /\ row \in 0 .. WaNum
  BY DEF Sort!WaNumAssumption, RunSortInv, Sort!TypeOK
<1>2. CASE result = "running"
  <2>1. number \in Nat /\ number - 1 \in Nat
    BY <1>2 DEF RunSortInv, RoundInv, Sort!TypeOK
  <2> DEFINE m == number - 1
  <2>2. number = m + 1 /\ m \in Nat
    BY <2>1
  <2> HIDE DEF m
  <2>3. number * (WaNum + 1) = m * (WaNum + 1) + (WaNum + 1) /\ m * (WaNum + 1) \in Nat
    BY <1>1, <2>2, RoundLess
  <2>4. SortStepsLeft = number * (WaNum + 1) + (WaNum - row) + 1
    BY <1>2 DEF SortStepsLeft
  <2> DEFINE p == m * (WaNum + 1)
             q == number * (WaNum + 1)
  <2>5. q = p + (WaNum + 1) /\ p \in Nat /\ SortStepsLeft = q + (WaNum - row) + 1
    BY <2>3, <2>4
  <2> HIDE DEF p, q
  <2>6. SortStepsLeft \in Nat
    BY <1>1, <2>5
  <2> QED
    BY <1>1, <2>1, <2>3, <2>6 DEF m
<1>3. CASE result # "running"
  BY <1>1, <1>3 DEF SortStepsLeft
<1> QED
  BY <1>2, <1>3

(* The loop ends for every table: parse_run_sort takes (WaNum + 1) squared *)
(* steps at most, so that Returns needs only that they are taken.          *)
THEOREM RoundsEnd ==
  ASSUME Sort!WaNumAssumption
  PROVE  Sort!Spec => /\ SortStepsLeft = (WaNum + 1) * (WaNum + 1)
                      /\ [](SortStepsLeft \in Nat)
                      /\ [][SortNearer]_(Sort!vars)
<1>1. Sort!Init => SortStepsLeft = (WaNum + 1) * (WaNum + 1)
  <2> SUFFICES ASSUME Sort!Init PROVE SortStepsLeft = (WaNum + 1) * (WaNum + 1)
    OBVIOUS
  <2>1. WaNum \in Nat /\ SortStepsLeft = WaNum * (WaNum + 1) + (WaNum - 0) + 1
    BY DEF Sort!Init, SortStepsLeft, Sort!WaNumAssumption
  <2>2. (WaNum + 1) * (WaNum + 1) = WaNum * (WaNum + 1) + (WaNum + 1) /\ WaNum * (WaNum + 1) \in Nat
    BY <2>1, RoundLess
  <2> DEFINE p == WaNum * (WaNum + 1)
             q == (WaNum + 1) * (WaNum + 1)
  <2>3. SortStepsLeft = p + (WaNum - 0) + 1 /\ q = p + (WaNum + 1) /\ p \in Nat
    BY <2>1, <2>2
  <2> HIDE DEF p, q
  <2>4. SortStepsLeft = q
    BY <2>1, <2>3
  <2> QED
    BY <2>4 DEF q
<1>2. RunSortInv => SortStepsLeft \in Nat
  BY SortLeftType
<1>3. RunSortInv /\ RunSortInv' /\ [Sort!Next]_(Sort!vars) => [SortNearer]_(Sort!vars)
  <2> SUFFICES ASSUME RunSortInv, RunSortInv', Sort!Next PROVE SortStepsLeft' < SortStepsLeft
    BY DEF SortNearer
  <2>1. result = "running"
    BY DEF Sort!Next, Sort!Visit, Sort!NextRound, Sort!Finish
  <2> DEFINE p == (number - 1) * (WaNum + 1)
             q == number * (WaNum + 1)
  <2>2. /\ WaNum \in Nat /\ row \in 0 .. WaNum /\ number \in Nat
        /\ q = p + (WaNum + 1) /\ p \in Nat /\ SortStepsLeft = q + (WaNum - row) + 1
    BY <2>1, SortLeftType DEF SortStepsLeft
  <2>3. CASE Sort!Visit
    <3>1. row' = row + 1 /\ row < WaNum /\ UNCHANGED <<number, result>>
      BY <2>3 DEF Sort!Visit
    <3>2. SortStepsLeft' = q + (WaNum - row') + 1
      BY <2>1, <3>1 DEF SortStepsLeft
    <3> HIDE DEF p, q
    <3> QED
      BY <2>2, <3>1, <3>2
  <2>4. CASE Sort!NextRound /\ result' = "running"
    <3>1. number' = number - 1 /\ row' = 0 /\ row = WaNum
      <4>1. "running" # "error"
        OBVIOUS
      <4> QED
        BY <2>4, <4>1 DEF Sort!NextRound
    <3>2. SortStepsLeft' = p + (WaNum - 0) + 1
      BY <2>4, <3>1 DEF SortStepsLeft
    <3> HIDE DEF p, q
    <3> QED
      BY <2>2, <3>1, <3>2
  <2>5. CASE result' # "running"
    <3>1. SortStepsLeft' = 0
      BY <2>5 DEF SortStepsLeft
    <3> HIDE DEF p, q
    <3> QED
      BY <2>2, <3>1
  <2>6. Sort!Finish => result' # "running"
    BY DEF Sort!Finish
  <2> QED
    BY <2>3, <2>4, <2>5, <2>6 DEF Sort!Next
<1> QED
  BY <1>1, <1>2, <1>3, SortInvariant, PTL DEF Sort!Spec
=============================================================================
