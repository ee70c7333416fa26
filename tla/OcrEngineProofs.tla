---------------------------- MODULE OcrEngineProofs ----------------------------
(***************************************************************************)
(* Proofs about the engine for all images, limits and runtimes.            *)
(***************************************************************************)
EXTENDS OcrEngine, FiniteSetTheorems, SequenceTheorems, WellFoundedInduction, TLAPS

\* A call that began late leaves the engine unchecked, and no check succeeds
\* any more.
PromptInv ==
    /\ {cancelled, expired, checked} \subseteq BOOLEAN
    /\ \/ late = 0
       \/ late = 1 /\ Stopped /\ ~checked

\* The engine keeps track of its checks: a stop that came before the start of a
\* runtime call is seen before the next one.
THEOREM ChecksHold == Spec => []PromptInv
<1>1. Init => PromptInv
  BY DEF Init, PromptInv, Stopped
<1>2. PromptInv /\ [Next]_vars => PromptInv'
  <2> SUFFICES ASSUME PromptInv, [Next]_vars PROVE PromptInv'
    OBVIOUS
  <2> USE DEF PromptInv, Stopped
  <2>1. CASE Cancel \/ Expire
    <3>1. UNCHANGED <<checked, late>> /\ {cancelled', expired'} \subseteq BOOLEAN
      BY <2>1 DEF Cancel, Expire
    <3>2. Stopped => Stopped'
      BY <2>1 DEF Cancel, Expire
    <3> QED
      BY <3>1, <3>2
  <2>2. CASE Check
    BY <2>2 DEF Check, Answer, context
  <2>3. CASE Detect \/ Recognize
    <3>1. /\ checked /\ checked' = FALSE
          /\ UNCHANGED <<cancelled, expired>>
          /\ late' = late + (IF Stopped THEN 1 ELSE 0)
      BY <2>3 DEF Detect, Recognize, At, Call, context
    <3>2. late = 0
      BY <3>1
    <3>3. CASE Stopped
      <4>1. late' = 0 + 1
        BY <3>1, <3>2, <3>3
      <4>2. late' = 1
        BY <4>1
      <4>3. Stopped'
        BY <3>1, <3>3
      <4> QED
        BY <3>1, <4>2, <4>3
    <3>4. CASE ~Stopped
      <4>1. late' = 0 + 0
        BY <3>1, <3>2, <3>4
      <4>2. late' = 0
        BY <4>1
      <4> QED
        BY <3>1, <4>2
    <3> QED
      BY <3>3, <3>4
  <2>4. CASE RuntimeReturns
    BY <2>4 DEF RuntimeReturns, DetectorReturns, RecognizerReturns, Return,
                Answer, Continue, context
  <2>5. CASE Decode \/ Preprocess \/ NothingFound
    BY <2>5 DEF Decode, Preprocess, NothingFound, FinishResult, Answer, Continue, context
  <2>6. CASE Postprocess
    BY <2>6 DEF Postprocess, Answer, Continue, context
  <2>7. CASE CropRegion
    <3>1. checked' = FALSE
      BY <2>7 DEF CropRegion, Answer, Continue
    <3> QED
      BY <2>7, <3>1 DEF CropRegion, context
  <2>8. CASE Read \/ Assemble
    BY <2>8 DEF Read, Assemble, FinishResult, Answer, Continue, context
  <2>9. CASE UNCHANGED vars
    BY <2>9 DEF vars, context
  <2> QED
    BY <2>1, <2>2, <2>3, <2>4, <2>5, <2>6, <2>7, <2>8, <2>9 DEF Next, Work
<1> QED
  BY <1>1, <1>2, PTL DEF Spec

\* At most one call of the runtime begins after its request was stopped.
THEOREM PromptStop == Spec => []StopIsPrompt
<1>1. PromptInv => StopIsPrompt
  BY DEF PromptInv, StopIsPrompt
<1> QED
  BY <1>1, ChecksHold, PTL

\* restore_order() undoes any permutation of a batch: when position k of the
\* tensor holds the reading of crop order[k], each crop gets its own reading.
THEOREM RestoreInverts ==
    ASSUME NEW n \in Nat,
           NEW order \in [1..n -> 1..n],
           \A i \in 1..n : \E k \in 1..n : order[k] = i,
           NEW readings, NEW read \in [1..n -> readings]
    PROVE  RestoreOrder(order, [k \in 1..n |-> read[order[k]]]) = read
<1> DEFINE sorted == [k \in 1..n |-> read[order[k]]]
           place(i) == CHOOSE k \in DOMAIN order : order[k] = i
<1>1. ASSUME NEW i \in 1..n PROVE sorted[place(i)] = read[i]
  <2>1. place(i) \in DOMAIN order /\ order[place(i)] = i
    BY <1>1
  <2> QED
    BY <2>1
<1>2. RestoreOrder(order, sorted) = [i \in 1..n |-> sorted[place(i)]]
  BY DEF RestoreOrder
<1> QED
  BY <1>1, <1>2

------------------------------------------------------------------------------
(***************************************************************************)
(* Induction: what the numbers below n have in common.                     *)
(***************************************************************************)
LEMMA Least ==
    ASSUME NEW T, T \subseteq Nat, T # {}
    PROVE  \E x \in T : \A y \in T : x <= y
<1>1. PICK x \in T : \A y \in T : ~(<<y, x>> \in OpToRel(<, Nat))
  BY NatLessThanWellFounded, WFMin
<1>2. ASSUME NEW y \in T PROVE x <= y
  <2>1. x \in Nat /\ y \in Nat
    OBVIOUS
  <2>2. ~(<<y, x>> \in {ss \in Nat \X Nat : ss[1] < ss[2]})
    BY <1>1 DEF OpToRel
  <2> QED
    BY <2>1, <2>2
<1> QED
  BY <1>2

LEMMA Induction ==
    ASSUME NEW S, 0 \in S, \A n \in Nat : n \in S => n + 1 \in S
    PROVE  Nat \subseteq S
<1> SUFFICES ASSUME Nat \ S # {} PROVE FALSE
  OBVIOUS
<1>1. PICK n \in Nat \ S : \A m \in Nat \ S : n <= m
  BY Least
<1>2. n # 0 /\ n - 1 \in Nat
  BY <1>1
<1>3. n - 1 \in S
  BY <1>1, <1>2
<1> QED
  BY <1>2, <1>3

\* A sequence of steps, each from the one before.
Steps(f, n, first, step) ==
    f[0] = first /\ \A k \in 1..n : f[k] = step[<<f[k - 1], k>>]

LEMMA StepsExist ==
    ASSUME NEW n \in Nat, NEW X, NEW first \in X, NEW step \in [X \X (1..n) -> X]
    PROVE  \E f \in [0..n -> X] : Steps(f, n, first, step)
<1> USE DEF Steps
<1> DEFINE Reached(m, f) == Steps(f, m, first, step)
           S == {m \in Nat : m <= n => \E f \in [0..m -> X] : Reached(m, f)}
<1>1. 0 \in S
  <2>1. [k \in 0..0 |-> first] \in [0..0 -> X]
    OBVIOUS
  <2>2. Reached(0, [k \in 0..0 |-> first])
    OBVIOUS
  <2> QED
    BY <2>1, <2>2
<1>2. ASSUME NEW m \in Nat, m \in S PROVE m + 1 \in S
  <2> SUFFICES ASSUME m + 1 <= n PROVE \E f \in [0..(m + 1) -> X] : Reached(m + 1, f)
    OBVIOUS
  <2>1. PICK f \in [0..m -> X] : Reached(m, f)
    BY <1>2
  <2> DEFINE g == [k \in 0..(m + 1) |-> IF k = m + 1 THEN step[<<f[m], m + 1>>] ELSE f[k]]
  <2>2. f[m] \in X /\ m + 1 \in 1..n
    OBVIOUS
  <2>3. step[<<f[m], m + 1>>] \in X
    BY <2>2
  <2>4. g \in [0..(m + 1) -> X]
    BY <2>3
  <2>5. g[0] = first
    BY <2>1
  <2>6. ASSUME NEW k \in 1..(m + 1) PROVE g[k] = step[<<g[k - 1], k>>]
    <3>1. CASE k = m + 1
      <4>1. g[k - 1] = f[m] /\ g[k] = step[<<f[m], m + 1>>]
        BY <3>1
      <4> QED
        BY <3>1, <4>1
    <3>2. CASE k # m + 1
      <4>1. k \in 1..m /\ g[k] = f[k] /\ g[k - 1] = f[k - 1]
        BY <3>2
      <4> QED
        BY <2>1, <4>1
    <3> QED
      BY <3>1, <3>2
  <2> QED
    BY <2>4, <2>5, <2>6
<1>3. n \in S
  BY <1>1, <1>2, Induction
<1> QED
  BY <1>3

------------------------------------------------------------------------------
(***************************************************************************)
(* Sorting: the positions in a strict order.                               *)
(***************************************************************************)
StrictOrder(S, before) ==
    /\ \A i \in S : <<i, i>> \notin before
    /\ \A i, j \in S : i # j => <<i, j>> \in before \/ <<j, i>> \in before
    /\ \A i, j, k \in S : <<i, j>> \in before /\ <<j, k>> \in before => <<i, k>> \in before

Earlier(S, before, i) == {j \in S : <<j, i>> \in before}

\* The list of n members p has all of them, in order.
Sorts(p, n, S, before) ==
    /\ p \in [1..n -> S]
    /\ \A i \in S : \E k \in 1..n : p[k] = i
    /\ \A a, b \in 1..n : a < b => <<p[a], p[b]>> \in before

LEMMA EarlierAreFewer ==
    ASSUME NEW S, IsFiniteSet(S), NEW before, StrictOrder(S, before), NEW i \in S
    PROVE  /\ Cardinality(Earlier(S, before, i)) \in 0..(Cardinality(S) - 1)
           /\ \A j \in S : <<i, j>> \in before =>
                 Cardinality(Earlier(S, before, i)) < Cardinality(Earlier(S, before, j))
<1> DEFINE A(j) == Earlier(S, before, j)
<1>1. \A j \in S : A(j) \in SUBSET S
  BY DEF Earlier
<1>2. \A j \in S : IsFiniteSet(A(j)) /\ Cardinality(A(j)) \in Nat
  BY <1>1, FS_Subset, FS_CardinalityType
<1>3. i \notin A(i)
  BY DEF Earlier, StrictOrder
<1>4. Cardinality(A(i) \cup {i}) = Cardinality(A(i)) + 1
  BY <1>2, <1>3, FS_AddElement
<1>5. A(i) \cup {i} \in SUBSET S
  BY <1>1
<1>6. Cardinality(A(i) \cup {i}) <= Cardinality(S) /\ Cardinality(S) \in Nat
  BY <1>5, FS_Subset, FS_CardinalityType
<1>7. ASSUME NEW j \in S, <<i, j>> \in before PROVE Cardinality(A(i)) < Cardinality(A(j))
  <2>1. A(i) \cup {i} \in SUBSET A(j)
    BY <1>7 DEF Earlier, StrictOrder
  <2>2. Cardinality(A(i) \cup {i}) <= Cardinality(A(j))
    BY <1>2, <2>1, FS_Subset
  <2> HIDE DEF A
  <2> QED
    BY <1>2, <1>4, <2>2
<1>8. Cardinality(A(i)) \in 0..(Cardinality(S) - 1)
  <2> HIDE DEF A
  <2> QED
    BY <1>2, <1>4, <1>6
<1> QED
  BY <1>7, <1>8

\* As many earlier ones is the same one.
LEMMA SameRank ==
    ASSUME NEW S, IsFiniteSet(S), NEW before, StrictOrder(S, before), NEW i \in S, NEW j \in S,
           Cardinality(Earlier(S, before, i)) = Cardinality(Earlier(S, before, j))
    PROVE  i = j
<1>1. ~(<<i, j>> \in before) /\ ~(<<j, i>> \in before)
  <2>1. /\ Cardinality(Earlier(S, before, i)) \in Int
        /\ Cardinality(Earlier(S, before, j)) \in Int
    BY EarlierAreFewer
  <2> QED
    BY <2>1, EarlierAreFewer
<1> QED
  BY <1>1 DEF StrictOrder

\* Sorting finds every member, in order.
LEMMA PositionsSort ==
    ASSUME NEW S, IsFiniteSet(S), NEW before, StrictOrder(S, before),
           NEW n, n = Cardinality(S), NEW p, p = Positions(S, before)
    PROVE  n \in Nat /\ Sorts(p, n, S, before)
<1> DEFINE rank == [i \in S |-> Cardinality(Earlier(S, before, i))]
<1>1. n \in Nat
  BY FS_CardinalityType
<1>2. rank \in [S -> 0..(n - 1)]
  BY EarlierAreFewer
<1>3. \A i, j \in S : rank[i] = rank[j] => i = j
  BY SameRank
<1>4. \A k \in 0..(n - 1) : \E i \in S : rank[i] = k
  <2> HIDE DEF rank
  <2>1. rank \in Injection(S, 0..(n - 1))
    BY <1>2, <1>3 DEF Injection, IsInjective
  <2>2. IsFiniteSet(0..(n - 1)) /\ Cardinality(0..(n - 1)) = n
    <3>1. 0 \in Int /\ n - 1 \in Int /\ (n - 1) - 0 + 1 = n /\ (0 > n - 1 => n = 0)
      BY <1>1
    <3>2. /\ IsFiniteSet(0..(n - 1))
          /\ Cardinality(0..(n - 1)) = IF 0 > n - 1 THEN 0 ELSE (n - 1) - 0 + 1
      BY <3>1, FS_Interval
    <3> QED
      BY <3>1, <3>2
  <2>3. rank \in Surjection(S, 0..(n - 1))
    BY <2>1, <2>2, FS_Injection
  <2> QED
    BY <2>3 DEF Surjection
<1>5. p = [k \in 1..n |-> CHOOSE i \in S : Cardinality(Earlier(S, before, i)) = k - 1]
  BY DEF Positions, Earlier
<1>6. \A k \in 1..n : p[k] \in S /\ rank[p[k]] = k - 1
  <2> SUFFICES ASSUME NEW k \in 1..n PROVE p[k] \in S /\ rank[p[k]] = k - 1
    OBVIOUS
  <2>1. k - 1 \in 0..(n - 1)
    BY <1>1
  <2>2. \E i \in S : Cardinality(Earlier(S, before, i)) = k - 1
    BY <1>4, <2>1
  <2>3. p[k] = CHOOSE i \in S : Cardinality(Earlier(S, before, i)) = k - 1
    BY <1>5
  <2> QED
    BY <2>2, <2>3
<1>7. p \in [1..n -> S]
  BY <1>5, <1>6
<1>8. ASSUME NEW i \in S PROVE \E k \in 1..n : p[k] = i
  <2>1. rank[i] + 1 \in 1..n /\ (rank[i] + 1) - 1 = rank[i]
    BY <1>1, <1>2
  <2>2. p[rank[i] + 1] = i
    BY <1>3, <1>6, <2>1
  <2> QED
    BY <2>1, <2>2
<1>9. ASSUME NEW a \in 1..n, NEW b \in 1..n, a < b PROVE <<p[a], p[b]>> \in before
  <2>1. p[a] \in S /\ p[b] \in S /\ rank[p[a]] = a - 1 /\ rank[p[b]] = b - 1
    BY <1>6
  <2>2. rank[p[a]] < rank[p[b]]
    BY <1>1, <1>9, <2>1
  <2>3. p[a] # p[b]
    BY <1>1, <1>9, <2>1
  <2>4. <<p[b], p[a]>> \notin before
    <3>1. \A x, y \in Int : x < y => ~(y < x)
      OBVIOUS
    <3>2. rank[p[a]] \in Int /\ rank[p[b]] \in Int
      BY <1>1, <2>1
    <3>3. <<p[b], p[a]>> \in before => rank[p[b]] < rank[p[a]]
      BY <2>1, EarlierAreFewer
    <3> QED
      BY <2>2, <3>1, <3>2, <3>3
  <2> QED
    BY <2>1, <2>3, <2>4 DEF StrictOrder
<1> QED
  BY <1>1, <1>7, <1>8, <1>9 DEF Sorts

\* Whoever lists the members in order lists what sorting finds.
LEMMA PositionsUnique ==
    ASSUME NEW S, NEW before, StrictOrder(S, before), NEW n \in Nat, NEW q, Sorts(q, n, S, before)
    PROVE  /\ IsFiniteSet(S) /\ Cardinality(S) = n
           /\ Positions(S, before) = q
<1>1. /\ q \in [1..n -> S]
      /\ \A i \in S : \E k \in 1..n : q[k] = i
      /\ \A a, b \in 1..n : a < b => <<q[a], q[b]>> \in before
  BY DEF Sorts
<1>2. ASSUME NEW a \in 1..n, NEW b \in 1..n, q[a] = q[b] PROVE a = b
  <2>1. q[a] \in S /\ ~(<<q[a], q[b]>> \in before) /\ ~(<<q[b], q[a]>> \in before)
    BY <1>1, <1>2 DEF StrictOrder
  <2> QED
    BY <1>1, <2>1
<1>3. q \in Bijection(1..n, S)
  BY <1>1, <1>2 DEF Bijection, Injection, Surjection, IsInjective
<1>4. IsFiniteSet(1..n) /\ Cardinality(1..n) = n
  BY FS_Interval
<1>5. IsFiniteSet(S) /\ Cardinality(S) = n
  BY <1>3, <1>4, FS_Bijection DEF ExistsBijection
<1> DEFINE p == Positions(S, before)
<1>6. /\ p \in [1..n -> S]
      /\ \A i \in S : \E k \in 1..n : p[k] = i
      /\ \A a, b \in 1..n : a < b => <<p[a], p[b]>> \in before
  <2>1. n = Cardinality(S)
    BY <1>5
  <2>2. Sorts(p, n, S, before)
    BY <1>5, <2>1, PositionsSort
  <2> HIDE DEF p
  <2> QED
    BY <2>2 DEF Sorts
<1> HIDE DEF p
<1> DEFINE T == {k \in 1..n : p[k] # q[k]}
<1>7. T = {}
  <2> SUFFICES ASSUME T # {} PROVE FALSE
    OBVIOUS
  <2>1. PICK k \in T : \A j \in T : k <= j
    <3>1. T \subseteq Nat
      OBVIOUS
    <3> QED
      BY <3>1, Least
  <2>2. \A j \in 1..n : j < k => p[j] = q[j]
    BY <2>1
  <2>3. PICK a \in 1..n : q[a] = p[k]
    BY <1>1, <1>6
  <2>4. PICK b \in 1..n : p[b] = q[k]
    BY <1>1, <1>6
  <2>5. a > k
    <3>1. a # k
      BY <2>3
    <3>2. ~(a < k)
      <4> SUFFICES ASSUME a < k PROVE FALSE
        OBVIOUS
      <4>1. p[a] = p[k] /\ <<p[a], p[k]>> \in before /\ p[k] \in S
        BY <1>6, <2>2, <2>3
      <4> QED
        BY <4>1 DEF StrictOrder
    <3> QED
      BY <3>1, <3>2
  <2>6. b > k
    <3>1. b # k
      BY <2>4
    <3>2. ~(b < k)
      <4> SUFFICES ASSUME b < k PROVE FALSE
        OBVIOUS
      <4>1. q[b] = q[k]
        BY <2>2, <2>4
      <4> QED
        BY <1>2, <4>1
    <3> QED
      BY <3>1, <3>2
  <2>7. <<q[k], p[k]>> \in before /\ <<p[k], q[k]>> \in before
    BY <1>1, <1>6, <2>3, <2>4, <2>5, <2>6
  <2> QED
    BY <1>1, <1>6, <2>7 DEF StrictOrder
<1>8. p = q
  <2>1. \A k \in 1..n : p[k] = q[k]
    BY <1>7
  <2> QED
    BY <1>1, <1>6, <2>1
<1> QED
  BY <1>5, <1>8 DEF p

------------------------------------------------------------------------------
(***************************************************************************)
(* The stable sort by the top-left corner.                                 *)
(***************************************************************************)
Keyed(X) == \A e \in X : e.y \in Int /\ e.x \in Int

KeyBefore(s, i, j) ==
    \/ Above(s[i], s[j])
    \/ ~Above(s[j], s[i]) /\ i < j

KeyOrder(s) == {p \in (DOMAIN s) \X (DOMAIN s) : KeyBefore(s, p[1], p[2])}

LEMMA ByKeyIs ==
    ASSUME NEW s, NEW p, p = Positions(DOMAIN s, KeyOrder(s))
    PROVE  ByKey(s) = [k \in DOMAIN s |-> s[p[k]]]
BY DEF ByKey, KeyOrder, KeyBefore

LEMMA KeyOrderPairs ==
    ASSUME NEW s, NEW i \in DOMAIN s, NEW j \in DOMAIN s
    PROVE  <<i, j>> \in KeyOrder(s) <=> KeyBefore(s, i, j)
BY DEF KeyOrder

LEMMA KeyOrderIsStrict ==
    ASSUME NEW X, Keyed(X), NEW n \in Nat, NEW s \in [1..n -> X]
    PROVE  StrictOrder(1..n, KeyOrder(s))
<1>1. \A i \in 1..n : s[i].y \in Int /\ s[i].x \in Int
  BY DEF Keyed
<1>2. \A i, j \in 1..n : <<i, j>> \in KeyOrder(s) <=> KeyBefore(s, i, j)
  <2>1. DOMAIN s = 1..n
    OBVIOUS
  <2> QED
    BY <2>1, KeyOrderPairs
<1>3. \A i \in 1..n : ~KeyBefore(s, i, i)
  BY <1>1 DEF KeyBefore, Above
<1>4. \A i, j \in 1..n : i # j => KeyBefore(s, i, j) \/ KeyBefore(s, j, i)
  BY <1>1 DEF KeyBefore, Above
<1>5. ASSUME NEW i \in 1..n, NEW j \in 1..n, NEW k \in 1..n,
             KeyBefore(s, i, j), KeyBefore(s, j, k)
      PROVE  KeyBefore(s, i, k)
  BY <1>1, <1>5 DEF KeyBefore, Above
<1>6. \A i, j, k \in 1..n :
         <<i, j>> \in KeyOrder(s) /\ <<j, k>> \in KeyOrder(s) => <<i, k>> \in KeyOrder(s)
  BY <1>2, <1>5
<1>7. \A i \in 1..n : <<i, i>> \notin KeyOrder(s)
  BY <1>2, <1>3
<1>8. \A i, j \in 1..n : i # j => <<i, j>> \in KeyOrder(s) \/ <<j, i>> \in KeyOrder(s)
  BY <1>2, <1>4
<1> QED
  BY <1>6, <1>7, <1>8 DEF StrictOrder

LEMMA Interval ==
    ASSUME NEW n \in Nat
    PROVE  IsFiniteSet(1..n) /\ Cardinality(1..n) = n
<1>1. 1 \in Int /\ n \in Int /\ n - 1 + 1 = n /\ (1 > n => n = 0)
  OBVIOUS
<1>2. IsFiniteSet(1..n) /\ Cardinality(1..n) = IF 1 > n THEN 0 ELSE n - 1 + 1
  BY <1>1, FS_Interval
<1> QED
  BY <1>1, <1>2

\* The sort by the key is a rearrangement of its items.
LEMMA ByKeySorts ==
    ASSUME NEW X, Keyed(X), NEW n \in Nat, NEW s \in [1..n -> X],
           NEW p, p = Positions(1..n, KeyOrder(s))
    PROVE  /\ Sorts(p, n, 1..n, KeyOrder(s))
           /\ ByKey(s) = [k \in 1..n |-> s[p[k]]]
<1>1. DOMAIN s = 1..n
  OBVIOUS
<1>2. StrictOrder(1..n, KeyOrder(s))
  BY KeyOrderIsStrict
<1>3. IsFiniteSet(1..n) /\ n = Cardinality(1..n)
  BY Interval
<1> QED
  BY <1>1, <1>2, <1>3, ByKeyIs, PositionsSort

------------------------------------------------------------------------------
(***************************************************************************)
(* The swaps within the rows.                                              *)
(***************************************************************************)
LEMMA Greatest ==
    ASSUME NEW m \in Nat, NEW T, T \subseteq 1..m, T # {}, NEW c, c = Max(T)
    PROVE  c \in T /\ \A j \in T : j <= c
<1> DEFINE D == {m - j : j \in T}
<1>1. D \subseteq Nat /\ D # {}
  <2>1. \A j \in T : j \in 1..m
    OBVIOUS
  <2>2. \A j \in 1..m : m - j \in Nat
    OBVIOUS
  <2> QED
    BY <2>1, <2>2
<1>2. PICK d \in D : \A e \in D : d <= e
  BY <1>1, Least
<1>3. PICK i \in T : d = m - i
  BY <1>2
<1>4. ASSUME NEW j \in T PROVE i >= j
  <2>1. m - j \in D /\ i \in Int /\ j \in Int
    OBVIOUS
  <2>2. m - i <= m - j
    BY <1>2, <1>3, <2>1
  <2> QED
    BY <2>1, <2>2
<1>5. \E k \in T : \A j \in T : k >= j
  BY <1>3, <1>4
<1>6. c \in T /\ \A j \in T : c >= j
  BY <1>5 DEF Max
<1>7. \A j \in T : j \in Int
  OBVIOUS
<1> QED
  BY <1>6, <1>7

\* An item comes in after the first c of a list.
Inserted(v, m, c, e) ==
    [j \in 1..(m + 1) |-> IF j <= c THEN v[j] ELSE IF j = c + 1 THEN e ELSE v[j - 1]]

LEMMA InsertAtIs ==
    ASSUME NEW X, NEW m \in Nat, NEW v \in [1..m -> X], NEW c \in 0..m, NEW e \in X
    PROVE  InsertAt(v, c + 1, e) = Inserted(v, m, c, e)
<1>1. v \in Seq(X) /\ Len(v) = m
  OBVIOUS
<1> DEFINE front == SubSeq(v, 1, c)
           back == SubSeq(v, c + 1, m)
<1>2. front \in Seq(X) /\ Len(front) = c /\ \A j \in 1..c : front[j] = v[j]
  BY <1>1
<1>3. back \in Seq(X) /\ Len(back) = m - c /\ \A j \in 1..(m - c) : back[j] = v[c + j]
  BY <1>1
<1>4. InsertAt(v, c + 1, e) = front \o <<e>> \o back
  BY <1>1 DEF InsertAt
<1> HIDE DEF front, back
<1> DEFINE all == front \o <<e>> \o back
<1>5. all \in Seq(X) /\ Len(all) = m + 1
  BY <1>2, <1>3
<1>6. ASSUME NEW j \in 1..(m + 1) PROVE all[j] = Inserted(v, m, c, e)[j]
  <2>1. CASE j <= c
    BY <1>2, <1>3, <2>1 DEF Inserted
  <2>2. CASE j = c + 1
    BY <1>2, <1>3, <2>2 DEF Inserted
  <2>3. CASE j > c + 1
    <3>1. j - (c + 1) \in 1..(m - c)
      BY <2>3
    <3>2. back[j - (c + 1)] = v[j - 1]
      BY <1>3, <3>1
    <3>3. all[j] = back[j - (c + 1)]
      BY <1>2, <1>3, <2>3
    <3>4. ~(j <= c) /\ j # c + 1
      BY <2>3
    <3>5. Inserted(v, m, c, e)[j] = v[j - 1]
      BY <3>4 DEF Inserted
    <3> HIDE DEF all
    <3> QED
      BY <3>2, <3>3, <3>5
  <2>4. j <= c \/ j = c + 1 \/ j > c + 1
    OBVIOUS
  <2> QED
    BY <2>1, <2>2, <2>3, <2>4
<1>7. all = [j \in 1..(m + 1) |-> all[j]]
  BY <1>5
<1>8. Inserted(v, m, c, e) = [j \in 1..(m + 1) |-> Inserted(v, m, c, e)[j]]
  BY DEF Inserted
<1> HIDE DEF all
<1>9. all = Inserted(v, m, c, e)
  BY <1>6, <1>7, <1>8
<1> QED
  BY <1>4, <1>9 DEF all

\* The item moves back behind the last one that may stay.
Stop(v, m, e, c) ==
    /\ c \in 0..m
    /\ c # 0 => ~Reversed(v[c], e)
    /\ \A j \in (c + 1)..m : Reversed(v[j], e)

LEMMA StopExists ==
    ASSUME NEW m \in Nat, NEW v, NEW e
    PROVE  \E c \in 0..m : Stop(v, m, e, c)
<1> DEFINE T == {j \in 1..m : ~Reversed(v[j], e)}
<1>1. CASE T = {}
  BY <1>1 DEF Stop
<1>2. CASE T # {}
  <2>1. PICK c : c = Max(T)
    OBVIOUS
  <2>2. c \in T /\ \A j \in T : j <= c
    BY <1>2, <2>1, Greatest
  <2>3. \A j \in (c + 1)..m : j \in 1..m /\ ~(j <= c)
    BY <2>2
  <2> QED
    BY <2>2, <2>3 DEF Stop
<1> QED
  BY <1>1, <1>2

LEMMA SwapBackIs ==
    ASSUME NEW X, NEW m \in Nat, NEW v \in [1..m -> X], NEW e \in X,
           NEW c, Stop(v, m, e, c)
    PROVE  SwapBack(v, e) = Inserted(v, m, c, e)
<1> DEFINE T == {j \in 1..m : ~Reversed(v[j], e)}
<1>1. Len(v) = m
  OBVIOUS
<1>2. SwapBack(v, e) = InsertAt(v, (IF T # {} THEN Max(T) ELSE 0) + 1, e)
  BY <1>1 DEF SwapBack, SelectLastInSeq
<1>3. (IF T # {} THEN Max(T) ELSE 0) = c
  <2>1. CASE T = {}
    BY <2>1 DEF Stop
  <2>2. CASE T # {}
    <3>1. PICK g : g = Max(T)
      OBVIOUS
    <3>2. g \in T /\ \A j \in T : j <= g
      BY <2>2, <3>1, Greatest
    <3>3. c # 0
      BY <3>2 DEF Stop
    <3>4. c \in T
      BY <3>3 DEF Stop
    <3>5. ~(g \in (c + 1)..m)
      BY <3>2 DEF Stop
    <3>6. g = c
      BY <3>2, <3>4, <3>5
    <3> QED
      BY <2>2, <3>1, <3>6
  <2> QED
    BY <2>1, <2>2
<1>4. SwapBack(v, e) = InsertAt(v, c + 1, e)
  BY <1>2, <1>3
<1>5. c \in 0..m
  BY DEF Stop
<1> QED
  BY <1>4, <1>5, InsertAtIs

\* The states of the outer loop.
Swapping(g, u, n) ==
    /\ g[0] = <<>>
    /\ \A k \in 1..n : g[k] = SwapBack(g[k - 1], u[k])

LEMMA SwapBackAdds ==
    ASSUME NEW X, NEW m \in Nat, NEW v \in [1..m -> X], NEW e \in X
    PROVE  SwapBack(v, e) \in [1..(m + 1) -> X]
<1>1. PICK c \in 0..m : Stop(v, m, e, c)
  BY StopExists
<1>2. Inserted(v, m, c, e) \in [1..(m + 1) -> X]
  BY DEF Inserted
<1> QED
  BY <1>1, <1>2, SwapBackIs

LEMMA SwapAllIs ==
    ASSUME NEW X, NEW n \in Nat, NEW u \in [1..n -> X]
    PROVE  \E g : Swapping(g, u, n) /\ SwapAll(u) = g[n]
<1> DEFINE step == [p \in Seq(X) \X (1..n) |-> SwapBack(p[1], u[p[2]])]
<1>1. step \in [Seq(X) \X (1..n) -> Seq(X)]
  <2> SUFFICES ASSUME NEW v \in Seq(X), NEW k \in 1..n PROVE SwapBack(v, u[k]) \in Seq(X)
    OBVIOUS
  <2>1. u[k] \in X /\ Len(v) \in Nat /\ v \in [1..Len(v) -> X]
    OBVIOUS
  <2>2. SwapBack(v, u[k]) \in [1..(Len(v) + 1) -> X]
    BY <2>1, SwapBackAdds
  <2>3. PICK m \in Nat : m = Len(v) + 1
    BY <2>1
  <2>4. SwapBack(v, u[k]) \in [1..m -> X]
    BY <2>2, <2>3
  <2> QED
    BY <2>4
<1>2. <<>> \in Seq(X)
  OBVIOUS
<1> HIDE DEF step
<1>3. PICK f \in [0..n -> Seq(X)] :
         f[0] = <<>> /\ \A k \in 1..n : f[k] = step[<<f[k - 1], k>>]
  <2>1. \E f \in [0..n -> Seq(X)] : Steps(f, n, <<>>, step)
    BY <1>1, <1>2, StepsExist
  <2> QED
    BY <2>1 DEF Steps
<1>4. \A k \in 1..n : f[k] = SwapBack(f[k - 1], u[k])
  <2> SUFFICES ASSUME NEW k \in 1..n PROVE f[k] = SwapBack(f[k - 1], u[k])
    OBVIOUS
  <2>1. k - 1 \in 0..n
    OBVIOUS
  <2>2. f[k - 1] \in Seq(X)
    BY <2>1
  <2>3. step[<<f[k - 1], k>>] = SwapBack(f[k - 1], u[k])
    BY <2>2 DEF step
  <2> QED
    BY <1>3, <2>3
<1>5. Len(u) = n
  OBVIOUS
<1> DEFINE g == CHOOSE g : g = [k \in 0..n |-> IF k = 0 THEN <<>> ELSE SwapBack(g[k - 1], u[k])]
<1>6. f = [k \in 0..n |-> IF k = 0 THEN <<>> ELSE SwapBack(f[k - 1], u[k])]
  <2>1. \A k \in 0..n : k # 0 => k \in 1..n
    OBVIOUS
  <2>2. \A k \in 0..n : f[k] = IF k = 0 THEN <<>> ELSE SwapBack(f[k - 1], u[k])
    BY <1>3, <1>4, <2>1
  <2> QED
    BY <2>2
<1>7. g = [k \in 0..n |-> IF k = 0 THEN <<>> ELSE SwapBack(g[k - 1], u[k])]
  BY <1>6
<1>8. SwapAll(u) = g[n]
  BY <1>5 DEF SwapAll
<1> HIDE DEF g
<1>9. g[0] = <<>>
  BY <1>7
<1>10. ASSUME NEW k \in 1..n PROVE g[k] = SwapBack(g[k - 1], u[k])
  <2>1. k \in 0..n /\ k # 0
    OBVIOUS
  <2> QED
    BY <1>7, <2>1
<1> QED
  BY <1>8, <1>9, <1>10 DEF Swapping

\* The places of the first k items: each has one, equal ones keep their order,
\* and no two neighbours are reversed.
Arranged(s, q, k) ==
    /\ q \in [1..k -> 1..k]
    /\ \A i \in 1..k : \E j \in 1..k : q[j] = i
    /\ \A a, b \in 1..k :
          a < b /\ s[q[a]].y = s[q[b]].y /\ s[q[a]].x = s[q[b]].x => q[a] < q[b]
    /\ \A a \in 1..(k - 1) : ~Reversed(s[q[a]], s[q[a + 1]])

Picked(u, q, k) == [j \in 1..k |-> u[q[j]]]

LEMMA ArrangedStep ==
    ASSUME NEW X, Keyed(X), NEW n \in Nat, NEW s \in [1..n -> X],
           NEW k \in 0..(n - 1), NEW q, Arranged(s, q, k),
           NEW c, Stop(Picked(s, q, k), k, s[k + 1], c),
           NEW r, r = Inserted(q, k, c, k + 1)
    PROVE  Arranged(s, r, k + 1)
<1>1. c \in 0..k /\ k \in Nat /\ k + 1 \in 1..n
  BY DEF Stop
<1>2. /\ q \in [1..k -> 1..k]
      /\ \A i \in 1..k : \E j \in 1..k : q[j] = i
      /\ \A a, b \in 1..k :
            a < b /\ s[q[a]].y = s[q[b]].y /\ s[q[a]].x = s[q[b]].x => q[a] < q[b]
      /\ \A a \in 1..(k - 1) : ~Reversed(s[q[a]], s[q[a + 1]])
  BY DEF Arranged
<1>3. \A j \in 1..c : j \in 1..(k + 1) /\ j \in 1..k /\ r[j] = q[j]
  BY <1>1 DEF Inserted
<1>4. r[c + 1] = k + 1 /\ c + 1 \in 1..(k + 1)
  BY <1>1 DEF Inserted
<1>5. ASSUME NEW j \in (c + 2)..(k + 1)
      PROVE  j \in 1..(k + 1) /\ j - 1 \in 1..k /\ r[j] = q[j - 1]
  <2>1. j \in 1..(k + 1) /\ j - 1 \in 1..k /\ ~(j <= c) /\ j # c + 1
    BY <1>1
  <2> QED
    BY <2>1 DEF Inserted
<1>6. DOMAIN r = 1..(k + 1) /\ r = [j \in 1..(k + 1) |-> r[j]]
  BY DEF Inserted
<1>7. \A j \in 1..(k + 1) : j \in 1..c \/ j = c + 1 \/ j \in (c + 2)..(k + 1)
  BY <1>1
<1>8. r \in [1..(k + 1) -> 1..(k + 1)]
  <2>1. \A j \in 1..(k + 1) : r[j] \in 1..(k + 1)
    <3> SUFFICES ASSUME NEW j \in 1..(k + 1) PROVE r[j] \in 1..(k + 1)
      OBVIOUS
    <3>1. \A i \in 1..k : i \in 1..(k + 1)
      BY <1>1
    <3>2. CASE j \in 1..c
      BY <1>2, <1>3, <3>1, <3>2
    <3>3. CASE j = c + 1
      BY <1>1, <1>4, <3>3
    <3>4. CASE j \in (c + 2)..(k + 1)
      <4>1. q[j - 1] \in 1..k
        BY <1>2, <1>5, <3>4
      <4> QED
        BY <1>5, <3>1, <3>4, <4>1
    <3> QED
      BY <1>7, <3>2, <3>3, <3>4
  <2> QED
    BY <1>6, <2>1
<1>9. ASSUME NEW i \in 1..(k + 1) PROVE \E j \in 1..(k + 1) : r[j] = i
  <2>1. CASE i = k + 1
    BY <1>4, <2>1
  <2>2. CASE i # k + 1
    <3>1. i \in 1..k
      BY <1>1, <2>2
    <3>2. PICK j \in 1..k : q[j] = i
      BY <1>2, <3>1
    <3>3. CASE j <= c
      <4>1. j \in 1..c
        BY <3>3
      <4> QED
        BY <1>3, <3>2, <4>1
    <3>4. CASE j > c
      <4>1. j + 1 \in (c + 2)..(k + 1) /\ (j + 1) - 1 = j
        BY <1>1, <3>4
      <4> QED
        BY <1>5, <3>2, <4>1
    <3> QED
      BY <1>1, <3>3, <3>4
  <2> QED
    BY <2>1, <2>2
<1>10. \A j \in 1..k : q[j] \in 1..k /\ q[j] \in 1..n
  BY <1>1, <1>2
<1>11. \A i \in 1..n : s[i].x \in Int /\ s[i].y \in Int
  BY DEF Keyed
<1>12. \A j \in (c + 1)..k : j \in 1..k /\ Reversed(s[q[j]], s[k + 1])
  <2>1. \A j \in (c + 1)..k : j \in 1..k
    BY <1>1
  <2> QED
    BY <2>1 DEF Stop, Picked
<1>13. c # 0 => c \in 1..k /\ ~Reversed(s[q[c]], s[k + 1])
  BY <1>1 DEF Stop, Picked
<1>14. ASSUME NEW a \in 1..(k + 1), NEW b \in 1..(k + 1), a < b,
              s[r[a]].y = s[r[b]].y, s[r[a]].x = s[r[b]].x
       PROVE  r[a] < r[b]
  <2>1. CASE b = c + 1
    <3>1. a \in 1..c
      BY <1>1, <1>14, <2>1
    <3>2. r[a] \in 1..k /\ r[b] = k + 1
      BY <1>2, <1>3, <1>4, <2>1, <3>1
    <3> QED
      BY <1>1, <3>2
  <2>2. CASE a = c + 1
    <3>1. b \in (c + 2)..(k + 1)
      BY <1>1, <1>14, <2>2
    <3>2. r[b] = q[b - 1] /\ b - 1 \in (c + 1)..k
      BY <1>1, <1>5, <3>1
    <3>3. Reversed(s[q[b - 1]], s[k + 1])
      BY <1>12, <3>2
    <3>4. s[k + 1].x < s[q[b - 1]].x
      BY <3>3 DEF Reversed
    <3>5. s[k + 1].x = s[q[b - 1]].x
      BY <1>4, <1>14, <2>2, <3>2
    <3>6. s[k + 1].x \in Int
      BY <1>1, <1>11
    <3> QED
      BY <3>4, <3>5, <3>6
  <2>3. CASE a # c + 1 /\ b # c + 1
    <3> DEFINE old(j) == IF j <= c THEN j ELSE j - 1
    <3>1. a \in 1..c \/ a \in (c + 2)..(k + 1)
      BY <1>7, <2>3
    <3>2. b \in 1..c \/ b \in (c + 2)..(k + 1)
      BY <1>7, <2>3
    <3>3. old(a) \in 1..k /\ old(b) \in 1..k /\ old(a) < old(b)
      BY <1>1, <1>14, <3>1, <3>2
    <3>4. r[a] = q[old(a)]
      <4>1. CASE a \in 1..c
        BY <1>1, <1>3, <4>1
      <4>2. CASE a \in (c + 2)..(k + 1)
        <5>1. ~(a <= c)
          BY <1>1, <4>2
        <5> QED
          BY <1>5, <4>2, <5>1
      <4> QED
        BY <3>1, <4>1, <4>2
    <3>5. r[b] = q[old(b)]
      <4>1. CASE b \in 1..c
        BY <1>1, <1>3, <4>1
      <4>2. CASE b \in (c + 2)..(k + 1)
        <5>1. ~(b <= c)
          BY <1>1, <4>2
        <5> QED
          BY <1>5, <4>2, <5>1
      <4> QED
        BY <3>2, <4>1, <4>2
    <3> HIDE DEF old
    <3> QED
      BY <1>2, <1>14, <3>3, <3>4, <3>5
  <2> QED
    BY <2>1, <2>2, <2>3
<1>15. ASSUME NEW a \in 1..k PROVE ~Reversed(s[r[a]], s[r[a + 1]])
  <2>1. CASE a < c
    <3>1. a \in 1..c /\ a + 1 \in 1..c /\ a \in 1..(k - 1)
      BY <1>1, <2>1
    <3> QED
      BY <1>2, <1>3, <3>1
  <2>2. CASE a = c
    <3>1. c # 0 /\ a \in 1..c /\ a + 1 = c + 1
      BY <1>1, <2>2
    <3> QED
      BY <1>3, <1>4, <1>13, <2>2, <3>1
  <2>3. CASE a = c + 1
    <3>1. a + 1 \in (c + 2)..(k + 1) /\ (a + 1) - 1 = a /\ a \in (c + 1)..k /\ a \in 1..k
      BY <1>1, <2>3
    <3>2. r[a] = k + 1 /\ r[a + 1] = q[a]
      BY <1>4, <1>5, <2>3, <3>1
    <3>3. s[k + 1].x < s[q[a]].x
      BY <1>12, <3>1 DEF Reversed
    <3>4. s[k + 1].x \in Int /\ s[q[a]].x \in Int
      BY <1>1, <1>10, <1>11, <3>1
    <3>5. ~(s[q[a]].x < s[k + 1].x)
      BY <3>3, <3>4
    <3> QED
      BY <3>2, <3>5 DEF Reversed
  <2>4. CASE a > c + 1
    <3>1. /\ a \in (c + 2)..(k + 1) /\ a + 1 \in (c + 2)..(k + 1)
          /\ (a + 1) - 1 = a /\ (a - 1) + 1 = a /\ a - 1 \in 1..(k - 1)
      BY <1>1, <2>4
    <3>2. r[a] = q[a - 1] /\ r[a + 1] = q[a]
      BY <1>5, <3>1
    <3>3. ~Reversed(s[q[a - 1]], s[q[(a - 1) + 1]])
      BY <1>2, <3>1
    <3> QED
      BY <3>1, <3>2, <3>3
  <2>5. a < c \/ a = c \/ a = c + 1 \/ a > c + 1
    BY <1>1
  <2> QED
    BY <2>1, <2>2, <2>3, <2>4, <2>5
<1>16. (k + 1) - 1 = k
  BY <1>1
<1> QED
  BY <1>8, <1>9, <1>14, <1>15, <1>16 DEF Arranged

SameKeys(s, u, n) == \A i \in 1..n : s[i].y = u[i].y /\ s[i].x = u[i].x

\* What the swaps do depends on the corners alone.
LEMMA SwapsArrange ==
    ASSUME NEW X, Keyed(X), NEW n \in Nat, NEW s \in [1..n -> X]
    PROVE  \E q : /\ Arranged(s, q, n)
                  /\ \A u \in [1..n -> X] :
                        SameKeys(s, u, n) => SwapAll(u) = Picked(u, q, n)
<1> DEFINE Good(k, q) == /\ Arranged(s, q, k)
                         /\ \A u \in [1..n -> X] : \A g :
                               SameKeys(s, u, n) /\ Swapping(g, u, n) => g[k] = Picked(u, q, k)
           P == {k \in Nat : k <= n => \E q : Good(k, q)}
<1>1. 0 \in P
  <2> DEFINE q == <<>>
  <2>1. q \in [1..0 -> 1..0] /\ \A a \in 1..0 : FALSE
    OBVIOUS
  <2>2. \A a \in 1..(0 - 1) : FALSE
    OBVIOUS
  <2>3. Arranged(s, q, 0)
    BY <2>1, <2>2 DEF Arranged
  <2>4. \A u : Picked(u, q, 0) = <<>>
    BY DEF Picked
  <2>5. Good(0, q)
    BY <2>3, <2>4 DEF Swapping
  <2> QED
    BY <2>5
<1>2. ASSUME NEW k \in Nat, k \in P PROVE k + 1 \in P
  <2> SUFFICES ASSUME k + 1 <= n PROVE \E q : Good(k + 1, q)
    OBVIOUS
  <2>1. k \in 0..(n - 1) /\ k + 1 \in 1..n /\ (k + 1) - 1 = k
    OBVIOUS
  <2>2. PICK q : Good(k, q)
    BY <1>2
  <2>3. q \in [1..k -> 1..k] /\ \A j \in 1..k : q[j] \in 1..n
    <3>1. q \in [1..k -> 1..k]
      BY <2>2 DEF Arranged
    <3>2. \A j \in 1..k : j \in 1..n
      BY <2>1
    <3> QED
      BY <3>1, <3>2
  <2>4. PICK c \in 0..k : Stop(Picked(s, q, k), k, s[k + 1], c)
    BY StopExists
  <2>5. PICK r : r = Inserted(q, k, c, k + 1)
    OBVIOUS
  <2>6. Arranged(s, r, k + 1)
    BY <2>1, <2>2, <2>4, <2>5, ArrangedStep
  <2>7. ASSUME NEW u \in [1..n -> X], NEW g, SameKeys(s, u, n), Swapping(g, u, n)
        PROVE  g[k + 1] = Picked(u, r, k + 1)
    <3>1. g[k] = Picked(u, q, k)
      BY <2>2, <2>7
    <3>2. Picked(u, q, k) \in [1..k -> X] /\ u[k + 1] \in X
      BY <2>1, <2>3 DEF Picked
    <3>3. \A j \in 1..k : Reversed(Picked(u, q, k)[j], u[k + 1])
                             <=> Reversed(Picked(s, q, k)[j], s[k + 1])
      <4> SUFFICES ASSUME NEW j \in 1..k
                   PROVE  Reversed(Picked(u, q, k)[j], u[k + 1])
                             <=> Reversed(Picked(s, q, k)[j], s[k + 1])
        OBVIOUS
      <4>1. Picked(u, q, k)[j] = u[q[j]] /\ Picked(s, q, k)[j] = s[q[j]]
        BY DEF Picked
      <4>2. /\ s[q[j]].y = u[q[j]].y /\ s[q[j]].x = u[q[j]].x
            /\ s[k + 1].y = u[k + 1].y /\ s[k + 1].x = u[k + 1].x
        BY <2>1, <2>3, <2>7 DEF SameKeys
      <4> QED
        BY <4>1, <4>2 DEF Reversed
    <3>4. Stop(Picked(u, q, k), k, u[k + 1], c)
      <4>1. c # 0 => c \in 1..k
        BY <2>4
      <4>2. \A j \in (c + 1)..k : j \in 1..k
        BY <2>4
      <4> QED
        BY <2>4, <3>3, <4>1, <4>2 DEF Stop
    <3>5. SwapBack(Picked(u, q, k), u[k + 1]) = Inserted(Picked(u, q, k), k, c, u[k + 1])
      BY <3>2, <3>4, SwapBackIs
    <3>6. g[k + 1] = SwapBack(Picked(u, q, k), u[k + 1])
      BY <2>1, <2>7, <3>1 DEF Swapping
    <3>7. Inserted(Picked(u, q, k), k, c, u[k + 1]) = Picked(u, r, k + 1)
      <4>1. ASSUME NEW j \in 1..(k + 1)
            PROVE  Inserted(Picked(u, q, k), k, c, u[k + 1])[j] = u[r[j]]
        <5>1. CASE j <= c
          <6>1. j \in 1..k /\ j # k + 1
            BY <2>4, <5>1
          <6>2. r[j] = q[j] /\ Inserted(Picked(u, q, k), k, c, u[k + 1])[j] = Picked(u, q, k)[j]
            BY <2>5, <5>1 DEF Inserted
          <6> QED
            BY <6>1, <6>2 DEF Picked
        <5>2. CASE j = c + 1
          <6>1. ~(j <= c)
            BY <2>4, <5>2
          <6> QED
            BY <2>5, <5>2, <6>1 DEF Inserted
        <5>3. CASE j > c + 1
          <6>1. j - 1 \in 1..k /\ ~(j <= c) /\ j # c + 1
            BY <2>4, <5>3
          <6>2. /\ r[j] = q[j - 1]
                /\ Inserted(Picked(u, q, k), k, c, u[k + 1])[j] = Picked(u, q, k)[j - 1]
            BY <2>5, <6>1 DEF Inserted
          <6> QED
            BY <6>1, <6>2 DEF Picked
        <5>4. j <= c \/ j = c + 1 \/ j > c + 1
          BY <2>4
        <5> QED
          BY <5>1, <5>2, <5>3, <5>4
      <4>2. PICK v : v = Inserted(Picked(u, q, k), k, c, u[k + 1])
        OBVIOUS
      <4>3. v = [j \in 1..(k + 1) |-> v[j]]
        BY <4>2 DEF Inserted
      <4>4. \A j \in 1..(k + 1) : v[j] = u[r[j]]
        BY <4>1, <4>2
      <4> QED
        BY <4>2, <4>3, <4>4 DEF Picked
    <3> QED
      BY <3>5, <3>6, <3>7
  <2>8. Good(k + 1, r)
    BY <2>6, <2>7
  <2> QED
    BY <2>8
<1>3. n \in P
  <2> HIDE DEF P
  <2> QED
    BY <1>1, <1>2, Induction
<1>4. PICK q : Good(n, q)
  BY <1>3
<1>5. ASSUME NEW u \in [1..n -> X], SameKeys(s, u, n) PROVE SwapAll(u) = Picked(u, q, n)
  <2>1. PICK g : Swapping(g, u, n) /\ SwapAll(u) = g[n]
    BY SwapAllIs
  <2> QED
    BY <1>4, <1>5, <2>1
<1> QED
  BY <1>4, <1>5

------------------------------------------------------------------------------
(***************************************************************************)
(* The reading order.                                                      *)
(***************************************************************************)
Permutes(q, n) ==
    /\ q \in [1..n -> 1..n]
    /\ \A i \in 1..n : \E j \in 1..n : q[j] = i
    /\ \A a, b \in 1..n : q[a] = q[b] => a = b

LEMMA OntoPermutes ==
    ASSUME NEW n \in Nat, NEW q \in [1..n -> 1..n], \A i \in 1..n : \E j \in 1..n : q[j] = i
    PROVE  Permutes(q, n)
<1>1. q \in Surjection(1..n, 1..n)
  BY DEF Surjection
<1>2. IsFiniteSet(1..n)
  BY Interval
<1>3. q \in Injection(1..n, 1..n)
  BY <1>1, <1>2, FS_Surjection
<1> QED
  BY <1>3 DEF Permutes, Injection, IsInjective

LEMMA ReadingOrderIs ==
    ASSUME NEW X, Keyed(X), NEW n \in Nat, NEW s \in [1..n -> X]
    PROVE  \E t \in [1..n -> X] : \E p, q :
              /\ Sorts(p, n, 1..n, KeyOrder(s)) /\ t = Picked(s, p, n)
              /\ Arranged(t, q, n) /\ ReadingOrder(s) = Picked(t, q, n)
              /\ \A u \in [1..n -> X] : SameKeys(t, u, n) => SwapAll(u) = Picked(u, q, n)
<1>1. PICK p : p = Positions(1..n, KeyOrder(s))
  OBVIOUS
<1>2. Sorts(p, n, 1..n, KeyOrder(s)) /\ ByKey(s) = [k \in 1..n |-> s[p[k]]]
  BY <1>1, ByKeySorts
<1>3. PICK t : t = ByKey(s)
  OBVIOUS
<1>4. t = Picked(s, p, n) /\ t \in [1..n -> X]
  BY <1>2, <1>3 DEF Sorts, Picked
<1>5. PICK q : /\ Arranged(t, q, n)
               /\ \A u \in [1..n -> X] : SameKeys(t, u, n) => SwapAll(u) = Picked(u, q, n)
  BY <1>4, SwapsArrange
<1>6. SameKeys(t, t, n)
  BY DEF SameKeys
<1>7. ReadingOrder(s) = Picked(t, q, n)
  BY <1>3, <1>4, <1>5, <1>6 DEF ReadingOrder
<1> QED
  BY <1>2, <1>4, <1>5, <1>7

\* The reading order rearranges the items, and no two neighbours are reversed.
LEMMA ReadingOrderArranges ==
    ASSUME NEW X, Keyed(X), NEW n \in Nat, NEW s \in [1..n -> X],
           NEW r, r = ReadingOrder(s)
    PROVE  /\ \E q : Permutes(q, n) /\ r = Picked(s, q, n)
           /\ \A a \in 1..(n - 1) : ~Reversed(r[a], r[a + 1])
<1>1. PICK t \in [1..n -> X] : \E p, q :
              /\ Sorts(p, n, 1..n, KeyOrder(s)) /\ t = Picked(s, p, n)
              /\ Arranged(t, q, n) /\ r = Picked(t, q, n)
  BY ReadingOrderIs
<1>2. PICK p, q :
              /\ Sorts(p, n, 1..n, KeyOrder(s)) /\ t = Picked(s, p, n)
              /\ Arranged(t, q, n) /\ r = Picked(t, q, n)
  BY <1>1
<1>3. /\ p \in [1..n -> 1..n] /\ \A i \in 1..n : \E j \in 1..n : p[j] = i
      /\ q \in [1..n -> 1..n] /\ \A i \in 1..n : \E j \in 1..n : q[j] = i
  BY <1>2 DEF Sorts, Arranged
<1> DEFINE o == Picked(p, q, n)
<1>4. o \in [1..n -> 1..n] /\ \A j \in 1..n : o[j] = p[q[j]]
  BY <1>3 DEF Picked
<1>5. ASSUME NEW i \in 1..n PROVE \E j \in 1..n : o[j] = i
  <2>1. PICK k \in 1..n : p[k] = i
    BY <1>3
  <2>2. PICK j \in 1..n : q[j] = k
    BY <1>3
  <2> QED
    BY <1>4, <2>1, <2>2
<1> HIDE DEF o
<1>6. Permutes(o, n)
  BY <1>4, <1>5, OntoPermutes
<1>7. r = Picked(s, o, n)
  BY <1>2, <1>3, <1>4 DEF Picked
<1>8. ASSUME NEW a \in 1..(n - 1) PROVE ~Reversed(r[a], r[a + 1])
  <2>1. a \in 1..n /\ a + 1 \in 1..n
    OBVIOUS
  <2>2. r[a] = t[q[a]] /\ r[a + 1] = t[q[a + 1]]
    BY <1>2, <2>1 DEF Picked
  <2> QED
    BY <1>2, <2>2 DEF Arranged
<1> QED
  BY <1>6, <1>7, <1>8

\* What has the corners of a reading order is in reading order.
LEMMA ReadingOrderStays ==
    ASSUME NEW X, Keyed(X), NEW n \in Nat, NEW s \in [1..n -> X], NEW u \in [1..n -> X],
           SameKeys(ReadingOrder(s), u, n)
    PROVE  ReadingOrder(u) = u
<1>1. PICK t \in [1..n -> X] : \E p, q :
              /\ Sorts(p, n, 1..n, KeyOrder(s)) /\ t = Picked(s, p, n)
              /\ Arranged(t, q, n) /\ ReadingOrder(s) = Picked(t, q, n)
              /\ \A v \in [1..n -> X] : SameKeys(t, v, n) => SwapAll(v) = Picked(v, q, n)
  BY ReadingOrderIs
<1>2. PICK p, q :
              /\ Sorts(p, n, 1..n, KeyOrder(s)) /\ t = Picked(s, p, n)
              /\ Arranged(t, q, n) /\ ReadingOrder(s) = Picked(t, q, n)
              /\ \A v \in [1..n -> X] : SameKeys(t, v, n) => SwapAll(v) = Picked(v, q, n)
  BY <1>1
<1>3. /\ q \in [1..n -> 1..n] /\ \A i \in 1..n : \E j \in 1..n : q[j] = i
      /\ \A a, b \in 1..n :
            a < b /\ t[q[a]].y = t[q[b]].y /\ t[q[a]].x = t[q[b]].x => q[a] < q[b]
  BY <1>2 DEF Arranged
<1>4. \A a, b \in 1..n : q[a] = q[b] => a = b
  BY <1>3, OntoPermutes DEF Permutes
<1> DEFINE w == [i \in 1..n |-> CHOOSE j \in 1..n : q[j] = i]
<1>5. /\ w \in [1..n -> 1..n]
      /\ \A i \in 1..n : q[w[i]] = i
  BY <1>3
<1>6. \A j \in 1..n : w[q[j]] = j
  BY <1>3, <1>4, <1>5
<1> HIDE DEF w
<1>7. \A a \in 1..n : u[w[a]].y = t[a].y /\ u[w[a]].x = t[a].x
  <2> SUFFICES ASSUME NEW a \in 1..n PROVE u[w[a]].y = t[a].y /\ u[w[a]].x = t[a].x
    OBVIOUS
  <2>1. w[a] \in 1..n /\ q[w[a]] = a
    BY <1>5
  <2>2. ReadingOrder(s)[w[a]] = t[a]
    BY <1>2, <2>1 DEF Picked
  <2> QED
    BY <2>1, <2>2 DEF SameKeys
<1>8. \A a \in 1..n : t[a].y \in Int /\ t[a].x \in Int
  BY DEF Keyed
<1>9. ASSUME NEW a \in 1..n, NEW b \in 1..n, a < b PROVE <<w[a], w[b]>> \in KeyOrder(u)
  <2>1. <<p[a], p[b]>> \in KeyOrder(s) /\ p \in [1..n -> 1..n]
    BY <1>2, <1>9 DEF Sorts
  <2>2. KeyBefore(s, p[a], p[b])
    <3>1. DOMAIN s = 1..n
      OBVIOUS
    <3> QED
      BY <2>1, <3>1, KeyOrderPairs
  <2>3. t[a] = s[p[a]] /\ t[b] = s[p[b]]
    BY <1>2 DEF Picked
  <2>4. Above(t[a], t[b]) \/ ~Above(t[b], t[a])
    BY <2>2, <2>3 DEF KeyBefore
  <2>5. w[a] \in 1..n /\ w[b] \in 1..n
    BY <1>5
  <2>6. KeyBefore(u, w[a], w[b])
    <3>1. CASE Above(t[a], t[b])
      BY <1>7, <3>1 DEF KeyBefore, Above
    <3>2. CASE ~Above(t[a], t[b])
      <4>1. ~Above(t[b], t[a])
        BY <2>4, <3>2
      <4>2. t[a].y = t[b].y /\ t[a].x = t[b].x
        BY <1>8, <3>2, <4>1 DEF Above
      <4>3. w[a] # w[b]
        <5>1. a # b
          BY <1>9
        <5> QED
          BY <1>5, <5>1
      <4>4. ~(w[b] < w[a])
        <5> SUFFICES ASSUME w[b] < w[a] PROVE FALSE
          OBVIOUS
        <5>1. q[w[b]] = b /\ q[w[a]] = a
          BY <1>5
        <5>2. q[w[b]] < q[w[a]]
          BY <1>3, <2>5, <4>2, <5>1
        <5> QED
          BY <1>9, <5>1, <5>2
      <4>5. w[a] < w[b]
        BY <2>5, <4>3, <4>4
      <4>6. ~Above(u[w[b]], u[w[a]])
        BY <1>7, <4>1 DEF Above
      <4> QED
        BY <4>5, <4>6 DEF KeyBefore
    <3> QED
      BY <3>1, <3>2
  <2>7. DOMAIN u = 1..n
    OBVIOUS
  <2> QED
    BY <2>5, <2>6, <2>7, KeyOrderPairs
<1>10. Sorts(w, n, 1..n, KeyOrder(u))
  <2>1. \A i \in 1..n : \E k \in 1..n : w[k] = i
    BY <1>3, <1>6
  <2> QED
    BY <1>5, <1>9, <2>1 DEF Sorts
<1>11. Positions(1..n, KeyOrder(u)) = w
  BY <1>10, KeyOrderIsStrict, PositionsUnique
<1>12. PICK v : v = Picked(u, w, n)
  OBVIOUS
<1>13. ByKey(u) = v
  BY <1>11, <1>12, ByKeySorts DEF Picked
<1>14. v \in [1..n -> X] /\ SameKeys(t, v, n)
  BY <1>5, <1>7, <1>12 DEF Picked, SameKeys
<1>15. ReadingOrder(u) = Picked(v, q, n)
  BY <1>2, <1>13, <1>14 DEF ReadingOrder
<1>16. \A j \in 1..n : v[q[j]] = u[j]
  BY <1>3, <1>6, <1>12 DEF Picked
<1>17. u = [j \in 1..n |-> u[j]]
  OBVIOUS
<1> QED
  BY <1>15, <1>16, <1>17 DEF Picked

\* A rearrangement has the same items as often.
LEMMA BagsAgree ==
    ASSUME NEW X, NEW n \in Nat, NEW s \in [1..n -> X], NEW q, Permutes(q, n)
    PROVE  ToBag(Picked(s, q, n)) = ToBag(s)
<1> DEFINE r == Picked(s, q, n)
           at(x) == {i \in 1..n : s[i] = x}
           found(x) == {j \in 1..n : r[j] = x}
<1>1. DOMAIN s = 1..n /\ DOMAIN r = 1..n /\ \A j \in 1..n : r[j] = s[q[j]]
  BY DEF Picked
<1>2. /\ q \in [1..n -> 1..n] /\ \A i \in 1..n : \E j \in 1..n : q[j] = i
      /\ \A a, b \in 1..n : q[a] = q[b] => a = b
  BY DEF Permutes
<1> HIDE DEF r
<1>3. Range(r) = Range(s)
  <2>1. ASSUME NEW j \in 1..n PROVE \E i \in 1..n : r[j] = s[i]
    <3>1. q[j] \in 1..n /\ r[j] = s[q[j]]
      BY <1>1, <1>2
    <3> QED
      BY <3>1
  <2>2. ASSUME NEW i \in 1..n PROVE \E j \in 1..n : s[i] = r[j]
    <3>1. PICK j \in 1..n : q[j] = i
      BY <1>2
    <3> QED
      BY <1>1, <3>1
  <2>3. Range(r) = {r[j] : j \in 1..n} /\ Range(s) = {s[i] : i \in 1..n}
    BY <1>1 DEF Range
  <2> QED
    BY <2>1, <2>3, <2>2
<1>4. ASSUME NEW x PROVE Cardinality(found(x)) = Cardinality(at(x))
  <2> DEFINE f == [j \in found(x) |-> q[j]]
  <2>1. f \in [found(x) -> at(x)]
    BY <1>1, <1>2
  <2>2. \A i \in at(x) : \E j \in found(x) : f[j] = i
    BY <1>1, <1>2
  <2>3. \A a, b \in found(x) : f[a] = f[b] => a = b
    BY <1>2
  <2>4. f \in Bijection(found(x), at(x))
    <3> HIDE DEF f, found, at
    <3> QED
      BY <2>1, <2>2, <2>3 DEF Bijection, Injection, Surjection, IsInjective
  <2>5. IsFiniteSet(found(x))
    <3>1. found(x) \in SUBSET (1..n)
      OBVIOUS
    <3> QED
      BY <3>1, Interval, FS_Subset
  <2> HIDE DEF f, found, at
  <2> QED
    BY <2>4, <2>5, FS_Bijection DEF ExistsBijection
<1>5. ToBag(r) = [x \in Range(s) |-> Cardinality(found(x))]
  BY <1>1, <1>3 DEF ToBag
<1>6. ToBag(s) = [x \in Range(s) |-> Cardinality(at(x))]
  BY <1>1 DEF ToBag
<1> HIDE DEF found, at
<1> QED
  BY <1>4, <1>5, <1>6 DEF r

------------------------------------------------------------------------------
(***************************************************************************)
(* The order of a recognizer batch.                                        *)
(***************************************************************************)
LEMMA LessTimes ==
    ASSUME NEW a \in Nat, NEW b \in Nat, NEW c \in Nat \ {0}
    PROVE  a * c <= b * c => a <= b
<1> SUFFICES ASSUME b < a PROVE b * c < a * c
  <2>1. a * c \in Int /\ b * c \in Int
    OBVIOUS
  <2> QED
    BY <2>1
<1>1. PICK d \in Nat \ {0} : a = b + d
  <2>1. a - b \in Nat \ {0} /\ a = b + (a - b)
    OBVIOUS
  <2> QED
    BY <2>1
<1>2. a * c = b * c + d * c
  BY <1>1
<1>3. d * c > 0
  BY <1>1
<1>4. b * c \in Int /\ d * c \in Int
  BY <1>1
<1> QED
  BY <1>2, <1>3, <1>4

LEMMA TimesLess ==
    ASSUME NEW a \in Nat, NEW b \in Nat, NEW c \in Nat, a <= b
    PROVE  a * c <= b * c
<1>1. PICK d \in Nat : b = a + d
  <2>1. b - a \in Nat /\ b = a + (b - a)
    OBVIOUS
  <2> QED
    BY <2>1
<1>2. b * c = a * c + d * c
  BY <1>1
<1>3. d * c \in Nat /\ a * c \in Nat
  BY <1>1
<1> QED
  BY <1>2, <1>3

\* Fractions are compared by their cross products.
LEMMA CrossProducts ==
    ASSUME NEW a \in Nat \ {0}, NEW b \in Nat \ {0}, NEW c \in Nat \ {0},
           NEW d \in Nat \ {0}, NEW e \in Nat \ {0}, NEW f \in Nat \ {0},
           a * d <= c * b, c * f <= e * d
    PROVE  a * f <= e * b /\ (a * f = e * b => a * d = c * b /\ c * f = e * d)
<1>1. /\ a * d \in Nat /\ c * b \in Nat /\ c * f \in Nat
      /\ e * d \in Nat /\ a * f \in Nat /\ e * b \in Nat
  OBVIOUS
<1>2. (a * d) * f <= (c * b) * f
  BY <1>1, TimesLess
<1>3. (c * f) * b <= (e * d) * b
  BY <1>1, TimesLess
<1>4. (a * d) * f = (a * f) * d /\ (c * b) * f = (c * f) * b /\ (e * d) * b = (e * b) * d
  OBVIOUS
<1>5. (a * f) * d \in Int /\ (c * f) * b \in Int /\ (e * b) * d \in Int
  OBVIOUS
<1>6. (a * f) * d <= (e * b) * d
  BY <1>2, <1>3, <1>4, <1>5
<1>7. a * f <= e * b
  BY <1>1, <1>6, LessTimes
<1>8. ASSUME a * f = e * b PROVE a * d = c * b /\ c * f = e * d
  <2>1. (a * f) * d = (e * b) * d
    BY <1>8
  <2>2. (c * b) * f <= (a * d) * f /\ (e * d) * b <= (c * f) * b
    BY <1>2, <1>3, <1>4, <1>5, <2>1
  <2>3. c * b <= a * d /\ e * d <= c * f
    BY <1>1, <2>2, LessTimes
  <2> QED
    BY <1>1, <2>3
<1> QED
  BY <1>7, <1>8

\* A batch: crops with a width and a height.
Sized(batch, m) ==
    DOMAIN batch = 1..m /\ \A i \in 1..m : batch[i].w \in Nat \ {0} /\ batch[i].h \in Nat \ {0}

WiderThan(batch, i, j) ==
    \/ batch[i].w * batch[j].h < batch[j].w * batch[i].h
    \/ batch[i].w * batch[j].h = batch[j].w * batch[i].h /\ i < j

\* The order of a batch is a permutation of its crops.
LEMMA AspectOrderPermutes ==
    ASSUME NEW m \in Nat, NEW batch, Sized(batch, m), NEW p, p = AspectOrder(batch)
    PROVE  Permutes(p, m)
<1> DEFINE wider == {z \in (DOMAIN batch) \X (DOMAIN batch) : WiderThan(batch, z[1], z[2])}
<1>1. p = Positions(1..m, wider)
  BY DEF AspectOrder, WiderThan, Sized
<1>2. \A i, j \in 1..m : <<i, j>> \in wider <=> WiderThan(batch, i, j)
  BY DEF Sized
<1>3. \A i \in 1..m : batch[i].w \in Nat \ {0} /\ batch[i].h \in Nat \ {0}
  BY DEF Sized
<1> HIDE DEF wider
<1>4. \A i, j \in 1..m : batch[i].w * batch[j].h \in Nat
  BY <1>3
<1>5. \A i \in 1..m : ~WiderThan(batch, i, i)
  BY <1>4 DEF WiderThan
<1>6. \A i, j \in 1..m : i # j => WiderThan(batch, i, j) \/ WiderThan(batch, j, i)
  BY <1>4 DEF WiderThan
<1>7. ASSUME NEW i \in 1..m, NEW j \in 1..m, NEW k \in 1..m,
             WiderThan(batch, i, j), WiderThan(batch, j, k)
      PROVE  WiderThan(batch, i, k)
  <2>1. PICK a, b, c, d, e, f :
           /\ a = batch[i].w /\ b = batch[i].h /\ c = batch[j].w
           /\ d = batch[j].h /\ e = batch[k].w /\ f = batch[k].h
    OBVIOUS
  <2>2. /\ a \in Nat \ {0} /\ b \in Nat \ {0} /\ c \in Nat \ {0}
        /\ d \in Nat \ {0} /\ e \in Nat \ {0} /\ f \in Nat \ {0}
    BY <1>3, <2>1
  <2>3. a * d < c * b \/ (a * d = c * b /\ i < j)
    BY <1>7, <2>1 DEF WiderThan
  <2>4. c * f < e * d \/ (c * f = e * d /\ j < k)
    BY <1>7, <2>1 DEF WiderThan
  <2>5. /\ a * d \in Int /\ c * b \in Int /\ c * f \in Int
        /\ e * d \in Int /\ a * f \in Int /\ e * b \in Int
    BY <2>2
  <2>6. a * d <= c * b /\ c * f <= e * d
    BY <2>3, <2>4, <2>5
  <2>7. a * f <= e * b /\ (a * f = e * b => a * d = c * b /\ c * f = e * d)
    BY <2>2, <2>6, CrossProducts
  <2>8. a * f < e * b \/ (a * f = e * b /\ i < k)
    <3>1. CASE a * f # e * b
      BY <2>5, <2>7, <3>1
    <3>2. CASE a * f = e * b
      <4>1. i < j /\ j < k
        BY <2>3, <2>4, <2>5, <2>7, <3>2
      <4> QED
        BY <3>2, <4>1
    <3> QED
      BY <3>1, <3>2
  <2> QED
    BY <2>1, <2>8 DEF WiderThan
<1>8. StrictOrder(1..m, wider)
  <2>1. \A i \in 1..m : <<i, i>> \notin wider
    BY <1>2, <1>5
  <2>2. \A i, j \in 1..m : i # j => <<i, j>> \in wider \/ <<j, i>> \in wider
    BY <1>2, <1>6
  <2>3. \A i, j, k \in 1..m : <<i, j>> \in wider /\ <<j, k>> \in wider => <<i, k>> \in wider
    BY <1>2, <1>7
  <2> QED
    BY <2>1, <2>2, <2>3 DEF StrictOrder
<1>9. IsFiniteSet(1..m) /\ m = Cardinality(1..m)
  BY Interval
<1>10. Sorts(p, m, 1..m, wider)
  BY <1>1, <1>8, <1>9, PositionsSort
<1> QED
  BY <1>10, OntoPermutes DEF Sorts

------------------------------------------------------------------------------
(***************************************************************************)
(* Selections, and the texts of CTC.                                       *)
(***************************************************************************)
Rising(S) == {p \in S \X S : p[1] < p[2]}

\* The members of a set of positions in their order.
Lists(q, m, S) ==
    /\ q \in [1..m -> S]
    /\ \A i \in S : \E k \in 1..m : q[k] = i
    /\ \A a, b \in 1..m : a < b => q[a] < q[b]

LEMMA RisingIsStrict ==
    ASSUME NEW S, S \subseteq Nat
    PROVE  StrictOrder(S, Rising(S)) /\ \A q, m : Lists(q, m, S) <=> Sorts(q, m, S, Rising(S))
<1>1. \A i, j \in S : <<i, j>> \in Rising(S) <=> i < j
  BY DEF Rising
<1>2. \A i \in S : i \in Nat
  OBVIOUS
<1>3. \A i, j, k \in S : i < j /\ j < k => i < k
  BY <1>2
<1>4. \A i, j \in S : ~(i < i) /\ (i # j => i < j \/ j < i)
  BY <1>2
<1>5. StrictOrder(S, Rising(S))
  BY <1>1, <1>3, <1>4 DEF StrictOrder
<1>6. ASSUME NEW q, NEW m PROVE Lists(q, m, S) <=> Sorts(q, m, S, Rising(S))
  BY <1>1 DEF Lists, Sorts
<1> QED
  BY <1>5, <1>6

LEMMA SelectIs ==
    ASSUME NEW S \in SUBSET Nat, NEW m \in Nat, NEW q, Lists(q, m, S), NEW s
    PROVE  Select(s, S) = Picked(s, q, m)
<1>1. S \subseteq Nat
  OBVIOUS
<1>2. StrictOrder(S, Rising(S)) /\ Sorts(q, m, S, Rising(S))
  BY <1>1, RisingIsStrict
<1>3. Positions(S, Rising(S)) = q
  BY <1>2, PositionsUnique
<1>4. DOMAIN q = 1..m
  BY DEF Lists
<1> QED
  BY <1>3, <1>4 DEF Select, Rising, Picked

LEMMA ListsExist ==
    ASSUME NEW n \in Nat, NEW S, S \subseteq 1..n
    PROVE  \E m \in Nat : \E q : Lists(q, m, S)
<1>1. S \subseteq Nat
  OBVIOUS
<1>2. StrictOrder(S, Rising(S))
  BY <1>1, RisingIsStrict
<1>3. IsFiniteSet(S)
  <2>1. S \in SUBSET (1..n)
    OBVIOUS
  <2> QED
    BY <2>1, Interval, FS_Subset
<1>4. PICK m, q : m = Cardinality(S) /\ q = Positions(S, Rising(S))
  OBVIOUS
<1>5. m \in Nat /\ Sorts(q, m, S, Rising(S))
  BY <1>2, <1>3, <1>4, PositionsSort
<1> QED
  BY <1>1, <1>5, RisingIsStrict

\* One more position at the end.
LEMMA ListsGrow ==
    ASSUME NEW m \in Nat, NEW t \in Nat, NEW S, S \subseteq 1..t, NEW q, Lists(q, m, S),
           NEW r, r = [k \in 1..(m + 1) |-> IF k = m + 1 THEN t + 1 ELSE q[k]]
    PROVE  Lists(r, m + 1, S \cup {t + 1})
<1>1. /\ q \in [1..m -> S]
      /\ \A i \in S : \E k \in 1..m : q[k] = i
      /\ \A a, b \in 1..m : a < b => q[a] < q[b]
  BY DEF Lists
<1>2. \A k \in 1..(m + 1) : k # m + 1 => k \in 1..m
  OBVIOUS
<1>3. \A k \in 1..m : k \in 1..(m + 1) /\ k # m + 1 /\ r[k] = q[k]
  OBVIOUS
<1>4. r[m + 1] = t + 1 /\ m + 1 \in 1..(m + 1)
  OBVIOUS
<1>5. r \in [1..(m + 1) -> S \cup {t + 1}]
  BY <1>1, <1>2
<1>6. ASSUME NEW i \in S \cup {t + 1} PROVE \E k \in 1..(m + 1) : r[k] = i
  <2>1. CASE i = t + 1
    BY <1>4, <2>1
  <2>2. CASE i \in S
    BY <1>1, <1>3, <2>2
  <2> QED
    BY <2>1, <2>2
<1>7. ASSUME NEW a \in 1..(m + 1), NEW b \in 1..(m + 1), a < b PROVE r[a] < r[b]
  <2>1. a \in 1..m
    BY <1>7
  <2>2. CASE b = m + 1
    <3>1. q[a] \in 1..t /\ r[a] = q[a]
      BY <1>1, <1>3, <2>1
    <3> QED
      BY <1>4, <2>2, <3>1
  <2>3. CASE b # m + 1
    BY <1>1, <1>2, <1>3, <1>7, <2>1, <2>3
  <2> QED
    BY <2>2, <2>3
<1> HIDE DEF Lists
<1> QED
  BY <1>5, <1>6, <1>7 DEF Lists

\* A run of equal classes begins.
Begins(steps, t) == t = 1 \/ steps[t - 1] # steps[t]

Collapse(v, class) == IF v # <<>> /\ Last(v) = class THEN v ELSE Append(v, class)

LEMMA RunsIs ==
    ASSUME NEW n \in Nat, NEW steps \in [1..n -> Nat]
    PROVE  \E g : /\ g[0] = <<>>
                  /\ \A k \in 1..n : g[k] = Collapse(g[k - 1], steps[k])
                  /\ Runs(steps) = g[n]
<1> DEFINE step == [p \in Seq(Nat) \X (1..n) |-> Collapse(p[1], steps[p[2]])]
<1>1. step \in [Seq(Nat) \X (1..n) -> Seq(Nat)]
  <2> SUFFICES ASSUME NEW v \in Seq(Nat), NEW k \in 1..n PROVE Collapse(v, steps[k]) \in Seq(Nat)
    OBVIOUS
  <2> QED
    BY DEF Collapse
<1>2. <<>> \in Seq(Nat)
  OBVIOUS
<1> HIDE DEF step
<1>3. PICK f \in [0..n -> Seq(Nat)] :
         f[0] = <<>> /\ \A k \in 1..n : f[k] = step[<<f[k - 1], k>>]
  <2>1. \E f \in [0..n -> Seq(Nat)] : Steps(f, n, <<>>, step)
    BY <1>1, <1>2, StepsExist
  <2> QED
    BY <2>1 DEF Steps
<1>4. \A k \in 1..n : f[k] = Collapse(f[k - 1], steps[k])
  <2> SUFFICES ASSUME NEW k \in 1..n PROVE f[k] = Collapse(f[k - 1], steps[k])
    OBVIOUS
  <2>1. k - 1 \in 0..n
    OBVIOUS
  <2>2. f[k - 1] \in Seq(Nat)
    BY <2>1
  <2>3. step[<<f[k - 1], k>>] = Collapse(f[k - 1], steps[k])
    BY <2>2 DEF step
  <2> QED
    BY <1>3, <2>3
<1>5. Len(steps) = n
  OBVIOUS
<1> DEFINE g == CHOOSE g : g = [t \in 0..n |->
                  IF t = 0 THEN <<>>
                  ELSE IF g[t - 1] # <<>> /\ Last(g[t - 1]) = steps[t] THEN g[t - 1]
                  ELSE Append(g[t - 1], steps[t])]
<1>6. f = [t \in 0..n |->
                  IF t = 0 THEN <<>>
                  ELSE IF f[t - 1] # <<>> /\ Last(f[t - 1]) = steps[t] THEN f[t - 1]
                  ELSE Append(f[t - 1], steps[t])]
  <2>1. \A k \in 0..n : k # 0 => k \in 1..n
    OBVIOUS
  <2>2. \A k \in 0..n : f[k] = IF k = 0 THEN <<>> ELSE Collapse(f[k - 1], steps[k])
    BY <1>3, <1>4, <2>1
  <2> QED
    BY <2>2 DEF Collapse
<1>7. g = [t \in 0..n |->
                  IF t = 0 THEN <<>>
                  ELSE IF g[t - 1] # <<>> /\ Last(g[t - 1]) = steps[t] THEN g[t - 1]
                  ELSE Append(g[t - 1], steps[t])]
  BY <1>6
<1>8. Runs(steps) = g[n]
  BY <1>5 DEF Runs
<1> HIDE DEF g
<1>9. g[0] = <<>>
  BY <1>7
<1>10. ASSUME NEW k \in 1..n PROVE g[k] = Collapse(g[k - 1], steps[k])
  <2>1. k \in 0..n /\ k # 0
    OBVIOUS
  <2> QED
    BY <1>7, <2>1 DEF Collapse
<1> QED
  BY <1>8, <1>9, <1>10

\* The runs are the classes where one begins.
LEMMA RunsBegin ==
    ASSUME NEW n \in Nat, NEW steps \in [1..n -> Nat]
    PROVE  \E m \in Nat : \E q : /\ Lists(q, m, {t \in 1..n : Begins(steps, t)})
                             /\ Runs(steps) = Picked(steps, q, m)
<1>1. PICK g : /\ g[0] = <<>>
               /\ \A k \in 1..n : g[k] = Collapse(g[k - 1], steps[k])
               /\ Runs(steps) = g[n]
  BY RunsIs
<1> DEFINE Good(t, m, q) ==
              /\ Lists(q, m, {i \in 1..t : Begins(steps, i)})
              /\ g[t] = Picked(steps, q, m)
              /\ t # 0 => m # 0 /\ steps[q[m]] = steps[t]
           P == {t \in Nat : t <= n => \E m \in Nat : \E q : Good(t, m, q)}
<1>2. 0 \in P
  <2>1. {i \in 1..0 : Begins(steps, i)} = {}
    OBVIOUS
  <2>2. Lists(<<>>, 0, {})
    BY DEF Lists
  <2>3. Picked(steps, <<>>, 0) = <<>>
    BY DEF Picked
  <2>4. Good(0, 0, <<>>)
    BY <1>1, <2>1, <2>2, <2>3
  <2> QED
    BY <2>4
<1>3. ASSUME NEW t \in Nat, t \in P PROVE t + 1 \in P
  <2> SUFFICES ASSUME t + 1 <= n PROVE \E m \in Nat : \E q : Good(t + 1, m, q)
    OBVIOUS
  <2>1. t + 1 \in 1..n /\ (t + 1) - 1 = t /\ t + 1 # 0
    OBVIOUS
  <2>2. PICK m \in Nat : \E q : Good(t, m, q)
    <3>1. t <= n
      OBVIOUS
    <3> HIDE DEF Good
    <3> QED
      BY <1>3, <3>1
  <2>3. PICK q : Good(t, m, q)
    <3> HIDE DEF Good
    <3> QED
      BY <2>2
  <2> DEFINE S == {i \in 1..t : Begins(steps, i)}
  <2>4. S \subseteq 1..t /\ \A i \in 1..t : i \in 1..n
    BY <2>1
  <2>5. q \in [1..m -> S]
    BY <2>3 DEF Lists
  <2>6. g[t] \in Seq(Nat) /\ Len(g[t]) = m /\ \A k \in 1..m : g[t][k] = steps[q[k]]
    <3>1. g[t] = [k \in 1..m |-> steps[q[k]]]
      BY <2>3 DEF Picked
    <3>2. \A k \in 1..m : steps[q[k]] \in Nat
      BY <2>4, <2>5
    <3> QED
      BY <3>1, <3>2
  <2>7. g[t + 1] = Collapse(g[t], steps[t + 1])
    BY <1>1, <2>1
  <2>8. {i \in 1..(t + 1) : Begins(steps, i)}
           = IF Begins(steps, t + 1) THEN S \cup {t + 1} ELSE S
    <3>1. 1..(t + 1) = (1..t) \cup {t + 1}
      OBVIOUS
    <3> QED
      BY <3>1
  <2>9. Begins(steps, t + 1) <=> ~(g[t] # <<>> /\ Last(g[t]) = steps[t + 1])
    <3>1. CASE t = 0
      <4>1. S = {}
        BY <3>1
      <4>2. m = 0
        <5>1. m # 0 => 1 \in 1..m
          OBVIOUS
        <5> QED
          BY <2>5, <4>1, <5>1
      <4>3. g[t] = <<>>
        BY <2>6, <4>2
      <4> QED
        BY <3>1, <4>3 DEF Begins
    <3>2. CASE t # 0
      <4>1. m # 0 /\ steps[q[m]] = steps[t] /\ m \in 1..m
        BY <2>3, <3>2
      <4>2. g[t] # <<>> /\ Last(g[t]) = steps[t]
        BY <2>6, <4>1 DEF Last
      <4>3. t + 1 # 1
        BY <3>2
      <4> QED
        BY <2>1, <4>2, <4>3 DEF Begins
    <3> QED
      BY <3>1, <3>2
  <2>10. CASE ~Begins(steps, t + 1)
    <3>1. t # 0
      BY <2>10 DEF Begins
    <3>2. steps[t + 1] = steps[t]
      BY <2>1, <2>10 DEF Begins
    <3>3. g[t + 1] = g[t]
      BY <2>7, <2>9, <2>10 DEF Collapse
    <3>4. Good(t + 1, m, q)
      BY <2>3, <2>8, <2>10, <3>1, <3>2, <3>3
    <3> QED
      BY <3>4
  <2>11. CASE Begins(steps, t + 1)
    <3> DEFINE r == [k \in 1..(m + 1) |-> IF k = m + 1 THEN t + 1 ELSE q[k]]
    <3>1. Lists(r, m + 1, S \cup {t + 1})
      <4>1. Lists(q, m, S)
        BY <2>3
      <4> HIDE DEF S
      <4> QED
        BY <2>4, <4>1, ListsGrow
    <3>2. g[t + 1] = Append(g[t], steps[t + 1])
      BY <2>7, <2>9, <2>11 DEF Collapse
    <3>3. g[t + 1] = Picked(steps, r, m + 1)
      <4>1. Append(g[t], steps[t + 1]) =
               [k \in 1..(m + 1) |-> IF k = m + 1 THEN steps[t + 1] ELSE g[t][k]]
        BY <2>1, <2>6
      <4>2. \A k \in 1..(m + 1) : k # m + 1 => k \in 1..m
        OBVIOUS
      <4>3. \A k \in 1..(m + 1) : steps[r[k]] = IF k = m + 1 THEN steps[t + 1] ELSE g[t][k]
        BY <2>6, <4>2
      <4> HIDE DEF r
      <4> QED
        BY <3>2, <4>1, <4>3 DEF Picked
    <3>4. m + 1 \in Nat /\ m + 1 # 0 /\ r[m + 1] = t + 1
      OBVIOUS
    <3> HIDE DEF r
    <3>5. Good(t + 1, m + 1, r)
      BY <2>8, <2>11, <3>1, <3>3, <3>4
    <3> QED
      BY <3>4, <3>5
  <2> QED
    BY <2>10, <2>11
<1>4. n \in P
  <2> HIDE DEF P
  <2> QED
    BY <1>2, <1>3, Induction
<1>5. PICK m \in Nat : \E q : Good(n, m, q)
  <2> HIDE DEF Good
  <2> QED
    BY <1>4
<1>6. PICK q : Good(n, m, q)
  <2> HIDE DEF Good
  <2> QED
    BY <1>5
<1> QED
  BY <1>1, <1>6

\* A selection from a selection is one selection.
LEMMA ListsOfLists ==
    ASSUME NEW m \in Nat, NEW S, NEW b, Lists(b, m, S),
           NEW j \in Nat, NEW K \in SUBSET (1..m), NEW c, Lists(c, j, K),
           NEW d, d = Picked(b, c, j), NEW D, D = {b[k] : k \in K}
    PROVE  Lists(d, j, D)
<1>1. c \in [1..j -> K] /\ \A i \in K : \E k \in 1..j : c[k] = i
  BY DEF Lists
<1>2. \A k \in 1..j : d[k] = b[c[k]] /\ c[k] \in 1..m
  BY <1>1 DEF Picked
<1>3. d \in [1..j -> D]
  BY <1>1 DEF Picked
<1>4. ASSUME NEW i \in D PROVE \E k \in 1..j : d[k] = i
  <2>1. PICK l \in K : i = b[l]
    OBVIOUS
  <2>2. PICK k \in 1..j : c[k] = l
    BY <1>1
  <2> QED
    BY <1>2, <2>1, <2>2
<1>5. ASSUME NEW x \in 1..j, NEW y \in 1..j, x < y PROVE d[x] < d[y]
  <2>1. c[x] < c[y]
    BY <1>5 DEF Lists
  <2>2. b[c[x]] < b[c[y]]
    BY <1>2, <2>1 DEF Lists
  <2> QED
    BY <1>2, <2>2
<1> QED
  BY <1>3, <1>4, <1>5 DEF Lists

\* decode_probabilities() reads what CTC defines.
THEOREM DecodingReads ==
    ASSUME NEW n \in Nat, NEW steps \in [1..n -> Nat], NEW region, region.steps = steps
    PROVE  CtcDecode(steps) = Reading(region)
<1> DEFINE B == {t \in 1..n : Begins(steps, t)}
           D == {t \in 1..n : steps[t] # 0 /\ Begins(steps, t)}
<1>1. PICK m \in Nat : \E b : Lists(b, m, B) /\ Runs(steps) = Picked(steps, b, m)
  BY RunsBegin
<1>2. PICK b : Lists(b, m, B) /\ Runs(steps) = Picked(steps, b, m)
  BY <1>1
<1>3. PICK runs : runs = Picked(steps, b, m)
  OBVIOUS
<1>4. DOMAIN runs = 1..m /\ \A k \in 1..m : runs[k] = steps[b[k]]
  BY <1>3 DEF Picked
<1> DEFINE K == {k \in 1..m : runs[k] # 0}
<1>5. PICK j \in Nat : \E c : Lists(c, j, K)
  <2>1. K \subseteq 1..m
    OBVIOUS
  <2> HIDE DEF K
  <2> QED
    BY <2>1, ListsExist
<1>6. PICK c : Lists(c, j, K)
  BY <1>5
<1>7. Select(runs, K) = Picked(runs, c, j)
  <2>1. K \in SUBSET Nat
    OBVIOUS
  <2> HIDE DEF K
  <2> QED
    BY <1>6, <2>1, SelectIs
<1>8. Reading(region) = Picked(runs, c, j)
  <2>1. Runs(region.steps) = runs
    BY <1>2, <1>3
  <2> QED
    BY <1>4, <1>7, <2>1 DEF Reading
<1>9. b \in [1..m -> B] /\ \A i \in B : \E k \in 1..m : b[k] = i
  BY <1>2 DEF Lists
<1>10. D = {b[k] : k \in K}
  <2>1. ASSUME NEW t \in D PROVE \E k \in K : b[k] = t
    <3>1. PICK k \in 1..m : b[k] = t
      BY <1>9
    <3> QED
      BY <1>4, <3>1
  <2>2. ASSUME NEW k \in K PROVE b[k] \in D
    BY <1>4, <1>9
  <2> QED
    BY <2>1, <2>2
<1>11. PICK d : d = Picked(b, c, j)
  OBVIOUS
<1>12. Lists(d, j, D)
  <2>1. PICK L : L = K
    OBVIOUS
  <2>2. L \in SUBSET (1..m)
    BY <2>1
  <2> HIDE DEF K, D, B
  <2>3. Lists(c, j, L)
    BY <1>6, <2>1
  <2>4. D = {b[k] : k \in L}
    BY <1>10, <2>1
  <2> QED
    BY <1>2, <1>11, <2>2, <2>3, <2>4, ListsOfLists
<1>13. Select(steps, D) = Picked(steps, d, j)
  <2>1. D \in SUBSET Nat
    OBVIOUS
  <2> HIDE DEF D
  <2> QED
    BY <1>12, <2>1, SelectIs
<1>14. CtcDecode(steps) = Picked(steps, d, j)
  <2>1. DOMAIN steps = 1..n
    OBVIOUS
  <2> QED
    BY <1>13, <2>1 DEF CtcDecode, Begins
<1>15. Picked(steps, d, j) = Picked(runs, c, j)
  <2>1. c \in [1..j -> K]
    BY <1>6 DEF Lists
  <2>2. \A k \in 1..j : steps[d[k]] = runs[c[k]]
    BY <1>4, <1>11, <2>1 DEF Picked
  <2> QED
    BY <2>2 DEF Picked
<1> QED
  BY <1>8, <1>14, <1>15

------------------------------------------------------------------------------
(***************************************************************************)
(* The engine's own data: regions, crops, texts and blocks.                *)
(***************************************************************************)
LEMMA RegionFields ==
    /\ Keyed(Regions)
    /\ \A r \in Regions : /\ r.w \in Nat \ {0} /\ r.h \in Nat \ {0}
                          /\ r.steps \in Seq(Nat) /\ r.clear \in BOOLEAN
BY DEF Regions, Keyed

LEMMA OrderedRegions ==
    ASSUME image \in Images, NEW r, r = ReadingOrder(image), NEW n, n = Len(image)
    PROVE  /\ n \in Nat /\ image \in [1..n -> Regions] /\ r \in [1..n -> Regions]
           /\ ToBag(r) = ToBag(image)
           /\ \A a \in 1..(n - 1) : ~Reversed(r[a], r[a + 1])
<1>1. image \in Seq(Regions)
  BY EngineAssumption
<1>2. n \in Nat /\ image \in [1..n -> Regions]
  BY <1>1
<1>3. PICK s : s = image
  OBVIOUS
<1>4. Keyed(Regions) /\ s \in [1..n -> Regions] /\ r = ReadingOrder(s)
  BY <1>2, <1>3, RegionFields
<1>5. /\ \E q : Permutes(q, n) /\ r = Picked(s, q, n)
      /\ \A a \in 1..(n - 1) : ~Reversed(r[a], r[a + 1])
  BY <1>2, <1>4, ReadingOrderArranges
<1>6. PICK q : Permutes(q, n) /\ r = Picked(s, q, n)
  BY <1>5
<1>7. r \in [1..n -> Regions]
  BY <1>4, <1>6 DEF Permutes, Picked
<1>8. ToBag(r) = ToBag(s)
  <2>1. PICK p : p = Picked(s, q, n)
    OBVIOUS
  <2>2. ToBag(Picked(s, q, n)) = ToBag(s)
    BY <1>2, <1>4, <1>6, BagsAgree
  <2> QED
    BY <1>6, <2>2
<1> QED
  BY <1>2, <1>3, <1>5, <1>7, <1>8

ReadingOf(r) == [text |-> Reading(r), clear |-> r.clear]

CropsOf(r, c) == [i \in 1..c |-> CropOf(r[i])]
ReadingsOf(r, d) == [i \in 1..d |-> ReadingOf(r[i])]

LEMMA CropKeeps ==
    ASSUME NEW r \in Regions
    PROVE  /\ CropOf(r).steps = r.steps /\ CropOf(r).clear = r.clear
           /\ CropOf(r).w \in Nat \ {0} /\ CropOf(r).h \in Nat \ {0}
<1>1. PICK w, h : w = r.w /\ h = r.h
  OBVIOUS
<1>2. w \in Nat \ {0} /\ h \in Nat \ {0}
  BY <1>1, RegionFields
<1> QED
  BY <1>1, <1>2 DEF CropOf

LEMMA BatchOf ==
    ASSUME NEW n \in Nat, NEW d \in 0..(n - 1), Len(crops) = n, Len(sequences) = d
    PROVE  \E e \in (d + 1)..n : Batch = SubSeq(crops, d + 1, e)
<1>1. PICK e : e = Min({d + BatchLimit, n})
  OBVIOUS
<1>2. PICK l : l = d + BatchLimit
  OBVIOUS
<1>3. l \in Int /\ l >= d + 1
  BY <1>2, EngineAssumption
<1>4. e = l \/ e = n
  <2>1. \E x \in {l, n} : \A y \in {l, n} : x =< y
    BY <1>3
  <2>2. e \in {l, n}
    BY <1>1, <1>2, <2>1 DEF Min
  <2> QED
    BY <2>2
<1>5. e <= n /\ e <= l
  <2>1. \E x \in {l, n} : \A y \in {l, n} : x =< y
    BY <1>3
  <2> QED
    BY <1>1, <1>2, <2>1 DEF Min
<1>6. e \in (d + 1)..n
  BY <1>3, <1>4, <1>5
<1> QED
  BY <1>1, <1>6 DEF Batch

LEMMA Restored ==
    ASSUME NEW m \in Nat, NEW order, Permutes(order, m), NEW all, NEW read \in [1..m -> all]
    PROVE  RestoreOrder(order, Picked(read, order, m)) = read
<1>1. order \in [1..m -> 1..m] /\ \A i \in 1..m : \E k \in 1..m : order[k] = i
  BY DEF Permutes
<1> QED
  BY <1>1, RestoreInverts DEF Picked

\* The texts of the tensor, in its own order.
SortedReadings(order) ==
    [k \in DOMAIN order |-> [text |-> CtcDecode(Batch[order[k]].steps),
                             clear |-> Batch[order[k]].clear]]

BatchReadings == RestoreOrder(AspectOrder(Batch), SortedReadings(AspectOrder(Batch)))

\* What is read of a batch belongs to its regions.
LEMMA ReadingsGrow ==
    ASSUME NEW n \in Nat, NEW r \in [1..n -> Regions], NEW d \in 0..(n - 1),
           crops = CropsOf(r, n), sequences = ReadingsOf(r, d)
    PROVE  \E e \in (d + 1)..n : sequences \o BatchReadings = ReadingsOf(r, e)
<1>1. PICK order : order = AspectOrder(Batch)
  OBVIOUS
<1>2. PICK sorted : sorted = SortedReadings(order)
  OBVIOUS
<1>3. Len(crops) = n /\ Len(sequences) = d
  BY DEF CropsOf, ReadingsOf
<1>4. PICK e \in (d + 1)..n : Batch = SubSeq(crops, d + 1, e)
  BY <1>3, BatchOf
<1>5. PICK m : m = e - d
  OBVIOUS
<1>6. m \in Nat /\ m # 0 /\ \A k \in 1..m : d + k \in 1..n
  BY <1>4, <1>5
<1>7. PICK batch : batch = Batch
  OBVIOUS
<1>8. DOMAIN batch = 1..m /\ \A k \in 1..m : batch[k] = CropOf(r[d + k])
  <2>1. crops \in [1..n -> {CropOf(r[i]) : i \in 1..n}]
    BY DEF CropsOf
  <2>2. SubSeq(crops, d + 1, e) = [k \in 1..m |-> crops[d + k]]
    BY <1>4, <1>5, <2>1
  <2>3. \A k \in 1..m : crops[d + k] = CropOf(r[d + k])
    BY <1>6 DEF CropsOf
  <2> QED
    BY <1>4, <1>7, <2>2, <2>3
<1>9. \A k \in 1..m : r[d + k] \in Regions
  BY <1>6
<1>10. Permutes(order, m)
  <2>1. Sized(batch, m)
    BY <1>8, <1>9, CropKeeps DEF Sized
  <2>2. order = AspectOrder(batch)
    BY <1>1, <1>7
  <2> QED
    BY <1>6, <2>1, <2>2, AspectOrderPermutes
<1> DEFINE read == [i \in 1..m |-> ReadingOf(r[d + i])]
<1>11. \A k \in 1..m : [text |-> CtcDecode(batch[k].steps), clear |-> batch[k].clear] = read[k]
  <2> SUFFICES ASSUME NEW k \in 1..m
               PROVE  [text |-> CtcDecode(batch[k].steps), clear |-> batch[k].clear] = read[k]
    OBVIOUS
  <2>1. PICK region \in Regions : region = r[d + k]
    BY <1>9
  <2>2. batch[k].steps = region.steps /\ batch[k].clear = region.clear
    BY <1>8, <2>1, CropKeeps
  <2>3. PICK steps : steps = region.steps
    OBVIOUS
  <2>4. steps \in Seq(Nat)
    BY <2>3, RegionFields
  <2>5. Len(steps) \in Nat /\ steps \in [1..Len(steps) -> Nat]
    BY <2>4
  <2>6. CtcDecode(steps) = Reading(region)
    BY <2>3, <2>5, DecodingReads
  <2> QED
    BY <2>1, <2>2, <2>3, <2>6 DEF ReadingOf
<1>12. /\ order \in [1..m -> 1..m]
       /\ \A i \in 1..m : \E k \in 1..m : order[k] = i
  BY <1>10 DEF Permutes
<1>13. sorted = Picked(read, order, m)
  <2>1. DOMAIN order = 1..m
    BY <1>12
  <2> HIDE DEF read
  <2>2. \A k \in 1..m : [text |-> CtcDecode(batch[order[k]].steps),
                         clear |-> batch[order[k]].clear] = read[order[k]]
    BY <1>11, <1>12
  <2> QED
    BY <1>7, <1>2, <2>1, <2>2 DEF SortedReadings, Picked
<1>14. RestoreOrder(order, sorted) = read
  <2>1. read \in [1..m -> {read[i] : i \in 1..m}]
    OBVIOUS
  <2> HIDE DEF read
  <2> QED
    <3>1. PICK all : all = {read[i] : i \in 1..m}
      OBVIOUS
    <3>2. read \in [1..m -> all]
      BY <2>1, <3>1
    <3>3. RestoreOrder(order, Picked(read, order, m)) = read
      BY <1>6, <1>10, <3>2, Restored
    <3> QED
      BY <1>13, <3>3
<1>15. sequences \o read = ReadingsOf(r, e)
  <2> DEFINE Z == {ReadingOf(r[i]) : i \in 1..n}
  <2>1. sequences \in [1..d -> Z] /\ d \in Nat
    <3>1. \A i \in 1..d : i \in 1..n
      OBVIOUS
    <3> QED
      BY <3>1 DEF ReadingsOf
  <2>2. read \in [1..m -> Z]
    BY <1>6
  <2>3. PICK both : both = sequences \o read
    OBVIOUS
  <2>4. \A i \in 1..d : sequences[i] = ReadingOf(r[i])
    BY DEF ReadingsOf
  <2>5. \A k \in 1..m : read[k] = ReadingOf(r[d + k])
    OBVIOUS
  <2> HIDE DEF read, Z
  <2>6. d + m = e
    BY <1>5
  <2>7. sequences \in Seq(Z) /\ read \in Seq(Z) /\ Len(sequences) = d /\ Len(read) = m
    BY <1>6, <2>1, <2>2
  <2>8. both \in [1..e -> Z]
    <3>1. both \in Seq(Z) /\ Len(both) = d + m
      BY <2>3, <2>7, ConcatProperties
    <3> QED
      BY <2>6, <3>1
  <2>9. \A i \in 1..e : both[i] = IF i <= d THEN sequences[i] ELSE read[i - d]
    <3>1. \A i \in 1..(d + m) : both[i] = IF i <= d THEN sequences[i] ELSE read[i - d]
      BY <2>3, <2>7, ConcatProperties
    <3> QED
      BY <2>6, <3>1
  <2>10. \A i \in 1..e : both[i] = ReadingOf(r[i])
    <3> SUFFICES ASSUME NEW i \in 1..e PROVE both[i] = ReadingOf(r[i])
      OBVIOUS
    <3>1. CASE i <= d
      BY <2>4, <2>9, <3>1
    <3>2. CASE ~(i <= d)
      <4>1. i - d \in 1..m /\ d + (i - d) = i
        BY <1>5, <1>6, <3>2
      <4> QED
        BY <2>5, <2>9, <3>2, <4>1
    <3> QED
      BY <3>1, <3>2
  <2> QED
    BY <2>3, <2>8, <2>10 DEF ReadingsOf
<1>16. BatchReadings = read
  BY <1>1, <1>2, <1>14 DEF BatchReadings
<1> HIDE DEF read
<1> QED
  BY <1>15, <1>16

BlockOf(r) == [y |-> r.y, x |-> r.x, text |-> Reading(r)]

\* The regions among the first t that make a block.
Worthy(r, t) == {i \in 1..t : Reading(r[i]) # <<>> /\ r[i].clear}

Assembled(b, r, t) ==
    \E m \in Nat : \E q : Lists(q, m, Worthy(r, t)) /\ b = [k \in 1..m |-> BlockOf(r[q[k]])]

LEMMA NothingAssembled == ASSUME NEW r PROVE Assembled(<<>>, r, 0)
<1>1. Worthy(r, 0) = {}
  BY DEF Worthy
<1>2. Lists(<<>>, 0, {})
  BY DEF Lists
<1>3. <<>> = [k \in 1..0 |-> BlockOf(r[<<>>[k]])]
  OBVIOUS
<1> QED
  BY <1>1, <1>2, <1>3 DEF Assembled

LEMMA BlockIs ==
    ASSUME NEW n \in Nat, NEW i \in 1..n, NEW r, regions = r, sequences = ReadingsOf(r, n),
           r[i].clear \in BOOLEAN
    PROVE  /\ Reading(r[i]) # <<>> /\ r[i].clear => Block(i) = <<BlockOf(r[i])>>
           /\ ~(Reading(r[i]) # <<>> /\ r[i].clear) => Block(i) = <<>>
<1>1. sequences[i].text = Reading(r[i]) /\ sequences[i].clear = r[i].clear
  BY DEF ReadingsOf, ReadingOf
<1> QED
  BY <1>1 DEF Block, BlockOf

LEMMA AssembleOne ==
    ASSUME NEW n \in Nat, NEW r \in [1..n -> Regions], regions = r, sequences = ReadingsOf(r, n),
           NEW t \in 0..(n - 1), NEW b, Assembled(b, r, t)
    PROVE  Assembled(b \o Block(t + 1), r, t + 1)
<1>1. PICK m \in Nat : \E q : Lists(q, m, Worthy(r, t)) /\ b = [k \in 1..m |-> BlockOf(r[q[k]])]
  BY DEF Assembled
<1>2. PICK q : Lists(q, m, Worthy(r, t)) /\ b = [k \in 1..m |-> BlockOf(r[q[k]])]
  BY <1>1
<1>3. t \in Nat /\ t + 1 \in 1..n
  OBVIOUS
<1>4. r[t + 1].clear \in BOOLEAN
  BY <1>3, RegionFields
<1>5. Worthy(r, t) \subseteq 1..t
  BY DEF Worthy
<1>6. 1..(t + 1) = (1..t) \cup {t + 1}
  BY <1>3
<1>7. CASE Reading(r[t + 1]) # <<>> /\ r[t + 1].clear
  <2>1. Block(t + 1) = <<BlockOf(r[t + 1])>>
    BY <1>3, <1>4, <1>7, BlockIs
  <2>2. Worthy(r, t + 1) = Worthy(r, t) \cup {t + 1}
    BY <1>6, <1>7 DEF Worthy
  <2>3. PICK p : p = [k \in 1..(m + 1) |-> IF k = m + 1 THEN t + 1 ELSE q[k]]
    OBVIOUS
  <2>4. Lists(p, m + 1, Worthy(r, t + 1))
    BY <1>2, <1>3, <1>5, <2>2, <2>3, ListsGrow
  <2>5. PICK f : f = [k \in 1..(m + 1) |-> BlockOf(r[p[k]])]
    OBVIOUS
  <2>6. b \o <<BlockOf(r[t + 1])>> = f
    <3> DEFINE Z == {BlockOf(r[q[k]]) : k \in 1..m} \cup {BlockOf(r[t + 1])}
    <3>1. b \in [1..m -> Z] /\ BlockOf(r[t + 1]) \in Z
      BY <1>2
    <3> HIDE DEF Z
    <3>2. b \in Seq(Z) /\ Len(b) = m
      BY <3>1
    <3>3. PICK e \in Z : e = BlockOf(r[t + 1])
      BY <3>1
    <3>4. b \o <<e>> = [k \in 1..(m + 1) |-> IF k = m + 1 THEN e ELSE b[k]]
      BY <3>2
    <3>5. \A k \in 1..(m + 1) : BlockOf(r[p[k]]) = IF k = m + 1 THEN e ELSE b[k]
      <4> SUFFICES ASSUME NEW k \in 1..(m + 1)
                   PROVE  BlockOf(r[p[k]]) = IF k = m + 1 THEN e ELSE b[k]
        OBVIOUS
      <4>1. CASE k = m + 1
        BY <2>3, <3>3, <4>1
      <4>2. CASE k # m + 1
        <5>1. k \in 1..m /\ p[k] = q[k]
          BY <2>3, <4>2
        <5> QED
          BY <1>2, <4>2, <5>1
      <4> QED
        BY <4>1, <4>2
    <3> QED
      BY <2>5, <3>3, <3>4, <3>5
  <2>7. m + 1 \in Nat /\ b \o Block(t + 1) = f
    <3>1. b \o Block(t + 1) = b \o <<BlockOf(r[t + 1])>>
      BY <2>1, Zenon
    <3>2. b \o Block(t + 1) = f
      BY <2>6, <3>1, Zenon
    <3> QED
      BY <3>2
  <2>8. PICK l \in Nat : l = m + 1
    BY <2>7
  <2>9. Lists(p, l, Worthy(r, t + 1)) /\ b \o Block(t + 1) = [k \in 1..l |-> BlockOf(r[p[k]])]
    BY <2>4, <2>5, <2>7, <2>8
  <2> QED
    BY <2>9 DEF Assembled
<1>8. CASE ~(Reading(r[t + 1]) # <<>> /\ r[t + 1].clear)
  <2>1. Block(t + 1) = <<>>
    BY <1>3, <1>4, <1>8, BlockIs
  <2>2. Worthy(r, t + 1) = Worthy(r, t)
    BY <1>6, <1>8 DEF Worthy
  <2>3. b \o <<>> = b
    <3> DEFINE Z == {BlockOf(r[q[k]]) : k \in 1..m}
    <3>1. b \in [1..m -> Z]
      BY <1>2
    <3> HIDE DEF Z
    <3>2. b \in Seq(Z)
      BY <3>1
    <3> QED
      BY <3>2
  <2> QED
    BY <1>2, <2>1, <2>2, <2>3 DEF Assembled
<1> QED
  BY <1>7, <1>8

\* What is assembled in the end: the blocks of the property.
ReadOf(r) == [i \in DOMAIN r |-> [y |-> r[i].y, x |-> r[i].x,
                                  text |-> Reading(r[i]), clear |-> r[i].clear]]
KeptOf(read) == Select(read, {i \in DOMAIN read : read[i].text # <<>> /\ read[i].clear})
TextsOf(kept) == [i \in DOMAIN kept |-> [y |-> kept[i].y, x |-> kept[i].x, text |-> kept[i].text]]

LEMMA AssembledTexts ==
    ASSUME NEW n \in Nat, NEW r \in [1..n -> Regions], NEW b, Assembled(b, r, n)
    PROVE  b = TextsOf(KeptOf(ReadOf(r)))
<1>1. PICK read : read = ReadOf(r)
  OBVIOUS
<1>2. PICK kept : kept = KeptOf(read)
  OBVIOUS
<1>3. PICK m \in Nat : \E q : Lists(q, m, Worthy(r, n)) /\ b = [k \in 1..m |-> BlockOf(r[q[k]])]
  BY DEF Assembled
<1>4. PICK q : Lists(q, m, Worthy(r, n)) /\ b = [k \in 1..m |-> BlockOf(r[q[k]])]
  BY <1>3
<1>5. \A i \in 1..n : /\ read[i].text = Reading(r[i]) /\ read[i].clear = r[i].clear
                      /\ read[i].y = r[i].y /\ read[i].x = r[i].x
  BY <1>1 DEF ReadOf
<1>6. DOMAIN read = 1..n
  BY <1>1 DEF ReadOf
<1>7. {i \in 1..n : read[i].text # <<>> /\ read[i].clear} = Worthy(r, n)
  BY <1>5 DEF Worthy
<1>8. Worthy(r, n) \in SUBSET Nat /\ Worthy(r, n) \subseteq 1..n
  BY DEF Worthy
<1>9. kept = Picked(read, q, m)
  BY <1>4, <1>7, <1>8, <1>2, <1>6, SelectIs DEF KeptOf
<1>10. \A k \in 1..m : q[k] \in 1..n
  BY <1>4, <1>8 DEF Lists
<1>11. DOMAIN kept = 1..m /\ \A k \in 1..m : kept[k] = read[q[k]]
  BY <1>9 DEF Picked
<1>12. \A k \in 1..m : BlockOf(r[q[k]])
                         = [y |-> kept[k].y, x |-> kept[k].x, text |-> kept[k].text]
  <2> SUFFICES ASSUME NEW k \in 1..m
               PROVE  BlockOf(r[q[k]])
                         = [y |-> kept[k].y, x |-> kept[k].x, text |-> kept[k].text]
    OBVIOUS
  <2>1. PICK i \in 1..n : i = q[k]
    BY <1>10
  <2>2. kept[k] = read[i]
    BY <1>11, <2>1
  <2>3. kept[k].y = r[i].y /\ kept[k].x = r[i].x /\ kept[k].text = Reading(r[i])
    BY <1>5, <2>2
  <2> QED
    BY <2>1, <2>3 DEF BlockOf
<1>13. b = TextsOf(kept)
  BY <1>4, <1>11, <1>12 DEF TextsOf
<1> QED
  BY <1>1, <1>2, <1>13

LEMMA WholeList ==
    ASSUME NEW n \in Nat, NEW m \in Nat, NEW q, Lists(q, m, 1..n)
    PROVE  m = n /\ \A k \in 1..n : q[k] = k
<1> DEFINE id == [k \in 1..n |-> k]
<1>1. Lists(id, n, 1..n)
  BY DEF Lists
<1> HIDE DEF id
<1>2. 1..n \subseteq Nat
  OBVIOUS
<1>3. PICK S : S = 1..n
  OBVIOUS
<1>4. StrictOrder(S, Rising(S)) /\ Sorts(id, n, S, Rising(S)) /\ Sorts(q, m, S, Rising(S))
  BY <1>1, <1>2, <1>3, RisingIsStrict
<1>5. Positions(S, Rising(S)) = id /\ Cardinality(S) = n
  BY <1>4, PositionsUnique
<1>6. Positions(S, Rising(S)) = q /\ Cardinality(S) = m
  BY <1>4, PositionsUnique
<1> QED
  BY <1>5, <1>6 DEF id

\* If no region is left out, the blocks pass their validation.
LEMMA WholeIsInOrder ==
    ASSUME image \in Images, NEW r, r = ReadingOrder(image), NEW n, n = Len(image),
           NEW b, Assembled(b, r, n), Worthy(r, n) = 1..n
    PROVE  InReadingOrder(b)
<1>1. n \in Nat /\ image \in [1..n -> Regions] /\ r \in [1..n -> Regions]
  BY OrderedRegions
<1>2. PICK m \in Nat : \E q : Lists(q, m, Worthy(r, n)) /\ b = [k \in 1..m |-> BlockOf(r[q[k]])]
  BY DEF Assembled
<1>3. PICK q : Lists(q, m, Worthy(r, n)) /\ b = [k \in 1..m |-> BlockOf(r[q[k]])]
  BY <1>2
<1>4. m = n /\ \A k \in 1..n : q[k] = k
  BY <1>1, <1>3, WholeList
<1>5. DOMAIN b = 1..n /\ \A k \in 1..n : b[k].y = r[k].y /\ b[k].x = r[k].x
  BY <1>3, <1>4 DEF BlockOf
<1>6. PICK u : u = [k \in 1..n |-> [index |-> k, y |-> b[k].y, x |-> b[k].x]]
  OBVIOUS
<1>7. \A k \in 1..n : u[k].y = r[k].y /\ u[k].x = r[k].x
  BY <1>5, <1>6
<1>8. PICK X : X = Regions \cup {u[k] : k \in 1..n}
  OBVIOUS
<1>9. Keyed(X)
  <2>1. \A k \in 1..n : r[k].y \in Int /\ r[k].x \in Int
    BY <1>1, RegionFields DEF Keyed
  <2> QED
    BY <1>7, <1>8, <2>1, RegionFields DEF Keyed
<1>10. PICK s : s = image
  OBVIOUS
<1>11. s \in [1..n -> X]
  BY <1>1, <1>8, <1>10
<1>12. u \in [1..n -> X]
  BY <1>6, <1>8
<1>13. SameKeys(ReadingOrder(s), u, n)
  BY <1>7, <1>10 DEF SameKeys
<1>14. ReadingOrder(u) = u
  BY <1>1, <1>9, <1>11, <1>12, <1>13, ReadingOrderStays
<1> QED
  BY <1>5, <1>6, <1>14 DEF InReadingOrder

------------------------------------------------------------------------------
(***************************************************************************)
(* The texts of a result are those of the regions.                         *)
(***************************************************************************)
Early == {"decode", "preprocess", "detect", "detecting", "postprocess"}
Recognition == {"recognize", "recognizing", "read"}
Working == {"crop", "assemble"} \cup Recognition

\* How far the engine is at a stage: c crops, d texts, and the blocks of the
\* regions it has seen.
ProgressAt(s) ==
    \E c, d \in 0..Len(image) :
        /\ regions = ReadingOrder(image)
        /\ crops = CropsOf(regions, c) /\ sequences = ReadingsOf(regions, d)
        /\ seen \in 0..Len(image) /\ Assembled(blocks, regions, seen)
        /\ s = "crop" => d = 0 /\ seen = 0 /\ (c < Len(image) \/ Len(image) = 0)
        /\ s \in Recognition => c = Len(image) /\ d < Len(image) /\ seen = 0
        /\ s = "assemble" => c = Len(image) /\ d = Len(image) /\ seen < Len(image)

Delivered == regions = ReadingOrder(image) /\ Assembled(blocks, regions, Len(image))

DataInv ==
    /\ image \in Images
    /\ stage \in Stages
    /\ stage # "end" => answer = "none"
    /\ stage \in Early => crops = <<>> /\ sequences = <<>> /\ blocks = <<>> /\ seen = 0
    /\ stage \in Working => ProgressAt(stage)
    /\ answer = "result" => Delivered
    /\ output \in {"good", "bad"} /\ (output = "bad" => fault)
    /\ WholeResultsAreValid

data == <<image, regions, crops, sequences, blocks, seen>>

\* A step that leaves the data alone.
LEMMA DataStays ==
    ASSUME DataInv, UNCHANGED data, stage' \in Stages, stage' # "end" => answer' = "none",
           stage' \in Early => stage \in Early,
           stage' \in Working => ProgressAt(stage'),
           answer' = "result" => Delivered,
           output' \in {"good", "bad"}, output' = "bad" => fault',
           answer' = "internal" => answer = "internal" \/ fault',
           fault => fault'
    PROVE  DataInv'
<1>1. UNCHANGED <<image, regions, crops, sequences, blocks, seen>>
  BY DEF data
<1>2. image' \in Images
  BY <1>1 DEF DataInv
<1>3. stage' \in Early => crops' = <<>> /\ sequences' = <<>> /\ blocks' = <<>> /\ seen' = 0
  BY <1>1 DEF DataInv
<1>4. stage' \in Working => ProgressAt(stage)'
  BY <1>1 DEF ProgressAt
<1>5. answer' = "result" => Delivered'
  BY <1>1 DEF Delivered
<1>6. WholeResultsAreValid'
  <2>1. \A i : Block(i)' = Block(i)
    BY <1>1 DEF Block
  <2>2. CASE answer' = "internal"
    <3>1. fault' \/ (answer = "internal" /\ ~fault)
      BY <2>2
    <3> QED
      BY <1>1, <2>1, <3>1 DEF DataInv, WholeResultsAreValid, Plain
  <2> QED
    BY <2>2 DEF WholeResultsAreValid
<1> QED
  BY <1>2, <1>3, <1>4, <1>5, <1>6 DEF DataInv

LEMMA DataStarts == Init => DataInv
<1> SUFFICES ASSUME Init PROVE DataInv
  OBVIOUS
<1>1. stage = "decode" /\ answer = "none" /\ output = "good" /\ image \in Images
  BY DEF Init
<1>2. crops = <<>> /\ sequences = <<>> /\ blocks = <<>> /\ seen = 0
  BY DEF Init
<1>3. stage \in Stages /\ stage \notin Working
  BY <1>1 DEF Stages, Working, Recognition
<1> QED
  BY <1>1, <1>2, <1>3 DEF DataInv, WholeResultsAreValid

\* A check, and the end of a request that was stopped.
LEMMA ChecksKeepData ==
    ASSUME DataInv, Check \/ Cancel \/ Expire \/ UNCHANGED vars PROVE DataInv'
<1>1. CASE Cancel \/ Expire \/ UNCHANGED vars
  <2>1. UNCHANGED data /\ UNCHANGED <<stage, answer, output, fault>>
    BY <1>1 DEF Cancel, Expire, vars, data, work, context
  <2> QED
    BY <2>1, DataStays DEF DataInv
<1>2. CASE Check
  <2>1. UNCHANGED data /\ UNCHANGED <<output, fault>>
    BY <1>2 DEF Check, data, work, context
  <2>2. \/ UNCHANGED <<stage, answer>>
        \/ stage' = "end" /\ answer' \in {"cancelled", "late"}
    BY <1>2 DEF Check, Answer, StopCode
  <2>3. "end" \in Stages /\ "end" \notin Early /\ "end" \notin Working
    BY DEF Stages, Early, Working, Recognition
  <2>4. CASE UNCHANGED <<stage, answer>>
    BY <2>1, <2>4, DataStays DEF DataInv
  <2>5. CASE stage' = "end" /\ answer' \in {"cancelled", "late"}
    BY <2>1, <2>3, <2>5, DataStays DEF DataInv
  <2> QED
    BY <2>2, <2>4, <2>5
<1> QED
  BY <1>1, <1>2

\* The stages that make no data.
LEMMA CallsKeepData ==
    ASSUME DataInv, Decode \/ Preprocess \/ Detect \/ Recognize \/ RuntimeReturns PROVE DataInv'
<1>1. UNCHANGED data
  BY DEF Decode, Preprocess, Detect, Recognize, RuntimeReturns, DetectorReturns,
         RecognizerReturns, Call, data, work, context
<1>2. "end" \in Stages /\ "end" \notin Early /\ "end" \notin Working
  BY DEF Stages, Early, Working, Recognition
<1>3. CASE Decode \/ Preprocess
  <2>1. stage \in Early /\ UNCHANGED <<output, fault>>
    BY <1>3 DEF Decode, Preprocess, At, Early, work
  <2>2. \/ stage' \in {"preprocess", "detect"} /\ answer' = answer
        \/ stage' = "end" /\ answer' \in {"invalid_request", "invalid_image"}
    BY <1>3 DEF Decode, Preprocess, Answer, Continue
  <2>3. /\ {"preprocess", "detect"} \subseteq Early /\ Early \cap Working = {}
        /\ Early \subseteq Stages /\ stage # "end"
    BY <2>1 DEF Early, Working, Recognition, Stages
  <2>4. answer = "none"
    BY <2>3 DEF DataInv
  <2>5. CASE stage' \in {"preprocess", "detect"} /\ answer' = answer
    <3>1. stage' \in Early /\ stage' \in Stages /\ stage' \notin Working
      BY <2>3, <2>5
    <3> QED
      BY <1>1, <2>1, <2>4, <2>5, <3>1, DataStays DEF DataInv
  <2>6. CASE stage' = "end" /\ answer' \in {"invalid_request", "invalid_image"}
    BY <1>1, <1>2, <2>1, <2>6, DataStays DEF DataInv
  <2> QED
    BY <2>2, <2>5, <2>6
<1>4. CASE Detect
  <2>1. /\ stage = "detect" /\ stage' = "detecting"
        /\ UNCHANGED <<answer, output, fault>>
    BY <1>4 DEF Detect, At, Call, work
  <2>2. /\ stage \in Early /\ stage' \in Stages /\ stage' \notin Working /\ stage # "end"
    BY <2>1 DEF Early, Working, Recognition, Stages
  <2> QED
    BY <1>1, <2>1, <2>2, DataStays DEF DataInv
<1>5. CASE Recognize
  <2>1. /\ stage = "recognize" /\ stage' = "recognizing"
        /\ UNCHANGED <<answer, output, fault>>
    BY <1>5 DEF Recognize, At, Call, work
  <2>2. /\ stage \in Working /\ stage' \in Stages /\ stage' \notin Early /\ stage # "end"
    BY <2>1 DEF Early, Working, Recognition, Stages
  <2>3. ProgressAt("recognize")
    BY <2>1, <2>2 DEF DataInv
  <2>4. ProgressAt("recognizing")
    BY <2>3 DEF ProgressAt, Recognition
  <2>5. answer = "none"
    BY <2>2 DEF DataInv
  <2> QED
    BY <1>1, <2>1, <2>2, <2>4, <2>5, DataStays DEF DataInv
<1>6. CASE DetectorReturns \/ RecognizerReturns
  <2>1. PICK next \in {"postprocess", "read"} :
           /\ Return(next)
           /\ next = "postprocess" => stage = "detecting"
           /\ next = "read" => stage = "recognizing"
    BY <1>6 DEF DetectorReturns, RecognizerReturns
  <2>2. stage # "end" /\ next \in Stages
    BY <2>1 DEF Stages
  <2>3. answer = "none"
    BY <2>2 DEF DataInv
  <2>4. \/ stage' = next /\ UNCHANGED answer /\ output' \in {"good", "bad"}
             /\ fault' = (fault \/ output' = "bad")
        \/ stage' = "end" /\ answer' \in {"cancelled", "late"} /\ UNCHANGED <<output, fault>>
        \/ stage' = "end" /\ answer' = "internal" /\ fault' = TRUE /\ UNCHANGED output
    BY <2>1 DEF Return, Continue, Answer, StopCode
  <2>5. next \in Early => stage \in Early
    BY <2>1 DEF Early
  <2>6. next \in Working => ProgressAt(next)
    <3>1. CASE next = "postprocess"
      BY <3>1 DEF Working, Recognition
    <3>2. CASE next = "read"
      <4>1. stage = "recognizing" /\ stage \in Working
        BY <2>1, <3>2 DEF Working, Recognition
      <4>2. ProgressAt("recognizing")
        BY <4>1 DEF DataInv
      <4> QED
        BY <3>2, <4>2 DEF ProgressAt, Recognition
    <3> QED
      BY <2>1, <3>1, <3>2
  <2>7. CASE /\ stage' = next /\ UNCHANGED answer /\ output' \in {"good", "bad"}
             /\ fault' = (fault \/ output' = "bad")
    BY <1>1, <2>2, <2>3, <2>5, <2>6, <2>7, DataStays DEF DataInv
  <2>8. CASE stage' = "end" /\ answer' \in {"cancelled", "late"} /\ UNCHANGED <<output, fault>>
    BY <1>1, <1>2, <2>8, DataStays DEF DataInv
  <2>9. CASE stage' = "end" /\ answer' = "internal" /\ fault' = TRUE /\ UNCHANGED output
    BY <1>1, <1>2, <2>9, DataStays DEF DataInv
  <2> QED
    BY <2>4, <2>7, <2>8, <2>9
<1> QED
  BY <1>3, <1>4, <1>5, <1>6 DEF RuntimeReturns

\* The stages that make data.
LEMMA PostprocessKeepsData == ASSUME DataInv, Postprocess PROVE DataInv'
<1>1. stage = "postprocess" /\ UNCHANGED <<image, crops, sequences, blocks, seen, output, fault>>
  BY DEF Postprocess, At, context
<1>2. /\ stage \in Early /\ stage # "end" /\ "end" \in Stages /\ "crop" \in Stages
      /\ "end" \notin Early /\ "end" \notin Working /\ "crop" \notin Early
  BY <1>1 DEF Early, Stages, Working, Recognition
<1>3. answer = "none" /\ crops = <<>> /\ sequences = <<>> /\ blocks = <<>> /\ seen = 0
  BY <1>2 DEF DataInv
<1>4. \/ /\ output = "bad" /\ stage' = "end" /\ answer' = "internal" /\ UNCHANGED regions
      \/ /\ stage' = "end" /\ answer' \in {"cancelled", "late"} /\ UNCHANGED regions
      \/ /\ regions' = ReadingOrder(image) /\ stage' = "crop" /\ UNCHANGED answer
  BY DEF Postprocess, Answer, Continue, StopCode
<1>5. CASE output = "bad" /\ stage' = "end" /\ answer' = "internal" /\ UNCHANGED regions
  BY <1>1, <1>2, <1>5, DataStays DEF DataInv, data
<1>6. CASE stage' = "end" /\ answer' \in {"cancelled", "late"} /\ UNCHANGED regions
  BY <1>1, <1>2, <1>6, DataStays DEF DataInv, data
<1>7. CASE regions' = ReadingOrder(image) /\ stage' = "crop" /\ UNCHANGED answer
  <2>1. Len(image) \in Nat
    BY OrderedRegions DEF DataInv
  <2>2. 0 \in 0..Len(image) /\ (0 < Len(image) \/ Len(image) = 0)
    BY <2>1
  <2>3. crops' = CropsOf(regions', 0) /\ sequences' = ReadingsOf(regions', 0)
    BY <1>1, <1>3 DEF CropsOf, ReadingsOf
  <2>4. Assembled(blocks', regions', seen')
    <3>1. PICK r : r = regions'
      OBVIOUS
    <3>2. Assembled(<<>>, r, 0)
      BY NothingAssembled
    <3> QED
      BY <1>1, <1>3, <3>1, <3>2
  <2>5. "crop" \notin Recognition /\ "crop" # "assemble"
    BY DEF Recognition
  <2>6. ProgressAt("crop")'
    BY <1>1, <1>3, <1>7, <2>2, <2>3, <2>4, <2>5 DEF ProgressAt
  <2>7. ~(answer' = "result") /\ ~(answer' = "internal")
    BY <1>3, <1>7
  <2> QED
    BY <1>1, <1>2, <1>3, <1>7, <2>6, <2>7 DEF DataInv, WholeResultsAreValid
<1> QED
  BY <1>4, <1>5, <1>6, <1>7

LEMMA NothingFoundKeepsData == ASSUME DataInv, NothingFound PROVE DataInv'
<1>1. /\ stage = "crop" /\ regions = <<>> /\ UNCHANGED data /\ UNCHANGED <<output, fault>>
      /\ stage' = "end"
      /\ answer' = IF InReadingOrder(<<>>) /\ \A i \in DOMAIN <<>> : Plain(<<>>[i])
                      THEN "result" ELSE "internal"
  BY DEF NothingFound, At, FinishResult, Answer, context, work, data
<1>2. /\ stage \in Working /\ "end" \in Stages /\ "end" \notin Early /\ "end" \notin Working
  BY <1>1 DEF Early, Stages, Working, Recognition
<1>3. PICK c, d \in 0..Len(image) :
        /\ regions = ReadingOrder(image) /\ Assembled(blocks, regions, seen) /\ seen = 0
  BY <1>1, <1>2 DEF DataInv, ProgressAt
<1>4. PICK r : r = ReadingOrder(image)
  OBVIOUS
<1>5. PICK n : n = Len(image)
  OBVIOUS
<1>6. n \in Nat /\ r \in [1..n -> Regions]
  BY <1>4, <1>5, OrderedRegions DEF DataInv
<1>7. n = 0
  BY <1>1, <1>3, <1>4, <1>6
<1>8. InReadingOrder(<<>>)
  <2>1. Worthy(r, n) = 1..n
    BY <1>7 DEF Worthy
  <2>2. Assembled(<<>>, r, n)
    BY <1>7, NothingAssembled
  <2> QED
    BY <1>4, <1>5, <2>1, <2>2, WholeIsInOrder DEF DataInv
<1>9. answer' = "result"
  BY <1>1, <1>8
<1>10. Delivered
  BY <1>3, <1>5, <1>7 DEF Delivered
<1> QED
  BY <1>1, <1>2, <1>9, <1>10, DataStays DEF DataInv

LEMMA CropsKeepData == ASSUME DataInv, CropRegion PROVE DataInv'
<1>1. /\ stage = "crop" /\ Len(crops) < Len(regions)
      /\ UNCHANGED <<image, regions, sequences, blocks, seen, output, fault>>
  BY DEF CropRegion, At, context
<1>2. /\ stage \in Working /\ stage # "end" /\ "end" \in Stages /\ "end" \notin Early
      /\ "end" \notin Working /\ {"crop", "recognize"} \subseteq Stages
      /\ "crop" \notin Early /\ "recognize" \notin Early
  BY <1>1 DEF Early, Stages, Working, Recognition
<1>3. answer = "none" /\ ProgressAt("crop")
  BY <1>1, <1>2 DEF DataInv
<1>4. \/ /\ crops' = Append(crops, CropOf(regions[Len(crops) + 1])) /\ UNCHANGED answer
         /\ stage' = IF Len(crops) + 1 = Len(regions) THEN "recognize" ELSE "crop"
      \/ /\ stage' = "end" /\ answer' \in {"invalid_image", "overloaded"} /\ UNCHANGED crops
  BY DEF CropRegion, Answer, Continue
<1>5. CASE stage' = "end" /\ answer' \in {"invalid_image", "overloaded"} /\ UNCHANGED crops
  BY <1>1, <1>2, <1>5, DataStays DEF DataInv, data
<1>6. CASE /\ crops' = Append(crops, CropOf(regions[Len(crops) + 1])) /\ UNCHANGED answer
           /\ stage' = IF Len(crops) + 1 = Len(regions) THEN "recognize" ELSE "crop"
  <2>1. PICK c, d \in 0..Len(image) :
          /\ regions = ReadingOrder(image)
          /\ crops = CropsOf(regions, c) /\ sequences = ReadingsOf(regions, d)
          /\ Assembled(blocks, regions, seen)
          /\ d = 0 /\ seen = 0 /\ (c < Len(image) \/ Len(image) = 0)
    BY <1>3 DEF ProgressAt
  <2>2. PICK r : r = regions
    OBVIOUS
  <2>3. PICK n : n = Len(image)
    OBVIOUS
  <2>4. n \in Nat /\ r \in [1..n -> Regions] /\ Len(regions) = n
    BY <2>1, <2>2, <2>3, OrderedRegions DEF DataInv
  <2>5. c \in Nat /\ Len(crops) = c
    BY <2>1, <2>3, <2>4 DEF CropsOf
  <2>6. c < n /\ c + 1 \in 0..n
    BY <1>1, <2>3, <2>4, <2>5
  <2>7. crops' = CropsOf(regions', c + 1)
    <3> DEFINE Z == {CropOf(r[i]) : i \in 1..n}
    <3>1. \A i \in 1..(c + 1) : i \in 1..n
      BY <2>4, <2>6
    <3>2. PICK old : old = crops
      OBVIOUS
    <3>3. old \in [1..c -> Z] /\ \A i \in 1..c : old[i] = CropOf(r[i])
      BY <2>1, <2>2, <2>5, <3>1, <3>2 DEF CropsOf
    <3>4. PICK e \in Z : e = CropOf(r[c + 1])
      BY <2>5, <3>1
    <3> HIDE DEF Z
    <3>5. Append(old, e) = [i \in 1..(c + 1) |-> IF i = c + 1 THEN e ELSE old[i]]
      <4>1. old \in Seq(Z) /\ Len(old) = c
        BY <2>5, <3>3
      <4>2. PICK all : all = Append(old, e)
        OBVIOUS
      <4>3. all \in Seq(Z) /\ Len(all) = c + 1
        BY <2>5, <4>1, <4>2, AppendProperties
      <4>4. \A i \in 1..(c + 1) : all[i] = IF i = c + 1 THEN e ELSE old[i]
        BY <2>5, <4>1, <4>2
      <4>5. all = [i \in 1..(c + 1) |-> all[i]]
        BY <4>3
      <4> QED
        BY <4>2, <4>4, <4>5
    <3>6. \A i \in 1..(c + 1) : (IF i = c + 1 THEN e ELSE old[i]) = CropOf(r[i])
      BY <2>5, <3>3, <3>4
    <3>7. Append(old, e) = CropsOf(r, c + 1)
      BY <3>5, <3>6 DEF CropsOf
    <3> QED
      BY <1>1, <1>6, <2>2, <2>5, <3>2, <3>4, <3>7
  <2>8. stage' = "crop" => c + 1 < n
    BY <1>6, <2>4, <2>5, <2>6
  <2>9. stage' = "recognize" => c + 1 = n /\ 0 < n
    BY <1>6, <2>4, <2>5
  <2>10. \/ stage' = "crop" /\ "crop" \notin Recognition
         \/ stage' = "recognize"
    BY <1>6 DEF Recognition
  <2>11. ProgressAt(stage)'
    <3>1. /\ c + 1 \in 0..Len(image)' /\ d \in 0..Len(image)'
          /\ regions' = ReadingOrder(image') /\ sequences' = ReadingsOf(regions', d)
          /\ seen' \in 0..Len(image)' /\ Assembled(blocks', regions', seen')
      BY <1>1, <2>1, <2>3, <2>6
    <3>2. stage' = "crop" => d = 0 /\ seen' = 0 /\ (c + 1 < Len(image') \/ Len(image') = 0)
      BY <1>1, <2>1, <2>3, <2>8
    <3>3. stage' \in Recognition => c + 1 = Len(image') /\ d < Len(image') /\ seen' = 0
      BY <1>1, <2>1, <2>3, <2>9, <2>10
    <3>4. stage' # "assemble"
      BY <2>10
    <3> QED
      BY <2>7, <3>1, <3>2, <3>3, <3>4 DEF ProgressAt
  <2>12. stage' \in Stages /\ stage' \notin Early /\ stage' # "end"
    BY <1>2, <2>10
  <2>13. answer' = "none" /\ ~(answer' = "result") /\ ~(answer' = "internal")
    BY <1>3, <1>6
  <2> QED
    BY <1>1, <2>11, <2>12, <2>13 DEF DataInv, WholeResultsAreValid
<1> QED
  BY <1>4, <1>5, <1>6

LEMMA ReadKeepsData == ASSUME DataInv, Read PROVE DataInv'
<1>1. /\ stage = "read"
      /\ UNCHANGED <<image, regions, crops, blocks, seen, output, fault>>
  BY DEF Read, At, context
<1>2. /\ stage \in Working /\ stage \in Recognition /\ stage # "end" /\ "end" \in Stages
      /\ "end" \notin Early /\ "end" \notin Working /\ {"assemble", "recognize"} \subseteq Stages
      /\ "assemble" \notin Early /\ "recognize" \notin Early
  BY <1>1 DEF Early, Stages, Working, Recognition
<1>3. answer = "none" /\ ProgressAt("read")
  BY <1>1, <1>2 DEF DataInv
<1>4. \/ output = "bad" /\ stage' = "end" /\ answer' = "internal" /\ UNCHANGED sequences
      \/ /\ sequences' = sequences \o BatchReadings /\ UNCHANGED answer
         /\ stage' = IF Len(sequences') < Len(crops) THEN "recognize" ELSE "assemble"
  BY DEF Read, Answer, Continue, BatchReadings, SortedReadings
<1>5. CASE output = "bad" /\ stage' = "end" /\ answer' = "internal" /\ UNCHANGED sequences
  BY <1>1, <1>2, <1>5, DataStays DEF DataInv, data
<1>6. CASE /\ sequences' = sequences \o BatchReadings /\ UNCHANGED answer
           /\ stage' = IF Len(sequences') < Len(crops) THEN "recognize" ELSE "assemble"
  <2>1. PICK c, d \in 0..Len(image) :
          /\ regions = ReadingOrder(image)
          /\ crops = CropsOf(regions, c) /\ sequences = ReadingsOf(regions, d)
          /\ Assembled(blocks, regions, seen)
          /\ c = Len(image) /\ d < Len(image) /\ seen = 0
    BY <1>2, <1>3 DEF ProgressAt, Recognition
  <2>2. PICK r : r = regions
    OBVIOUS
  <2>3. PICK n : n = Len(image)
    OBVIOUS
  <2>4. n \in Nat /\ r \in [1..n -> Regions] /\ Len(regions) = n
    BY <2>1, <2>2, <2>3, OrderedRegions DEF DataInv
  <2>5. d \in 0..(n - 1) /\ crops = CropsOf(r, n) /\ sequences = ReadingsOf(r, d)
    BY <2>1, <2>2, <2>3, <2>4
  <2>6. PICK e \in (d + 1)..n : sequences \o BatchReadings = ReadingsOf(r, e)
    BY <2>4, <2>5, ReadingsGrow
  <2>7. sequences' = ReadingsOf(r, e)
    BY <1>6, <2>6
  <2>8. Len(sequences') = e /\ Len(crops) = n /\ e \in 0..n
    <3>1. e \in Nat /\ e \in 0..n
      BY <2>5
    <3> QED
      BY <2>4, <2>5, <2>7, <3>1 DEF ReadingsOf, CropsOf
  <2>9. \/ stage' = "recognize" /\ e < n
        \/ stage' = "assemble" /\ e = n /\ "assemble" \notin Recognition
    <3>1. ~(e < n) => e = n
      BY <2>4, <2>8
    <3>2. "assemble" \notin Recognition
      BY DEF Recognition
    <3> QED
      BY <1>6, <2>8, <3>1, <3>2
  <2>10. 0 < n
    BY <2>4, <2>5
  <2>11. ProgressAt(stage)'
    <3>1. /\ c \in 0..Len(image)' /\ e \in 0..Len(image)'
          /\ regions' = ReadingOrder(image') /\ crops' = CropsOf(regions', c)
          /\ seen' \in 0..Len(image)' /\ Assembled(blocks', regions', seen')
      BY <1>1, <2>1, <2>3, <2>4, <2>8
    <3>2. sequences' = ReadingsOf(regions', e)
      BY <1>1, <2>2, <2>7
    <3>3. stage' \in Recognition => c = Len(image') /\ e < Len(image') /\ seen' = 0
      BY <1>1, <2>1, <2>3, <2>9
    <3>4. stage' = "assemble" => c = Len(image') /\ e = Len(image') /\ seen' < Len(image')
      BY <1>1, <2>1, <2>3, <2>9, <2>10
    <3>5. stage' # "crop"
      BY <2>9
    <3> QED
      BY <3>1, <3>2, <3>3, <3>4, <3>5 DEF ProgressAt
  <2>12. stage' \in Stages /\ stage' \notin Early /\ stage' # "end"
    BY <1>2, <2>9
  <2>13. answer' = "none" /\ ~(answer' = "result") /\ ~(answer' = "internal")
    BY <1>3, <1>6
  <2> QED
    BY <1>1, <2>11, <2>12, <2>13 DEF DataInv, WholeResultsAreValid
<1> QED
  BY <1>4, <1>5, <1>6

LEMMA AssembleKeepsData == ASSUME DataInv, Assemble PROVE DataInv'
<1>1. /\ stage = "assemble" /\ seen' = seen + 1
      /\ UNCHANGED <<image, regions, crops, sequences, output, fault>>
  BY DEF Assemble, At, context
<1>2. /\ stage \in Working /\ stage # "end" /\ "end" \in Stages /\ "end" \notin Early
      /\ "end" \notin Working /\ "assemble" \in Stages
      /\ "assemble" \notin Early /\ "assemble" \notin Recognition
  BY <1>1 DEF Early, Stages, Working, Recognition
<1>3. answer = "none" /\ ProgressAt("assemble")
  BY <1>1, <1>2 DEF DataInv
<1>4. PICK c, d \in 0..Len(image) :
        /\ regions = ReadingOrder(image)
        /\ crops = CropsOf(regions, c) /\ sequences = ReadingsOf(regions, d)
        /\ Assembled(blocks, regions, seen) /\ seen \in 0..Len(image)
        /\ c = Len(image) /\ d = Len(image) /\ seen < Len(image)
  BY <1>3 DEF ProgressAt
<1>5. PICK r : r = regions
  OBVIOUS
<1>6. PICK n : n = Len(image)
  OBVIOUS
<1>7. n \in Nat /\ r \in [1..n -> Regions] /\ Len(regions) = n
  BY <1>4, <1>5, <1>6, OrderedRegions DEF DataInv
<1>8. PICK t \in 0..(n - 1) : t = seen
  BY <1>4, <1>6, <1>7
<1>9. PICK b : b = blocks'
  OBVIOUS
<1>10. Block(seen') = Block(t + 1) /\ b = blocks \o Block(t + 1)
  <2>1. Block(seen)' = Block(seen')
    BY <1>1 DEF Block
  <2>2. b = blocks \o Block(seen')
    BY <1>9 DEF Assemble
  <2> QED
    BY <1>1, <1>8, <2>2
<1>11. Assembled(b, r, t + 1)
  <2>1. PICK a : a = blocks
    OBVIOUS
  <2>2. Assembled(a, r, t)
    BY <1>4, <1>5, <1>8, <2>1
  <2>3. Assembled(a \o Block(t + 1), r, t + 1)
    BY <1>4, <1>5, <1>6, <1>7, <2>2, AssembleOne
  <2> QED
    BY <1>10, <2>1, <2>3
<1>12. \/ /\ t + 1 = n /\ stage' = "end"
          /\ answer' = IF InReadingOrder(b) /\ \A i \in DOMAIN b : Plain(b[i])
                          THEN "result" ELSE "internal"
       \/ /\ t + 1 # n /\ stage' = "assemble" /\ UNCHANGED answer
  BY <1>1, <1>7, <1>8, <1>9 DEF Assemble, FinishResult, Answer, Continue
<1>13. image' \in Images /\ output' \in {"good", "bad"} /\ (output' = "bad" => fault')
  BY <1>1 DEF DataInv
<1>14. CASE t + 1 # n /\ stage' = "assemble" /\ UNCHANGED answer
  <2>1. seen' \in 0..n /\ seen' < n
    BY <1>1, <1>7, <1>8, <1>14
  <2>2. ProgressAt("assemble")'
    <3>1. /\ c \in 0..Len(image)' /\ d \in 0..Len(image)'
          /\ regions' = ReadingOrder(image') /\ crops' = CropsOf(regions', c)
          /\ sequences' = ReadingsOf(regions', d)
      BY <1>1, <1>4
    <3>2. Assembled(blocks', regions', seen') /\ seen' \in 0..Len(image')
      BY <1>1, <1>5, <1>6, <1>8, <1>9, <1>11, <2>1
    <3>3. c = Len(image') /\ d = Len(image') /\ seen' < Len(image')
      BY <1>1, <1>4, <1>6, <2>1
    <3> QED
      BY <1>2, <3>1, <3>2, <3>3 DEF ProgressAt
  <2>3. ~(answer' = "result") /\ ~(answer' = "internal") /\ answer' = "none"
    BY <1>3, <1>14
  <2> QED
    BY <1>2, <1>13, <1>14, <2>2, <2>3 DEF DataInv, WholeResultsAreValid
<1>15. CASE /\ t + 1 = n /\ stage' = "end"
            /\ answer' = IF InReadingOrder(b) /\ \A i \in DOMAIN b : Plain(b[i])
                            THEN "result" ELSE "internal"
  <2>1. Assembled(b, r, n)
    BY <1>11, <1>15
  <2>2. Delivered'
    BY <1>1, <1>4, <1>5, <1>6, <1>9, <2>1 DEF Delivered
  <2>3. WholeResultsAreValid'
    <3> SUFFICES ASSUME answer' = "internal"
                 PROVE  (\E i \in DOMAIN sequences : Block(i) = <<>>)'
                           \/ (\E i \in DOMAIN blocks : ~Plain(blocks[i]))'
      BY DEF WholeResultsAreValid
    <3>1. ~InReadingOrder(b) \/ \E i \in DOMAIN b : ~Plain(b[i])
      BY <1>15
    <3>2. CASE \E i \in DOMAIN b : ~Plain(b[i])
      BY <1>9, <3>2 DEF Plain
    <3>3. CASE ~InReadingOrder(b)
      <4>1. Worthy(r, n) # 1..n
        BY <1>4, <1>5, <1>6, <2>1, <3>3, WholeIsInOrder DEF DataInv
      <4>2. PICK i \in 1..n : ~(Reading(r[i]) # <<>> /\ r[i].clear)
        BY <4>1 DEF Worthy
      <4>3. r[i].clear \in BOOLEAN
        BY <1>7, RegionFields
      <4>4. Block(i) = <<>>
        BY <1>4, <1>5, <1>6, <1>7, <4>2, <4>3, BlockIs
      <4>5. Block(i)' = <<>>
        BY <1>1, <4>4 DEF Block
      <4>6. DOMAIN sequences' = 1..n
        BY <1>1, <1>4, <1>6 DEF ReadingsOf
      <4> QED
        BY <4>5, <4>6
    <3> QED
      BY <3>1, <3>2, <3>3
  <2>4. answer' \in {"result", "internal"} /\ stage' = "end"
    BY <1>15
  <2> QED
    BY <1>2, <1>13, <2>2, <2>3, <2>4 DEF DataInv
<1> QED
  BY <1>12, <1>14, <1>15

\* Every stage of the engine keeps its data together: the crops are those of the
\* regions, the texts those of the crops, and the blocks those of the texts.
THEOREM DataHolds == Spec => []DataInv
<1>1. DataInv /\ [Next]_vars => DataInv'
  BY ChecksKeepData, CallsKeepData, PostprocessKeepsData, NothingFoundKeepsData,
     CropsKeepData, ReadKeepsData, AssembleKeepsData DEF Next, Work
<1> QED
  BY <1>1, DataStarts, PTL DEF Spec

LEMMA DeliveredTexts == ASSUME DataInv PROVE TextsOfTheirRegions
<1> SUFFICES ASSUME answer = "result" PROVE TextsOfTheirRegions
  BY DEF TextsOfTheirRegions
<1>1. PICK r : r = regions
  OBVIOUS
<1>2. PICK n : n = Len(image)
  OBVIOUS
<1>3. r = ReadingOrder(image) /\ Assembled(blocks, r, n)
  BY <1>1, <1>2 DEF DataInv, Delivered
<1>4. /\ n \in Nat /\ r \in [1..n -> Regions] /\ ToBag(r) = ToBag(image)
      /\ \A a \in 1..(n - 1) : ~Reversed(r[a], r[a + 1])
  BY <1>2, <1>3, OrderedRegions DEF DataInv
<1>5. DOMAIN r = 1..n /\ Len(r) = n
  BY <1>4
<1>6. PICK b : b = blocks
  OBVIOUS
<1>7. b = TextsOf(KeptOf(ReadOf(r)))
  BY <1>3, <1>4, <1>6, AssembledTexts
<1>8. blocks = TextsOf(KeptOf(ReadOf(regions)))
  BY <1>1, <1>6, <1>7
<1> QED
  BY <1>1, <1>4, <1>5, <1>8 DEF TextsOfTheirRegions, TextsOf, KeptOf, ReadOf

\* A result has each region of the image that reads as something, with its own
\* text and in the order of the regions, whatever the order of the batches.
THEOREM TextsHold == Spec => []TextsOfTheirRegions
BY DeliveredTexts, DataHolds, PTL

\* The order of the engine passes the engine's own validation, unless a region
\* was left out: an internal error has another cause.
THEOREM WholeResultsHold == Spec => []WholeResultsAreValid
<1>1. DataInv => WholeResultsAreValid
  BY DEF DataInv
<1> QED
  BY <1>1, DataHolds, PTL
==============================================================================
