--------------------------- MODULE WebLocksProofs ---------------------------
(***************************************************************************)
(* Proofs about WebLocks: what the registry grants is compatible, in       *)
(* order, and never kept waiting; every entry of the registry has somebody *)
(* who will remove it; and a running callback holds its lock.              *)
(*                                                                         *)
(* The argument has two halves.  In the registry, each function of the     *)
(* main thread gives a queue and the held locks of a name a new value      *)
(* (requests dropped, one request added) and processes the queue: NameStep *)
(* says what that preserves, and Effect what it does to one request,       *)
(* seen with the answers it sends.  Between the registry and the managers, *)
(* Delivery says which answers are on their way after a step.  IInv ties   *)
(* the two together, one request at a time: where a request can be while   *)
(* an answer about it is on its way, and who still waits for it.           *)
(***************************************************************************)
EXTENDS WebLocks, FiniteSetTheorems, SequenceTheorems, TLAPS

(* Every nonempty set of naturals has a least element. *)
LEMMA LeastNatural ==
    ASSUME NEW S, S \subseteq Nat, S # {}
    PROVE  \E n \in S : \A m \in S : n <= m
<1> DEFINE R == OpToRel(<, Nat)
<1>1. IsWellFoundedOn(R, Nat)
    BY NatLessThanWellFounded
<1> HIDE DEF R
<1>2. PICK n \in S : \A m \in S : ~ (<<m, n>> \in R)
    BY <1>1, WFMin
<1>3. \A m \in S : ~ (m < n)
    BY <1>2 DEF R, OpToRel
<1> QED
    BY <1>3

(* A recursive function on 0..n exists. *)
LEMMA Recursion ==
    ASSUME NEW X, NEW a \in X, NEW n \in Nat, NEW G \in [1..n -> [X -> X]]
    PROVE  \E f \in [0..n -> X] :
               f[0] = a /\ \A i \in 1..n : f[i] = G[i][f[i - 1]]
<1> DEFINE Is(m, f) == f[0] = a /\ \A i \in 1..m : f[i] = G[i][f[i - 1]]
<1> DEFINE Bad == {m \in 0..n : ~ \E f \in [0..m -> X] : Is(m, f)}
<1> SUFFICES ASSUME n \in Bad PROVE FALSE
    OBVIOUS
<1>1. PICK m \in Bad : \A l \in Bad : m <= l
  <2>1. Bad \subseteq Nat /\ Bad # {}
    OBVIOUS
  <2> HIDE DEF Bad
  <2> QED BY <2>1, LeastNatural
<1>2. m # 0
  <2>1. [i \in 0..0 |-> a] \in [0..0 -> X] /\ Is(0, [i \in 0..0 |-> a])
    OBVIOUS
  <2> QED BY <2>1
<1>3. m - 1 \in 0..n /\ m - 1 \notin Bad
  <2>1. m \in 0..n
    OBVIOUS
  <2> HIDE DEF Bad
  <2> QED BY <1>1, <1>2, <2>1
<1>4. PICK f \in [0..(m - 1) -> X] : Is(m - 1, f)
    BY <1>3
<1> DEFINE g == [i \in 0..m |-> IF i = m THEN G[m][f[m - 1]] ELSE f[i]]
<1>5. g \in [0..m -> X]
    BY <1>2
<1>6. Is(m, g)
    BY <1>2, <1>4
<1> QED
    BY <1>1, <1>5, <1>6

(* What a concatenation contains.                                          *)
LEMMA ConcatContains ==
    ASSUME NEW T, NEW s \in Seq(T), NEW t \in Seq(T), NEW x
    PROVE  Contains(s \o t, x) <=> Contains(s, x) \/ Contains(t, x)
<1>1. ASSUME NEW i \in 1..Len(t)
      PROVE  (s \o t)[Len(s) + i] = t[i] /\ Len(s) + i \in 1..Len(s \o t)
    OBVIOUS
<1>2. Contains(t, x) => Contains(s \o t, x)
    BY <1>1 DEF Contains
<1>3. Contains(s, x) => Contains(s \o t, x)
    BY DEF Contains
<1>4. Contains(s \o t, x) => Contains(s, x) \/ Contains(t, x)
  <2> SUFFICES ASSUME NEW i \in 1..Len(s \o t), (s \o t)[i] = x
               PROVE  Contains(s, x) \/ Contains(t, x)
    BY DEF Contains
  <2>1. CASE i <= Len(s)
    BY <2>1 DEF Contains
  <2>2. CASE i > Len(s)
    <3>1. i - Len(s) \in 1..Len(t) /\ t[i - Len(s)] = x
      BY <2>2
    <3> QED BY <3>1 DEF Contains
  <2> QED BY <2>1, <2>2
<1> QED
    BY <1>2, <1>3, <1>4

(* What is selected is a subsequence: an increasing f gives its places. *)
Picks(r, s, S, n, f) ==
    /\ f \in [1..Len(r) -> 1..n]
    /\ \A j, k \in 1..Len(r) : j < k => f[j] < f[k]
    /\ \A k \in 1..Len(r) : r[k] = s[f[k]] /\ r[k] \in S
    /\ \A i \in 1..n : s[i] \in S => \E k \in 1..Len(r) : f[k] = i

(* Selected() picks the elements of s that are in S.                       *)
LEMMA SelectedPicks ==
    ASSUME NEW T, NEW s \in Seq(T), NEW S
    PROVE  /\ Selected(s, S) \in Seq(T)
           /\ \E f : Picks(Selected(s, S), s, S, Len(s), f)
<1> DEFINE Step(i, r) == IF s[i] \in S THEN Append(r, s[i]) ELSE r
           Eqn(g) == [i \in 0..Len(s) |->
                        IF i = 0 THEN <<>>
                        ELSE IF s[i] \in S THEN Append(g[i - 1], s[i]) ELSE g[i - 1]]
           G == [i \in 1..Len(s) |-> [r \in Seq(T) |-> Step(i, r)]]
           upTo == CHOOSE g : g = Eqn(g)
<1>1. Selected(s, S) = upTo[Len(s)]
    BY DEF Selected
<1>2. upTo = Eqn(upTo)
  <2>1. G \in [1..Len(s) -> [Seq(T) -> Seq(T)]]
    OBVIOUS
  <2>2. <<>> \in Seq(T) /\ Len(s) \in Nat
    OBVIOUS
  <2> HIDE DEF G
  <2>3. PICK g \in [0..Len(s) -> Seq(T)] :
            g[0] = <<>> /\ \A i \in 1..Len(s) : g[i] = G[i][g[i - 1]]
    <3> DEFINE X == Seq(T)
               a == <<>>
               N == Len(s)
    <3>1. a \in X /\ N \in Nat /\ G \in [1..N -> [X -> X]]
      BY <2>1, <2>2
    <3> HIDE DEF X, a, N
    <3>2. \E f \in [0..N -> X] : f[0] = a /\ \A i \in 1..N : f[i] = G[i][f[i - 1]]
      BY ONLY <3>1, Recursion
    <3> QED BY <3>2 DEF X, a, N
  <2>4. g = Eqn(g)
    <3>1. ASSUME NEW i \in 1..Len(s)
          PROVE  g[i] = Step(i, g[i - 1])
      <4>1. i - 1 \in 0..Len(s) /\ g[i - 1] \in Seq(T)
        BY <2>2
      <4>2. G[i][g[i - 1]] = Step(i, g[i - 1])
        BY <4>1 DEF G
      <4> QED BY <2>3, <4>2
    <3>2. ASSUME NEW i \in 0..Len(s)
          PROVE  g[i] = Eqn(g)[i]
      <4>1. CASE i = 0
        BY <2>3, <4>1
      <4>2. CASE i # 0
        <5>1. i \in 1..Len(s)
          BY <2>2, <4>2
        <5> QED BY <3>1, <4>2, <5>1
      <4> QED BY <4>1, <4>2
    <3> QED BY <2>3, <3>2
  <2> HIDE DEF Eqn
  <2> QED BY <2>4
<1> HIDE DEF upTo
<1>3. upTo[0] = <<>> /\ \A i \in 1..Len(s) : upTo[i] = Step(i, upTo[i - 1])
  <2>1. \A i \in 0..Len(s) : upTo[i] = Eqn(upTo)[i]
    BY <1>2
  <2> QED BY <2>1
<1> DEFINE Good(n) == upTo[n] \in Seq(T) /\ \E f : Picks(upTo[n], s, S, n, f)
           Bad == {n \in 0..Len(s) : ~ Good(n)}
<1> SUFFICES ASSUME Bad # {} PROVE FALSE
    BY <1>1
<1>4. PICK n \in Bad : \A m \in Bad : n <= m
  <2>1. Bad \subseteq Nat
    OBVIOUS
  <2> HIDE DEF Bad
  <2> QED BY <2>1, LeastNatural
<1>5. n \in 0..Len(s)
    OBVIOUS
<1>6. n # 0
  <2>1. Picks(<<>>, s, S, 0, <<>>)
    BY DEF Picks
  <2>2. Good(0)
    BY <1>3, <2>1
  <2> QED BY <2>2
<1>7. n - 1 \in 0..Len(s) /\ n - 1 \notin Bad
  <2> HIDE DEF Bad
  <2> QED BY <1>4, <1>5, <1>6
<1>8. Good(n - 1)
    BY <1>7
<1>9. PICK f : Picks(upTo[n - 1], s, S, n - 1, f)
    BY <1>8
<1> DEFINE r == upTo[n - 1]
<1>10. r \in Seq(T) /\ upTo[n] = Step(n, r) /\ n \in 1..Len(s) /\ s[n] \in T
    BY <1>3, <1>5, <1>6, <1>8
<1> HIDE DEF r
<1>11. CASE s[n] \in S
  <2> DEFINE g == [k \in 1..(Len(r) + 1) |-> IF k <= Len(r) THEN f[k] ELSE n]
  <2>1. upTo[n] = Append(r, s[n])
    BY <1>10, <1>11
  <2>2. Picks(Append(r, s[n]), s, S, n, g)
    <3>1. Picks(r, s, S, n - 1, f)
      BY <1>9 DEF r
    <3>2. Len(Append(r, s[n])) = Len(r) + 1 /\ Len(r) \in Nat
      BY <1>10
    <3>3. g \in [1..(Len(r) + 1) -> 1..n]
      BY <1>10, <3>1, <3>2 DEF Picks
    <3>4. \A j, k \in 1..(Len(r) + 1) : j < k => g[j] < g[k]
      <4> SUFFICES ASSUME NEW j \in 1..(Len(r) + 1), NEW k \in 1..(Len(r) + 1), j < k
                   PROVE  g[j] < g[k]
        OBVIOUS
      <4>1. j \in 1..Len(r) /\ f[j] \in 1..(n - 1)
        BY <3>1, <3>2 DEF Picks
      <4>2. CASE k = Len(r) + 1
        BY <4>1, <4>2, <3>2, <1>10
      <4>3. CASE k # Len(r) + 1
        BY <4>1, <4>3, <3>1, <3>2 DEF Picks
      <4> QED BY <4>2, <4>3
    <3>5. \A k \in 1..(Len(r) + 1) : Append(r, s[n])[k] = s[g[k]] /\ Append(r, s[n])[k] \in S
      BY <1>10, <1>11, <3>1, <3>2 DEF Picks
    <3>6. ASSUME NEW i \in 1..n, s[i] \in S
          PROVE  \E k \in 1..(Len(r) + 1) : g[k] = i
      <4>1. CASE i = n
        BY <4>1, <3>2
      <4>2. CASE i # n
        <5>1. PICK k \in 1..Len(r) : f[k] = i
          BY <4>2, <3>1, <3>6, <1>10 DEF Picks
        <5>2. k \in 1..(Len(r) + 1) /\ g[k] = i
          BY <5>1, <3>2
        <5> QED BY <5>2
      <4> QED BY <4>1, <4>2
    <3> HIDE DEF g
    <3> QED BY <3>2, <3>3, <3>4, <3>5, <3>6 DEF Picks
  <2> HIDE DEF g
  <2>3. Append(r, s[n]) \in Seq(T)
    BY <1>10
  <2>4. Good(n)
    BY <2>1, <2>2, <2>3, Zenon
  <2> QED BY <1>4, <2>4
<1>12. CASE s[n] \notin S
  <2>1. upTo[n] = r
    BY <1>10, <1>12
  <2>2. Picks(r, s, S, n, f)
    BY <1>9, <1>10, <1>12 DEF Picks, r
  <2> QED BY <1>4, <1>10, <2>1, <2>2
<1> QED
    BY <1>11, <1>12

(* A sequence of sequences, flattened, has the elements of its elements. *)
LEMMA FlattenElements ==
    ASSUME NEW T, NEW ss, ss \in Seq(Seq(T))
    PROVE  /\ FlattenSeq(ss) \in Seq(T)
           /\ \A x : Contains(FlattenSeq(ss), x) <=>
                     \E i \in 1..Len(ss) : Contains(ss[i], x)
<1>1. CASE Len(ss) = 0
  <2>1. FlattenSeq(ss) = <<>>
    BY <1>1 DEF FlattenSeq
  <2> QED BY <1>1, <2>1 DEF Contains
<1>2. CASE Len(ss) # 0
  <2> DEFINE Eqn(g) == [i \in 1..Len(ss) |->
                            IF i = 1 THEN ss[i] ELSE g[i - 1] \o ss[i]]
             G == [i \in 1..Len(ss) |-> [r \in Seq(T) |-> r \o ss[i]]]
             flat == CHOOSE g : g = Eqn(g)
  <2>0. Len(ss) \in Nat /\ <<>> \in Seq(T) /\ \A i \in 1..Len(ss) : ss[i] \in Seq(T)
    OBVIOUS
  <2>1. FlattenSeq(ss) = flat[Len(ss)]
    BY <1>2 DEF FlattenSeq
  <2>2. flat = Eqn(flat)
    <3>1. G \in [1..Len(ss) -> [Seq(T) -> Seq(T)]]
      BY <2>0
    <3> HIDE DEF G
    <3>2. PICK h \in [0..Len(ss) -> Seq(T)] :
              h[0] = <<>> /\ \A i \in 1..Len(ss) : h[i] = G[i][h[i - 1]]
      <4> DEFINE X == Seq(T)
                 a == <<>>
                 N == Len(ss)
      <4>1. a \in X /\ N \in Nat /\ G \in [1..N -> [X -> X]]
        BY <2>0, <3>1
      <4> HIDE DEF X, a, N
      <4>2. \E f \in [0..N -> X] : f[0] = a /\ \A i \in 1..N : f[i] = G[i][f[i - 1]]
        BY ONLY <4>1, Recursion
      <4> QED BY <4>2 DEF X, a, N
    <3> DEFINE g == [i \in 1..Len(ss) |-> h[i]]
    <3>3. ASSUME NEW i \in 1..Len(ss)
          PROVE  g[i] = Eqn(g)[i]
      <4>0. i - 1 \in 0..Len(ss)
        BY <2>0
      <4>1. i - 1 \in 0..Len(ss) /\ h[i - 1] \in Seq(T)
        BY <3>2, <4>0
      <4>2. h[i] = h[i - 1] \o ss[i]
        BY <3>2, <4>1 DEF G
      <4>3. CASE i = 1
        <5>1. h[i] = ss[i]
          BY <2>0, <3>2, <4>2, <4>3
        <5> QED BY <4>3, <5>1
      <4>4. CASE i # 1
        <5>1. i - 1 \in 1..Len(ss)
          BY <2>0, <4>4
        <5> QED BY <4>2, <4>4, <5>1
      <4> QED BY <4>3, <4>4
    <3>4. g = Eqn(g)
      BY <3>3
    <3> HIDE DEF g, Eqn
    <3> QED BY <3>4
  <2> HIDE DEF flat
  <2>3. ASSUME NEW i \in 1..Len(ss)
        PROVE  flat[i] = IF i = 1 THEN ss[i] ELSE flat[i - 1] \o ss[i]
    <3>1. flat[i] = Eqn(flat)[i]
      BY <2>2
    <3> QED BY <3>1
  <2> HIDE DEF Eqn, G
  <2> DEFINE Good(n) == /\ flat[n] \in Seq(T)
                        /\ \A x : Contains(flat[n], x) <=>
                                     \E i \in 1..n : Contains(ss[i], x)
             Bad == {n \in 1..Len(ss) : ~ Good(n)}
  <2> SUFFICES ASSUME Bad # {} PROVE FALSE
    <3>1. Len(ss) \in 1..Len(ss)
      BY <1>2, <2>0
    <3> QED BY <2>1, <3>1
  <2>4. PICK n \in Bad : \A m \in Bad : n <= m
    <3>1. Bad \subseteq Nat
      OBVIOUS
    <3> HIDE DEF Bad
    <3> QED BY <3>1, LeastNatural
  <2>5. n \in 1..Len(ss)
    OBVIOUS
  <2>6. n # 1
    <3>1. SUFFICES Good(1)
      BY <2>4
    <3>2. flat[1] = ss[1]
      BY <2>0, <2>3, <1>2
    <3> QED BY <2>0, <1>2, <3>2
  <2>7. n - 1 \in 1..Len(ss) /\ n - 1 \notin Bad
    <3> HIDE DEF Bad
    <3> QED BY <2>4, <2>5, <2>6
  <2>8. Good(n - 1)
    BY <2>7
  <2> DEFINE r == flat[n - 1]
  <2>9. flat[n] = r \o ss[n] /\ r \in Seq(T) /\ ss[n] \in Seq(T)
    BY <2>0, <2>3, <2>5, <2>6, <2>8
  <2>10. ASSUME NEW x
         PROVE  Contains(r \o ss[n], x) <=> Contains(r, x) \/ Contains(ss[n], x)
    BY <2>9, ConcatContains
  <2>11. ASSUME NEW x
         PROVE  Contains(flat[n], x) <=> \E i \in 1..n : Contains(ss[i], x)
    <3>1. Contains(r, x) <=> \E i \in 1..(n - 1) : Contains(ss[i], x)
      BY <2>8
    <3>2. (\E i \in 1..n : Contains(ss[i], x)) <=>
             (\E i \in 1..(n - 1) : Contains(ss[i], x)) \/ Contains(ss[n], x)
      BY <2>5
    <3> QED BY <2>9, <2>10, <3>1, <3>2
  <2>12. flat[n] \in Seq(T)
    BY <2>9
  <2>13. Good(n)
    BY <2>11, <2>12
  <2> QED BY <2>4, <2>13
<1> QED
    BY <1>1, <1>2

(* Without one of its elements a sequence that repeats none is the rest of *)
(* it, in the same order.                                                  *)
LEMMA RemoveFirstPicks ==
    ASSUME NEW T, NEW s \in Seq(T), NEW e,
           \A i, j \in 1..Len(s) : s[i] = s[j] => i = j
    PROVE  /\ RemoveFirst(s, e) \in Seq(T)
           /\ \E f : Picks(RemoveFirst(s, e), s, T \ {e}, Len(s), f)
<1>1. CASE \E i \in 1..Len(s) : s[i] = e
  <2>1. PICK p \in 1..Len(s) : s[p] = e
    BY <1>1
  <2>2. {i \in 1..Len(s) : s[i] = e} = {p}
    BY <2>1
  <2>3. Min({p}) = p
    BY DEF Min
  <2>4. RemoveFirst(s, e) = SubSeq(s, 1, p - 1) \o SubSeq(s, p + 1, Len(s))
    BY <1>1, <2>2, <2>3 DEF RemoveFirst, RemoveAt, SelectInSeq
  <2> DEFINE r == SubSeq(s, 1, p - 1) \o SubSeq(s, p + 1, Len(s))
             f == [k \in 1..(Len(s) - 1) |-> IF k < p THEN k ELSE k + 1]
             A == SubSeq(s, 1, p - 1)
             B == SubSeq(s, p + 1, Len(s))
  <2>a. /\ Len(s) \in Nat /\ A \in Seq(T) /\ Len(A) = p - 1
        /\ \A k \in 1..(p - 1) : A[k] = s[k]
    <3>1. \A k \in 1..(p - 1) : s[k] \in T
      BY <2>1
    <3> QED BY <2>1, <3>1
  <2>b. /\ B \in Seq(T) /\ Len(B) = Len(s) - p
        /\ \A k \in 1..(Len(s) - p) : B[k] = s[p + k]
    <3>1. \A k \in (p + 1)..Len(s) : s[k] \in T
      BY <2>1
    <3> QED BY <2>1, <2>a, <3>1
  <2>5. r \in Seq(T) /\ Len(r) = Len(s) - 1 /\ Len(s) \in Nat
    <3> HIDE DEF A, B
    <3>1. A \o B \in Seq(T) /\ Len(A \o B) = Len(s) - 1
      BY <2>1, <2>a, <2>b
    <3> QED BY <2>a, <3>1 DEF A, B
  <2>6. ASSUME NEW k \in 1..(Len(s) - 1)
        PROVE  r[k] = s[f[k]]
    <3> HIDE DEF A, B
    <3>1. CASE k < p
      <4>1. (A \o B)[k] = s[k]
        BY <2>1, <2>a, <2>b, <3>1
      <4> QED BY <3>1, <4>1 DEF A, B
    <3>2. CASE ~ (k < p)
      <4>1. k - (p - 1) \in 1..(Len(s) - p) /\ p + (k - (p - 1)) = k + 1
        BY <2>1, <2>a, <3>2
      <4>2. (A \o B)[k] = B[k - (p - 1)]
        BY <2>1, <2>a, <2>b, <3>2, <4>1
      <4>3. (A \o B)[k] = s[k + 1]
        BY <2>b, <4>1, <4>2
      <4> QED BY <3>2, <4>3 DEF A, B
    <3> QED BY <3>1, <3>2
  <2> HIDE DEF r
  <2>7. f \in [1..Len(r) -> 1..Len(s)]
    BY <2>5, <2>1
  <2>8. \A j, k \in 1..Len(r) : j < k => f[j] < f[k]
    BY <2>5, <2>1
  <2>9. \A k \in 1..Len(r) : r[k] = s[f[k]] /\ r[k] \in T \ {e}
    BY <2>1, <2>5, <2>6
  <2>10. ASSUME NEW i \in 1..Len(s), s[i] \in T \ {e}
         PROVE  \E k \in 1..Len(r) : f[k] = i
    <3>1. CASE i < p
      BY <2>1, <2>5, <3>1
    <3>2. CASE i > p
      <4>1. i - 1 \in 1..Len(r) /\ f[i - 1] = i
        BY <2>1, <2>5, <3>2
      <4> QED BY <4>1
    <3>3. i # p
      BY <2>1, <2>10
    <3> QED BY <2>1, <2>5, <3>1, <3>2, <3>3
  <2> HIDE DEF f
  <2>11. Picks(r, s, T \ {e}, Len(s), f)
    BY <2>7, <2>8, <2>9, <2>10 DEF Picks
  <2>12. RemoveFirst(s, e) = r
    BY <2>4 DEF r
  <2> QED BY <2>5, <2>11, <2>12
<1>2. CASE ~ \E i \in 1..Len(s) : s[i] = e
  <2>1. RemoveFirst(s, e) = s
    BY <1>2 DEF RemoveFirst
  <2> DEFINE f == [k \in 1..Len(s) |-> k]
  <2>2. Picks(s, s, T \ {e}, Len(s), f)
    BY <1>2 DEF Picks
  <2> HIDE DEF f
  <2> QED BY <2>1, <2>2
<1> QED
    BY <1>1, <1>2

-----------------------------------------------------------------------------
(* One name of the registry: its queue q and its held locks h              *)

Grantable(q, h, i) ==
    IsGrantable(q[i], SubSeq(q, i, Len(q)), h \o SubSeq(q, 1, i - 1))

(* NumberGranted() chooses a number that exists: the loop of               *)
(* processLockRequestQueue() stops at the first request that is not        *)
(* grantable.                                                              *)
LEMMA NumberGrantedIs ==
    ASSUME NEW T, NEW q \in Seq(T), NEW h
    PROVE  LET k == NumberGranted(q, h) IN
           /\ k \in 0..Len(q)
           /\ \A i \in 1..k : Grantable(q, h, i)
           /\ k < Len(q) => ~ Grantable(q, h, k + 1)
<1> DEFINE P(k) == /\ \A i \in 1..k : Grantable(q, h, i)
                   /\ k < Len(q) => ~ Grantable(q, h, k + 1)
           Stops == {k \in 0..Len(q) : k < Len(q) => ~ Grantable(q, h, k + 1)}
<1>1. Stops \subseteq Nat /\ Len(q) \in Stops
    OBVIOUS
<1>2. PICK k \in Stops : \A l \in Stops : k <= l
  <2> HIDE DEF Stops
  <2> QED BY <1>1, LeastNatural
<1>3. k \in 0..Len(q) /\ P(k)
  <2>1. k \in 0..Len(q) /\ (k < Len(q) => ~ Grantable(q, h, k + 1))
    BY <1>2
  <2>2. ASSUME NEW i \in 1..k
        PROVE  Grantable(q, h, i)
    <3>1. i - 1 \in 0..Len(q) /\ i - 1 < Len(q) /\ (i - 1) + 1 = i /\ ~ (k <= i - 1)
      BY <2>1
    <3>2. i - 1 \notin Stops
      <4> HIDE DEF Stops
      <4> QED BY <1>2, <3>1
    <3> QED BY <3>1, <3>2
  <2> QED BY <2>1, <2>2
<1>4. \A x \in 0..Len(q) : x + 1 - 1 = x
    OBVIOUS
<1>5. NumberGranted(q, h) = CHOOSE x \in 0..Len(q) : P(x)
    BY <1>4 DEF NumberGranted, Grantable
<1> HIDE DEF P
<1>6. P(NumberGranted(q, h)) /\ NumberGranted(q, h) \in 0..Len(q)
    BY <1>3, <1>5
<1> QED
    BY <1>6 DEF P

(* What processing q and h makes of them: the first k requests are granted. *)
ProcessedTo(q, h, k, qq, hh, gg) ==
    /\ k \in 0..Len(q)
    /\ qq \in Seq(Ids) /\ hh \in Seq(Ids) /\ gg \in Seq(Ids)
    /\ Len(qq) = Len(q) - k
    /\ \A i \in 1..(Len(q) - k) : qq[i] = q[k + i]
    /\ Len(hh) = Len(h) + k
    /\ \A i \in 1..Len(h) : hh[i] = h[i]
    /\ \A i \in 1..k : hh[Len(h) + i] = q[i]
    /\ Len(gg) = k
    /\ \A i \in 1..k : gg[i] = q[i]
    /\ qq = SubSeq(q, k + 1, Len(q))
    /\ hh = h \o SubSeq(q, 1, k)

(* What processing a queue returns, element by element.                    *)
LEMMA Processed ==
    ASSUME NEW q \in Seq(Ids), NEW h \in Seq(Ids),
           NEW k, k = NumberGranted(q, h),
           NEW qq, qq = ProcessLockRequestQueue(q, h).queue,
           NEW hh, hh = ProcessLockRequestQueue(q, h).held,
           NEW gg, gg = ProcessLockRequestQueue(q, h).granted
    PROVE  ProcessedTo(q, h, k, qq, hh, gg)
<1>1. k \in 0..Len(q)
    BY NumberGrantedIs
<1>2. /\ qq = SubSeq(q, k + 1, Len(q))
      /\ hh = h \o SubSeq(q, 1, k)
      /\ gg = SubSeq(q, 1, k)
    BY DEF ProcessLockRequestQueue
<1>3. /\ SubSeq(q, 1, k) \in Seq(Ids) /\ Len(SubSeq(q, 1, k)) = k
      /\ \A i \in 1..k : SubSeq(q, 1, k)[i] = q[i]
  <2>1. \A i \in 1..k : q[i] \in Ids
    BY <1>1
  <2> QED BY <1>1, <2>1
<1>4. /\ qq \in Seq(Ids) /\ Len(qq) = Len(q) - k
      /\ \A i \in 1..(Len(q) - k) : qq[i] = q[k + i]
  <2>1. \A i \in (k + 1)..Len(q) : q[i] \in Ids
    BY <1>1
  <2> QED BY <1>1, <1>2, <2>1
<1>5. /\ hh \in Seq(Ids) /\ Len(hh) = Len(h) + k
      /\ \A i \in 1..Len(h) : hh[i] = h[i]
      /\ \A i \in 1..k : hh[Len(h) + i] = q[i]
  <2> DEFINE g == SubSeq(q, 1, k)
  <2>1. g \in Seq(Ids) /\ Len(g) = k /\ \A i \in 1..k : g[i] = q[i]
    BY <1>3
  <2>2. hh = h \o g
    BY <1>2
  <2> HIDE DEF g
  <2>3. \A i \in 1..k : (h \o g)[Len(h) + i] = g[i]
    BY <2>1, <1>1
  <2>4. \A i \in 1..k : hh[Len(h) + i] = q[i]
    BY <2>1, <2>2, <2>3
  <2>5. h \o g \in Seq(Ids) /\ Len(h \o g) = Len(h) + k
    BY <2>1
  <2>6. \A i \in 1..Len(h) : (h \o g)[i] = h[i]
    BY <2>1
  <2> QED BY <2>2, <2>4, <2>5, <2>6
<1> QED
    BY <1>1, <1>2, <1>3, <1>4, <1>5 DEF ProcessedTo

(* No request is in the queue twice, none is both queued and held, and what *)
(* is held is compatible.                                                   *)
NameInv(q, h) ==
    /\ \A i, j \in 1..Len(q) : q[i] = q[j] => i = j
    /\ \A i \in 1..Len(q), j \in 1..Len(h) : q[i] # h[j]
    /\ \A i, j \in 1..Len(h) : i # j => /\ h[i] # h[j]
                                        /\ requests[h[i]].mode = "shared"
                                        /\ requests[h[j]].mode = "shared"

(* A request is exclusive or shared.                                       *)
LEMMA ModeIs ==
    ASSUME requests \in Seq(Option), NEW id \in Ids
    PROVE  requests[id].mode \in {"exclusive", "shared"}
<1>1. requests[id] \in Option
    BY DEF Ids
<1>2. requests[id].mode \in Modes
    BY <1>1 DEF Option
<1> QED
    BY <1>2, WebLocksAssumption

(* A request is granted beside others only if it is shared and so is the   *)
(* first of them.                                                          *)
LEMMA GrantedBeside ==
    ASSUME requests \in Seq(Option), NEW q \in Seq(Ids), NEW h \in Seq(Ids),
           NEW i \in 1..Len(q), Grantable(q, h, i), Len(h) + i > 1
    PROVE  /\ requests[q[i]].mode = "shared"
           /\ h # <<>> => requests[h[1]].mode = "shared"
           /\ h = <<>> => requests[q[1]].mode = "shared"
<1> DEFINE g == SubSeq(q, 1, i - 1)
           held == h \o g
<1>1. g \in Seq(Ids) /\ Len(g) = i - 1 /\ \A j \in 1..(i - 1) : g[j] = q[j]
  <2>1. \A j \in 1..(i - 1) : q[j] \in Ids
    OBVIOUS
  <2> QED BY <2>1
<1>2. IsGrantable(q[i], SubSeq(q, i, Len(q)), held)
    BY DEF Grantable
<1> HIDE DEF g
<1>3. held \in Seq(Ids) /\ Len(held) = Len(h) + i - 1 /\ held # <<>>
  <2>1. held \in Seq(Ids) /\ Len(held) = Len(h) + Len(g)
    BY <1>1
  <2>2. Len(h) \in Nat /\ Len(held) >= 1
    BY <1>1, <2>1
  <2> HIDE DEF held
  <2> QED BY <1>1, <2>1, <2>2
<1>4. /\ h # <<>> => Head(held) = h[1]
      /\ h = <<>> => Head(held) = q[1]
    BY <1>1, <1>3
<1>5. Head(held) \in Ids /\ q[i] \in Ids
    BY <1>3
<1> HIDE DEF held
<1>6. requests[q[i]].mode = "shared" /\ requests[Head(held)].mode # "exclusive"
    BY <1>2, <1>3, <1>5, ModeIs DEF IsGrantable
<1>7. requests[Head(held)].mode = "shared"
    BY <1>5, <1>6, ModeIs
<1> QED
    BY <1>4, <1>6, <1>7

(* Processing a queue keeps its name in order, and leaves no grantable     *)
(* request at its head.                                                    *)
LEMMA ProcessKeeps ==
    ASSUME requests \in Seq(Option), NEW q \in Seq(Ids), NEW h \in Seq(Ids),
           NameInv(q, h), 
           NEW qq, qq = ProcessLockRequestQueue(q, h).queue,
           NEW hh, hh = ProcessLockRequestQueue(q, h).held
    PROVE  /\ NameInv(qq, hh)
           /\ qq # <<>> => ~ IsGrantable(Head(qq), qq, hh)
<1> DEFINE k == NumberGranted(q, h)
<1>0. k = NumberGranted(q, h)
    OBVIOUS
<1>1. /\ k \in 0..Len(q)
      /\ \A i \in 1..k : Grantable(q, h, i)
      /\ k < Len(q) => ~ Grantable(q, h, k + 1)
    BY NumberGrantedIs
<1>2. ProcessedTo(q, h, k, qq, hh, ProcessLockRequestQueue(q, h).granted)
    BY Processed
<1> HIDE DEF k
<1>3. ASSUME NEW i \in 1..Len(hh)
      PROVE  \/ i \in 1..Len(h) /\ hh[i] = h[i]
             \/ i - Len(h) \in 1..k /\ hh[i] = q[i - Len(h)]
  <2>1. CASE i <= Len(h)
    BY <1>2, <2>1 DEF ProcessedTo
  <2>2. CASE i > Len(h)
    <3>1. i - Len(h) \in 1..k /\ Len(h) + (i - Len(h)) = i
      BY <1>1, <1>2, <2>2 DEF ProcessedTo
    <3> QED BY <1>2, <3>1 DEF ProcessedTo
  <2> QED BY <1>1, <1>2, <2>1, <2>2 DEF ProcessedTo
<1>4. \A i, j \in 1..Len(qq) : qq[i] = qq[j] => i = j
    BY <1>1, <1>2 DEF NameInv, ProcessedTo
<1>5. ASSUME NEW i \in 1..Len(qq), NEW j \in 1..Len(hh)
      PROVE  qq[i] # hh[j]
  <2>1. qq[i] = q[k + i] /\ k + i \in 1..Len(q)
    BY <1>1, <1>2 DEF ProcessedTo
  <2>2. CASE j \in 1..Len(h) /\ hh[j] = h[j]
    BY <2>1, <2>2 DEF NameInv
  <2>3. CASE j - Len(h) \in 1..k /\ hh[j] = q[j - Len(h)]
    <3>1. j - Len(h) \in 1..Len(q) /\ j - Len(h) # k + i
      BY <1>1, <2>1, <2>3
    <3> QED BY <2>1, <2>3, <3>1 DEF NameInv
  <2> QED BY <1>3, <2>2, <2>3
<1>6. ASSUME NEW i \in 1..Len(hh), Len(hh) > 1
      PROVE  requests[hh[i]].mode = "shared"
  <2>1. CASE i - Len(h) \in 1..k /\ hh[i] = q[i - Len(h)]
    <3>1. CASE i > 1
      <4> DEFINE j == i - Len(h)
      <4>1. j \in 1..Len(q) /\ Grantable(q, h, j) /\ Len(h) + j > 1
        BY <1>1, <2>1, <3>1
      <4> HIDE DEF j
      <4>2. requests[q[j]].mode = "shared"
        BY <4>1, GrantedBeside
      <4> QED BY <2>1, <4>2 DEF j
    <3>2. CASE i = 1
      <4>1. h = <<>> /\ 2 \in 1..k /\ 2 \in 1..Len(q)
        BY <1>1, <1>2, <1>6, <2>1, <3>2 DEF ProcessedTo
      <4>2. requests[q[1]].mode = "shared"
        <5>1. Grantable(q, h, 2) /\ Len(h) + 2 > 1
          BY <1>1, <4>1
        <5> QED BY <4>1, <5>1, GrantedBeside
      <4> QED BY <2>1, <3>2, <4>1, <4>2
    <3> QED BY <3>1, <3>2
  <2>2. CASE i \in 1..Len(h) /\ hh[i] = h[i]
    <3>1. CASE Len(h) > 1
      <4>1. PICK j \in 1..Len(h) : j # i
        <5>1. 1 \in 1..Len(h) /\ 2 \in 1..Len(h)
          BY <3>1
        <5> QED BY <5>1
      <4> QED BY <2>2, <4>1 DEF NameInv
    <3>2. CASE ~ (Len(h) > 1)
      <4>0. Len(h) = 1 /\ i = 1
        <5> DEFINE n == Len(h)
        <5>1. n \in Nat /\ i \in 1..n /\ ~ (n > 1)
          BY <2>2, <3>2
        <5> HIDE DEF n
        <5>2. n = 1 /\ i = 1
          BY ONLY <5>1
        <5> QED BY <5>2 DEF n
      <4>1. i = 1 /\ Len(h) = 1 /\ 1 \in 1..k /\ 1 \in 1..Len(q) /\ h # <<>>
        BY <1>1, <1>2, <1>6, <4>0 DEF ProcessedTo
      <4>2. requests[h[1]].mode = "shared"
        BY <1>1, <4>1, GrantedBeside
      <4> QED BY <2>2, <4>1, <4>2
    <3> QED BY <3>1, <3>2
  <2> QED BY <1>3, <2>1, <2>2
<1>7. ASSUME NEW i \in 1..Len(hh), NEW j \in 1..Len(hh), i # j
      PROVE  hh[i] # hh[j]
  <2> DEFINE Old(x) == x \in 1..Len(h) /\ hh[x] = h[x]
             New(x) == x - Len(h) \in 1..k /\ hh[x] = q[x - Len(h)]
  <2>1. (Old(i) \/ New(i)) /\ (Old(j) \/ New(j))
    BY <1>3
  <2>2. CASE Old(i) /\ Old(j)
    BY <2>2, <1>7 DEF NameInv
  <2>3. CASE New(i) /\ New(j)
    <3>1. i - Len(h) \in 1..Len(q) /\ j - Len(h) \in 1..Len(q) /\ i - Len(h) # j - Len(h)
      BY <1>1, <2>3, <1>7
    <3> QED BY <2>3, <3>1 DEF NameInv
  <2>4. CASE Old(i) /\ New(j)
    <3>1. j - Len(h) \in 1..Len(q)
      BY <1>1, <2>4
    <3> QED BY <2>4, <3>1 DEF NameInv
  <2>5. CASE New(i) /\ Old(j)
    <3>1. i - Len(h) \in 1..Len(q)
      BY <1>1, <2>5
    <3> QED BY <2>5, <3>1 DEF NameInv
  <2> QED BY <2>1, <2>2, <2>3, <2>4, <2>5
<1>8. ASSUME NEW i \in 1..Len(hh), NEW j \in 1..Len(hh), i # j
      PROVE  Len(hh) > 1
    BY <1>8, <1>2 DEF ProcessedTo
<1>9. NameInv(qq, hh)
    BY <1>4, <1>5, <1>6, <1>7, <1>8 DEF NameInv
<1>10. ASSUME qq # <<>>
       PROVE  ~ IsGrantable(Head(qq), qq, hh)
  <2>1. k < Len(q) /\ Head(qq) = q[k + 1]
    BY <1>1, <1>2, <1>10 DEF ProcessedTo
  <2>2. k + 1 - 1 = k
    BY <1>1
  <2> QED BY <1>1, <1>2, <2>1, <2>2 DEF Grantable, ProcessedTo
<1> QED
    BY <1>9, <1>10

(* The requests of q1 that q has come in the same order, and only a thief  *)
(* gets in before them.                                                    *)
Follows(q1, q) ==
    \A i \in 1..Len(q) : \A l \in 1..Len(q1) : \A m \in 1..(l - 1) :
        q1[l] = q[i] => \/ requests[q1[m]].kind = "steal"
                        \/ \E j \in 1..(i - 1) : q[j] = q1[m]

Distinct(s) == \A i, j \in 1..Len(s) : s[i] = s[j] => i = j

(* What is picked was there, and is in S.                                  *)
LEMMA PicksContains ==
    ASSUME NEW s, NEW r, NEW S, NEW f, NEW n, n = Len(s), Picks(r, s, S, n, f)
    PROVE  \A x : Contains(r, x) <=> Contains(s, x) /\ x \in S
<1>1. ASSUME NEW k \in 1..Len(r)
      PROVE  f[k] \in 1..n /\ r[k] = s[f[k]] /\ r[k] \in S
    BY DEF Picks
<1>2. ASSUME NEW x, Contains(r, x) PROVE Contains(s, x) /\ x \in S
    BY <1>1, <1>2 DEF Contains
<1>3. ASSUME NEW x, Contains(s, x), x \in S PROVE Contains(r, x)
  <2>1. PICK i \in 1..n : s[i] = x
    BY <1>3 DEF Contains
  <2>2. PICK k \in 1..Len(r) : f[k] = i
    BY <1>3, <2>1 DEF Picks
  <2> QED BY <1>1, <2>1, <2>2 DEF Contains
<1> QED
    BY <1>2, <1>3

(* Different places are picked from different places.                      *)
LEMMA PicksDistinct ==
    ASSUME NEW T, NEW s \in Seq(T), NEW r \in Seq(T), NEW S, NEW f,
           Picks(r, s, S, Len(s), f),
           NEW j \in 1..Len(r), NEW k \in 1..Len(r), j # k
    PROVE  f[j] \in 1..Len(s) /\ f[k] \in 1..Len(s) /\ f[j] # f[k]
<1>1. f[j] \in 1..Len(s) /\ f[k] \in 1..Len(s) /\ Len(s) \in Nat
    BY DEF Picks
<1>2. j < k \/ k < j
    OBVIOUS
<1>3. f[j] < f[k] \/ f[k] < f[j]
    BY <1>2 DEF Picks
<1> QED
    BY <1>1, <1>3

(* Dropping requests keeps the rest in order ... *)
LEMMA PicksFollows ==
    ASSUME NEW T, NEW s \in Seq(T), NEW r \in Seq(T), NEW S, NEW f,
           Picks(r, s, S, Len(s), f), Distinct(s)
    PROVE  Follows(r, s)
<1> SUFFICES ASSUME NEW i \in 1..Len(s), NEW l \in 1..Len(r), NEW m \in 1..(l - 1),
                    r[l] = s[i]
             PROVE  \E j \in 1..(i - 1) : s[j] = r[m]
    BY DEF Follows
<1>1. m \in 1..Len(r) /\ m < l
    OBVIOUS
<1>2. f[l] \in 1..Len(s) /\ f[m] \in 1..Len(s) /\ f[m] < f[l]
    BY <1>1 DEF Picks
<1>3. r[l] = s[f[l]] /\ r[m] = s[f[m]]
    BY <1>1 DEF Picks
<1>4. f[l] = i
    BY <1>2, <1>3 DEF Distinct
<1> QED
    BY <1>2, <1>3, <1>4

(* ... and what was true of one name true. *)
LEMMA PicksNameInv ==
    ASSUME NEW T, NEW q \in Seq(T), NEW h \in Seq(T), NEW q1 \in Seq(T), NEW h1 \in Seq(T),
           NEW S, NEW S1, NEW f, NEW g, NameInv(q, h),
           Picks(q1, q, S, Len(q), f), Picks(h1, h, S1, Len(h), g)
    PROVE  NameInv(q1, h1)
<1>1. ASSUME NEW i \in 1..Len(q1), NEW j \in 1..Len(q1), i # j
      PROVE  q1[i] # q1[j]
  <2>1. f[i] \in 1..Len(q) /\ f[j] \in 1..Len(q) /\ f[i] # f[j]
    BY <1>1, PicksDistinct
  <2>2. q1[i] = q[f[i]] /\ q1[j] = q[f[j]]
    BY DEF Picks
  <2> QED BY <2>1, <2>2 DEF NameInv
<1>2. ASSUME NEW i \in 1..Len(q1), NEW j \in 1..Len(h1)
      PROVE  q1[i] # h1[j]
  <2>1. f[i] \in 1..Len(q) /\ q1[i] = q[f[i]] /\ g[j] \in 1..Len(h) /\ h1[j] = h[g[j]]
    BY DEF Picks
  <2> QED BY <2>1 DEF NameInv
<1>3. ASSUME NEW i \in 1..Len(h1), NEW j \in 1..Len(h1), i # j
      PROVE  /\ h1[i] # h1[j]
             /\ requests[h1[i]].mode = "shared"
             /\ requests[h1[j]].mode = "shared"
  <2>1. g[i] \in 1..Len(h) /\ g[j] \in 1..Len(h) /\ g[i] # g[j]
    BY <1>3, PicksDistinct
  <2>2. h1[i] = h[g[i]] /\ h1[j] = h[g[j]]
    BY DEF Picks
  <2> QED BY <2>1, <2>2 DEF NameInv
<1> QED
    BY <1>1, <1>2, <1>3 DEF NameInv

(* Every element is picked when all may be.                                *)
LEMMA PicksAll ==
    ASSUME NEW T, NEW s \in Seq(T)
    PROVE  \E f : Picks(s, s, T, Len(s), f)
<1> DEFINE f == [k \in 1..Len(s) |-> k]
<1>1. Picks(s, s, T, Len(s), f)
    BY DEF Picks
<1> HIDE DEF f
<1> QED
    BY <1>1

(* A new request at the end of its queue keeps the name in order.          *)
LEMMA AppendNameInv ==
    ASSUME NEW q \in Seq(Ids), NEW h \in Seq(Ids), NEW id \in Ids,
           NameInv(q, h), ~ Contains(q, id), ~ Contains(h, id)
    PROVE  /\ Append(q, id) \in Seq(Ids)
           /\ NameInv(Append(q, id), h)
           /\ Follows(Append(q, id), q)
           /\ \A x : Contains(Append(q, id), x) <=> Contains(q, x) \/ x = id
<1> DEFINE r == Append(q, id)
<1>1. /\ r \in Seq(Ids) /\ Len(r) = Len(q) + 1 /\ r[Len(q) + 1] = id
      /\ \A i \in 1..Len(q) : r[i] = q[i]
      /\ Len(q) \in Nat
    OBVIOUS
<1> HIDE DEF r
<1>2. \A i \in 1..Len(r) : i \in 1..Len(q) \/ i = Len(q) + 1
    BY <1>1
<1>3. \A i \in 1..Len(q) : q[i] # id
    BY DEF Contains
<1>4. \A i \in 1..Len(h) : h[i] # id
    BY DEF Contains
<1>5. NameInv(r, h)
  <2>1. ASSUME NEW i \in 1..Len(r), NEW j \in 1..Len(r), r[i] = r[j]
        PROVE  i = j
    <3>1. CASE i \in 1..Len(q) /\ j \in 1..Len(q)
      BY <1>1, <2>1, <3>1 DEF NameInv
    <3>2. CASE i = Len(q) + 1 \/ j = Len(q) + 1
      BY <1>1, <1>2, <1>3, <2>1, <3>2
    <3> QED BY <1>2, <3>1, <3>2
  <2>2. ASSUME NEW i \in 1..Len(r), NEW j \in 1..Len(h)
        PROVE  r[i] # h[j]
    <3>1. CASE i \in 1..Len(q)
      BY <1>1, <3>1 DEF NameInv
    <3>2. CASE i = Len(q) + 1
      BY <1>1, <1>4, <3>2
    <3> QED BY <1>2, <3>1, <3>2
  <2> QED BY <2>1, <2>2 DEF NameInv
<1>6. Follows(r, q)
  <2> SUFFICES ASSUME NEW i \in 1..Len(q), NEW l \in 1..Len(r), NEW m \in 1..(l - 1),
                      r[l] = q[i]
               PROVE  \E j \in 1..(i - 1) : q[j] = r[m]
    BY DEF Follows
  <2>1. l \in 1..Len(q)
    BY <1>1, <1>2, <1>3
  <2>2. l = i
    BY <1>1, <2>1 DEF NameInv
  <2>3. m \in 1..(i - 1) /\ r[m] = q[m]
    BY <1>1, <2>1, <2>2
  <2> QED BY <2>3
<1>7. ASSUME NEW x
      PROVE  Contains(r, x) <=> Contains(q, x) \/ x = id
  <2>1. Contains(r, x) => Contains(q, x) \/ x = id
    BY <1>1, <1>2 DEF Contains
  <2>2. Contains(q, x) => Contains(r, x)
    BY <1>1 DEF Contains
  <2>3. x = id => Contains(r, x)
    <3>1. Len(q) + 1 \in 1..Len(r)
      BY <1>1
    <3> QED BY <1>1, <3>1 DEF Contains
  <2> QED BY <2>1, <2>2, <2>3
<1> QED
    BY <1>1, <1>5, <1>6, <1>7 DEF r

(* So does a thief at the front, once the held locks are dropped.          *)
LEMMA ThiefNameInv ==
    ASSUME NEW q \in Seq(Ids), NEW h \in Seq(Ids), NEW id \in Ids,
           NameInv(q, h), ~ Contains(q, id), requests[id].kind = "steal"
    PROVE  /\ <<id>> \o q \in Seq(Ids)
           /\ NameInv(<<id>> \o q, <<>>)
           /\ Follows(<<id>> \o q, q)
           /\ \A x : Contains(<<id>> \o q, x) <=> Contains(q, x) \/ x = id
<1> DEFINE r == <<id>> \o q
<1>1. /\ r \in Seq(Ids) /\ Len(r) = Len(q) + 1 /\ r[1] = id
      /\ \A i \in 1..Len(q) : r[i + 1] = q[i]
      /\ Len(q) \in Nat
    OBVIOUS
<1> HIDE DEF r
<1>2. \A i \in 1..Len(r) : i = 1 \/ (i - 1 \in 1..Len(q) /\ r[i] = q[i - 1])
  <2> SUFFICES ASSUME NEW i \in 1..Len(r), i # 1
               PROVE  i - 1 \in 1..Len(q) /\ r[i] = q[i - 1]
    OBVIOUS
  <2>1. i - 1 \in 1..Len(q) /\ (i - 1) + 1 = i
    BY <1>1
  <2> QED BY <1>1, <2>1
<1>3. \A i \in 1..Len(q) : q[i] # id
    BY DEF Contains
<1>5. NameInv(r, <<>>)
  <2>1. ASSUME NEW i \in 1..Len(r), NEW j \in 1..Len(r), r[i] = r[j]
        PROVE  i = j
    <3>1. CASE i # 1 /\ j # 1
      <4>1. i - 1 \in 1..Len(q) /\ j - 1 \in 1..Len(q) /\ q[i - 1] = q[j - 1]
        BY <1>2, <2>1, <3>1
      <4>2. i - 1 = j - 1
        BY <4>1 DEF NameInv
      <4> QED BY <4>2
    <3>2. CASE i = 1 \/ j = 1
      BY <1>1, <1>2, <1>3, <2>1, <3>2
    <3> QED BY <3>1, <3>2
  <2> QED BY <2>1 DEF NameInv
<1>6. Follows(r, q)
  <2> SUFFICES ASSUME NEW i \in 1..Len(q), NEW l \in 1..Len(r), NEW m \in 1..(l - 1),
                      r[l] = q[i], m # 1
               PROVE  \E j \in 1..(i - 1) : q[j] = r[m]
    BY <1>1 DEF Follows
  <2>1. l # 1 /\ m \in 1..Len(r)
    BY <1>1, <1>3
  <2>2. /\ l - 1 \in 1..Len(q) /\ r[l] = q[l - 1]
        /\ m - 1 \in 1..Len(q) /\ r[m] = q[m - 1]
    BY <1>2, <2>1
  <2>3. l - 1 = i
    BY <2>2 DEF NameInv
  <2>4. m - 1 \in 1..(i - 1)
    BY <2>1, <2>2, <2>3
  <2> QED BY <2>2, <2>4
<1>7. ASSUME NEW x
      PROVE  Contains(r, x) <=> Contains(q, x) \/ x = id
  <2>1. Contains(r, x) => Contains(q, x) \/ x = id
    BY <1>1, <1>2 DEF Contains
  <2>2. Contains(q, x) => Contains(r, x)
    <3>1. \A i \in 1..Len(q) : i + 1 \in 1..Len(r)
      BY <1>1
    <3> QED BY <1>1, <3>1 DEF Contains
  <2>3. x = id => Contains(r, x)
    <3>1. 1 \in 1..Len(r)
      BY <1>1
    <3> QED BY <1>1, <3>1 DEF Contains
  <2> QED BY <2>1, <2>2, <2>3
<1> QED
    BY <1>1, <1>5, <1>6, <1>7 DEF r

(* One name is processed, from a queue q1 and held locks h1 made from q    *)
(* and h: gg is granted, in the order of the queue.                        *)
NameStepTo(q, h, q1, h1, qq, hh, gg) ==
    /\ qq \in Seq(Ids) /\ hh \in Seq(Ids) /\ gg \in Seq(Ids)
    /\ NameInv(qq, hh)
    /\ qq # <<>> => ~ IsGrantable(Head(qq), qq, hh)
    /\ \A x : Contains(q1, x) <=> Contains(qq, x) \/ Contains(gg, x)
    /\ \A x : Contains(hh, x) <=> Contains(h1, x) \/ Contains(gg, x)
    /\ \A x : Contains(gg, x) => ~ Contains(qq, x) /\ ~ Contains(h1, x)
    /\ \A i \in 1..Len(q) : Contains(qq, q[i]) =>
            \A x : Contains(hh, x) /\ ~ Contains(h, x) =>
                \/ requests[x].kind = "steal"
                \/ \E j \in 1..(i - 1) : q[j] = x

(* Changing a queue and its held locks, and processing the queue, is a     *)
(* NameStepTo.                                                             *)
LEMMA NameStep ==
    ASSUME requests \in Seq(Option),
           NEW q \in Seq(Ids), NEW h \in Seq(Ids), NEW q1 \in Seq(Ids), NEW h1 \in Seq(Ids),
           NameInv(q1, h1), Follows(q1, q), \A x : Contains(h1, x) => Contains(h, x),
           NEW qq, qq = ProcessLockRequestQueue(q1, h1).queue,
           NEW hh, hh = ProcessLockRequestQueue(q1, h1).held,
           NEW gg, gg = ProcessLockRequestQueue(q1, h1).granted
    PROVE  NameStepTo(q, h, q1, h1, qq, hh, gg)
<1> DEFINE k == NumberGranted(q1, h1)
<1>1. ProcessedTo(q1, h1, k, qq, hh, gg)
    BY Processed
<1> HIDE DEF k
<1>2. /\ NameInv(qq, hh)
      /\ qq # <<>> => ~ IsGrantable(Head(qq), qq, hh)
    BY ProcessKeeps
<1>3. k \in 0..Len(q1) /\ Len(q1) \in Nat /\ Len(h1) \in Nat
    BY <1>1 DEF ProcessedTo
<1>4. qq \in Seq(Ids) /\ hh \in Seq(Ids) /\ gg \in Seq(Ids)
    BY <1>1 DEF ProcessedTo
<1>5. /\ Len(qq) = Len(q1) - k
      /\ \A i \in 1..Len(qq) : k + i \in 1..Len(q1) /\ qq[i] = q1[k + i]
    BY <1>1, <1>3 DEF ProcessedTo
<1>6. /\ Len(gg) = k
      /\ \A i \in 1..k : i \in 1..Len(q1) /\ gg[i] = q1[i]
    BY <1>1, <1>3 DEF ProcessedTo
<1>7. ASSUME NEW x
      PROVE  Contains(q1, x) <=> Contains(qq, x) \/ Contains(gg, x)
  <2>1. Contains(qq, x) \/ Contains(gg, x) => Contains(q1, x)
    <3>1. Contains(qq, x) => Contains(q1, x)
      BY <1>5 DEF Contains
    <3>2. Contains(gg, x) => Contains(q1, x)
      BY <1>6 DEF Contains
    <3> QED BY <3>1, <3>2
  <2>2. ASSUME NEW i \in 1..Len(q1)
        PROVE  Contains(qq, q1[i]) \/ Contains(gg, q1[i])
    <3>1. CASE i <= k
      <4>1. i \in 1..k
        BY <1>3, <3>1
      <4> QED BY <1>6, <4>1 DEF Contains
    <3>2. CASE ~ (i <= k)
      <4>1. i - k \in 1..Len(qq) /\ k + (i - k) = i
        BY <1>3, <1>5, <3>2
      <4>2. qq[i - k] = q1[i]
        BY <1>5, <4>1
      <4> QED BY <4>1, <4>2 DEF Contains
    <3> QED BY <3>1, <3>2
  <2> QED BY <2>1, <2>2 DEF Contains
<1>8. ASSUME NEW x
      PROVE  Contains(hh, x) <=> Contains(h1, x) \/ Contains(gg, x)
  <2>1. hh = h1 \o SubSeq(q1, 1, k) /\ SubSeq(q1, 1, k) = gg
    <3>1. gg = SubSeq(q1, 1, k)
      BY DEF ProcessLockRequestQueue, k
    <3> QED BY <1>1, <3>1 DEF ProcessedTo
  <2>2. Contains(h1 \o gg, x) <=> Contains(h1, x) \/ Contains(gg, x)
    BY <1>4, ConcatContains
  <2> QED BY <2>1, <2>2
<1>9. ASSUME NEW x, Contains(gg, x)
      PROVE  ~ Contains(qq, x) /\ ~ Contains(h1, x)
  <2>1. Contains(hh, x) /\ Contains(q1, x)
    BY <1>7, <1>8, <1>9
  <2>2. ~ Contains(qq, x)
    BY <1>2, <2>1 DEF NameInv, Contains
  <2>3. ~ Contains(h1, x)
    BY <2>1 DEF NameInv, Contains
  <2> QED BY <2>2, <2>3
<1>10. ASSUME NEW i \in 1..Len(q), Contains(qq, q[i]),
              NEW x, Contains(hh, x), ~ Contains(h, x)
       PROVE  requests[x].kind = "steal" \/ \E j \in 1..(i - 1) : q[j] = x
  <2>1. Contains(gg, x)
    BY <1>8, <1>10
  <2>2. PICK m \in 1..k : q1[m] = x
    BY <1>6, <2>1 DEF Contains
  <2>3. PICK y \in 1..Len(qq) : qq[y] = q[i]
    BY <1>10 DEF Contains
  <2> DEFINE l == k + y
  <2>4. l \in 1..Len(q1) /\ q1[l] = q[i]
    BY <1>5, <2>3
  <2>5. m \in 1..(l - 1)
    BY <1>3, <1>5, <2>2, <2>3
  <2> HIDE DEF l
  <2> QED BY <2>2, <2>4, <2>5 DEF Follows
<1> QED
    BY <1>2, <1>4, <1>7, <1>8, <1>9, <1>10 DEF NameStepTo

-----------------------------------------------------------------------------
(* The registry                                                            *)

Queued == {id \in Ids : Contains(lockRequestQueueMap[NameOf(id)], id)}
Held   == {id \in Ids : Contains(heldLocks[NameOf(id)], id)}

RegistryInv ==
    /\ requests \in Seq(Option)
    /\ lockRequestQueueMap \in [Names -> Seq(Ids)]
    /\ heldLocks \in [Names -> Seq(Ids)]
    /\ \A n \in Names : NameInv(lockRequestQueueMap[n], heldLocks[n])
    /\ \A n \in Names : \A id :
            Contains(lockRequestQueueMap[n], id) \/ Contains(heldLocks[n], id)
                => NameOf(id) = n
    /\ NoGrantableWaits

OvertakenByNobody ==
    \A n \in Names :
        LET q == lockRequestQueueMap[n] IN
        \A i \in DOMAIN q :
            Contains(lockRequestQueueMap'[n], q[i]) =>
                \A id \in ToSet(heldLocks'[n]) \ ToSet(heldLocks[n]) :
                    \/ requests[id].kind = "steal"
                    \/ \E j \in 1..(i - 1) : q[j] = id

(* Contains() and ToSet() agree.                                           *)
LEMMA ContainsToSet ==
    ASSUME NEW T, NEW s \in Seq(T), NEW x
    PROVE  /\ DOMAIN s = 1..Len(s)
           /\ Contains(s, x) <=> x \in ToSet(s)
    BY DEF Contains, ToSet

(* A request made has a name and a client.                                 *)
LEMMA NameOfId ==
    ASSUME requests \in Seq(Option), NEW id \in Ids
    PROVE  NameOf(id) \in Names /\ ClientOf(id) \in Clients
<1>1. requests[id] \in Option
    BY DEF Ids
<1> QED
    BY <1>1 DEF Option, NameOf, ClientOf

(* A step that leaves the registry alone keeps what is true of it.         *)
LEMMA RegistryUnchanged ==
    ASSUME RegistryInv, requests' = requests, UNCHANGED registryVars
    PROVE  RegistryInv' /\ OvertakenByNobody
<1>1. lockRequestQueueMap' = lockRequestQueueMap /\ heldLocks' = heldLocks
    BY DEF registryVars
<1>2. OvertakenByNobody
    BY <1>1 DEF OvertakenByNobody
<1>3. Ids' = Ids /\ Option' = Option
    BY DEF Ids, Option
<1>4. NoGrantableWaits'
    BY <1>1 DEF RegistryInv, NoGrantableWaits, IsGrantable
<1>5. RegistryInv'
    BY <1>1, <1>3, <1>4 DEF RegistryInv, NameInv, NameOf
<1> QED
    BY <1>2, <1>5

(* What a step does to the queue and the held locks of each name that it   *)
(* processes, and to no other.                                             *)
NamesStep(changed, q1, h1, gg) ==
    \A n \in Names :
        \/ /\ n \in changed
           /\ NameStepTo(lockRequestQueueMap[n], heldLocks[n], q1[n], h1[n],
                         lockRequestQueueMap'[n], heldLocks'[n], gg[n])
           /\ \A id : Contains(q1[n], id) \/ Contains(h1[n], id) => NameOf(id) = n
        \/ /\ n \notin changed
           /\ lockRequestQueueMap'[n] = lockRequestQueueMap[n]
           /\ heldLocks'[n] = heldLocks[n]

(* A step that processes the names in changed keeps the registry in order. *)
LEMMA RegistryStep ==
    ASSUME RegistryInv, requests' = requests,
           NEW changed, NEW q1, NEW h1, NEW gg, NamesStep(changed, q1, h1, gg),
           NEW Q, Q = lockRequestQueueMap', Q = [n \in Names |-> Q[n]],
           NEW H, H = heldLocks', H = [n \in Names |-> H[n]]
    PROVE  RegistryInv' /\ OvertakenByNobody
<1>1. Ids' = Ids
    BY DEF Ids
<1>2. ASSUME NEW n \in Names
      PROVE  /\ Q[n] \in Seq(Ids) /\ H[n] \in Seq(Ids)
             /\ NameInv(Q[n], H[n])
             /\ \A id : Contains(Q[n], id) \/ Contains(H[n], id) => NameOf(id) = n
             /\ Q[n] # <<>> => ~ IsGrantable(Head(Q[n]), Q[n], H[n])
    BY DEF RegistryInv, NamesStep, NameStepTo, NoGrantableWaits
<1>3. Q \in [Names -> Seq(Ids)] /\ H \in [Names -> Seq(Ids)]
    BY <1>2
<1>4. RegistryInv'
  <2>1. ASSUME NEW n \in Names
        PROVE  NameInv(lockRequestQueueMap[n], heldLocks[n])'
    BY <1>2 DEF NameInv
  <2>2. ASSUME NEW n \in Names, NEW id,
               (Contains(lockRequestQueueMap[n], id) \/ Contains(heldLocks[n], id))'
        PROVE  NameOf(id)' = n
    BY <1>2, <2>2 DEF NameOf
  <2>3. NoGrantableWaits'
    BY <1>2 DEF NoGrantableWaits, IsGrantable
  <2>4. (requests \in Seq(Option))'
    BY DEF RegistryInv, Option
  <2> QED BY <1>1, <1>3, <2>1, <2>2, <2>3, <2>4 DEF RegistryInv
<1>5. OvertakenByNobody
  <2> SUFFICES ASSUME NEW n \in Names, NEW i \in DOMAIN lockRequestQueueMap[n],
                      Contains(Q[n], lockRequestQueueMap[n][i]),
                      NEW id \in ToSet(H[n]) \ ToSet(heldLocks[n])
               PROVE  \/ requests[id].kind = "steal"
                      \/ \E j \in 1..(i - 1) : lockRequestQueueMap[n][j] = id
    BY DEF OvertakenByNobody
  <2>1. lockRequestQueueMap[n] \in Seq(Ids) /\ heldLocks[n] \in Seq(Ids)
    BY DEF RegistryInv
  <2>2. i \in 1..Len(lockRequestQueueMap[n]) /\ Contains(H[n], id) /\ ~ Contains(heldLocks[n], id)
    BY <1>2, <2>1, ContainsToSet
  <2>3. n \in changed
    BY <2>2 DEF NamesStep
  <2> QED BY <2>2, <2>3 DEF NamesStep, NameStepTo
<1> QED
    BY <1>4, <1>5

AnswerTypes == {"granted", "denied", "stolen", "aborted", "notAborted"}
Answers     == [type : AnswerTypes, id : Ids]

(* There is an answer of type t about id. *)
Says(answers, t, id) == Contains(answers, [type |-> t, id |-> id])

(* What the answers of one type say.                                       *)
LEMMA AnswerSays ==
    ASSUME NEW t \in AnswerTypes, NEW ids \in Seq(Ids)
    PROVE  /\ Answer(t, ids) \in Seq(Answers)
           /\ \A u, x : Says(Answer(t, ids), u, x) <=> u = t /\ Contains(ids, x)
<1> DEFINE a == Answer(t, ids)
<1>1. /\ a \in Seq(Answers) /\ Len(a) = Len(ids)
      /\ \A i \in 1..Len(ids) : a[i] = [type |-> t, id |-> ids[i]]
  <2>1. DOMAIN ids = 1..Len(ids) /\ Len(ids) \in Nat /\ \A i \in 1..Len(ids) : ids[i] \in Ids
    OBVIOUS
  <2>2. a = [i \in 1..Len(ids) |-> [type |-> t, id |-> ids[i]]]
    BY <2>1 DEF Answer
  <2>3. \A i \in 1..Len(ids) : [type |-> t, id |-> ids[i]] \in Answers
    BY <2>1 DEF Answers
  <2> HIDE DEF a
  <2>4. a \in [1..Len(ids) -> Answers]
    BY <2>2, <2>3
  <2>5. a \in Seq(Answers) /\ Len(a) = Len(ids)
    BY <2>1, <2>4
  <2> QED BY <2>2, <2>5
<1> HIDE DEF a
<1>2. ASSUME NEW u, NEW x
      PROVE  Says(a, u, x) <=> u = t /\ Contains(ids, x)
  <2>1. ASSUME NEW i \in 1..Len(ids)
        PROVE  a[i] = [type |-> u, id |-> x] <=> u = t /\ ids[i] = x
    <3>1. a[i] = [type |-> t, id |-> ids[i]]
      BY <1>1
    <3> QED BY <3>1
  <2>2. Says(a, u, x) <=> \E i \in 1..Len(ids) : a[i] = [type |-> u, id |-> x]
    BY <1>1 DEF Says, Contains
  <2> QED BY <2>1, <2>2 DEF Contains
<1> QED
    BY <1>1, <1>2 DEF a

(* What answers put one after the other say.                               *)
LEMMA ConcatSays ==
    ASSUME NEW a \in Seq(Answers), NEW b \in Seq(Answers), NEW c \in Seq(Answers)
    PROVE  /\ a \o b \o c \in Seq(Answers)
           /\ \A u, x : Says(a \o b \o c, u, x) <=>
                            Says(a, u, x) \/ Says(b, u, x) \/ Says(c, u, x)
<1>1. a \o b \in Seq(Answers) /\ a \o b \o c \in Seq(Answers)
    OBVIOUS
<1>2. ASSUME NEW x
      PROVE  /\ Contains((a \o b) \o c, x) <=> Contains(a \o b, x) \/ Contains(c, x)
             /\ Contains(a \o b, x) <=> Contains(a, x) \/ Contains(b, x)
    BY <1>1, ConcatContains
<1> QED
    BY <1>1, <1>2 DEF Says

(* What becomes of a request under a name that is processed. *)
IdStep(id, q1, h1, g) ==
    /\ id \in Queued' <=> Contains(q1, id) /\ ~ Contains(g, id)
    /\ id \in Held' <=> Contains(h1, id) \/ Contains(g, id)
    /\ Contains(g, id) => Contains(q1, id) /\ ~ Contains(h1, id)

(* What such a step does to one request.                                   *)
LEMMA IdsStep ==
    ASSUME RegistryInv, requests' = requests,
           NEW changed, NEW q1, NEW h1, NEW gg, NamesStep(changed, q1, h1, gg),
           NEW id \in Ids
    PROVE  /\ NameOf(id) \in changed =>
                  IdStep(id, q1[NameOf(id)], h1[NameOf(id)], gg[NameOf(id)])
           /\ NameOf(id) \notin changed =>
                  (id \in Queued' <=> id \in Queued) /\ (id \in Held' <=> id \in Held)
<1> DEFINE n == NameOf(id)
<1>1. n \in Names
    BY NameOfId DEF RegistryInv
<1>2. Ids' = Ids /\ NameOf(id)' = n
    BY DEF Ids, NameOf
<1>3. /\ id \in Queued' <=> Contains(lockRequestQueueMap'[n], id)
      /\ id \in Held' <=> Contains(heldLocks'[n], id)
      /\ id \in Queued <=> Contains(lockRequestQueueMap[n], id)
      /\ id \in Held <=> Contains(heldLocks[n], id)
    BY <1>2 DEF Queued, Held
<1> HIDE DEF n
<1>4. ASSUME n \in changed
      PROVE  IdStep(id, q1[n], h1[n], gg[n])
    BY <1>1, <1>3, <1>4 DEF NamesStep, NameStepTo, IdStep
<1>5. ASSUME n \notin changed
      PROVE  (id \in Queued' <=> id \in Queued) /\ (id \in Held' <=> id \in Held)
    BY <1>1, <1>3, <1>5 DEF NamesStep
<1> QED
    BY <1>4, <1>5 DEF n

(* ProcessName() is such a step, for one name.                             *)
LEMMA ProcessNameStep ==
    ASSUME RegistryInv, requests' = requests, NEW n \in Names,
           NEW q1 \in Seq(Ids), NEW h1 \in Seq(Ids), NameInv(q1, h1),
           Follows(q1, lockRequestQueueMap[n]),
           \A x : Contains(h1, x) => Contains(heldLocks[n], x),
           \A x : Contains(q1, x) => NameOf(x) = n,
           NEW before, NEW after, ProcessName(n, q1, h1, before, after)
    PROVE  \E g \in Seq(Ids) :
              /\ EnsureOnContextThread(before \o Answer("granted", g) \o after)
              /\ RegistryInv' /\ OvertakenByNobody
              /\ \A id : Contains(g, id) => NameOf(id) = n
              /\ \A id \in Ids : NameOf(id) = n => IdStep(id, q1, h1, g)
              /\ \A id \in Ids : NameOf(id) # n =>
                    (id \in Queued' <=> id \in Queued) /\ (id \in Held' <=> id \in Held)
<1> DEFINE p == ProcessLockRequestQueue(q1, h1)
           qq == p.queue
           hh == p.held
           gg == p.granted
           F(x) == [m \in {n} |-> x]
<1>1. /\ lockRequestQueueMap' = [lockRequestQueueMap EXCEPT ![n] = qq]
      /\ heldLocks' = [heldLocks EXCEPT ![n] = hh]
      /\ EnsureOnContextThread(before \o Answer("granted", gg) \o after)
    BY DEF ProcessName
<1>2. /\ lockRequestQueueMap \in [Names -> Seq(Ids)]
      /\ heldLocks \in [Names -> Seq(Ids)]
      /\ requests \in Seq(Option)
      /\ \A id : Contains(heldLocks[n], id) => NameOf(id) = n
    BY DEF RegistryInv
<1>3. NameStepTo(lockRequestQueueMap[n], heldLocks[n], q1, h1, qq, hh, gg)
    BY <1>2, NameStep
<1> HIDE DEF qq, hh, gg, p
<1>4. /\ lockRequestQueueMap'[n] = qq /\ heldLocks'[n] = hh
      /\ \A m \in Names \ {n} : /\ lockRequestQueueMap'[m] = lockRequestQueueMap[m]
                               /\ heldLocks'[m] = heldLocks[m]
      /\ lockRequestQueueMap' = [m \in Names |-> lockRequestQueueMap'[m]]
      /\ heldLocks' = [m \in Names |-> heldLocks'[m]]
    BY <1>1, <1>2
<1>5. NamesStep({n}, F(q1), F(h1), F(gg))
    BY <1>2, <1>3, <1>4 DEF NamesStep
<1>6. F(q1)[n] = q1 /\ F(h1)[n] = h1 /\ F(gg)[n] = gg
    OBVIOUS
<1> HIDE DEF F
<1>7. RegistryInv' /\ OvertakenByNobody
    BY <1>4, <1>5, RegistryStep
<1>8. ASSUME NEW id \in Ids, NameOf(id) = n
      PROVE  IdStep(id, q1, h1, gg)
    BY <1>5, <1>6, <1>8, IdsStep
<1>9. ASSUME NEW id \in Ids, NameOf(id) # n
      PROVE  (id \in Queued' <=> id \in Queued) /\ (id \in Held' <=> id \in Held)
    BY <1>5, <1>9, IdsStep
<1>10. gg \in Seq(Ids) /\ \A id : Contains(gg, id) => NameOf(id) = n
    BY <1>3 DEF NameStepTo
<1> QED
    BY <1>1, <1>7, <1>8, <1>9, <1>10

-----------------------------------------------------------------------------
(* The functions that run on the main thread                               *)

Messages == [type : {"request", "release", "abort"}, id : Ids]
                \cup [type : {"goingAway"}, client : Clients]

(* A request is posted once and, until the main thread has run it, is not  *)
(* in the registry.                                                        *)
PostedInv ==
    /\ mainQueue \in Seq(Messages)
    /\ \A i, j \in 1..Len(mainQueue) :
            /\ mainQueue[i].type = "request" /\ mainQueue[j].type = "request"
            /\ mainQueue[i].id = mainQueue[j].id
            => i = j
    /\ \A i \in 1..Len(mainQueue) :
            mainQueue[i].type = "request" => mainQueue[i].id \notin Queued \cup Held

Now(type, id) == Head(mainQueue) = [type |-> type, id |-> id]
Leaves(c)     == Head(mainQueue) = [type |-> "goingAway", client |-> c]

(* The effect of one function of the main thread on each request, and the  *)
(* answers it gives.                                                       *)
Effect(answers) ==
    /\ answers \in Seq(Answers)
    /\ \/ EnsureOnContextThread(answers)
       \/ answers = <<>> /\ UNCHANGED <<clientVars, toContext>>
    /\ \A id \in Ids :
        /\ Says(answers, "granted", id) <=> id \in Held' /\ id \notin Held
        /\ id \in Queued' => id \in Queued \/ Now("request", id)
        /\ id \in Held' => id \in Held \cup Queued \/ Now("request", id)
        /\ \A t \in {"denied", "stolen", "aborted"} : Says(answers, t, id) =>
                /\ id \notin Held' \cup Queued'
                /\ id \in Held \cup Queued \/ Now("request", id)
        /\ id \in Held /\ id \notin Held' =>
                \/ Says(answers, "stolen", id)
                \/ Now("release", id)
                \/ Leaves(ClientOf(id))
        /\ Now("release", id) /\ id \in Held => id \notin Held'
        /\ Leaves(ClientOf(id)) => id \notin Held' \cup Queued'

(* The effect of ProcessName(), given what was dropped and what was added  *)
(* before the queue is processed.                                          *)
LEMMA ProcessNameEffect ==
    ASSUME RegistryInv, requests' = requests, NEW n \in Names,
           NEW q1 \in Seq(Ids), NEW h1 \in Seq(Ids), NameInv(q1, h1),
           Follows(q1, lockRequestQueueMap[n]),
           \A x : Contains(h1, x) => Contains(heldLocks[n], x),
           \A x : Contains(q1, x) => Contains(lockRequestQueueMap[n], x) \/ Now("request", x),
           \A x : Contains(q1, x) => NameOf(x) = n /\ ~ Contains(heldLocks[n], x),
           NEW before \in Seq(Answers), NEW after \in Seq(Answers),
           \A t, x : Says(before, t, x) \/ Says(after, t, x) =>
               /\ t \in {"stolen", "aborted"}
               /\ ~ Contains(q1, x) /\ ~ Contains(h1, x)
               /\ NameOf(x) = n
               /\ Contains(lockRequestQueueMap[n], x) \/ Contains(heldLocks[n], x),
           \A x : Contains(heldLocks[n], x) /\ ~ Contains(h1, x) =>
               Says(before, "stolen", x) \/ Now("release", x),
           \A x : Now("release", x) => NameOf(x) = n /\ ~ Contains(h1, x),
           \A c : ~ Leaves(c),
           ProcessName(n, q1, h1, before, after)
    PROVE  RegistryInv' /\ OvertakenByNobody /\ \E answers : Effect(answers)
<1>1. PICK g \in Seq(Ids) :
              /\ EnsureOnContextThread(before \o Answer("granted", g) \o after)
              /\ RegistryInv' /\ OvertakenByNobody
              /\ \A id : Contains(g, id) => NameOf(id) = n
              /\ \A id \in Ids : NameOf(id) = n => IdStep(id, q1, h1, g)
              /\ \A id \in Ids : NameOf(id) # n =>
                    (id \in Queued' <=> id \in Queued) /\ (id \in Held' <=> id \in Held)
    BY ProcessNameStep
<1> DEFINE gr == Answer("granted", g)
           answers == before \o gr \o after
<1>2. gr \in Seq(Answers) /\ \A t, x : Says(gr, t, x) <=> t = "granted" /\ Contains(g, x)
    BY AnswerSays DEF AnswerTypes
<1> HIDE DEF gr
<1>3. /\ answers \in Seq(Answers)
      /\ \A t, x : Says(answers, t, x) <=>
                       Says(before, t, x) \/ Says(gr, t, x) \/ Says(after, t, x)
    BY <1>2, ConcatSays
<1>4. EnsureOnContextThread(answers)
    BY <1>1 DEF gr
<1> HIDE DEF answers
<1>5. ASSUME NEW id \in Ids, NameOf(id) = n
      PROVE  /\ Says(answers, "granted", id) <=> Contains(g, id)
             /\ id \in Queued <=> Contains(lockRequestQueueMap[n], id)
             /\ id \in Held <=> Contains(heldLocks[n], id)
             /\ IdStep(id, q1, h1, g)
  <2>1. Says(answers, "granted", id) <=> Contains(g, id)
    <3>1. ~ Says(before, "granted", id) /\ ~ Says(after, "granted", id)
      OBVIOUS
    <3> QED BY <1>2, <1>3, <3>1
  <2>2. /\ id \in Queued <=> Contains(lockRequestQueueMap[n], id)
        /\ id \in Held <=> Contains(heldLocks[n], id)
    BY <1>5 DEF Queued, Held
  <2> QED BY <1>1, <1>5, <2>1, <2>2
<1>6. ASSUME NEW id \in Ids, NameOf(id) # n
      PROVE  /\ \A t : ~ Says(answers, t, id)
             /\ ~ Now("release", id)
             /\ id \in Queued' <=> id \in Queued
             /\ id \in Held' <=> id \in Held
    BY <1>1, <1>2, <1>3, <1>6
<1>7. ASSUME NEW id \in Ids
      PROVE  /\ Says(answers, "granted", id) <=> id \in Held' /\ id \notin Held
             /\ id \in Queued' => id \in Queued \/ Now("request", id)
             /\ id \in Held' => id \in Held \cup Queued \/ Now("request", id)
    BY <1>5, <1>6 DEF IdStep
<1>8. ASSUME NEW id \in Ids, NEW t \in {"denied", "stolen", "aborted"}, Says(answers, t, id)
      PROVE  /\ id \notin Held' \cup Queued'
             /\ id \in Held \cup Queued \/ Now("request", id)
  <2>1. NameOf(id) = n
    BY <1>6, <1>8
  <2>2. Says(before, t, id) \/ Says(after, t, id)
    BY <1>2, <1>3, <1>8
  <2> QED BY <1>5, <2>1, <2>2 DEF IdStep
<1>9. ASSUME NEW id \in Ids
      PROVE  /\ id \in Held /\ id \notin Held' => Says(answers, "stolen", id) \/ Now("release", id)
             /\ Now("release", id) /\ id \in Held => id \notin Held'
             /\ ~ Leaves(ClientOf(id))
    BY <1>3, <1>5, <1>6 DEF IdStep
<1>10. Effect(answers)
    BY <1>3, <1>4, <1>7, <1>8, <1>9 DEF Effect
<1> QED
    BY <1>1, <1>10

(* No answers say nothing.                                                 *)
LEMMA EmptySays ==
    /\ <<>> \in Seq(Answers)
    /\ \A t, x : ~ Says(<<>>, t, x)
    /\ \A x : ~ Contains(<<>>, x)
    BY DEF Says, Contains

(* What the main thread runs now, when it is about a request.              *)
LEMMA HeadMessage ==
    ASSUME PostedInv, mainQueue # <<>>, NEW type \in {"request", "release", "abort"},
           Head(mainQueue).type = type, NEW id, id = Head(mainQueue).id
    PROVE  /\ id \in Ids
           /\ \A t, x : Now(t, x) <=> t = type /\ x = id
           /\ \A c : ~ Leaves(c)
           /\ type = "request" => id \notin Queued \cup Held
<1>1. Head(mainQueue) \in Messages /\ Head(mainQueue) = mainQueue[1] /\ 1 \in 1..Len(mainQueue)
    BY DEF PostedInv
<1> DEFINE m == Head(mainQueue)
<1>2. m \in [type : {"request", "release", "abort"}, id : Ids]
    BY <1>1 DEF Messages
<1>3. m = [type |-> type, id |-> id] /\ id \in Ids
    BY <1>2
<1>4. type = "request" => id \notin Queued \cup Held
    BY <1>1 DEF PostedInv
<1> HIDE DEF m
<1>5. \A t, x : m = [type |-> t, id |-> x] <=> t = type /\ x = id
    BY <1>3
<1>6. \A c : m # [type |-> "goingAway", client |-> c]
  <2>1. \A c : [type |-> "goingAway", client |-> c].type = "goingAway"
    OBVIOUS
  <2>2. m.type = type
    BY <1>3
  <2> QED BY <2>1, <2>2
<1> QED
    BY <1>3, <1>4, <1>5, <1>6 DEF m, Now, Leaves

(* The effect of requestLock(): a thief, a denial, or a place in the       *)
(* queue.                                                                  *)
LEMMA RequestEffect ==
    ASSUME RegistryInv, PostedInv, RunRequest
    PROVE  RegistryInv' /\ OvertakenByNobody /\ \E answers : Effect(answers)
<1> DEFINE id == Head(mainQueue).id
           n == NameOf(id)
           q == lockRequestQueueMap[n]
           held == heldLocks[n]
<1>1. /\ mainQueue # <<>> /\ Head(mainQueue).type = "request"
      /\ requests' = requests /\ RequestLock(id)
    BY DEF RunRequest, MainThread, scriptVars
<1>2. /\ id \in Ids /\ \A t, x : Now(t, x) <=> t = "request" /\ x = id
      /\ \A c : ~ Leaves(c)
      /\ id \notin Queued \cup Held
    BY <1>1, HeadMessage
<1> HIDE DEF id
<1>3. n \in Names
    BY <1>2, NameOfId DEF RegistryInv
<1>4. /\ q \in Seq(Ids) /\ held \in Seq(Ids) /\ NameInv(q, held)
      /\ \A x : Contains(q, x) \/ Contains(held, x) => NameOf(x) = n
      /\ ~ Contains(q, id) /\ ~ Contains(held, id)
    BY <1>2, <1>3 DEF RegistryInv, Queued, Held
<1>5. \A x : Contains(q, x) => ~ Contains(held, x)
    BY <1>4 DEF NameInv, Contains
<1>6. CASE requests[id].kind = "steal"
  <2> DEFINE before == Answer("stolen", held)
             q1 == <<id>> \o q
  <2>1. ProcessName(n, q1, <<>>, before, <<>>)
    BY <1>1, <1>6 DEF RequestLock
  <2>2. before \in Seq(Answers) /\ \A t, x : Says(before, t, x) <=> t = "stolen" /\ Contains(held, x)
    BY <1>4, AnswerSays DEF AnswerTypes
  <2>3. /\ q1 \in Seq(Ids) /\ NameInv(q1, <<>>) /\ Follows(q1, q)
        /\ \A x : Contains(q1, x) <=> Contains(q, x) \/ x = id
    BY <1>2, <1>4, <1>6, ThiefNameInv
  <2> HIDE DEF before, q1, n
  <2>4. <<>> \in Seq(Ids)
    OBVIOUS
  <2>5. /\ \A x : Contains(q1, x) => Contains(q, x) \/ Now("request", x)
        /\ \A x : Contains(q1, x) => NameOf(x) = n /\ ~ Contains(held, x)
    BY <1>2, <1>4, <1>5, <2>3 DEF n
  <2>6. \A t, x : Says(before, t, x) \/ Says(<<>>, t, x) =>
               /\ t \in {"stolen", "aborted"}
               /\ ~ Contains(q1, x) /\ ~ Contains(<<>>, x)
               /\ NameOf(x) = n
               /\ Contains(q, x) \/ Contains(held, x)
    BY <1>4, <2>2, <2>5, EmptySays
  <2>7. /\ \A x : Contains(held, x) => Says(before, "stolen", x)
        /\ \A x : ~ Now("release", x)
    BY <1>2, <2>2
  <2> QED BY <1>1, <1>2, <1>3, <2>1, <2>2, <2>3, <2>4, <2>5, <2>6, <2>7,
             EmptySays, ProcessNameEffect
<1>7. CASE /\ requests[id].kind = "ifAvailable" /\ ~ IsGrantable(id, q, held)
  <2> DEFINE answers == Answer("denied", <<id>>)
  <2>1. EnsureOnContextThread(answers) /\ UNCHANGED registryVars
    BY <1>1, <1>7 DEF RequestLock
  <2>2. <<id>> \in Seq(Ids) /\ \A x : Contains(<<id>>, x) <=> x = id
    BY <1>2 DEF Contains
  <2>3. answers \in Seq(Answers) /\ \A t, x : Says(answers, t, x) <=> t = "denied" /\ x = id
    BY <2>2, AnswerSays DEF AnswerTypes
  <2> HIDE DEF answers
  <2>4. Queued' = Queued /\ Held' = Held /\ Ids' = Ids
    BY <1>1, <2>1 DEF Queued, Held, Ids, NameOf, registryVars
  <2>5. Effect(answers)
    BY <1>2, <2>1, <2>3, <2>4 DEF Effect
  <2>6. RegistryInv' /\ OvertakenByNobody
    BY <1>1, <2>1, RegistryUnchanged
  <2> QED BY <2>5, <2>6
<1>8. CASE /\ requests[id].kind # "steal"
           /\ ~ (requests[id].kind = "ifAvailable" /\ ~ IsGrantable(id, q, held))
  <2> DEFINE q1 == Append(q, id)
  <2>1. ProcessName(n, q1, held, <<>>, <<>>)
    BY <1>1, <1>8 DEF RequestLock
  <2>2. /\ q1 \in Seq(Ids) /\ NameInv(q1, held) /\ Follows(q1, q)
        /\ \A x : Contains(q1, x) <=> Contains(q, x) \/ x = id
    BY <1>2, <1>4, AppendNameInv
  <2> HIDE DEF q1, n
  <2>3. /\ \A x : Contains(q1, x) => Contains(q, x) \/ Now("request", x)
        /\ \A x : Contains(q1, x) => NameOf(x) = n /\ ~ Contains(held, x)
        /\ \A x : ~ Now("release", x)
    BY <1>2, <1>4, <1>5, <2>2 DEF n
  <2> QED BY <1>1, <1>2, <1>3, <1>4, <2>1, <2>2, <2>3, EmptySays, ProcessNameEffect
<1> QED
    BY <1>6, <1>7, <1>8

(* The effect of releaseLock(), of a lock still held or not.               *)
LEMMA ReleaseEffect ==
    ASSUME RegistryInv, PostedInv, RunRelease
    PROVE  RegistryInv' /\ OvertakenByNobody /\ \E answers : Effect(answers)
<1> DEFINE id == Head(mainQueue).id
           n == NameOf(id)
           q == lockRequestQueueMap[n]
           held == heldLocks[n]
<1>1. /\ mainQueue # <<>> /\ Head(mainQueue).type = "release"
      /\ requests' = requests /\ ReleaseLock(id)
    BY DEF RunRelease, MainThread, scriptVars
<1>2. /\ id \in Ids /\ \A t, x : Now(t, x) <=> t = "release" /\ x = id
      /\ \A c : ~ Leaves(c)
    BY <1>1, HeadMessage
<1> HIDE DEF id
<1>3. n \in Names
    BY <1>2, NameOfId DEF RegistryInv
<1>4. /\ q \in Seq(Ids) /\ held \in Seq(Ids) /\ NameInv(q, held)
      /\ \A x : Contains(q, x) \/ Contains(held, x) => NameOf(x) = n
    BY <1>3 DEF RegistryInv
<1>5. \A x : Contains(q, x) => ~ Contains(held, x)
    BY <1>4 DEF NameInv, Contains
<1>6. CASE held = <<>> /\ UNCHANGED <<registryVars, clientVars, toContext>>
  <2>1. Queued' = Queued /\ Held' = Held /\ Ids' = Ids
    BY <1>1, <1>6 DEF Queued, Held, Ids, NameOf, registryVars
  <2>2. id \notin Held
    BY <1>6, EmptySays DEF Held
  <2>3. Effect(<<>>)
    BY <1>2, <1>6, <2>1, <2>2, EmptySays DEF Effect
  <2>4. RegistryInv' /\ OvertakenByNobody
    BY <1>1, <1>6, RegistryUnchanged
  <2> QED BY <2>3, <2>4
<1>7. CASE ProcessName(n, q, RemoveFirst(held, id), <<>>, <<>>)
  <2> DEFINE h1 == RemoveFirst(held, id)
  <2>1. \A i, j \in 1..Len(held) : held[i] = held[j] => i = j
    BY <1>4 DEF NameInv
  <2>2. h1 \in Seq(Ids) /\ \E f : Picks(h1, held, Ids \ {id}, Len(held), f)
    BY <1>4, <2>1, RemoveFirstPicks
  <2>3. \E f : Picks(q, q, Ids, Len(q), f)
    BY <1>4, PicksAll
  <2>4. ProcessName(n, q, h1, <<>>, <<>>)
    BY <1>7
  <2> HIDE DEF h1, n
  <2>5. \A x : Contains(h1, x) <=> Contains(held, x) /\ x \in Ids \ {id}
    BY <2>2, PicksContains
  <2>6. NameInv(q, h1)
    BY <1>4, <2>2, <2>3, PicksNameInv
  <2>7. Follows(q, q)
    BY <1>4, <2>3, PicksFollows DEF NameInv, Distinct
  <2>8. \A x : Contains(held, x) => x \in Ids
    BY <1>4 DEF Contains
  <2>9. /\ \A x : Contains(held, x) /\ ~ Contains(h1, x) => Now("release", x)
        /\ \A x : Now("release", x) => NameOf(x) = n /\ ~ Contains(h1, x)
    BY <1>2, <2>5, <2>8 DEF n
  <2> QED BY <1>1, <1>2, <1>3, <1>4, <1>5, <2>2, <2>4, <2>5, <2>6, <2>7, <2>9,
             EmptySays, ProcessNameEffect
<1> QED
    BY <1>1, <1>6, <1>7 DEF ReleaseLock

(* The effect of abortLockRequest(), of a request still queued or not.     *)
LEMMA AbortEffect ==
    ASSUME RegistryInv, PostedInv, RunAbort
    PROVE  RegistryInv' /\ OvertakenByNobody /\ \E answers : Effect(answers)
<1> DEFINE id == Head(mainQueue).id
           n == NameOf(id)
           q == lockRequestQueueMap[n]
           held == heldLocks[n]
           Say(t) == Answer(t, <<id>>)
<1>1. /\ mainQueue # <<>> /\ Head(mainQueue).type = "abort"
      /\ requests' = requests /\ AbortLockRequest(id)
    BY DEF RunAbort, MainThread, scriptVars
<1>2. /\ id \in Ids /\ \A t, x : Now(t, x) <=> t = "abort" /\ x = id
      /\ \A c : ~ Leaves(c)
    BY <1>1, HeadMessage
<1> HIDE DEF id
<1>3. n \in Names
    BY <1>2, NameOfId DEF RegistryInv
<1>4. /\ q \in Seq(Ids) /\ held \in Seq(Ids) /\ NameInv(q, held)
      /\ \A x : Contains(q, x) \/ Contains(held, x) => NameOf(x) = n
    BY <1>3 DEF RegistryInv
<1>5. \A x : Contains(q, x) => ~ Contains(held, x)
    BY <1>4 DEF NameInv, Contains
<1>6. ASSUME NEW t \in AnswerTypes
      PROVE  Say(t) \in Seq(Answers) /\ \A u, x : Says(Say(t), u, x) <=> u = t /\ x = id
  <2>1. <<id>> \in Seq(Ids) /\ \A x : Contains(<<id>>, x) <=> x = id
    BY <1>2 DEF Contains
  <2> QED BY <2>1, AnswerSays
<1> HIDE DEF Say
<1>7. CASE EnsureOnContextThread(Say("notAborted")) /\ UNCHANGED registryVars
  <2>1. Queued' = Queued /\ Held' = Held /\ Ids' = Ids
    BY <1>1, <1>7 DEF Queued, Held, Ids, NameOf, registryVars
  <2>2. /\ Say("notAborted") \in Seq(Answers)
        /\ \A t, x : Says(Say("notAborted"), t, x) <=> t = "notAborted" /\ x = id
    BY <1>6 DEF AnswerTypes
  <2>3. Effect(Say("notAborted"))
    BY <1>2, <1>7, <2>1, <2>2 DEF Effect
  <2>4. RegistryInv' /\ OvertakenByNobody
    BY <1>1, <1>7, RegistryUnchanged
  <2> QED BY <2>3, <2>4
<1>8. CASE Contains(q, id) /\ ProcessName(n, RemoveFirst(q, id), held, <<>>, Say("aborted"))
  <2> DEFINE q1 == RemoveFirst(q, id)
             after == Say("aborted")
  <2>1. \A i, j \in 1..Len(q) : q[i] = q[j] => i = j
    BY <1>4 DEF NameInv
  <2>2. q1 \in Seq(Ids) /\ \E f : Picks(q1, q, Ids \ {id}, Len(q), f)
    BY <1>4, <2>1, RemoveFirstPicks
  <2>3. \E f : Picks(held, held, Ids, Len(held), f)
    BY <1>4, PicksAll
  <2>4. /\ ProcessName(n, q1, held, <<>>, after)
        /\ after \in Seq(Answers)
        /\ \A t, x : Says(after, t, x) <=> t = "aborted" /\ x = id
    BY <1>6, <1>8 DEF AnswerTypes
  <2> HIDE DEF q1, after, n
  <2>5. \A x : Contains(q1, x) <=> Contains(q, x) /\ x \in Ids \ {id}
    BY <2>2, PicksContains
  <2>6. NameInv(q1, held)
    BY <1>4, <2>2, <2>3, PicksNameInv
  <2>7. Follows(q1, q)
    BY <1>4, <2>2, PicksFollows DEF NameInv, Distinct
  <2>8. \A t, x : Says(<<>>, t, x) \/ Says(after, t, x) =>
               /\ t \in {"stolen", "aborted"}
               /\ ~ Contains(q1, x) /\ ~ Contains(held, x)
               /\ NameOf(x) = n
               /\ Contains(q, x) \/ Contains(held, x)
    BY <1>5, <1>8, <2>4, <2>5, EmptySays DEF n
  <2>9. /\ \A x : Contains(q1, x) => NameOf(x) = n /\ ~ Contains(held, x)
        /\ \A x : Contains(q1, x) => Contains(q, x)
        /\ \A x : ~ Now("release", x)
    BY <1>2, <1>4, <1>5, <2>5
  <2> QED BY <1>1, <1>2, <1>3, <1>4, <2>2, <2>4, <2>6, <2>7, <2>8, <2>9,
             EmptySays, ProcessNameEffect
<1> QED
    BY <1>1, <1>7, <1>8 DEF AbortLockRequest, Say

(* A sequence of all elements of a finite set reaches each of them. *)
LEMMA OrderReachesAll ==
    ASSUME NEW S, IsFiniteSet(S), NEW order \in SetToSeqs(S)
    PROVE  /\ order \in Seq(S)
           /\ \A x \in S : \E i \in 1..Len(order) : order[i] = x
<1> DEFINE D == 1..Cardinality(S)
<1>1. Cardinality(S) \in Nat
    BY FS_CardinalityType
<1>2. order \in [D -> S] /\ \A i, j \in D : i # j => order[i] # order[j]
    BY DEF SetToSeqs
<1>3. order \in Seq(S) /\ Len(order) = Cardinality(S)
    BY <1>1, <1>2
<1>4. order \in Injection(D, S)
    BY <1>2 DEF Injection, IsInjective
<1>5. IsFiniteSet(D) /\ Cardinality(D) = Cardinality(S)
    BY <1>1, FS_Interval
<1> HIDE DEF D
<1>6. order \in Surjection(D, S)
    BY <1>4, <1>5, FS_Injection
<1>7. \A x \in S : \E i \in D : order[i] = x
    BY <1>6 DEF Surjection
<1> QED
    BY <1>3, <1>7 DEF D

(* The effect of clientsAreGoingAway(), over all the names at once.        *)
LEMMA GoingAwayEffect ==
    ASSUME RegistryInv, PostedInv, RunGoingAway
    PROVE  RegistryInv' /\ OvertakenByNobody /\ \E answers : Effect(answers)
<1> DEFINE c == Head(mainQueue).client
           Kept == Ids \ IdsOf(c)
           Others(ids) == Selected(ids, Kept)
           changed == {n \in Names : \/ Others(lockRequestQueueMap[n]) # lockRequestQueueMap[n]
                                     \/ Others(heldLocks[n]) # heldLocks[n]}
           P(n) == ProcessLockRequestQueue(Others(lockRequestQueueMap[n]), Others(heldLocks[n]))
           q1 == [n \in Names |-> Others(lockRequestQueueMap[n])]
           h1 == [n \in Names |-> Others(heldLocks[n])]
           gg == [n \in Names |-> P(n).granted]
           Grants(order) == [i \in DOMAIN order |-> gg[order[i]]]
<1>1. /\ mainQueue # <<>> /\ Head(mainQueue).type = "goingAway"
      /\ requests' = requests /\ ClientIsGoingAway(c)
    BY DEF RunGoingAway, MainThread, scriptVars
<1>2. /\ c \in Clients /\ \A d : Leaves(d) <=> d = c
      /\ \A t, x : ~ (Now(t, x) /\ t \in {"request", "release", "abort"})
  <2>1. Head(mainQueue) \in Messages
    BY <1>1 DEF PostedInv
  <2> DEFINE m == Head(mainQueue)
  <2>2. m \in [type : {"goingAway"}, client : Clients]
    BY <1>1, <2>1 DEF Messages
  <2>3. m = [type |-> "goingAway", client |-> c] /\ c \in Clients
    BY <2>2
  <2>4. \A t, x : m = [type |-> t, id |-> x] => t = "goingAway"
    <3>1. \A t, x : [type |-> t, id |-> x].type = t
      OBVIOUS
    <3> QED BY <1>1, <3>1
  <2> HIDE DEF m, c
  <2>5. \A d : m = [type |-> "goingAway", client |-> d] <=> d = c
    BY <2>3
  <2> QED BY <2>3, <2>4, <2>5 DEF m, Now, Leaves
<1> HIDE DEF c
<1>3. /\ \A n \in changed : lockRequestQueueMap'[n] = P(n).queue /\ heldLocks'[n] = P(n).held
      /\ \A n \in Names \ changed : /\ lockRequestQueueMap'[n] = lockRequestQueueMap[n]
                                   /\ heldLocks'[n] = heldLocks[n]
      /\ lockRequestQueueMap' = [n \in Names |-> lockRequestQueueMap'[n]]
      /\ heldLocks' = [n \in Names |-> heldLocks'[n]]
    BY <1>1 DEF ClientIsGoingAway
<1>4. PICK order \in SetToSeqs(changed) :
          EnsureOnContextThread(Answer("granted", FlattenSeq(Grants(order))))
  <2>1. PICK order \in SetToSeqs(changed) :
          EnsureOnContextThread(Answer("granted",
              FlattenSeq([i \in DOMAIN order |->
                  [n \in changed |-> P(n)][order[i]].granted])))
    BY <1>1 DEF ClientIsGoingAway
  <2>2. order \in [1..Cardinality(changed) -> changed]
    BY <2>1 DEF SetToSeqs
  <2>3. \A i \in DOMAIN order : [n \in changed |-> P(n)][order[i]].granted = gg[order[i]]
    BY <2>2
  <2>4. [i \in DOMAIN order |-> [n \in changed |-> P(n)][order[i]].granted] = Grants(order)
    <3> DEFINE Old(i) == [n \in changed |-> P(n)][order[i]].granted
               New(i) == gg[order[i]]
    <3>1. \A i \in DOMAIN order : Old(i) = New(i)
      BY <2>3
    <3> HIDE DEF Old, New
    <3>2. [i \in DOMAIN order |-> Old(i)] = [i \in DOMAIN order |-> New(i)]
      BY <3>1
    <3> QED BY <3>2 DEF Old, New
  <2> QED BY <2>1, <2>4
<1>5. ASSUME NEW n \in Names
      PROVE  /\ q1[n] \in Seq(Ids) /\ h1[n] \in Seq(Ids)
             /\ \A x : Contains(q1[n], x) <=> Contains(lockRequestQueueMap[n], x) /\ x \in Kept
             /\ \A x : Contains(h1[n], x) <=> Contains(heldLocks[n], x) /\ x \in Kept
             /\ NameInv(q1[n], h1[n]) /\ Follows(q1[n], lockRequestQueueMap[n])
             /\ \A x : Contains(q1[n], x) \/ Contains(h1[n], x) => NameOf(x) = n
  <2> DEFINE q == lockRequestQueueMap[n]
             h == heldLocks[n]
             qo == Others(q)
             ho == Others(h)
  <2>1. /\ q \in Seq(Ids) /\ h \in Seq(Ids) /\ NameInv(q, h) /\ Distinct(q)
        /\ \A x : Contains(q, x) \/ Contains(h, x) => NameOf(x) = n
    BY DEF RegistryInv, NameInv, Distinct
  <2> HIDE DEF Kept, q, h
  <2>2. /\ qo \in Seq(Ids) /\ ho \in Seq(Ids)
        /\ \E f : Picks(qo, q, Kept, Len(q), f)
        /\ \E f : Picks(ho, h, Kept, Len(h), f)
    BY <2>1, SelectedPicks
  <2> HIDE DEF qo, ho
  <2>3. /\ \A x : Contains(qo, x) <=> Contains(q, x) /\ x \in Kept
        /\ \A x : Contains(ho, x) <=> Contains(h, x) /\ x \in Kept
    BY <2>2, PicksContains
  <2>4. NameInv(qo, ho)
    BY <2>1, <2>2, PicksNameInv
  <2>5. Follows(qo, q)
    BY <2>1, <2>2, PicksFollows
  <2>6. q1[n] = qo /\ h1[n] = ho
    BY DEF qo, ho, q, h
  <2> HIDE DEF q1, h1
  <2> QED BY <2>1, <2>2, <2>3, <2>4, <2>5, <2>6 DEF q, h
<1>6. ASSUME NEW n \in changed
      PROVE  NameStepTo(lockRequestQueueMap[n], heldLocks[n], q1[n], h1[n],
                        lockRequestQueueMap'[n], heldLocks'[n], gg[n])
  <2>0. n \in Names
    OBVIOUS
  <2>1. /\ lockRequestQueueMap[n] \in Seq(Ids) /\ heldLocks[n] \in Seq(Ids)
        /\ requests \in Seq(Option)
    BY <2>0 DEF RegistryInv
  <2>2. /\ lockRequestQueueMap'[n] = ProcessLockRequestQueue(q1[n], h1[n]).queue
        /\ heldLocks'[n] = ProcessLockRequestQueue(q1[n], h1[n]).held
        /\ gg[n] = ProcessLockRequestQueue(q1[n], h1[n]).granted
    BY <1>3, <2>0
  <2> HIDE DEF q1, h1, gg
  <2> QED BY <1>5, <2>0, <2>1, <2>2, NameStep
<1>7. NamesStep(changed, q1, h1, gg)
  <2>1. changed \subseteq Names
    OBVIOUS
  <2> HIDE DEF changed, q1, h1, gg, P
  <2> QED BY <1>3, <1>5, <1>6, <2>1 DEF NamesStep
<1>8. RegistryInv' /\ OvertakenByNobody
  <2> HIDE DEF changed, q1, h1, gg, P
  <2> QED BY <1>1, <1>3, <1>7, RegistryStep
<1>9. ASSUME NEW n \in changed
      PROVE  gg[n] \in Seq(Ids) /\ \E x \in Ids : NameOf(x) = n
  <2>1. gg[n] \in Seq(Ids)
    BY <1>6 DEF NameStepTo
  <2>2. n \in Names /\ (q1[n] # lockRequestQueueMap[n] \/ h1[n] # heldLocks[n])
    OBVIOUS
  <2> HIDE DEF changed, q1, h1, gg, P
  <2>3. /\ lockRequestQueueMap[n] \in Seq(Ids) /\ heldLocks[n] \in Seq(Ids)
        /\ \A x : Contains(lockRequestQueueMap[n], x) \/ Contains(heldLocks[n], x) => NameOf(x) = n
    BY <2>2 DEF RegistryInv
  <2>4. ASSUME NEW s \in Seq(Ids), NEW r \in Seq(Ids), s # r,
               \A x : Contains(r, x) => Contains(s, x)
        PROVE  \E x \in Ids : Contains(s, x)
    <3>1. s # <<>>
      BY <2>4 DEF Contains
    <3>2. 1 \in 1..Len(s) /\ s[1] \in Ids
      BY <3>1
    <3> QED BY <3>2 DEF Contains
  <2>5. \E x \in Ids : Contains(lockRequestQueueMap[n], x) \/ Contains(heldLocks[n], x)
    BY <1>5, <2>2, <2>3, <2>4
  <2> QED BY <2>1, <2>3, <2>5
<1>10. IsFiniteSet(changed)
  <2> HIDE DEF changed, gg
  <2>1. IsFiniteSet(Ids)
    <3>1. Len(requests) \in Nat /\ Ids = 1..Len(requests)
      BY DEF RegistryInv, Ids
    <3> QED BY <3>1, FS_Interval
  <2> DEFINE T == {NameOf(x) : x \in Ids}
             f == [x \in Ids |-> NameOf(x)]
  <2>2. f \in Surjection(Ids, T)
    BY DEF Surjection
  <2> HIDE DEF f
  <2>3. IsFiniteSet(T)
    BY <2>1, <2>2, FS_Surjection
  <2>4. changed \subseteq T
    BY <1>9
  <2> HIDE DEF T
  <2> QED BY <2>3, <2>4, FS_Subset
<1> DEFINE ss == Grants(order)
           flat == FlattenSeq(ss)
           answers == Answer("granted", flat)
<1>11. /\ order \in Seq(changed)
       /\ \A n \in changed : \E i \in 1..Len(order) : order[i] = n
  <2> HIDE DEF changed
  <2> QED BY <1>10, OrderReachesAll
<1>12. /\ ss \in Seq(Seq(Ids)) /\ Len(ss) = Len(order)
       /\ \A i \in 1..Len(order) : order[i] \in changed /\ ss[i] = gg[order[i]]
  <2> HIDE DEF changed, gg
  <2>1. /\ DOMAIN order = 1..Len(order) /\ Len(order) \in Nat
        /\ \A i \in 1..Len(order) : order[i] \in changed
    BY <1>11
  <2>2. \A i \in 1..Len(order) : gg[order[i]] \in Seq(Ids)
    BY <1>9, <2>1
  <2>3. ss = [i \in 1..Len(order) |-> gg[order[i]]]
    BY <2>1
  <2> HIDE DEF ss
  <2>4. ss \in [1..Len(order) -> Seq(Ids)]
    BY <2>2, <2>3
  <2> QED BY <2>1, <2>3, <2>4
<1> HIDE DEF ss, changed, q1, h1, gg, P
<1>13. /\ flat \in Seq(Ids)
       /\ \A x : Contains(flat, x) <=> \E i \in 1..Len(ss) : Contains(ss[i], x)
    BY <1>12, FlattenElements
<1>14. \A x : Contains(flat, x) <=> \E n \in changed : Contains(gg[n], x)
  <2>1. ASSUME NEW x, NEW i \in 1..Len(ss), Contains(ss[i], x)
        PROVE  \E n \in changed : Contains(gg[n], x)
    BY <1>12, <2>1
  <2>2. ASSUME NEW x, NEW n \in changed, Contains(gg[n], x)
        PROVE  \E i \in 1..Len(ss) : Contains(ss[i], x)
    <3>1. PICK i \in 1..Len(order) : order[i] = n
      BY <1>11
    <3> QED BY <1>12, <2>2, <3>1
  <2> HIDE DEF flat
  <2> QED BY <1>13, <2>1, <2>2
<1>15. answers \in Seq(Answers) /\ \A t, x : Says(answers, t, x) <=> t = "granted" /\ Contains(flat, x)
    BY <1>13, AnswerSays DEF AnswerTypes
<1>16. EnsureOnContextThread(answers)
    BY <1>4 DEF ss
<1> HIDE DEF answers, flat
<1>17. ASSUME NEW id \in Ids, NameOf(id) \in changed
       PROVE  /\ Says(answers, "granted", id) <=> Contains(gg[NameOf(id)], id)
              /\ id \in Queued <=> Contains(lockRequestQueueMap[NameOf(id)], id)
              /\ id \in Held <=> Contains(heldLocks[NameOf(id)], id)
              /\ IdStep(id, q1[NameOf(id)], h1[NameOf(id)], gg[NameOf(id)])
              /\ Contains(q1[NameOf(id)], id) <=> id \in Queued /\ ClientOf(id) # c
              /\ Contains(h1[NameOf(id)], id) <=> id \in Held /\ ClientOf(id) # c
  <2>1. ASSUME NEW n \in changed, Contains(gg[n], id)
        PROVE  n = NameOf(id)
    <3>1. n \in Names
      BY DEF changed
    <3>2. Contains(q1[n], id)
      BY <1>6, <2>1 DEF NameStepTo
    <3> QED BY <1>5, <3>1, <3>2
  <2>2. /\ id \in Queued <=> Contains(lockRequestQueueMap[NameOf(id)], id)
        /\ id \in Held <=> Contains(heldLocks[NameOf(id)], id)
    BY DEF Queued, Held
  <2>3. IdStep(id, q1[NameOf(id)], h1[NameOf(id)], gg[NameOf(id)])
    BY <1>1, <1>7, <1>17, IdsStep
  <2>4. NameOf(id) \in Names /\ (id \in Kept <=> ClientOf(id) # c)
    BY <1>17 DEF changed, IdsOf
  <2> HIDE DEF Kept
  <2> QED BY <1>5, <1>14, <1>15, <1>17, <2>1, <2>2, <2>3, <2>4
<1>18. ASSUME NEW id \in Ids, NameOf(id) \notin changed
       PROVE  /\ \A t : ~ Says(answers, t, id)
              /\ id \in Queued' <=> id \in Queued
              /\ id \in Held' <=> id \in Held
              /\ ClientOf(id) = c => id \notin Queued \cup Held
  <2> DEFINE n == NameOf(id)
  <2>1. n \in Names
    BY NameOfId DEF RegistryInv
  <2>2. \A t : ~ Says(answers, t, id)
    <3>1. SUFFICES ASSUME NEW m \in changed, Contains(gg[m], id) PROVE FALSE
      BY <1>14, <1>15
    <3>2. m \in Names
      BY DEF changed
    <3>3. Contains(q1[m], id)
      BY <1>6, <3>1 DEF NameStepTo
    <3> QED BY <1>5, <1>18, <3>2, <3>3
  <2>3. /\ id \in Queued' <=> id \in Queued
        /\ id \in Held' <=> id \in Held
    BY <1>1, <1>7, <1>18, IdsStep
  <2>4. q1[n] = lockRequestQueueMap[n] /\ h1[n] = heldLocks[n]
    BY <1>18, <2>1 DEF changed, q1, h1
  <2>5. ClientOf(id) = c => id \notin Queued \cup Held
    BY <1>5, <2>1, <2>4 DEF Queued, Held, IdsOf
  <2> QED BY <2>2, <2>3, <2>5
<1>19. ASSUME NEW id \in Ids
       PROVE  /\ Says(answers, "granted", id) <=> id \in Held' /\ id \notin Held
              /\ id \in Queued' => id \in Queued /\ ClientOf(id) # c
              /\ id \in Held' => id \in Held \cup Queued /\ ClientOf(id) # c
              /\ id \in Held /\ id \notin Held' => ClientOf(id) = c
  <2>1. ~ (id \in Queued /\ id \in Held)
    <3>1. NameInv(lockRequestQueueMap[NameOf(id)], heldLocks[NameOf(id)])
      BY NameOfId DEF RegistryInv
    <3> QED BY <3>1 DEF NameInv, Queued, Held, Contains
  <2>2. CASE NameOf(id) \in changed
    BY <1>17, <2>1, <2>2 DEF IdStep
  <2>3. CASE NameOf(id) \notin changed
    BY <1>18, <2>3
  <2> QED BY <2>2, <2>3
<1>20. ASSUME NEW id \in Ids, NEW t \in {"denied", "stolen", "aborted"}
       PROVE  ~ Says(answers, t, id)
    BY <1>15
<1>21. Effect(answers)
    BY <1>2, <1>15, <1>16, <1>19, <1>20 DEF Effect
<1> QED
    BY <1>8, <1>21

-----------------------------------------------------------------------------
(* The answers on their way to the clients                                 *)

TaskAnswers == [type : {"granted", "denied"}, id : Ids]

(* A client is told about its own requests only. *)
ClientType ==
    /\ status \in [Clients -> {"active", "stopped", "destroyed"}]
    /\ pendingRequests \subseteq Ids /\ releasePromises \subseteq Ids
    /\ aborted \subseteq Ids /\ running \subseteq Ids
    /\ tasks \in [Clients -> Seq(TaskAnswers)]
    /\ toContext \in [Workers -> Seq(Answers)]
    /\ \A c \in Clients : \A t, id : Says(tasks[c], t, id) => ClientOf(id) = c
    /\ \A c \in Workers : \A t, id : Says(toContext[c], t, id) => ClientOf(id) = c

(* What is on its way after a step was on its way before or is in answers, *)
(* and no grant is lost.                                                   *)
Delivery(answers) ==
    /\ tasks' \in [Clients -> Seq(TaskAnswers)]
    /\ toContext' \in [Workers -> Seq(Answers)]
    /\ \A c \in Clients : \A t, id : Says(tasks'[c], t, id) => ClientOf(id) = c
    /\ \A c \in Workers : \A t, id : Says(toContext'[c], t, id) => ClientOf(id) = c
    /\ pendingRequests' \subseteq pendingRequests
    /\ releasePromises' \subseteq releasePromises
    /\ \A id \in Ids :
        /\ id \in pendingRequests \ pendingRequests' =>
                Says(answers, "aborted", id) \/ OnItsWay("aborted", id)
        /\ id \in releasePromises \ releasePromises' =>
                Says(answers, "stolen", id) \/ OnItsWay("stolen", id)
        /\ \A t : OnItsWay(t, id)' => OnItsWay(t, id) \/ Says(answers, t, id)
        /\ OnItsWay("granted", id) => OnItsWay("granted", id)'
        /\ OnItsWay("stolen", id) => OnItsWay("stolen", id)' \/ id \notin releasePromises'
        /\ status[ClientOf(id)] # "destroyed" =>
                /\ Says(answers, "granted", id) => OnItsWay("granted", id)'
                /\ Says(answers, "stolen", id) =>
                        OnItsWay("stolen", id)' \/ id \notin releasePromises'

(* What selected answers say.                                              *)
LEMMA SelectedSays ==
    ASSUME NEW a \in Seq(Answers), NEW S
    PROVE  /\ Selected(a, S) \in Seq(Answers)
           /\ \A t, id : Says(Selected(a, S), t, id) <=>
                             Says(a, t, id) /\ [type |-> t, id |-> id] \in S
<1> DEFINE r == Selected(a, S)
<1>1. r \in Seq(Answers) /\ \E f : Picks(r, a, S, Len(a), f)
    BY SelectedPicks
<1> HIDE DEF r
<1>2. \A x : Contains(r, x) <=> Contains(a, x) /\ x \in S
    BY <1>1, PicksContains
<1> QED
    BY <1>1, <1>2 DEF r, Says

(* Answers are about requests made.                                        *)
LEMMA SaysTyped ==
    ASSUME NEW a \in Seq(Answers), NEW t, NEW id, Says(a, t, id)
    PROVE  id \in Ids /\ t \in AnswerTypes /\ [type |-> t, id |-> id] \in ToSet(a)
<1>1. PICK i \in 1..Len(a) : a[i] = [type |-> t, id |-> id]
    BY DEF Says, Contains
<1>2. a[i] \in Answers /\ i \in DOMAIN a
    OBVIOUS
<1>3. [type |-> t, id |-> id] \in Answers
    BY <1>1, <1>2
<1> QED
    BY <1>1, <1>2, <1>3 DEF Answers, ToSet

(* What the handlers do. *)
Handled(a) ==
    /\ tasks' \in [Clients -> Seq(TaskAnswers)]
    /\ \A c \in Clients : \A t, id : Says(tasks'[c], t, id) <=>
            \/ Says(tasks[c], t, id)
            \/ t \in {"granted", "denied"} /\ Says(a, t, id) /\ ClientOf(id) = c
    /\ \A id : id \in pendingRequests' <=> id \in pendingRequests /\ ~ Says(a, "aborted", id)
    /\ \A id : id \in releasePromises' <=> id \in releasePromises /\ ~ Says(a, "stolen", id)

(* The requests that answers of one type are about.                        *)
LEMMA AnsweredIds ==
    ASSUME NEW a \in Seq(Answers), NEW t, NEW id
    PROVE  id \in {x.id : x \in {y \in ToSet(a) : y.type = t}} <=> Says(a, t, id)
<1>1. ASSUME Says(a, t, id)
      PROVE  id \in {x.id : x \in {y \in ToSet(a) : y.type = t}}
  <2> DEFINE x == [type |-> t, id |-> id]
  <2>1. x \in ToSet(a) /\ x.type = t /\ x.id = id
    BY <1>1, SaysTyped
  <2> HIDE DEF x
  <2> QED BY <2>1
<1>2. ASSUME NEW x \in ToSet(a), x.type = t, id = x.id
      PROVE  Says(a, t, id)
  <2>1. PICK i \in 1..Len(a) : a[i] = x
    BY DEF ToSet
  <2>2. x \in Answers
    BY <2>1
  <2>3. x = [type |-> t, id |-> id]
    BY <1>2, <2>2 DEF Answers
  <2> QED BY <2>1, <2>3 DEF Says, Contains
<1> QED
    BY <1>1, <1>2

(* The handlers do what Handled says.                                      *)
LEMMA HandleAnswersDo ==
    ASSUME ClientType, NEW a \in Seq(Answers), HandleAnswers(a)
    PROVE  Handled(a)
<1> DEFINE To(c) == [type : {"granted", "denied"}, id : IdsOf(c)]
<1>1. tasks' = [c \in Clients |-> tasks[c] \o Selected(a, To(c))]
    BY DEF HandleAnswers
<1>2. ASSUME NEW c \in Clients
      PROVE  /\ tasks'[c] \in Seq(TaskAnswers)
             /\ \A t, id : Says(tasks'[c], t, id) <=>
                    \/ Says(tasks[c], t, id)
                    \/ t \in {"granted", "denied"} /\ Says(a, t, id) /\ ClientOf(id) = c
  <2> DEFINE r == Selected(a, To(c))
  <2>1. tasks'[c] = tasks[c] \o r
    BY <1>1
  <2>2. r \in Seq(Answers) /\ \E f : Picks(r, a, To(c), Len(a), f)
    <3> HIDE DEF To
    <3> QED BY SelectedPicks
  <2>3. \A x : Contains(r, x) <=> Contains(a, x) /\ x \in To(c)
    <3> HIDE DEF r, To
    <3> QED BY <2>2, PicksContains
  <2>4. To(c) \subseteq TaskAnswers
    BY DEF TaskAnswers, IdsOf
  <2> HIDE DEF r
  <2>5. r \in Seq(TaskAnswers)
    <3>1. \A i \in 1..Len(r) : r[i] \in To(c)
      BY <2>2 DEF Picks
    <3>2. \A i \in 1..Len(r) : r[i] \in TaskAnswers
      BY <2>4, <3>1
    <3>3. r \in [1..Len(r) -> TaskAnswers] /\ Len(r) \in Nat
      BY <2>2, <3>2
    <3> QED BY <3>3
  <2>6. tasks[c] \in Seq(TaskAnswers)
    BY DEF ClientType
  <2>7. tasks'[c] \in Seq(TaskAnswers)
    BY <2>1, <2>5, <2>6
  <2>8. ASSUME NEW t, NEW id
        PROVE  Says(tasks'[c], t, id) <=>
                    \/ Says(tasks[c], t, id)
                    \/ t \in {"granted", "denied"} /\ Says(a, t, id) /\ ClientOf(id) = c
    <3> DEFINE x == [type |-> t, id |-> id]
    <3>1. Contains(tasks[c] \o r, x) <=> Contains(tasks[c], x) \/ Contains(r, x)
      BY <2>5, <2>6, ConcatContains
    <3>2. x \in To(c) <=> t \in {"granted", "denied"} /\ id \in Ids /\ ClientOf(id) = c
      BY DEF IdsOf
    <3>3. Says(a, t, id) => id \in Ids
      BY SaysTyped
    <3> HIDE DEF x, To
    <3> QED BY <2>1, <2>3, <3>1, <3>2, <3>3 DEF Says, x
  <2> QED BY <2>7, <2>8
<1> HIDE DEF To
<1>3. tasks' \in [Clients -> Seq(TaskAnswers)]
  <2>1. tasks' = [c \in Clients |-> tasks'[c]]
    BY <1>1
  <2> QED BY <1>2, <2>1
<1>4. ASSUME NEW id
      PROVE  /\ id \in pendingRequests' <=> id \in pendingRequests /\ ~ Says(a, "aborted", id)
             /\ id \in releasePromises' <=> id \in releasePromises /\ ~ Says(a, "stolen", id)
    BY AnsweredIds DEF HandleAnswers
<1> QED
    BY <1>2, <1>3, <1>4 DEF Handled

(* What is on its way, in terms of Says ...                                *)
LEMMA OnItsWaySays ==
    ASSUME NEW t, NEW id
    PROVE  OnItsWay(t, id) <=>
              \/ Says(tasks[ClientOf(id)], t, id)
              \/ ClientOf(id) \in Workers /\ Says(toContext[ClientOf(id)], t, id)
    BY DEF OnItsWay, Says

(* ... and after a step.                                                   *)
LEMMA OnItsWaySaysNext ==
    ASSUME NEW t, NEW id, requests' = requests
    PROVE  OnItsWay(t, id)' <=>
              \/ Says(tasks'[ClientOf(id)], t, id)
              \/ ClientOf(id) \in Workers /\ Says(toContext'[ClientOf(id)], t, id)
    BY DEF OnItsWay, Says, ClientOf

(* A task is about a grant or a denial.                                    *)
LEMMA TaskTypes ==
    ASSUME NEW a \in Seq(TaskAnswers), NEW t, NEW id, Says(a, t, id)
    PROVE  t \in {"granted", "denied"} /\ id \in Ids
<1>1. PICK i \in 1..Len(a) : a[i] = [type |-> t, id |-> id]
    BY DEF Says, Contains
<1>2. a[i] \in TaskAnswers
    OBVIOUS
<1>3. [type |-> t, id |-> id] \in TaskAnswers
    BY <1>1, <1>2
<1> QED
    BY <1>3 DEF TaskAnswers

(* ensureOnContextThread() delivers the answers, at once or later.         *)
LEMMA EnsureDelivers ==
    ASSUME requests \in Seq(Option), ClientType, requests' = requests,
           NEW answers \in Seq(Answers), EnsureOnContextThread(answers)
    PROVE  Delivery(answers)
<1> DEFINE S == {a \in ToSet(answers) : /\ ClientOf(a.id) \in Documents
                                        /\ status[ClientOf(a.id)] # "destroyed"}
           first == Selected(answers, S)
           To(c) == {a \in ToSet(answers) : ClientOf(a.id) = c}
<1>1. first \in Seq(Answers) /\ \A t, id : Says(first, t, id) <=>
                 Says(answers, t, id) /\ [type |-> t, id |-> id] \in S
  <2> HIDE DEF S
  <2> QED BY SelectedSays
<1>2. HandleAnswers(first)
    BY DEF EnsureOnContextThread
<1> HIDE DEF first
<1>3. Handled(first)
    BY <1>1, <1>2, HandleAnswersDo
<1>4. ASSUME NEW t, NEW id
      PROVE  Says(first, t, id) <=>
                 /\ Says(answers, t, id)
                 /\ ClientOf(id) \in Documents /\ status[ClientOf(id)] # "destroyed"
  <2>1. [type |-> t, id |-> id] \in S <=>
                 /\ [type |-> t, id |-> id] \in ToSet(answers)
                 /\ ClientOf(id) \in Documents /\ status[ClientOf(id)] # "destroyed"
    OBVIOUS
  <2> HIDE DEF S
  <2> QED BY <1>1, <2>1, SaysTyped
<1> HIDE DEF S
<1>5. ASSUME NEW c \in Workers
      PROVE  /\ toContext'[c] \in Seq(Answers)
             /\ \A t, id : Says(toContext'[c], t, id) <=>
                    \/ Says(toContext[c], t, id)
                    \/ status[c] # "destroyed" /\ Says(answers, t, id) /\ ClientOf(id) = c
  <2>1. toContext'[c] = IF status[c] = "destroyed" THEN toContext[c]
                        ELSE toContext[c] \o Selected(answers, To(c))
    BY DEF EnsureOnContextThread
  <2>2. toContext[c] \in Seq(Answers)
    BY DEF ClientType
  <2> DEFINE r == Selected(answers, To(c))
  <2>3. r \in Seq(Answers) /\ \A t, id : Says(r, t, id) <=>
                 Says(answers, t, id) /\ [type |-> t, id |-> id] \in To(c)
    <3> HIDE DEF To
    <3> QED BY SelectedSays
  <2> HIDE DEF r
  <2>4. ASSUME NEW t, NEW id
        PROVE  Says(r, t, id) <=> Says(answers, t, id) /\ ClientOf(id) = c
    <3>1. [type |-> t, id |-> id] \in To(c) <=>
                 [type |-> t, id |-> id] \in ToSet(answers) /\ ClientOf(id) = c
      OBVIOUS
    <3> HIDE DEF To
    <3> QED BY <2>3, <3>1, SaysTyped
  <2>5. ASSUME NEW t, NEW id
        PROVE  Says(toContext[c] \o r, t, id) <=> Says(toContext[c], t, id) \/ Says(r, t, id)
    BY <2>2, <2>3, ConcatContains DEF Says
  <2>6. toContext[c] \o r \in Seq(Answers)
    BY <2>2, <2>3
  <2>7. CASE status[c] = "destroyed"
    BY <2>1, <2>2, <2>7
  <2>8. CASE status[c] # "destroyed"
    <3>1. toContext'[c] = toContext[c] \o r
      BY <2>1, <2>8 DEF r
    <3> QED BY <2>4, <2>5, <2>6, <2>8, <3>1
  <2> QED BY <2>7, <2>8
<1>6. toContext' \in [Workers -> Seq(Answers)]
  <2>1. toContext' = [c \in Workers |-> toContext'[c]]
    BY DEF EnsureOnContextThread
  <2> QED BY <1>5, <2>1
<1> HIDE DEF To
<1>7. ASSUME NEW c \in Clients, NEW t, NEW id, Says(tasks'[c], t, id)
      PROVE  ClientOf(id) = c
    BY <1>3, <1>7 DEF Handled, ClientType
<1>8. ASSUME NEW c \in Workers, NEW t, NEW id, Says(toContext'[c], t, id)
      PROVE  ClientOf(id) = c
    BY <1>5, <1>8 DEF ClientType
<1>9. pendingRequests' \subseteq pendingRequests /\ releasePromises' \subseteq releasePromises
    BY <1>3 DEF Handled
<1>10. ASSUME NEW id \in Ids
       PROVE  /\ id \in pendingRequests \ pendingRequests' => Says(answers, "aborted", id)
              /\ id \in releasePromises \ releasePromises' => Says(answers, "stolen", id)
    BY <1>3, <1>4 DEF Handled
<1>11. ASSUME NEW id \in Ids, NEW t
       PROVE  /\ OnItsWay(t, id)' => OnItsWay(t, id) \/ Says(answers, t, id)
              /\ OnItsWay(t, id) => OnItsWay(t, id)'
  <2>1. ClientOf(id) \in Clients
    BY NameOfId
  <2>2. /\ Says(tasks'[ClientOf(id)], t, id) =>
              Says(tasks[ClientOf(id)], t, id) \/ Says(answers, t, id)
        /\ Says(tasks[ClientOf(id)], t, id) => Says(tasks'[ClientOf(id)], t, id)
    BY <1>3, <1>4, <2>1 DEF Handled
  <2>3. ClientOf(id) \in Workers =>
          /\ Says(toContext'[ClientOf(id)], t, id) =>
                Says(toContext[ClientOf(id)], t, id) \/ Says(answers, t, id)
          /\ Says(toContext[ClientOf(id)], t, id) => Says(toContext'[ClientOf(id)], t, id)
    BY <1>5
  <2> QED BY <2>2, <2>3, OnItsWaySays, OnItsWaySaysNext
<1>12. ASSUME NEW id \in Ids, status[ClientOf(id)] # "destroyed"
       PROVE  /\ Says(answers, "granted", id) => OnItsWay("granted", id)'
              /\ Says(answers, "stolen", id) =>
                        OnItsWay("stolen", id)' \/ id \notin releasePromises'
  <2>1. ClientOf(id) \in Documents \/ ClientOf(id) \in Workers
    BY NameOfId DEF Clients
  <2>2. ClientOf(id) \in Clients
    BY NameOfId
  <2>3. CASE ClientOf(id) \in Documents
    <3>1. Says(answers, "granted", id) => Says(tasks'[ClientOf(id)], "granted", id)
      BY <1>3, <1>4, <1>12, <2>2, <2>3 DEF Handled
    <3>2. Says(answers, "stolen", id) => id \notin releasePromises'
      BY <1>3, <1>4, <1>12, <2>3 DEF Handled
    <3> QED BY <3>1, <3>2, OnItsWaySaysNext
  <2>4. CASE ClientOf(id) \in Workers
    <3>1. \A t : Says(answers, t, id) => Says(toContext'[ClientOf(id)], t, id)
      BY <1>5, <1>12, <2>4
    <3> QED BY <2>4, <3>1, OnItsWaySaysNext
  <2> QED BY <2>1, <2>3, <2>4
<1>13. tasks' \in [Clients -> Seq(TaskAnswers)]
    BY <1>3 DEF Handled
<1> QED
    BY <1>6, <1>7, <1>8, <1>9, <1>10, <1>11, <1>12, <1>13 DEF Delivery

(* What answers say after the first is taken.                              *)
LEMMA TailSays ==
    ASSUME NEW T, NEW s \in Seq(T), s # <<>>, NEW t, NEW id
    PROVE  Says(s, t, id) <=> Says(Tail(s), t, id) \/ Head(s) = [type |-> t, id |-> id]
<1> DEFINE rest == Tail(s)
           m == Head(s)
           x == [type |-> t, id |-> id]
<1>1. /\ rest \in Seq(T) /\ s[1] = m /\ 1 \in 1..Len(s) /\ Len(s) \in Nat
      /\ Len(rest) = Len(s) - 1 /\ \A i \in 1..Len(rest) : rest[i] = s[i + 1]
    OBVIOUS
<1> HIDE DEF rest, m, x
<1>2. Contains(rest, x) => Contains(s, x)
  <2>1. \A i \in 1..Len(rest) : i + 1 \in 1..Len(s)
    BY <1>1
  <2> QED BY <1>1, <2>1 DEF Contains
<1>3. m = x => Contains(s, x)
    BY <1>1 DEF Contains
<1>4. Contains(s, x) => Contains(rest, x) \/ m = x
  <2> SUFFICES ASSUME NEW i \in 1..Len(s), s[i] = x, i # 1
               PROVE  Contains(rest, x)
    BY <1>1 DEF Contains
  <2>1. i - 1 \in 1..Len(rest) /\ (i - 1) + 1 = i
    BY <1>1
  <2>2. rest[i - 1] = x
    BY <1>1, <2>1
  <2> QED BY <2>1, <2>2 DEF Contains
<1> QED
    BY <1>2, <1>3, <1>4 DEF Says, x, m, rest

(* A worker that runs an answer posted to it loses none but that one, and  *)
(* has acted on it.                                                        *)
LEMMA WorkerDelivers ==
    ASSUME requests \in Seq(Option), ClientType, requests' = requests,
           NEW c \in Workers, WorkerRunsAnswer(c)
    PROVE  Delivery(<<>>)
<1> DEFINE m == Head(toContext[c])
<1>1. /\ toContext[c] # <<>> /\ toContext[c] \in Seq(Answers)
      /\ HandleAnswers(<<m>>)
      /\ toContext' = [toContext EXCEPT ![c] = Tail(@)]
    BY DEF WorkerRunsAnswer, ClientType
<1>2. m \in Answers
    BY <1>1
<1> DEFINE s == toContext[c]
           rest == Tail(s)
<1>3. /\ s \in Seq(Answers) /\ s # <<>>
      /\ rest \in Seq(Answers) /\ s[1] = m /\ 1 \in 1..Len(s)
      /\ Len(rest) = Len(s) - 1 /\ \A i \in 1..Len(rest) : rest[i] = s[i + 1]
      /\ Len(s) \in Nat
    BY <1>1
<1> HIDE DEF m, rest
<1>4. <<m>> \in Seq(Answers) /\ \A t, id : Says(<<m>>, t, id) <=> m = [type |-> t, id |-> id]
    BY <1>2 DEF Says, Contains
<1>5. Handled(<<m>>)
    BY <1>1, <1>4, HandleAnswersDo DEF m
<1>6. ASSUME NEW t, NEW id
      PROVE  Says(s, t, id) <=> Says(rest, t, id) \/ m = [type |-> t, id |-> id]
    BY <1>3, TailSays DEF m, rest
<1>7. ASSUME NEW d \in Workers
      PROVE  /\ toContext'[d] \in Seq(Answers)
             /\ d # c => toContext'[d] = toContext[d]
             /\ d = c => toContext'[d] = rest
    BY <1>1, <1>3 DEF ClientType, rest
<1>8. ASSUME NEW t, NEW id, m = [type |-> t, id |-> id]
      PROVE  ClientOf(id) = c /\ OnItsWay(t, id) /\ c \in Clients
  <2>1. Says(toContext[c], t, id)
    BY <1>6, <1>8
  <2> QED BY <2>1, OnItsWaySays DEF ClientType, Clients
<1>9. toContext' \in [Workers -> Seq(Answers)]
  <2>1. toContext' = [d \in Workers |-> toContext'[d]]
    BY <1>1 DEF ClientType
  <2> QED BY <1>7, <2>1
<1>10. ASSUME NEW d \in Workers, NEW t, NEW id, Says(toContext'[d], t, id)
       PROVE  Says(toContext[d], t, id)
    BY <1>6, <1>7, <1>10
<1>11. ASSUME NEW id \in Ids, NEW t
       PROVE  OnItsWay(t, id)' => OnItsWay(t, id)
  <2>1. ClientOf(id) \in Clients
    BY NameOfId
  <2>2. Says(tasks'[ClientOf(id)], t, id) => OnItsWay(t, id)
    BY <1>4, <1>5, <1>8, <2>1, OnItsWaySays DEF Handled
  <2> QED BY <1>10, <2>2, OnItsWaySays, OnItsWaySaysNext
<1>12. ASSUME NEW id \in Ids
       PROVE  /\ OnItsWay("granted", id) => OnItsWay("granted", id)'
              /\ OnItsWay("stolen", id) => OnItsWay("stolen", id)' \/ id \notin releasePromises'
  <2>1. ClientOf(id) \in Clients
    BY NameOfId
  <2>2. ASSUME NEW t, OnItsWay(t, id)
        PROVE  OnItsWay(t, id)' \/ m = [type |-> t, id |-> id]
    <3>1. CASE Says(tasks[ClientOf(id)], t, id)
      BY <1>5, <2>1, <3>1, OnItsWaySaysNext DEF Handled
    <3>2. CASE ClientOf(id) \in Workers /\ Says(toContext[ClientOf(id)], t, id)
      BY <1>6, <1>7, <3>2, OnItsWaySaysNext
    <3> QED BY <2>2, <3>1, <3>2, OnItsWaySays
  <2>3. m = [type |-> "granted", id |-> id] => OnItsWay("granted", id)'
    BY <1>4, <1>5, <1>8, <2>1, OnItsWaySaysNext DEF Handled
  <2>4. m = [type |-> "stolen", id |-> id] => id \notin releasePromises'
    BY <1>4, <1>5 DEF Handled
  <2> QED BY <2>2, <2>3, <2>4
<1>13. ASSUME NEW id \in Ids
       PROVE  /\ id \in pendingRequests \ pendingRequests' => OnItsWay("aborted", id)
              /\ id \in releasePromises \ releasePromises' => OnItsWay("stolen", id)
    BY <1>4, <1>5, <1>8 DEF Handled
<1>14. ASSUME NEW d \in Clients, NEW t, NEW id, Says(tasks'[d], t, id)
       PROVE  ClientOf(id) = d
    BY <1>5, <1>14 DEF Handled, ClientType
<1>15. /\ tasks' \in [Clients -> Seq(TaskAnswers)]
       /\ pendingRequests' \subseteq pendingRequests
       /\ releasePromises' \subseteq releasePromises
    BY <1>5 DEF Handled
<1>16. ASSUME NEW d \in Workers, NEW t, NEW id, Says(toContext'[d], t, id)
       PROVE  ClientOf(id) = d
    BY <1>10, <1>16 DEF ClientType
<1> QED
    BY <1>9, <1>11, <1>12, <1>13, <1>14, <1>15, <1>16, EmptySays DEF Delivery

-----------------------------------------------------------------------------
(* The inductive invariant                                                 *)

Live(id) == Posted("request", id) \/ id \in Queued \cup Held

(* The departure of a client is announced after it is stopped, and behind  *)
(* every request of it that nobody waits for any more.                     *)
DepartInv ==
    /\ \A c \in Clients : Departing(c) => status[c] # "active"
    /\ \A i \in 1..Len(mainQueue) : mainQueue[i].type = "request" =>
            \/ mainQueue[i].id \in pendingRequests
            \/ \E j \in (i + 1)..Len(mainQueue) :
                   mainQueue[j] = [type |-> "goingAway",
                                   client |-> ClientOf(mainQueue[i].id)]

(* One request, seen by its manager, by the registry and by the queues     *)
(* between them.                                                           *)
AnswerInv(id) ==
    /\ \A t \in {"denied", "stolen", "aborted"} : OnItsWay(t, id) => ~ Live(id)
    /\ OnItsWay("granted", id) => ~ Posted("request", id) /\ id \notin Queued
    /\ id \in pendingRequests \cap releasePromises /\ OnItsWay("granted", id) =>
            id \in Held \/ OnItsWay("stolen", id)

PromiseInv(id) ==
    /\ id \in pendingRequests \cup releasePromises => status[ClientOf(id)] = "active"
    /\ id \in running => id \notin pendingRequests
    /\ id \in pendingRequests \ aborted /\ Live(id) => id \in releasePromises
    /\ id \in pendingRequests \cap aborted => id \notin releasePromises
    /\ Posted("release", id) => id \notin releasePromises
    /\ id \in running \cap releasePromises => id \in Held \/ OnItsWay("stolen", id)

EntryInv(id) ==
    /\ id \in Held =>
            \/ id \in pendingRequests /\ OnItsWay("granted", id)
            \/ id \in running /\ id \in releasePromises
            \/ Posted("release", id)
            \/ Departing(ClientOf(id))
    /\ id \in Queued => id \in pendingRequests \/ Departing(ClientOf(id))

IInv ==
    /\ RegistryInv /\ Len(requests) <= MaxRequests
    /\ PostedInv
    /\ ClientType
    /\ DepartInv
    /\ \A id \in Ids : AnswerInv(id) /\ PromiseInv(id) /\ EntryInv(id)

-----------------------------------------------------------------------------
(* A step of the main thread                                               *)

(* A posted request is one that was made.                                  *)
LEMMA PostedAt ==
    ASSUME mainQueue \in Seq(Messages), NEW i \in 1..Len(mainQueue),
           mainQueue[i].type = "request"
    PROVE  /\ mainQueue[i].id \in Ids
           /\ mainQueue[i] = [type |-> "request", id |-> mainQueue[i].id]
           /\ Posted("request", mainQueue[i].id)
<1> DEFINE m == mainQueue[i]
<1>1. m \in Messages /\ i \in DOMAIN mainQueue
    OBVIOUS
<1>2. m \in [type : {"request", "release", "abort"}, id : Ids]
    BY <1>1 DEF Messages
<1>3. m.id \in Ids /\ m = [type |-> "request", id |-> m.id]
    BY <1>2
<1> QED
    BY <1>1, <1>3 DEF Posted

(* What is posted after the main thread took the first function.           *)
LEMMA TailMessages ==
    ASSUME PostedInv, mainQueue # <<>>, mainQueue' = Tail(mainQueue)
    PROVE  /\ mainQueue' \in Seq(Messages) /\ Len(mainQueue') = Len(mainQueue) - 1
           /\ \A i \in 1..Len(mainQueue') : /\ i + 1 \in 1..Len(mainQueue)
                                           /\ mainQueue'[i] = mainQueue[i + 1]
           /\ \A t, x : Posted(t, x)' => Posted(t, x)
           /\ \A t, x : Posted(t, x) => Posted(t, x)' \/ Now(t, x)
           /\ \A t, x : Now(t, x) => Posted(t, x)
           /\ \A x : Now("request", x) => ~ Posted("request", x)'
           /\ \A c : Departing(c)' => Departing(c)
           /\ \A c : Departing(c) => Departing(c)' \/ Leaves(c)
           /\ \A c : Leaves(c) => Departing(c)
<1> DEFINE q == mainQueue
           r == Tail(mainQueue)
<1>1. /\ r \in Seq(Messages) /\ Len(r) = Len(q) - 1 /\ Len(q) \in Nat
      /\ \A i \in 1..Len(r) : i + 1 \in 1..Len(q) /\ r[i] = q[i + 1]
      /\ DOMAIN q = 1..Len(q) /\ DOMAIN r = 1..Len(r)
      /\ 1 \in 1..Len(q) /\ Head(q) = q[1]
    BY DEF PostedInv
<1>2. r = mainQueue'
    OBVIOUS
<1> HIDE DEF r
<1>3. \A m : (\E i \in 1..Len(r) : r[i] = m) => \E i \in 1..Len(q) : q[i] = m
    BY <1>1
<1>4. \A m : (\E i \in 1..Len(q) : q[i] = m) => (\E i \in 1..Len(r) : r[i] = m) \/ Head(q) = m
  <2> SUFFICES ASSUME NEW m, NEW i \in 1..Len(q), q[i] = m, i # 1
               PROVE  \E j \in 1..Len(r) : r[j] = m
    BY <1>1
  <2>1. i - 1 \in 1..Len(r) /\ (i - 1) + 1 = i
    BY <1>1
  <2>2. r[i - 1] = m
    BY <1>1, <2>1
  <2> QED BY <2>1, <2>2
<1>5. \A t, x : Posted(t, x)' <=> \E i \in 1..Len(r) : r[i] = [type |-> t, id |-> x]
    BY <1>1, <1>2 DEF Posted
<1>6. \A t, x : Posted(t, x) <=> \E i \in 1..Len(q) : q[i] = [type |-> t, id |-> x]
    BY <1>1 DEF Posted
<1>7. \A c : Departing(c)' <=> \E i \in 1..Len(r) : r[i] = [type |-> "goingAway", client |-> c]
    BY <1>1, <1>2 DEF Departing
<1>8. \A c : Departing(c) <=> \E i \in 1..Len(q) : q[i] = [type |-> "goingAway", client |-> c]
    BY <1>1 DEF Departing
<1>9. ASSUME NEW x, Now("request", x), Posted("request", x)'
      PROVE  FALSE
  <2>1. PICK i \in 1..Len(r) : r[i] = [type |-> "request", id |-> x]
    BY <1>5, <1>9
  <2>2. q[i + 1] = [type |-> "request", id |-> x] /\ q[1] = [type |-> "request", id |-> x]
    BY <1>1, <1>9, <2>1 DEF Now
  <2>3. i + 1 \in 1..Len(q) /\ 1 \in 1..Len(q) /\ i + 1 # 1
    BY <1>1
  <2>4. /\ q[i + 1].type = "request" /\ q[1].type = "request"
        /\ q[i + 1].id = q[1].id
    BY <2>2
  <2> QED BY <2>3, <2>4 DEF PostedInv
<1> QED
    BY <1>1, <1>2, <1>3, <1>4, <1>5, <1>6, <1>7, <1>8, <1>9 DEF Now, Leaves

(* What a step does to one request in the registry and in the queue of     *)
(* posted functions, answers being what the registry says in the step.     *)
Moves(answers, id) ==
    /\ Says(answers, "granted", id) => /\ id \in Held' /\ id \notin Queued'
                                       /\ ~ Posted("request", id)'
    /\ id \in Held' => id \in Held \/ Says(answers, "granted", id)
    /\ \A t \in {"denied", "stolen", "aborted"} :
            Says(answers, t, id) => Live(id) /\ ~ Live(id)'
    /\ Live(id)' => Live(id)
    /\ id \in Queued' => id \in Queued \/ Posted("request", id)
    /\ Posted("request", id)' => Posted("request", id)
    /\ Posted("release", id)' => Posted("release", id)
    /\ id \in Held /\ id \notin Held' => \/ Says(answers, "stolen", id)
                                         \/ Posted("release", id)
                                         \/ Departing(ClientOf(id))
    /\ id \in Held \cap Held' /\ Posted("release", id) => Posted("release", id)'
    /\ id \in Held' \cup Queued' /\ Departing(ClientOf(id)) => Departing(ClientOf(id))'

(* A posted request is waited for, or its client's departure is posted.    *)
LEMMA PostedWaits ==
    ASSUME PostedInv, DepartInv, NEW id, Posted("request", id)
    PROVE  id \in pendingRequests \/ Departing(ClientOf(id))
<1>1. PICK i \in 1..Len(mainQueue) : mainQueue[i] = [type |-> "request", id |-> id]
    BY DEF Posted, PostedInv
<1>2. mainQueue[i].type = "request" /\ mainQueue[i].id = id
    BY <1>1
<1>3. CASE id \in pendingRequests
    BY <1>3
<1>4. CASE id \notin pendingRequests
  <2>1. PICK j \in (i + 1)..Len(mainQueue) :
            mainQueue[j] = [type |-> "goingAway", client |-> ClientOf(id)]
    BY <1>2, <1>4 DEF DepartInv
  <2>2. j \in DOMAIN mainQueue
    BY DEF PostedInv
  <2> QED BY <2>1, <2>2 DEF Departing
<1> QED
    BY <1>3, <1>4

(* A step of the registry or of a worker keeps the invariant of each       *)
(* request.                                                                *)
LEMMA IdMoves ==
    ASSUME IInv, UNCHANGED scriptVars,
           NEW answers, NEW id \in Ids, Moves(answers, id), Delivery(answers)
    PROVE  AnswerInv(id)' /\ PromiseInv(id)' /\ EntryInv(id)'
<1>1. /\ AnswerInv(id) /\ PromiseInv(id) /\ EntryInv(id)
      /\ Departing(ClientOf(id)) => status[ClientOf(id)] # "active"
      /\ Posted("request", id) => id \in pendingRequests \/ Departing(ClientOf(id))
  <2>1. ClientOf(id) \in Clients
    BY NameOfId DEF IInv, RegistryInv
  <2> QED BY <2>1, PostedWaits DEF IInv, DepartInv
<1>2. /\ id \in pendingRequests' => id \in pendingRequests
      /\ id \in releasePromises' => id \in releasePromises
      /\ id \in pendingRequests \ pendingRequests' =>
                Says(answers, "aborted", id) \/ OnItsWay("aborted", id)
      /\ id \in releasePromises \ releasePromises' =>
                Says(answers, "stolen", id) \/ OnItsWay("stolen", id)
      /\ \A t \in {"granted", "denied", "stolen", "aborted"} :
                OnItsWay(t, id)' => OnItsWay(t, id) \/ Says(answers, t, id)
      /\ OnItsWay("granted", id) => OnItsWay("granted", id)'
      /\ OnItsWay("stolen", id) => OnItsWay("stolen", id)' \/ id \notin releasePromises'
      /\ status[ClientOf(id)] # "destroyed" =>
                /\ Says(answers, "granted", id) => OnItsWay("granted", id)'
                /\ Says(answers, "stolen", id) =>
                        OnItsWay("stolen", id)' \/ id \notin releasePromises'
    BY DEF Delivery
<1>3. /\ status' = status /\ running' = running /\ aborted' = aborted
      /\ ClientOf(id)' = ClientOf(id) /\ requests' = requests
    BY DEF scriptVars, ClientOf
<1>4. /\ id \in Queued => Live(id)
      /\ id \in Held => Live(id)
      /\ Posted("request", id) => Live(id)
      /\ Live(id) => id \in Queued \/ id \in Held \/ Posted("request", id)
      /\ id \in Queued' => Live(id)'
      /\ id \in Held' => Live(id)'
    BY DEF Live
<1>5. id \in Held /\ id \notin Held' /\ id \in releasePromises' =>
            OnItsWay("stolen", id)'
    BY <1>1, <1>2 DEF Moves, PromiseInv
<1>6. AnswerInv(id)'
  <2>1. ASSUME NEW t \in {"denied", "stolen", "aborted"}, OnItsWay(t, id)'
        PROVE  ~ Live(id)'
    BY <1>1, <1>2, <2>1 DEF Moves, AnswerInv
  <2>2. OnItsWay("granted", id)' => ~ Posted("request", id)' /\ id \notin Queued'
    BY <1>1, <1>2 DEF Moves, AnswerInv
  <2>3. id \in pendingRequests' /\ id \in releasePromises' /\ OnItsWay("granted", id)' =>
            id \in Held' \/ OnItsWay("stolen", id)'
    BY <1>1, <1>2, <1>5 DEF Moves, AnswerInv
  <2> QED BY <2>1, <2>2, <2>3 DEF AnswerInv
<1>7. PromiseInv(id)'
  <2>1. /\ id \in pendingRequests' \cup releasePromises' => status'[ClientOf(id)'] = "active"
        /\ id \in running' => id \notin pendingRequests'
        /\ id \in pendingRequests' \cap aborted' => id \notin releasePromises'
        /\ Posted("release", id)' => id \notin releasePromises'
    BY <1>1, <1>2, <1>3 DEF Moves, PromiseInv
  <2>2. id \in pendingRequests' \ aborted' /\ Live(id)' => id \in releasePromises'
    BY <1>1, <1>2, <1>3 DEF Moves, PromiseInv, AnswerInv
  <2>3. id \in running' \cap releasePromises' => id \in Held' \/ OnItsWay("stolen", id)'
    BY <1>1, <1>2, <1>3, <1>5 DEF PromiseInv
  <2> QED BY <2>1, <2>2, <2>3 DEF PromiseInv
<1>8. Live(id)' /\ id \in pendingRequests => id \in pendingRequests'
    BY <1>1, <1>2 DEF Moves, AnswerInv
<1>9. EntryInv(id)'
  <2>1. id \in Held' =>
            \/ id \in pendingRequests' /\ OnItsWay("granted", id)'
            \/ id \in running' /\ id \in releasePromises'
            \/ Posted("release", id)'
            \/ Departing(ClientOf(id))'
    <3>1. CASE id \in Held
      BY <1>1, <1>2, <1>3, <1>4, <1>8, <3>1 DEF Moves, EntryInv, AnswerInv
    <3>2. CASE id \notin Held
      BY <1>1, <1>2, <1>3, <1>4, <1>8, <3>2 DEF Moves, EntryInv, AnswerInv, PromiseInv
    <3> QED BY <3>1, <3>2
  <2>2. id \in Queued' => id \in pendingRequests' \/ Departing(ClientOf(id))'
    BY <1>1, <1>2, <1>4, <1>8 DEF Moves, EntryInv
  <2> QED BY <2>1, <2>2, <1>3 DEF EntryInv
<1> QED
    BY <1>6, <1>7, <1>9

(* No request is queued and held.                                          *)
LEMMA QueuedNotHeld ==
    ASSUME RegistryInv, NEW id \in Queued
    PROVE  id \notin Held
<1> SUFFICES ASSUME id \in Held PROVE FALSE
    OBVIOUS
<1> DEFINE q == lockRequestQueueMap[NameOf(id)]
           h == heldLocks[NameOf(id)]
<1>1. id \in Ids /\ Contains(q, id) /\ Contains(h, id)
    BY DEF Queued, Held
<1>2. NameOf(id) \in Names
    BY <1>1, NameOfId DEF RegistryInv
<1>3. NameInv(q, h)
    BY <1>2 DEF RegistryInv
<1> QED
    BY <1>1, <1>3 DEF NameInv, Contains

(* Nor after a step.                                                       *)
LEMMA QueuedNotHeldNext == RegistryInv' => (\A id \in Queued : id \notin Held)'
<1>1. RegistryInv => \A id \in Queued : id \notin Held
    BY QueuedNotHeld
<1> QED
    BY <1>1, PTL

(* The client of a request stays the same over a step.                     *)
LEMMA DepartingNext ==
    ASSUME requests' = requests, NEW id
    PROVE  \E c : c = ClientOf(id) /\ (Departing(ClientOf(id))' <=> Departing(c)')
<1>1. ClientOf(id)' = ClientOf(id)
    BY DEF ClientOf
<1>2. PICK c : c = ClientOf(id)
    OBVIOUS
<1>3. Departing(ClientOf(id))' <=> Departing(c)'
    BY <1>1, <1>2 DEF Departing
<1> QED
    BY <1>2, <1>3

(* A posted request is not in the registry.                                *)
LEMMA PostedOnce ==
    ASSUME PostedInv, NEW id, Posted("request", id)
    PROVE  id \notin Queued \cup Held
<1>1. PICK i \in 1..Len(mainQueue) : mainQueue[i] = [type |-> "request", id |-> id]
    BY DEF Posted, PostedInv
<1>2. mainQueue[i].type = "request" /\ mainQueue[i].id = id
    BY <1>1
<1> QED
    BY <1>2 DEF PostedInv

(* No answer is given but to a waiting client.                             *)
LEMMA NotGivenUp ==
    ASSUME IInv, NEW answers, NEW id \in Ids, Moves(answers, id), Delivery(answers),
           Live(id)', id \in pendingRequests
    PROVE  id \in pendingRequests'
<1>1. AnswerInv(id)
    BY DEF IInv
<1>2. id \notin pendingRequests' => Says(answers, "aborted", id) \/ OnItsWay("aborted", id)
    BY DEF Delivery
<1> QED
    BY <1>1, <1>2 DEF Moves, AnswerInv

(* Delivery keeps the types of the clients.                                *)
LEMMA DeliveredTypes ==
    ASSUME ClientType, UNCHANGED scriptVars, NEW answers, Delivery(answers)
    PROVE  ClientType'
<1>1. Ids' = Ids /\ TaskAnswers' = TaskAnswers /\ Answers' = Answers
    BY DEF scriptVars, Ids, TaskAnswers, Answers
<1>2. \A t, id : /\ ClientOf(id)' = ClientOf(id)
                 /\ \A c : Says(tasks[c], t, id)' <=> Says(tasks'[c], t, id)
                 /\ \A c : Says(toContext[c], t, id)' <=> Says(toContext'[c], t, id)
    BY DEF scriptVars, ClientOf, Says
<1> QED
    BY <1>1, <1>2 DEF scriptVars, Delivery, ClientType

(* A function of the main thread moves each request as Moves says.         *)
LEMMA MainMoves ==
    ASSUME IInv, RegistryInv', NEW type, MainThread(type),
           NEW answers, Effect(answers), NEW id \in Ids
    PROVE  Moves(answers, id)
<1>1. /\ mainQueue # <<>> /\ mainQueue' = Tail(mainQueue) /\ requests' = requests
      /\ PostedInv /\ RegistryInv /\ ClientOf(id) \in Clients
    BY NameOfId DEF MainThread, scriptVars, IInv, RegistryInv
<1>2. /\ \A t : Posted(t, id)' => Posted(t, id)
      /\ \A t : Posted(t, id) => Posted(t, id)' \/ Now(t, id)
      /\ \A t : Now(t, id) => Posted(t, id)
      /\ Now("request", id) => ~ Posted("request", id)'
      /\ Departing(ClientOf(id)) => Departing(ClientOf(id))' \/ Leaves(ClientOf(id))
      /\ Leaves(ClientOf(id)) => Departing(ClientOf(id))
  <2>1. PICK c : c = ClientOf(id) /\ (Departing(ClientOf(id))' <=> Departing(c)')
    BY <1>1, DepartingNext
  <2>2. /\ \A t, x : Posted(t, x)' => Posted(t, x)
        /\ \A t, x : Posted(t, x) => Posted(t, x)' \/ Now(t, x)
        /\ \A t, x : Now(t, x) => Posted(t, x)
        /\ \A x : Now("request", x) => ~ Posted("request", x)'
    BY <1>1, TailMessages
  <2>3. /\ Departing(c) => Departing(c)' \/ Leaves(c)
        /\ Leaves(c) => Departing(c)
    BY <1>1, TailMessages
  <2> QED BY <2>1, <2>2, <2>3
<1>4. id \in Ids' /\ (id \in Queued' => id \notin Held')
    BY <1>1, QueuedNotHeldNext DEF Ids
<1>5. Posted("request", id) => id \notin Queued \cup Held
    BY <1>1, PostedOnce
<1>6. /\ Says(answers, "granted", id) <=> id \in Held' /\ id \notin Held
      /\ id \in Queued' => id \in Queued \/ Now("request", id)
      /\ id \in Held' => id \in Held \cup Queued \/ Now("request", id)
      /\ \A t \in {"denied", "stolen", "aborted"} : Says(answers, t, id) =>
              /\ id \notin Held' \cup Queued'
              /\ id \in Held \cup Queued \/ Now("request", id)
      /\ id \in Held /\ id \notin Held' =>
              \/ Says(answers, "stolen", id)
              \/ Now("release", id)
              \/ Leaves(ClientOf(id))
      /\ Now("release", id) /\ id \in Held => id \notin Held'
      /\ Leaves(ClientOf(id)) => id \notin Held' \cup Queued'
    BY DEF Effect
<1>7. /\ Live(id) <=> Posted("request", id) \/ id \in Queued \cup Held
      /\ Live(id)' <=> Posted("request", id)' \/ id \in Queued' \cup Held'
    BY DEF Live
<1>8. Says(answers, "granted", id) => /\ id \in Held' /\ id \notin Queued'
                                     /\ ~ Posted("request", id)'
    BY <1>2, <1>4, <1>5, <1>6
<1>9. ASSUME NEW t \in {"denied", "stolen", "aborted"}, Says(answers, t, id)
      PROVE  Live(id) /\ ~ Live(id)'
    BY <1>2, <1>5, <1>6, <1>7, <1>9
<1>10. Live(id)' => Live(id)
    BY <1>2, <1>6, <1>7
<1>11. /\ id \in Held /\ id \notin Held' => \/ Says(answers, "stolen", id)
                                            \/ Posted("release", id)
                                            \/ Departing(ClientOf(id))
       /\ id \in Held \cap Held' /\ Posted("release", id) => Posted("release", id)'
       /\ id \in Held' \cup Queued' /\ Departing(ClientOf(id)) => Departing(ClientOf(id))'
    BY <1>2, <1>5, <1>6
<1> QED
    BY <1>2, <1>6, <1>8, <1>9, <1>10, <1>11 DEF Moves

(* And delivers its answers.                                               *)
LEMMA MainDelivers ==
    ASSUME IInv, NEW type, MainThread(type), NEW answers, Effect(answers)
    PROVE  Delivery(answers)
<1>1. requests \in Seq(Option) /\ ClientType /\ requests' = requests
    BY DEF IInv, RegistryInv, MainThread, scriptVars
<1>2. answers \in Seq(Answers)
    BY DEF Effect
<1>3. CASE EnsureOnContextThread(answers)
    BY <1>1, <1>2, <1>3, EnsureDelivers
<1>4. CASE answers = <<>> /\ UNCHANGED <<clientVars, toContext>>
  <2>1. /\ tasks' = tasks /\ toContext' = toContext
        /\ pendingRequests' = pendingRequests /\ releasePromises' = releasePromises
    BY <1>4 DEF clientVars
  <2>2. \A t, id : OnItsWay(t, id)' <=> OnItsWay(t, id)
    BY <1>1, <2>1, OnItsWaySays, OnItsWaySaysNext
  <2> QED BY <1>1, <1>4, <2>1, <2>2, EmptySays DEF Delivery, ClientType
<1> QED
    BY <1>3, <1>4 DEF Effect

(* A function of the main thread keeps the invariant.                      *)
LEMMA MainStep ==
    ASSUME IInv, RegistryInv', NEW type, MainThread(type),
           NEW answers, Effect(answers)
    PROVE  IInv'
<1>1. /\ mainQueue # <<>> /\ mainQueue' = Tail(mainQueue) /\ requests' = requests
      /\ status' = status /\ UNCHANGED scriptVars
      /\ PostedInv /\ RegistryInv /\ ClientType /\ DepartInv
    BY DEF MainThread, scriptVars, IInv
<1>2. Delivery(answers)
    BY MainDelivers
<1>3. Ids' = Ids /\ Messages' = Messages
    BY <1>1 DEF Ids, Messages
<1>4. \A id \in Ids : Moves(answers, id)
    BY MainMoves
<1>5. \A id \in Ids : AnswerInv(id)' /\ PromiseInv(id)' /\ EntryInv(id)'
    BY <1>1, <1>2, <1>4, IdMoves
<1>6. ClientType'
    BY <1>1, <1>2, DeliveredTypes
<1> DEFINE q == mainQueue
           r == mainQueue'
<1>7. /\ r \in Seq(Messages) /\ Len(r) = Len(q) - 1 /\ Len(q) \in Nat
      /\ \A i \in 1..Len(r) : i + 1 \in 1..Len(q) /\ r[i] = q[i + 1]
    BY <1>1, TailMessages DEF PostedInv
<1>8. ASSUME NEW i \in 1..Len(r), r[i].type = "request", NEW id, id = r[i].id
      PROVE  /\ id \in Ids
             /\ Posted("request", id) /\ Posted("request", id)'
             /\ id \notin (Queued \cup Held)'
  <2>2. i + 1 \in 1..Len(q) /\ q[i + 1].type = "request" /\ q[i + 1].id = id
    BY <1>7, <1>8
  <2>3. id \in Ids /\ q[i + 1] = [type |-> "request", id |-> id] /\ Posted("request", id)
    BY <1>1, <2>2, PostedAt DEF PostedInv
  <2>4. r[i] = [type |-> "request", id |-> id]
    BY <1>7, <2>3
  <2>5. Posted("request", id)'
    BY <1>7, <2>4 DEF Posted
  <2>6. id \notin Queued \cup Held
    BY <1>1, <2>3, PostedOnce
  <2>7. id \notin Queued' /\ id \notin Held'
    <3>1. ~ Now("request", id)
      BY <1>1, <2>5, TailMessages
    <3> QED BY <2>3, <2>6, <3>1 DEF Effect
  <2> QED BY <2>3, <2>5, <2>7
<1>9. PostedInv'
  <2>1. ASSUME NEW i \in 1..Len(r), NEW j \in 1..Len(r),
               r[i].type = "request", r[j].type = "request", r[i].id = r[j].id
        PROVE  i = j
    <3>1. i + 1 \in 1..Len(q) /\ j + 1 \in 1..Len(q) /\ r[i] = q[i + 1] /\ r[j] = q[j + 1]
      BY <1>7
    <3>2. i + 1 = j + 1
      BY <1>1, <2>1, <3>1 DEF PostedInv
    <3> QED BY <3>2
  <2> QED BY <1>3, <1>7, <1>8, <2>1 DEF PostedInv
<1>10. ASSUME NEW c \in Clients, Departing(c)'
       PROVE  status'[c] # "active"
    BY <1>1, <1>10, TailMessages DEF DepartInv
<1>11. ASSUME NEW i \in 1..Len(r), r[i].type = "request", r[i].id \notin pendingRequests'
       PROVE  \E j \in (i + 1)..Len(r) :
                 r[j] = [type |-> "goingAway", client |-> ClientOf(r[i].id)]
  <2>1. PICK id : id = r[i].id
    OBVIOUS
  <2>2. id \in Ids /\ Live(id)'
    BY <1>8, <1>11, <2>1 DEF Live
  <2>3. id \notin pendingRequests
    BY <1>2, <1>4, <1>11, <2>1, <2>2, NotGivenUp
  <2>4. i + 1 \in 1..Len(q) /\ q[i + 1].type = "request" /\ q[i + 1].id = id
    BY <1>7, <1>11, <2>1
  <2>5. PICK k \in ((i + 1) + 1)..Len(q) :
            q[k] = [type |-> "goingAway", client |-> ClientOf(id)]
    BY <1>1, <2>3, <2>4 DEF DepartInv
  <2>6. k - 1 \in (i + 1)..Len(r) /\ k - 1 \in 1..Len(r) /\ (k - 1) + 1 = k
    BY <1>7, <2>5
  <2>7. r[k - 1] = q[k]
    BY <1>7, <2>6
  <2> QED BY <2>1, <2>5, <2>6, <2>7
<1>12. DepartInv'
  <2>1. \A id : ClientOf(id)' = ClientOf(id)
    BY <1>1 DEF ClientOf
  <2> QED BY <1>10, <1>11, <2>1 DEF DepartInv
<1> QED
    BY <1>1, <1>3, <1>5, <1>6, <1>9, <1>12 DEF IInv

-----------------------------------------------------------------------------
(* The steps of the clients                                                *)

LEMMA AboutId ==
    ASSUME NEW t, t \in {"release", "abort"}, NEW x
    PROVE  /\ \A u, id : [type |-> t, id |-> x] = [type |-> u, id |-> id] <=> (u = t /\ id = x)
           /\ \A d : [type |-> t, id |-> x] # [type |-> "goingAway", client |-> d]
<1>1. \A u, id : [type |-> t, id |-> x] = [type |-> u, id |-> id] <=> (u = t /\ id = x)
    OBVIOUS
<1>2. /\ \A d : [type |-> "goingAway", client |-> d].type = "goingAway"
      /\ [type |-> t, id |-> x].type = t
    OBVIOUS
<1>3. t # "goingAway"
    OBVIOUS
<1> QED
    BY <1>1, <1>2, <1>3

(* The empty sequence stands for no message.                               *)
LEMMA NoMessage ==
    /\ \A t, id : <<>> # [type |-> t, id |-> id]
    /\ \A d : <<>> # [type |-> "goingAway", client |-> d]
<1>1. \A f : DOMAIN f = {"type", "id"} => f # <<>>
    OBVIOUS
<1>2. \A f : DOMAIN f = {"type", "client"} => f # <<>>
    OBVIOUS
<1> QED
    BY <1>1, <1>2

(* A step that leaves the registry alone and posts m, or nothing.          *)
Posts(m) ==
    /\ requests' = requests /\ UNCHANGED registryVars
    /\ \/ m \in Messages /\ m.type # "request" /\ mainQueue' = Append(mainQueue, m)
       \/ m = <<>> /\ mainQueue' = mainQueue

(* What posting a message other than a request changes, and what it does   *)
(* not.                                                                    *)
LEMMA PostsStep ==
    ASSUME RegistryInv, PostedInv, NEW m, Posts(m)
    PROVE  /\ RegistryInv' /\ OvertakenByNobody /\ PostedInv'
           /\ Ids' = Ids /\ Queued' = Queued /\ Held' = Held
           /\ \A id : ClientOf(id)' = ClientOf(id)
           /\ \A t, x : Posted(t, x)' <=> Posted(t, x) \/ m = [type |-> t, id |-> x]
           /\ \A x : Posted("request", x)' <=> Posted("request", x)
           /\ \A x : Live(x)' <=> Live(x)
           /\ \A c : Departing(c)' <=> Departing(c) \/ m = [type |-> "goingAway", client |-> c]
           /\ Len(mainQueue) \in Nat
           /\ m = <<>> => mainQueue' = mainQueue
           /\ m # <<>> => /\ Len(mainQueue') = Len(mainQueue) + 1
                          /\ mainQueue'[Len(mainQueue')] = m
           /\ \A i \in 1..Len(mainQueue') :
                  \/ i \in 1..Len(mainQueue) /\ mainQueue'[i] = mainQueue[i]
                  \/ m # <<>> /\ i = Len(mainQueue') /\ mainQueue'[i] = m /\ m.type # "request"
           /\ \A i \in 1..Len(mainQueue) : /\ i \in 1..Len(mainQueue')
                                           /\ mainQueue'[i] = mainQueue[i]
<1>1. /\ requests' = requests /\ lockRequestQueueMap' = lockRequestQueueMap
      /\ heldLocks' = heldLocks /\ mainQueue \in Seq(Messages) /\ Len(mainQueue) \in Nat
    BY DEF Posts, registryVars, PostedInv
<1>2. RegistryInv' /\ OvertakenByNobody
    BY RegistryUnchanged DEF Posts
<1>3. /\ Ids' = Ids /\ Messages' = Messages /\ Queued' = Queued /\ Held' = Held
      /\ \A id : ClientOf(id)' = ClientOf(id)
    BY <1>1 DEF Ids, Messages, Queued, Held, NameOf, ClientOf
<1> DEFINE q == mainQueue
           r == mainQueue'
<1>4. m # <<>> => /\ m \in Messages /\ m.type # "request" /\ r = Append(q, m)
    BY DEF Posts
<1>5. m = <<>> => r = q
  <2>1. <<>> \notin Messages
    BY DEF Messages
  <2> QED BY <2>1 DEF Posts
<1>6. /\ r \in Seq(Messages)
      /\ m # <<>> => Len(r) = Len(q) + 1 /\ r[Len(r)] = m
      /\ \A i \in 1..Len(q) : i \in 1..Len(r) /\ r[i] = q[i]
      /\ \A i \in 1..Len(r) : \/ i \in 1..Len(q) /\ r[i] = q[i]
                              \/ m # <<>> /\ i = Len(r) /\ r[i] = m /\ m.type # "request"
  <2>1. CASE m = <<>>
    BY <1>1, <1>5, <2>1
  <2>2. CASE m # <<>>
    BY <1>1, <1>4, <2>2
  <2> QED BY <2>1, <2>2
<1>7. DOMAIN q = 1..Len(q) /\ DOMAIN r = 1..Len(r)
    BY <1>1, <1>6
<1>9. \A a : a # <<>> => ((\E i \in 1..Len(r) : r[i] = a) <=> (\E i \in 1..Len(q) : q[i] = a) \/ m = a)
  <2> SUFFICES ASSUME NEW a, a # <<>>
               PROVE  (\E i \in 1..Len(r) : r[i] = a) <=> (\E i \in 1..Len(q) : q[i] = a) \/ m = a
    OBVIOUS
  <2>1. m = a => Len(r) \in 1..Len(r) /\ r[Len(r)] = a
    BY <1>1, <1>6
  <2> QED BY <1>6, <2>1
<1>10. \A t, x : Posted(t, x)' <=> Posted(t, x) \/ m = [type |-> t, id |-> x]
    BY <1>7, <1>9, NoMessage DEF Posted
<1>11. \A c : Departing(c)' <=> Departing(c) \/ m = [type |-> "goingAway", client |-> c]
    BY <1>7, <1>9, NoMessage DEF Departing
<1>12. \A x : Posted("request", x)' <=> Posted("request", x)
  <2>1. \A x : m # [type |-> "request", id |-> x]
    <3>1. \A x : [type |-> "request", id |-> x].type = "request"
      OBVIOUS
    <3> QED BY <1>4, <3>1, NoMessage
  <2> QED BY <1>10, <2>1
<1>13. \A x : Live(x)' <=> Live(x)
    BY <1>3, <1>12 DEF Live
<1>14. PostedInv'
  <2>1. \A i \in 1..Len(r) : r[i].type = "request" => i \in 1..Len(q) /\ r[i] = q[i]
    BY <1>6
  <2> QED BY <1>3, <1>6, <2>1 DEF PostedInv
<1> HIDE DEF q, r
<1> QED
    BY <1>1, <1>2, <1>3, <1>5, <1>6, <1>10, <1>11, <1>12, <1>13, <1>14 DEF q, r

(* A step of a client keeps the invariant if it keeps that of each         *)
(* request.                                                                *)
LEMMA ClientStep ==
    ASSUME IInv, NEW m, Posts(m), ClientType',
           \A c \in Clients : Departing(c)' => status'[c] # "active",
           \A id \in Ids : Posted("request", id) /\ id \in pendingRequests =>
               id \in pendingRequests' \/ m = [type |-> "goingAway", client |-> ClientOf(id)],
           \A id \in Ids : AnswerInv(id)' /\ PromiseInv(id)' /\ EntryInv(id)'
    PROVE  IInv'
<1>1. RegistryInv /\ PostedInv /\ DepartInv /\ requests' = requests
    BY DEF IInv, Posts
<1>2. /\ RegistryInv' /\ PostedInv' /\ Ids' = Ids
      /\ \A id : ClientOf(id)' = ClientOf(id)
      /\ Len(mainQueue) \in Nat /\ mainQueue \in Seq(Messages)
      /\ m = <<>> => mainQueue' = mainQueue
      /\ m # <<>> => /\ Len(mainQueue') = Len(mainQueue) + 1
                     /\ mainQueue'[Len(mainQueue')] = m
      /\ \A i \in 1..Len(mainQueue') :
             \/ i \in 1..Len(mainQueue) /\ mainQueue'[i] = mainQueue[i]
             \/ m # <<>> /\ i = Len(mainQueue') /\ mainQueue'[i] = m /\ m.type # "request"
      /\ \A i \in 1..Len(mainQueue) : /\ i \in 1..Len(mainQueue')
                                      /\ mainQueue'[i] = mainQueue[i]
    BY <1>1, PostsStep DEF PostedInv
<1> DEFINE q == mainQueue
           r == mainQueue'
<1>3. ASSUME NEW i \in 1..Len(r), r[i].type = "request", r[i].id \notin pendingRequests'
      PROVE  \E j \in (i + 1)..Len(r) :
                r[j] = [type |-> "goingAway", client |-> ClientOf(r[i].id)]
  <2>1. PICK id : id = r[i].id
    OBVIOUS
  <2>2. i \in 1..Len(q) /\ r[i] = q[i]
    BY <1>2, <1>3
  <2>3. id \in Ids /\ Posted("request", id)
    BY <1>2, <1>3, <2>1, <2>2, PostedAt
  <2>4. CASE id \in pendingRequests
    <3>1. m = [type |-> "goingAway", client |-> ClientOf(id)]
      BY <1>3, <2>1, <2>3, <2>4
    <3>2. m # <<>>
      BY <3>1, NoMessage
    <3>3. Len(r) \in (i + 1)..Len(r)
      BY <1>2, <2>2, <3>2
    <3> QED BY <1>2, <2>1, <3>1, <3>2, <3>3
  <2>5. CASE id \notin pendingRequests
    <3>1. PICK k \in (i + 1)..Len(q) : q[k] = [type |-> "goingAway", client |-> ClientOf(id)]
      BY <1>1, <2>1, <2>2, <1>3, <2>5 DEF DepartInv
    <3>2. k \in 1..Len(q)
      OBVIOUS
    <3>3. k \in (i + 1)..Len(r) /\ r[k] = q[k]
      BY <1>2, <3>1, <3>2
    <3> QED BY <2>1, <3>1, <3>3
  <2> QED BY <2>4, <2>5
<1>4. DepartInv'
    BY <1>2, <1>3 DEF DepartInv
<1> QED
    BY <1>1, <1>2, <1>4 DEF IInv

(* WorkerRunsAnswer() keeps the invariant.                                 *)
LEMMA WorkerStep ==
    ASSUME IInv, NEW c \in Workers, WorkerRunsAnswer(c)
    PROVE  IInv'
<1>1. /\ requests \in Seq(Option) /\ ClientType /\ RegistryInv /\ PostedInv /\ DepartInv
      /\ requests' = requests /\ status' = status /\ UNCHANGED scriptVars
      /\ UNCHANGED registryVars /\ mainQueue' = mainQueue
    BY DEF IInv, RegistryInv, WorkerRunsAnswer, scriptVars
<1>2. Delivery(<<>>) /\ ClientType'
    BY <1>1, WorkerDelivers, DeliveredTypes
<1>3. Posts(<<>>)
    BY <1>1 DEF Posts
<1>5. \A d \in Clients : Departing(d)' => status'[d] # "active"
  <2>1. \A d : Departing(d)' <=> Departing(d)
    BY <1>1 DEF Departing
  <2> QED BY <1>1, <2>1 DEF DepartInv
<1>6. ASSUME NEW id \in Ids PROVE Moves(<<>>, id)
  <2>1. /\ Queued' = Queued /\ Held' = Held
        /\ Live(id)' <=> Live(id)
    BY <1>1, <1>3, PostsStep
  <2>2. \A t : Posted(t, id)' <=> Posted(t, id)
    BY <1>1 DEF Posted
  <2>3. Departing(ClientOf(id))' <=> Departing(ClientOf(id))
    BY <1>1 DEF Departing, ClientOf
  <2> QED BY <2>1, <2>2, <2>3, EmptySays DEF Moves
<1>7. ASSUME NEW id \in Ids, Posted("request", id), id \in pendingRequests
      PROVE  id \in pendingRequests'
  <2>1. Live(id)'
    BY <1>1, <1>3, <1>7, PostsStep DEF Live
  <2> QED BY <1>2, <1>6, <1>7, <2>1, NotGivenUp
<1>8. \A id \in Ids : AnswerInv(id)' /\ PromiseInv(id)' /\ EntryInv(id)'
    BY <1>1, <1>2, <1>6, IdMoves
<1> QED
    BY <1>2, <1>3, <1>5, <1>7, <1>8, ClientStep

(* The answer x that a task is about, and what else is on its way after.   *)
TakenBy(c, type, x) ==
    /\ x \in Ids /\ ClientOf(x) = c
    /\ OnItsWay(type, x)
    /\ tasks' \in [Clients -> Seq(TaskAnswers)]
    /\ \A d \in Clients : \A t, id : Says(tasks'[d], t, id) => ClientOf(id) = d
    /\ \A id \in Ids : \A t :
           /\ OnItsWay(t, id)' => OnItsWay(t, id)
           /\ OnItsWay(t, id) => OnItsWay(t, id)' \/ (t = type /\ id = x)

(* A task takes the first answer of its client's event loop.               *)
LEMMA TaskTaken ==
    ASSUME IInv, NEW c \in Clients, NEW type, Task(c, type),
           NEW x, x = Head(tasks[c]).id
    PROVE  TakenBy(c, type, x)
<1> DEFINE s == tasks[c]
<1>1. /\ s \in Seq(TaskAnswers) /\ s # <<>> /\ Head(s).type = type
      /\ tasks' = [tasks EXCEPT ![c] = Tail(s)]
      /\ toContext' = toContext /\ requests' = requests
      /\ tasks \in [Clients -> Seq(TaskAnswers)]
      /\ \A d \in Clients : \A t, id : Says(tasks[d], t, id) => ClientOf(id) = d
      /\ requests \in Seq(Option)
    BY DEF IInv, RegistryInv, ClientType, Task
<1>2. Tail(s) \in Seq(TaskAnswers) /\ Head(s) \in TaskAnswers
    BY <1>1
<1>3. x \in Ids /\ Head(s) = [type |-> type, id |-> x]
    BY <1>1, <1>2 DEF TaskAnswers
<1>4. \A t, id : [type |-> type, id |-> x] = [type |-> t, id |-> id] <=> (t = type /\ id = x)
    OBVIOUS
<1>5. \A t, id : Says(s, t, id) <=> Says(Tail(s), t, id) \/ (t = type /\ id = x)
    BY <1>1, <1>3, <1>4, TailSays
<1>6. /\ tasks' \in [Clients -> Seq(TaskAnswers)] /\ tasks'[c] = Tail(s)
      /\ \A d \in Clients : d # c => tasks'[d] = tasks[d]
    BY <1>1, <1>2
<1> HIDE DEF s
<1>7. Says(s, type, x)
    BY <1>5
<1>8. ClientOf(x) = c /\ OnItsWay(type, x)
    BY <1>1, <1>7, OnItsWaySays DEF s
<1>9. ASSUME NEW d \in Clients, NEW t, NEW id
      PROVE  /\ Says(tasks'[d], t, id) => Says(tasks[d], t, id)
             /\ Says(tasks[d], t, id) => Says(tasks'[d], t, id) \/ (t = type /\ id = x)
    BY <1>5, <1>6 DEF s
<1>10. ASSUME NEW id \in Ids, NEW t
       PROVE  /\ OnItsWay(t, id)' => OnItsWay(t, id)
              /\ OnItsWay(t, id) => OnItsWay(t, id)' \/ (t = type /\ id = x)
  <2>1. ClientOf(id) \in Clients
    BY <1>1, NameOfId
  <2> QED BY <1>1, <1>9, <2>1, OnItsWaySays, OnItsWaySaysNext
<1> QED
    BY <1>1, <1>3, <1>6, <1>8, <1>9, <1>10 DEF TakenBy

(* A task keeps the types of the clients.                                  *)
LEMMA TaskClientType ==
    ASSUME IInv, NEW c, NEW type, Task(c, type), NEW x, TakenBy(c, type, x),
           pendingRequests' \subseteq pendingRequests,
           releasePromises' \subseteq releasePromises,
           running' \subseteq running \cup {x}
    PROVE  ClientType'
<1>1. Ids' = Ids /\ TaskAnswers' = TaskAnswers /\ Answers' = Answers
    BY DEF Task, Ids, TaskAnswers, Answers
<1>2. \A t, id : /\ ClientOf(id)' = ClientOf(id)
                 /\ \A d : Says(tasks[d], t, id)' <=> Says(tasks'[d], t, id)
                 /\ \A d : Says(toContext[d], t, id)' <=> Says(toContext'[d], t, id)
    BY DEF Task, ClientOf, Says
<1>3. /\ status' = status /\ aborted' = aborted /\ toContext' = toContext
      /\ x \in Ids /\ ClientType
      /\ tasks' \in [Clients -> Seq(TaskAnswers)]
      /\ \A d \in Clients : \A t, id : Says(tasks'[d], t, id) => ClientOf(id) = d
    BY DEF Task, IInv, TakenBy
<1>4. /\ pendingRequests' \subseteq Ids /\ releasePromises' \subseteq Ids
      /\ aborted' \subseteq Ids /\ running' \subseteq Ids
    BY <1>3 DEF ClientType
<1>5. \A d \in Workers : \A t, id : Says(toContext'[d], t, id) => ClientOf(id) = d
    BY <1>3 DEF ClientType
<1> QED
    BY <1>1, <1>2, <1>3, <1>4, <1>5 DEF ClientType

(* A task that finds no request keeps the invariant.                       *)
LEMMA TaskFindsNoRequestStep ==
    ASSUME IInv, NEW c \in Clients, TaskFindsNoRequest(c)
    PROVE  IInv'
<1>1. PICK type \in {"granted", "denied"} : Task(c, type)
    BY DEF TaskFindsNoRequest
<1>2. PICK x : x = Head(tasks[c]).id
    OBVIOUS
<1>3. /\ x \notin pendingRequests
      /\ pendingRequests' = pendingRequests /\ releasePromises' = releasePromises
      /\ running' = running /\ mainQueue' = mainQueue
      /\ requests' = requests /\ status' = status /\ aborted' = aborted
      /\ UNCHANGED registryVars
    BY <1>1, <1>2 DEF TaskFindsNoRequest, Task
<1>4. TakenBy(c, type, x)
    BY <1>1, <1>2, TaskTaken
<1>5. ClientType'
    BY <1>1, <1>3, <1>4, TaskClientType
<1>6. Posts(<<>>)
    BY <1>3 DEF Posts
<1>7. /\ Queued' = Queued /\ Held' = Held
      /\ \A id : Live(id)' <=> Live(id)
    BY <1>6, PostsStep DEF IInv
<1>8. /\ \A t, id : Posted(t, id)' <=> Posted(t, id)
      /\ \A d : Departing(d)' <=> Departing(d)
      /\ \A id : ClientOf(id)' = ClientOf(id)
      /\ \A id : Departing(ClientOf(id))' <=> Departing(ClientOf(id))
    BY <1>3 DEF Posted, Departing, ClientOf
<1>9. ASSUME NEW id \in Ids
      PROVE  AnswerInv(id)' /\ PromiseInv(id)' /\ EntryInv(id)'
  <2>1. AnswerInv(id) /\ PromiseInv(id) /\ EntryInv(id)
    BY DEF IInv
  <2>2. /\ \A t : OnItsWay(t, id)' => OnItsWay(t, id)
        /\ OnItsWay("stolen", id) => OnItsWay("stolen", id)'
        /\ id \in pendingRequests => (OnItsWay("granted", id) => OnItsWay("granted", id)')
    BY <1>3, <1>4 DEF TakenBy
  <2>3. AnswerInv(id)'
    BY <1>3, <1>7, <1>8, <2>1, <2>2 DEF AnswerInv
  <2>4. PromiseInv(id)'
    BY <1>3, <1>7, <1>8, <2>1, <2>2 DEF PromiseInv
  <2>5. EntryInv(id)'
    BY <1>3, <1>7, <1>8, <2>1, <2>2 DEF EntryInv
  <2> QED BY <2>3, <2>4, <2>5
<1>10. \A d \in Clients : Departing(d)' => status'[d] # "active"
    BY <1>3, <1>8 DEF IInv, DepartInv
<1> QED
    BY <1>3, <1>5, <1>6, <1>9, <1>10, ClientStep

(* How a task may end that finds its request: the lock is given back and   *)
(* the promise is settled or was; the callback runs; or there is no lock.  *)
TaskOutcome(type, x, m) ==
    \/ /\ type = "granted" /\ m = [type |-> "release", id |-> x]
       /\ running' = running
       /\ \/ x \in aborted /\ releasePromises' = releasePromises
          \/ releasePromises' = releasePromises \ {x}
    \/ /\ type = "granted" /\ m = <<>> /\ x \notin aborted
       /\ running' = running \cup {x} /\ releasePromises' = releasePromises
    \/ /\ type = "denied" /\ m = <<>>
       /\ running' = running /\ releasePromises' = releasePromises \ {x}

(* So does one that finds it, however it ends.                             *)
LEMMA TaskStep ==
    ASSUME IInv, NEW c \in Clients, NEW type, Task(c, type),
           NEW x, TakenBy(c, type, x), x \in pendingRequests,
           pendingRequests' = pendingRequests \ {x},
           NEW m, Posts(m), TaskOutcome(type, x, m)
    PROVE  IInv'
<1>1. /\ requests' = requests /\ status' = status /\ aborted' = aborted
    BY DEF Task
<1>2. ClientType'
    BY TaskClientType DEF TaskOutcome
<1>3. m \in {<<>>, [type |-> "release", id |-> x]} /\ type \in {"granted", "denied"}
    BY DEF TaskOutcome
<1>4. \A d : m # [type |-> "goingAway", client |-> d]
    BY <1>3, AboutId, NoMessage
<1>5. \A t, id : m = [type |-> t, id |-> id] <=>
          (m # <<>> /\ t = "release" /\ id = x)
    BY <1>3, AboutId, NoMessage
<1>6. /\ Queued' = Queued /\ Held' = Held /\ RegistryInv /\ PostedInv
      /\ \A id : Live(id)' <=> Live(id)
      /\ \A id : Posted("request", id)' <=> Posted("request", id)
      /\ \A t, id : Posted(t, id)' <=> Posted(t, id) \/ m = [type |-> t, id |-> id]
      /\ \A d : Departing(d)' <=> Departing(d) \/ m = [type |-> "goingAway", client |-> d]
    BY PostsStep DEF IInv
<1>7. /\ \A id : ClientOf(id)' = ClientOf(id)
      /\ \A d : Departing(d)' <=> Departing(d)
      /\ \A id : Departing(ClientOf(id))' <=> Departing(ClientOf(id))
  <2>1. \A id : ClientOf(id)' = ClientOf(id)
    BY <1>1 DEF ClientOf
  <2>2. \A d : Departing(d)' <=> Departing(d)
    BY <1>4, <1>6
  <2>3. ASSUME NEW id PROVE Departing(ClientOf(id))' <=> Departing(ClientOf(id))
    <3>1. PICK d : d = ClientOf(id) /\ (Departing(ClientOf(id))' <=> Departing(d)')
      BY <1>1, DepartingNext
    <3> QED BY <2>2, <3>1
  <2> QED BY <2>1, <2>2, <2>3
<1>8. ASSUME NEW id \in Ids, id # x
      PROVE  AnswerInv(id)' /\ PromiseInv(id)' /\ EntryInv(id)'
  <2>1. AnswerInv(id) /\ PromiseInv(id) /\ EntryInv(id)
    BY DEF IInv
  <2>2. /\ \A t : OnItsWay(t, id)' <=> OnItsWay(t, id)
    BY <1>8 DEF TakenBy
  <2>3. /\ id \in pendingRequests' <=> id \in pendingRequests
        /\ id \in releasePromises' <=> id \in releasePromises
        /\ id \in running' <=> id \in running
    BY <1>8 DEF TaskOutcome
  <2>4. \A t : Posted(t, id)' <=> Posted(t, id)
    BY <1>5, <1>6, <1>8
  <2>5. AnswerInv(id)'
    BY <1>6, <2>1, <2>2, <2>3, <2>4 DEF AnswerInv
  <2>6. PromiseInv(id)'
    BY <1>1, <1>6, <1>7, <2>1, <2>2, <2>3, <2>4 DEF PromiseInv
  <2>7. EntryInv(id)'
    BY <1>6, <1>7, <2>1, <2>2, <2>3, <2>4 DEF EntryInv
  <2> QED BY <2>5, <2>6, <2>7
<1>9. AnswerInv(x)' /\ PromiseInv(x)' /\ EntryInv(x)'
  <2>1. /\ AnswerInv(x) /\ PromiseInv(x) /\ EntryInv(x)
        /\ x \in Ids /\ OnItsWay(type, x)
        /\ \A t : OnItsWay(t, x)' => OnItsWay(t, x)
        /\ OnItsWay("stolen", x) => OnItsWay("stolen", x)'
        /\ x \notin pendingRequests'
    BY <1>3 DEF IInv, TakenBy
  <2>2. /\ x \in Queued => Live(x)
        /\ x \in Held => Live(x)
    BY DEF Live
  <2>3. AnswerInv(x)'
    BY <1>6, <2>1 DEF AnswerInv
  <2>4. CASE type = "denied"
    <3>1. m = <<>> /\ running' = running /\ x \notin releasePromises'
      BY <2>4 DEF TaskOutcome
    <3>2. ~ Live(x) /\ x \notin Queued /\ x \notin Held
      BY <2>1, <2>2, <2>4 DEF AnswerInv
    <3>3. PromiseInv(x)'
      BY <2>1, <3>1 DEF PromiseInv
    <3>4. EntryInv(x)'
      BY <1>6, <3>2 DEF EntryInv
    <3> QED BY <2>3, <3>3, <3>4
  <2>5. CASE type = "granted" /\ m = <<>>
    <3>1. /\ x \notin aborted /\ releasePromises' = releasePromises
          /\ x \in running'
      BY <1>5, <2>5 DEF TaskOutcome
    <3>2. x \notin Queued
      BY <2>1, <2>5 DEF AnswerInv
    <3>3. PromiseInv(x)'
      <4>1. Posted("release", x)' <=> Posted("release", x)
        BY <1>5, <1>6, <2>5
      <4> QED BY <1>1, <1>6, <1>7, <2>1, <2>5, <3>1, <4>1 DEF PromiseInv, AnswerInv
    <3>4. EntryInv(x)'
      BY <1>6, <2>1, <2>2, <3>1, <3>2 DEF EntryInv, PromiseInv
    <3> QED BY <2>3, <3>3, <3>4
  <2>6. CASE type = "granted" /\ m # <<>>
    <3>1. Posted("release", x)'
      BY <1>3, <1>6, <2>6
    <3>2. x \notin releasePromises' /\ running' = running
      BY <2>1, <2>6 DEF TaskOutcome, PromiseInv
    <3>3. x \notin Queued
      BY <2>1, <2>6 DEF AnswerInv
    <3>4. PromiseInv(x)'
      BY <2>1, <3>2 DEF PromiseInv
    <3>5. EntryInv(x)'
      BY <1>6, <3>1, <3>3 DEF EntryInv
    <3> QED BY <2>3, <3>4, <3>5
  <2> QED BY <1>3, <2>4, <2>5, <2>6
<1>10. \A d \in Clients : Departing(d)' => status'[d] # "active"
    BY <1>1, <1>7 DEF IInv, DepartInv
<1>11. ~ Posted("request", x)
  <2>1. AnswerInv(x) /\ OnItsWay(type, x)
    BY DEF IInv, TakenBy
  <2> QED BY <1>3, <2>1 DEF AnswerInv, Live
<1>12. \A id \in Ids : Posted("request", id) /\ id \in pendingRequests => id \in pendingRequests'
    BY <1>11
<1>13. \A id \in Ids : AnswerInv(id)' /\ PromiseInv(id)' /\ EntryInv(id)'
    BY <1>8, <1>9
<1> QED
    BY <1>2, <1>10, <1>12, <1>13, ClientStep

(* Every task of a manager keeps the invariant.                            *)
LEMMA ManagerTaskStep ==
    ASSUME IInv, NEW c \in Clients, ManagerTask(c)
    PROVE  IInv'
<1>1. PICK x : x = Head(tasks[c]).id
    OBVIOUS
<1> DEFINE release == [type |-> "release", id |-> x]
<1>2. ASSUME NEW type, Task(c, type), TakeRequest(c)
      PROVE  /\ TakenBy(c, type, x) /\ x \in pendingRequests
             /\ pendingRequests' = pendingRequests \ {x}
             /\ mainQueue' = mainQueue => Posts(<<>>)
             /\ mainQueue' = Append(mainQueue, release) => Posts(release)
  <2>1. TakenBy(c, type, x)
    BY <1>1, <1>2, TaskTaken
  <2>2. release \in Messages /\ release.type # "request"
    BY <2>1 DEF Messages, TakenBy
  <2>3. requests' = requests /\ UNCHANGED registryVars
    BY <1>2 DEF Task
  <2> QED BY <1>1, <1>2, <2>1, <2>2, <2>3 DEF TakeRequest, Posts
<1>3. CASE TaskFindsNoRequest(c)
    BY <1>3, TaskFindsNoRequestStep
<1>4. CASE TaskAborted(c)
  <2>1. /\ Task(c, "granted") /\ TakeRequest(c) /\ x \in aborted
        /\ mainQueue' = Append(mainQueue, release)
        /\ releasePromises' = releasePromises /\ running' = running
    BY <1>1, <1>4 DEF TaskAborted, CallOnMainThread
  <2>2. TaskOutcome("granted", x, release)
    BY <2>1 DEF TaskOutcome
  <2> QED BY <1>2, <2>1, <2>2, TaskStep
<1>5. CASE TaskRunsCallback(c)
  <2>1. /\ Task(c, "granted") /\ TakeRequest(c) /\ x \notin aborted
        /\ mainQueue' = mainQueue
        /\ releasePromises' = releasePromises /\ running' = running \cup {x}
    BY <1>1, <1>5 DEF TaskRunsCallback
  <2>2. TaskOutcome("granted", x, <<>>)
    BY <2>1 DEF TaskOutcome
  <2> QED BY <1>2, <2>1, <2>2, TaskStep
<1>6. CASE TaskCallbackFails(c)
  <2>1. /\ Task(c, "granted") /\ TakeRequest(c) /\ x \notin aborted
        /\ mainQueue' = Append(mainQueue, release)
        /\ releasePromises' = releasePromises \ {x} /\ running' = running
    BY <1>1, <1>6 DEF TaskCallbackFails, CallOnMainThread, SettleReleasePromise
  <2>2. TaskOutcome("granted", x, release)
    BY <2>1 DEF TaskOutcome
  <2> QED BY <1>2, <2>1, <2>2, TaskStep
<1>7. CASE TaskDenied(c)
  <2>1. /\ Task(c, "denied") /\ TakeRequest(c)
        /\ mainQueue' = mainQueue
        /\ releasePromises' = releasePromises \ {x} /\ running' = running
    BY <1>1, <1>7 DEF TaskDenied, SettleReleasePromise
  <2>2. TaskOutcome("denied", x, <<>>)
    BY <2>1 DEF TaskOutcome
  <2> QED BY <1>2, <2>1, <2>2, TaskStep
<1> QED
    BY <1>3, <1>4, <1>5, <1>6, <1>7 DEF ManagerTask

(* Steps of a client that leave the answers on their way alone.            *)
LEMMA QuietStep ==
    ASSUME IInv, NEW m, Posts(m), tasks' = tasks, toContext' = toContext,
           status' = status,
           pendingRequests' = pendingRequests,
           releasePromises' \subseteq releasePromises,
           aborted' \subseteq Ids, running' \subseteq running
    PROVE  /\ ClientType'
           /\ Queued' = Queued /\ Held' = Held
           /\ \A id : ClientOf(id)' = ClientOf(id)
           /\ \A id : Live(id)' <=> Live(id)
           /\ \A id : Posted("request", id)' <=> Posted("request", id)
           /\ \A t, id : Posted(t, id)' <=> Posted(t, id) \/ m = [type |-> t, id |-> id]
           /\ \A d : Departing(d)' <=> Departing(d) \/ m = [type |-> "goingAway", client |-> d]
           /\ \A t, id : OnItsWay(t, id)' <=> OnItsWay(t, id)
<1>1. requests' = requests /\ RegistryInv /\ PostedInv /\ ClientType
    BY DEF Posts, IInv
<1>2. /\ Queued' = Queued /\ Held' = Held
      /\ \A id : ClientOf(id)' = ClientOf(id)
      /\ \A id : Live(id)' <=> Live(id)
      /\ \A id : Posted("request", id)' <=> Posted("request", id)
      /\ \A t, id : Posted(t, id)' <=> Posted(t, id) \/ m = [type |-> t, id |-> id]
      /\ \A d : Departing(d)' <=> Departing(d) \/ m = [type |-> "goingAway", client |-> d]
    BY <1>1, PostsStep
<1>3. \A t, id : OnItsWay(t, id)' <=> OnItsWay(t, id)
    BY <1>1, OnItsWaySays, OnItsWaySaysNext
<1>4. ClientType'
  <2>1. Ids' = Ids /\ TaskAnswers' = TaskAnswers /\ Answers' = Answers
    BY <1>1 DEF Ids, TaskAnswers, Answers
  <2>2. \A t, id : /\ \A d : Says(tasks[d], t, id)' <=> Says(tasks[d], t, id)
                   /\ \A d : Says(toContext[d], t, id)' <=> Says(toContext[d], t, id)
    BY DEF Says
  <2> QED BY <1>1, <1>2, <2>1, <2>2 DEF ClientType
<1> QED
    BY <1>2, <1>3, <1>4

(* SignalToAbortTheRequest() keeps the invariant.                          *)
LEMMA SignalStep ==
    ASSUME IInv, NEW x \in Ids, SignalToAbortTheRequest(x)
    PROVE  IInv'
<1> DEFINE abort == [type |-> "abort", id |-> x]
<1>1. /\ x \notin aborted /\ aborted' = aborted \cup {x}
      /\ requests' = requests /\ status' = status /\ running' = running
      /\ pendingRequests' = pendingRequests /\ tasks' = tasks
      /\ toContext' = toContext /\ UNCHANGED registryVars
    BY DEF SignalToAbortTheRequest
<1>2. \/ /\ x \in pendingRequests
         /\ mainQueue' = Append(mainQueue, abort)
         /\ releasePromises' = releasePromises \ {x}
      \/ /\ x \notin pendingRequests
         /\ mainQueue' = mainQueue /\ releasePromises' = releasePromises
    BY DEF SignalToAbortTheRequest, CallOnMainThread
<1>3. PICK m \in {<<>>, abort} : Posts(m)
  <2>1. abort \in Messages /\ abort.type # "request"
    BY DEF Messages
  <2> QED BY <1>1, <1>2, <2>1 DEF Posts
<1>4. aborted' \subseteq Ids
    BY <1>1 DEF IInv, ClientType
<1>5. releasePromises' \subseteq releasePromises
    BY <1>2
<1>6. /\ ClientType'
      /\ Queued' = Queued /\ Held' = Held
      /\ \A id : ClientOf(id)' = ClientOf(id)
      /\ \A id : Live(id)' <=> Live(id)
      /\ \A id : Posted("request", id)' <=> Posted("request", id)
      /\ \A t, id : Posted(t, id)' <=> Posted(t, id) \/ m = [type |-> t, id |-> id]
      /\ \A d : Departing(d)' <=> Departing(d) \/ m = [type |-> "goingAway", client |-> d]
      /\ \A t, id : OnItsWay(t, id)' <=> OnItsWay(t, id)
    BY <1>1, <1>3, <1>4, <1>5, QuietStep
<1>7. /\ \A id : Posted("release", id)' <=> Posted("release", id)
      /\ \A d : Departing(d)' <=> Departing(d)
    BY <1>3, <1>6, AboutId, NoMessage
<1>8. ASSUME NEW id \in Ids
      PROVE  AnswerInv(id)' /\ PromiseInv(id)' /\ EntryInv(id)'
  <2>1. AnswerInv(id) /\ PromiseInv(id) /\ EntryInv(id)
    BY DEF IInv
  <2>2. PICK d : d = ClientOf(id) /\ (Departing(ClientOf(id))' <=> Departing(d)')
    BY <1>1, DepartingNext
  <2>3. AnswerInv(id)'
    BY <1>1, <1>5, <1>6, <2>1 DEF AnswerInv
  <2>4. PromiseInv(id)'
    BY <1>1, <1>2, <1>6, <1>7, <2>1 DEF PromiseInv
  <2>5. EntryInv(id)'
    BY <1>1, <1>2, <1>6, <1>7, <2>1, <2>2 DEF EntryInv, PromiseInv
  <2> QED BY <2>3, <2>4, <2>5
<1>9. \A d \in Clients : Departing(d)' => status'[d] # "active"
    BY <1>1, <1>7 DEF IInv, DepartInv
<1> QED
    BY <1>1, <1>3, <1>6, <1>8, <1>9, ClientStep

(* WaitingPromiseSettles() keeps the invariant.                            *)
LEMMA SettlesStep ==
    ASSUME IInv, NEW x \in Ids, WaitingPromiseSettles(x)
    PROVE  IInv'
<1> DEFINE release == [type |-> "release", id |-> x]
<1>1. /\ x \in running /\ running' = running \ {x}
      /\ mainQueue' = Append(mainQueue, release)
      /\ releasePromises' = releasePromises \ {x}
      /\ requests' = requests /\ status' = status /\ aborted' = aborted
      /\ pendingRequests' = pendingRequests /\ tasks' = tasks
      /\ toContext' = toContext /\ UNCHANGED registryVars
    BY DEF WaitingPromiseSettles, CallOnMainThread, SettleReleasePromise
<1>2. Posts(release)
  <2>1. release \in Messages /\ release.type # "request"
    BY DEF Messages
  <2> QED BY <1>1, <2>1 DEF Posts
<1>3. aborted' \subseteq Ids
    BY <1>1 DEF IInv, ClientType
<1>4. releasePromises' \subseteq releasePromises /\ running' \subseteq running
    BY <1>1
<1>5. /\ ClientType'
      /\ Queued' = Queued /\ Held' = Held
      /\ \A id : ClientOf(id)' = ClientOf(id)
      /\ \A id : Live(id)' <=> Live(id)
      /\ \A id : Posted("request", id)' <=> Posted("request", id)
      /\ \A t, id : Posted(t, id)' <=> Posted(t, id) \/ release = [type |-> t, id |-> id]
      /\ \A d : Departing(d)' <=> Departing(d) \/ release = [type |-> "goingAway", client |-> d]
      /\ \A t, id : OnItsWay(t, id)' <=> OnItsWay(t, id)
    BY <1>1, <1>2, <1>3, <1>4, QuietStep
<1>6. /\ \A id : Posted("release", id)' <=> Posted("release", id) \/ id = x
      /\ \A d : Departing(d)' <=> Departing(d)
    BY <1>5, AboutId
<1>7. ASSUME NEW id \in Ids
      PROVE  AnswerInv(id)' /\ PromiseInv(id)' /\ EntryInv(id)'
  <2>1. AnswerInv(id) /\ PromiseInv(id) /\ EntryInv(id)
    BY DEF IInv
  <2>2. PICK d : d = ClientOf(id) /\ (Departing(ClientOf(id))' <=> Departing(d)')
    BY <1>1, DepartingNext
  <2>3. AnswerInv(id)'
    BY <1>1, <1>5, <2>1 DEF AnswerInv
  <2>4. PromiseInv(id)'
    BY <1>1, <1>5, <1>6, <2>1 DEF PromiseInv
  <2>5. EntryInv(id)'
    BY <1>1, <1>5, <1>6, <2>1, <2>2 DEF EntryInv
  <2> QED BY <2>3, <2>4, <2>5
<1>8. \A d \in Clients : Departing(d)' => status'[d] # "active"
    BY <1>1, <1>6 DEF IInv, DepartInv
<1> QED
    BY <1>1, <1>2, <1>5, <1>7, <1>8, ClientStep

(* Stop() keeps the invariant: a departure is posted if anything may be    *)
(* left of the client.                                                     *)
LEMMA StopStep ==
    ASSUME IInv, NEW c \in Clients, Stop(c)
    PROVE  IInv'
<1> DEFINE leaves == [type |-> "goingAway", client |-> c]
           known == IdsOf(c) \cap (pendingRequests \cup releasePromises)
<1>1. /\ status[c] = "active" /\ status' = [status EXCEPT ![c] = "stopped"]
      /\ pendingRequests' = pendingRequests \ IdsOf(c)
      /\ releasePromises' = releasePromises \ IdsOf(c)
      /\ requests' = requests /\ aborted' = aborted /\ running' = running
      /\ tasks' = tasks /\ toContext' = toContext /\ UNCHANGED registryVars
      /\ mainQueue' = IF known = {} THEN mainQueue ELSE Append(mainQueue, leaves)
    BY DEF Stop
<1>2. PICK m : m = IF known = {} THEN <<>> ELSE leaves
    OBVIOUS
<1>3. Posts(m)
  <2>1. leaves \in Messages /\ leaves.type # "request"
    BY DEF Messages
  <2> QED BY <1>1, <1>2, <2>1 DEF Posts
<1>4. /\ \A d \in Clients : d # c => status'[d] = status[d]
      /\ status'[c] = "stopped" /\ status' \in [Clients -> {"active", "stopped", "destroyed"}]
      /\ ClientType /\ RegistryInv /\ PostedInv /\ DepartInv
    BY <1>1 DEF IInv, ClientType
<1>5. /\ Queued' = Queued /\ Held' = Held /\ Ids' = Ids
      /\ \A id : ClientOf(id)' = ClientOf(id)
      /\ \A id : Live(id)' <=> Live(id)
      /\ \A id : Posted("request", id)' <=> Posted("request", id)
      /\ \A t, id : Posted(t, id)' <=> Posted(t, id) \/ m = [type |-> t, id |-> id]
      /\ \A d : Departing(d)' <=> Departing(d) \/ m = [type |-> "goingAway", client |-> d]
    BY <1>3, <1>4, PostsStep
<1>6. /\ \A t, id : leaves # [type |-> t, id |-> id]
      /\ \A d : leaves = [type |-> "goingAway", client |-> d] <=> d = c
      /\ leaves # <<>>
  <2>1. \A t, id : DOMAIN [type |-> t, id |-> id] = {"type", "id"}
    OBVIOUS
  <2>2. DOMAIN leaves = {"type", "client"} /\ "client" \notin {"type", "id"}
    OBVIOUS
  <2>3. \A d : [type |-> "goingAway", client |-> d].client = d
    OBVIOUS
  <2> QED BY <2>1, <2>2, <2>3, NoMessage
<1> HIDE DEF leaves
<1>7. /\ \A t, id : Posted(t, id)' <=> Posted(t, id)
      /\ \A d : Departing(d) => Departing(d)'
      /\ \A d : Departing(d)' => Departing(d) \/ d = c
      /\ known # {} => Departing(c)'
    BY <1>2, <1>5, <1>6, NoMessage DEF leaves
<1>8. \A t, id : OnItsWay(t, id)' <=> OnItsWay(t, id)
    BY <1>1, OnItsWaySays, OnItsWaySaysNext
<1>9. ClientType'
  <2>1. TaskAnswers' = TaskAnswers /\ Answers' = Answers
    BY <1>5 DEF TaskAnswers, Answers
  <2>2. \A t, id : /\ \A d : Says(tasks[d], t, id)' <=> Says(tasks[d], t, id)
                   /\ \A d : Says(toContext[d], t, id)' <=> Says(toContext[d], t, id)
    BY <1>1 DEF Says
  <2>3. pendingRequests' \subseteq Ids /\ releasePromises' \subseteq Ids
    BY <1>1, <1>4 DEF ClientType
  <2> QED BY <1>1, <1>4, <1>5, <2>1, <2>2, <2>3 DEF ClientType
<1>10. ASSUME NEW id \in Ids
       PROVE  AnswerInv(id)' /\ PromiseInv(id)' /\ EntryInv(id)'
  <2>1. /\ AnswerInv(id) /\ PromiseInv(id) /\ EntryInv(id)
        /\ ClientOf(id) \in Clients
    BY <1>4, NameOfId DEF IInv, RegistryInv
  <2>2. PICK d : d = ClientOf(id) /\ (Departing(ClientOf(id))' <=> Departing(d)')
    BY <1>1, DepartingNext
  <2>3. /\ id \in pendingRequests' <=> id \in pendingRequests /\ d # c
        /\ id \in releasePromises' <=> id \in releasePromises /\ d # c
        /\ d = c /\ id \in pendingRequests \cup releasePromises => Departing(d)'
    BY <1>1, <1>7, <2>2 DEF IdsOf
  <2>4. AnswerInv(id)'
    BY <1>5, <1>8, <1>7, <2>1, <2>3 DEF AnswerInv
  <2>5. PromiseInv(id)'
    BY <1>1, <1>4, <1>5, <1>7, <1>8, <2>1, <2>2, <2>3 DEF PromiseInv
  <2>6. EntryInv(id)'
    BY <1>1, <1>5, <1>7, <1>8, <2>1, <2>2, <2>3 DEF EntryInv
  <2> QED BY <2>4, <2>5, <2>6
<1>11. \A d \in Clients : Departing(d)' => status'[d] # "active"
    BY <1>4, <1>7 DEF DepartInv
<1>12. ASSUME NEW id \in Ids, id \in pendingRequests, id \notin pendingRequests'
       PROVE  m = [type |-> "goingAway", client |-> ClientOf(id)]
  <2>1. id \in known /\ ClientOf(id) = c
    BY <1>1, <1>12 DEF IdsOf
  <2> QED BY <1>2, <2>1 DEF leaves
<1> QED
    BY <1>3, <1>9, <1>10, <1>11, <1>12, ClientStep

(* ContextDestroyed() keeps the invariant: nothing of a stopped client is  *)
(* waited for.                                                             *)
LEMMA DestroyedStep ==
    ASSUME IInv, NEW c \in Clients, ContextDestroyed(c)
    PROVE  IInv'
<1>1. /\ status[c] = "stopped" /\ status' = [status EXCEPT ![c] = "destroyed"]
      /\ running' = running \ IdsOf(c)
      /\ tasks' = [tasks EXCEPT ![c] = <<>>]
      /\ toContext' = [w \in Workers |-> IF w = c THEN <<>> ELSE toContext[w]]
      /\ requests' = requests /\ aborted' = aborted
      /\ pendingRequests' = pendingRequests /\ releasePromises' = releasePromises
      /\ mainQueue' = mainQueue /\ UNCHANGED registryVars
    BY DEF ContextDestroyed
<1>2. Posts(<<>>)
    BY <1>1 DEF Posts
<1>3. ClientType /\ RegistryInv /\ PostedInv /\ DepartInv
    BY DEF IInv
<1>4. /\ Queued' = Queued /\ Held' = Held /\ Ids' = Ids
      /\ \A id : ClientOf(id)' = ClientOf(id)
      /\ \A id : Live(id)' <=> Live(id)
    BY <1>2, <1>3, PostsStep
<1>5. /\ \A t, id : Posted(t, id)' <=> Posted(t, id)
      /\ \A d : Departing(d)' <=> Departing(d)
      /\ \A id : Departing(ClientOf(id))' <=> Departing(ClientOf(id))
    BY <1>1 DEF Posted, Departing, ClientOf
<1>6. /\ status' \in [Clients -> {"active", "stopped", "destroyed"}]
      /\ status'[c] = "destroyed" /\ \A d \in Clients : d # c => status'[d] = status[d]
      /\ tasks' \in [Clients -> Seq(TaskAnswers)]
      /\ tasks'[c] = <<>> /\ \A d \in Clients : d # c => tasks'[d] = tasks[d]
      /\ toContext' \in [Workers -> Seq(Answers)]
      /\ \A d \in Workers : toContext'[d] = IF d = c THEN <<>> ELSE toContext[d]
  <2>1. <<>> \in Seq(TaskAnswers) /\ <<>> \in Seq(Answers)
    OBVIOUS
  <2> QED BY <1>1, <1>3, <2>1 DEF ClientType
<1>7. /\ \A d \in Clients : \A t, id : Says(tasks'[d], t, id) => Says(tasks[d], t, id) /\ d # c
      /\ \A d \in Workers : \A t, id : Says(toContext'[d], t, id) => Says(toContext[d], t, id) /\ d # c
    BY <1>6, EmptySays
<1>8. ClientType'
  <2>1. TaskAnswers' = TaskAnswers /\ Answers' = Answers
    BY <1>4 DEF TaskAnswers, Answers
  <2>2. \A t, id : /\ \A d : Says(tasks[d], t, id)' <=> Says(tasks'[d], t, id)
                   /\ \A d : Says(toContext[d], t, id)' <=> Says(toContext'[d], t, id)
    BY DEF Says
  <2>3. running' \subseteq Ids
    BY <1>1, <1>3 DEF ClientType
  <2>4. /\ \A d \in Clients : \A t, id : Says(tasks'[d], t, id) => ClientOf(id) = d
        /\ \A d \in Workers : \A t, id : Says(toContext'[d], t, id) => ClientOf(id) = d
    BY <1>3, <1>7 DEF ClientType
  <2>5. /\ pendingRequests' \subseteq Ids /\ releasePromises' \subseteq Ids
        /\ aborted' \subseteq Ids
    BY <1>1, <1>3 DEF ClientType
  <2> QED BY <1>4, <1>6, <2>1, <2>2, <2>3, <2>4, <2>5 DEF ClientType
<1>9. ASSUME NEW id \in Ids
      PROVE  AnswerInv(id)' /\ PromiseInv(id)' /\ EntryInv(id)'
  <2>1. /\ AnswerInv(id) /\ PromiseInv(id) /\ EntryInv(id)
        /\ ClientOf(id) \in Clients
    BY <1>3, NameOfId DEF IInv, RegistryInv
  <2>2. \A t : OnItsWay(t, id)' => OnItsWay(t, id)
    BY <1>1, <1>7, <2>1, OnItsWaySays, OnItsWaySaysNext
  <2>3. id \in pendingRequests \cup releasePromises =>
            /\ ClientOf(id) # c
            /\ \A t : OnItsWay(t, id)' <=> OnItsWay(t, id)
            /\ id \in running' <=> id \in running
    <3> SUFFICES ASSUME id \in pendingRequests \cup releasePromises
                 PROVE  /\ ClientOf(id) # c
                        /\ \A t : OnItsWay(t, id)' <=> OnItsWay(t, id)
                        /\ id \in running' <=> id \in running
      OBVIOUS
    <3>1. ClientOf(id) # c
      BY <1>1, <2>1 DEF PromiseInv
    <3>2. \A t : OnItsWay(t, id)' <=> OnItsWay(t, id)
      BY <1>1, <1>6, <2>1, <3>1, OnItsWaySays, OnItsWaySaysNext
    <3>3. id \in running' <=> id \in running
      BY <1>1, <3>1 DEF IdsOf
    <3> QED BY <3>1, <3>2, <3>3
  <2>4. AnswerInv(id)'
    BY <1>1, <1>4, <1>5, <2>1, <2>2, <2>3 DEF AnswerInv
  <2>5. PromiseInv(id)'
    BY <1>1, <1>4, <1>5, <1>6, <2>1, <2>2, <2>3 DEF PromiseInv
  <2>6. EntryInv(id)'
    BY <1>1, <1>4, <1>5, <2>1, <2>2, <2>3 DEF EntryInv
  <2> QED BY <2>4, <2>5, <2>6
<1>10. \A d \in Clients : Departing(d)' => status'[d] # "active"
    BY <1>3, <1>5, <1>6 DEF DepartInv
<1> QED
    BY <1>1, <1>2, <1>8, <1>9, <1>10, ClientStep

(* A new request k, with the option o.                                     *)
NewRequest(o, k) ==
    /\ k \notin Ids /\ Ids' = Ids \cup {k} /\ k \in Nat
    /\ requests' \in Seq(Option) /\ requests'[k] = o /\ ClientOf(k)' = o.client
    /\ \A id \in Ids : requests'[id] = requests[id]
    /\ \A id \in Ids : NameOf(id)' = NameOf(id) /\ ClientOf(id)' = ClientOf(id)

(* request() makes a new identifier and keeps the old ones.                *)
LEMMA RequestIsNew ==
    ASSUME requests \in Seq(Option), NEW o \in Option, requests' = Append(requests, o),
           NEW k, k = Len(requests) + 1
    PROVE  NewRequest(o, k)
<1>1. /\ Len(requests) \in Nat /\ DOMAIN requests = 1..Len(requests)
      /\ requests' \in Seq(Option) /\ Len(requests') = k
      /\ DOMAIN requests' = 1..Len(requests')
      /\ requests'[k] = o /\ \A id \in 1..Len(requests) : requests'[id] = requests[id]
    OBVIOUS
<1>2. k \notin 1..Len(requests) /\ 1..k = (1..Len(requests)) \cup {k} /\ k \in Nat
    BY <1>1
<1>3. k \notin Ids /\ Ids' = Ids \cup {k}
    BY <1>1, <1>2 DEF Ids
<1>4. \A id \in Ids : requests'[id] = requests[id]
    BY <1>1 DEF Ids
<1>5. /\ ClientOf(k)' = o.client
      /\ \A id \in Ids : NameOf(id)' = NameOf(id) /\ ClientOf(id)' = ClientOf(id)
    BY <1>1, <1>4 DEF NameOf, ClientOf
<1> QED
    BY <1>1, <1>2, <1>3, <1>4, <1>5 DEF NewRequest

(* The elements of a queue or of the held locks.                           *)
LEMMA IdSequence ==
    ASSUME NEW s \in Seq(Ids)
    PROVE  /\ Len(s) \in Nat /\ \A i \in 1..Len(s) : s[i] \in Ids
           /\ s # <<>> => 1 \in 1..Len(s) /\ Head(s) = s[1]
           /\ \A x : Contains(s, x) => x \in Ids
           /\ \A S : Ids \subseteq S => s \in Seq(S)
<1>1. /\ Len(s) \in Nat /\ \A i \in 1..Len(s) : s[i] \in Ids
      /\ s # <<>> => 1 \in 1..Len(s) /\ Head(s) = s[1]
    OBVIOUS
<1>2. \A x : Contains(s, x) => x \in Ids
    BY <1>1 DEF Contains
<1>3. ASSUME NEW S, Ids \subseteq S PROVE s \in Seq(S)
  <2>1. s = [i \in 1..Len(s) |-> s[i]]
    OBVIOUS
  <2>2. \A i \in 1..Len(s) : s[i] \in S
    BY <1>1, <1>3
  <2>3. [i \in 1..Len(s) |-> s[i]] \in Seq(S)
    BY <1>1, <2>2
  <2> QED BY <2>1, <2>3
<1> QED
    BY <1>1, <1>2, <1>3

(* A new request changes nothing in the registry.                          *)
LEMMA NewRequestRegistry ==
    ASSUME RegistryInv, UNCHANGED registryVars, NEW o, NEW k, NewRequest(o, k)
    PROVE  RegistryInv' /\ Queued' = Queued /\ Held' = Held
<1>1. lockRequestQueueMap' = lockRequestQueueMap /\ heldLocks' = heldLocks
    BY DEF registryVars
<1> DEFINE Q == lockRequestQueueMap
           H == heldLocks
<1>2. /\ \A n \in Names : Q[n] \in Seq(Ids) /\ H[n] \in Seq(Ids)
      /\ Q = [n \in Names |-> Q[n]] /\ H = [n \in Names |-> H[n]]
    BY DEF RegistryInv
<1>3. ASSUME NEW n \in Names
      PROVE  /\ \A i \in 1..Len(Q[n]) : Q[n][i] \in Ids
             /\ \A i \in 1..Len(H[n]) : H[n][i] \in Ids
             /\ Q[n] # <<>> => Head(Q[n]) \in Ids
             /\ H[n] # <<>> => Head(H[n]) \in Ids
             /\ \A x : Contains(Q[n], x) \/ Contains(H[n], x) => x \in Ids
             /\ Q[n] \in Seq(Ids') /\ H[n] \in Seq(Ids')
  <2>1. Ids \subseteq Ids'
    BY DEF NewRequest
  <2>2. Q[n] \in Seq(Ids) /\ H[n] \in Seq(Ids)
    BY <1>2
  <2> HIDE DEF Q, H
  <2> QED BY <2>1, <2>2, IdSequence
<1>4. requests' \in Seq(Option') /\ Option' = Option
    BY DEF NewRequest, Option
<1>5. Q \in [Names -> Seq(Ids')] /\ H \in [Names -> Seq(Ids')]
  <2> HIDE DEF Q, H
  <2> QED BY <1>2, <1>3
<1>6. ASSUME NEW n \in Names PROVE NameInv(lockRequestQueueMap[n], heldLocks[n])'
  <2>1. NameInv(Q[n], H[n])
    BY DEF RegistryInv
  <2>2. \A i \in 1..Len(H[n]) : requests'[H[n][i]] = requests[H[n][i]]
    BY <1>3 DEF NewRequest
  <2> QED BY <1>1, <2>1, <2>2 DEF NameInv
<1>7. ASSUME NEW n \in Names, NEW id, Contains(Q[n], id) \/ Contains(H[n], id)
      PROVE  NameOf(id)' = n
  <2>1. id \in Ids
    BY <1>3, <1>7
  <2>2. NameOf(id) = n
    BY <1>7 DEF RegistryInv
  <2> QED BY <2>1, <2>2 DEF NewRequest
<1>8. NoGrantableWaits'
  <2>1. ASSUME NEW n \in Names, Q[n] # <<>>
        PROVE  ~ IsGrantable(Head(Q[n]), Q[n], H[n])'
    <3>1. ~ IsGrantable(Head(Q[n]), Q[n], H[n])
      BY <2>1 DEF RegistryInv, NoGrantableWaits
    <3>2. /\ requests'[Head(Q[n])] = requests[Head(Q[n])]
          /\ H[n] # <<>> => requests'[Head(H[n])] = requests[Head(H[n])]
      BY <1>3, <2>1 DEF NewRequest
    <3>3. H[n] # <<>> \/ H[n] = <<>>
      OBVIOUS
    <3> QED BY <1>1, <3>1, <3>2, <3>3 DEF IsGrantable
  <2> QED BY <1>1, <2>1 DEF NoGrantableWaits
<1>9. RegistryInv'
    BY <1>1, <1>4, <1>5, <1>6, <1>7, <1>8 DEF RegistryInv
<1>10. requests \in Seq(Option) /\ \A id \in Ids : NameOf(id) \in Names
    BY NameOfId DEF RegistryInv
<1>11. k \in Ids' /\ NameOf(k)' \in Names /\ k \notin Ids
  <2>1. o \in Option
    BY <1>4 DEF NewRequest, Ids
  <2>2. o.name \in Names
    BY <2>1 DEF Option
  <2> QED BY <2>2 DEF NewRequest, NameOf
<1>12. ~ Contains(Q[NameOf(k)'], k) /\ ~ Contains(H[NameOf(k)'], k)
    BY <1>3, <1>11
<1>13. /\ Queued' = {id \in Ids' : Contains(Q[NameOf(id)'], id)}
       /\ Held' = {id \in Ids' : Contains(H[NameOf(id)'], id)}
       /\ Ids' = Ids \cup {k} /\ \A id \in Ids : NameOf(id)' = NameOf(id)
    BY <1>1 DEF Queued, Held, NewRequest
<1>14. Queued' = Queued /\ Held' = Held
    BY <1>12, <1>13 DEF Queued, Held
<1> QED
    BY <1>9, <1>14

(* Request() keeps the invariant.                                          *)
LEMMA RequestStep ==
    ASSUME IInv, NEW o \in Option, Request(o)
    PROVE  IInv'
<1>1. /\ RegistryInv /\ PostedInv /\ ClientType /\ DepartInv
      /\ requests \in Seq(Option) /\ Len(requests) \in Nat
    BY DEF IInv, RegistryInv
<1>2. PICK k : k = Len(requests) + 1
    OBVIOUS
<1> DEFINE m == [type |-> "request", id |-> k]
           q == mainQueue
           r == mainQueue'
<1>3. /\ status[o.client] = "active" /\ Len(requests) < MaxRequests
      /\ requests' = Append(requests, o)
      /\ releasePromises' = releasePromises \cup {k}
      /\ pendingRequests' = pendingRequests \cup {k}
      /\ mainQueue' = Append(mainQueue, m)
      /\ status' = status /\ aborted' = aborted /\ running' = running
      /\ tasks' = tasks /\ toContext' = toContext /\ UNCHANGED registryVars
    BY <1>2 DEF Request, CallOnMainThread
<1>4. NewRequest(o, k)
    BY <1>1, <1>2, <1>3, RequestIsNew
<1>5. /\ k \notin Ids /\ Ids' = Ids \cup {k}
      /\ ClientOf(k)' = o.client
      /\ \A id \in Ids : ClientOf(id)' = ClientOf(id)
      /\ o.client \in Clients /\ Len(requests') <= MaxRequests
  <2>1. Len(requests') = Len(requests) + 1 /\ MaxRequests \in Nat
    BY <1>1, <1>3, WebLocksAssumption
  <2>2. o.client \in Clients
    BY DEF Option
  <2> QED BY <1>1, <1>3, <1>4, <2>1, <2>2 DEF NewRequest
<1>6. RegistryInv' /\ Queued' = Queued /\ Held' = Held
    BY <1>1, <1>3, <1>4, NewRequestRegistry
<1>7. k \notin Queued \cup Held
    BY <1>5 DEF Queued, Held
(* The queue of posted functions. *)
<1>8. /\ q \in Seq(Messages) /\ Len(q) \in Nat /\ Len(r) = Len(q) + 1 /\ r[Len(r)] = m
      /\ \A i \in 1..Len(q) : i \in 1..Len(r) /\ r[i] = q[i] /\ q[i] \in Messages
      /\ \A i \in 1..Len(r) : \/ i \in 1..Len(q) /\ r[i] = q[i]
                              \/ i = Len(r) /\ r[i] = m
      /\ r \in Seq(Messages \cup {m}) /\ DOMAIN q = 1..Len(q) /\ DOMAIN r = 1..Len(r)
  <2>1. q \in Seq(Messages) /\ q \in Seq(Messages \cup {m})
    BY <1>1 DEF PostedInv
  <2> HIDE DEF m
  <2> QED BY <1>3, <2>1
<1>9. Messages \cup {m} \subseteq Messages'
    BY <1>5 DEF Messages
<1>10. r \in Seq(Messages')
  <2>1. \A i \in 1..Len(r) : r[i] \in Messages'
    BY <1>8, <1>9
  <2>2. r = [i \in 1..Len(r) |-> r[i]]
    BY <1>8
  <2>3. Len(r) \in Nat
    BY <1>8
  <2> HIDE DEF r
  <2> QED BY <2>1, <2>2, <2>3
<1>11. \A i \in 1..Len(q) : q[i].type = "request" => q[i].id \in Ids
    BY <1>8, PostedAt
<1>12. m.type = "request" /\ m.id = k
    OBVIOUS
<1> HIDE DEF m
<1>13. PostedInv'
  <2>1. ASSUME NEW i \in 1..Len(r), NEW j \in 1..Len(r),
               r[i].type = "request", r[j].type = "request", r[i].id = r[j].id
        PROVE  i = j
    <3>1. CASE i \in 1..Len(q) /\ j \in 1..Len(q)
      BY <1>1, <1>8, <2>1, <3>1 DEF PostedInv
    <3>2. CASE i = Len(r) /\ j = Len(r)
      BY <3>2
    <3>3. CASE i = Len(r) /\ j \in 1..Len(q)
      BY <1>5, <1>8, <1>11, <1>12, <2>1, <3>3
    <3>4. CASE j = Len(r) /\ i \in 1..Len(q)
      BY <1>5, <1>8, <1>11, <1>12, <2>1, <3>4
    <3> QED BY <1>8, <3>1, <3>2, <3>3, <3>4
  <2>2. ASSUME NEW i \in 1..Len(r), r[i].type = "request"
        PROVE  r[i].id \notin (Queued \cup Held)'
    BY <1>1, <1>6, <1>7, <1>8, <1>12, <2>2 DEF PostedInv
  <2> QED BY <1>10, <2>1, <2>2 DEF PostedInv
<1>14. \A a : (\E i \in 1..Len(r) : r[i] = a) <=> (\E i \in 1..Len(q) : q[i] = a) \/ a = m
  <2>1. Len(r) \in 1..Len(r)
    BY <1>8
  <2> QED BY <1>8, <2>1
<1>15. /\ \A t, id : Posted(t, id)' <=> Posted(t, id) \/ (t = "request" /\ id = k)
       /\ \A d : Departing(d)' <=> Departing(d)
  <2>1. \A t, id : [type |-> t, id |-> id] = m <=> (t = "request" /\ id = k)
    BY DEF m
  <2>2. \A d : [type |-> "goingAway", client |-> d] # m
    <3>1. \A d : [type |-> "goingAway", client |-> d].type = "goingAway"
      OBVIOUS
    <3> QED BY <1>12, <3>1
  <2>3. \A t, id : /\ Posted(t, id)' <=> \E i \in 1..Len(r) : r[i] = [type |-> t, id |-> id]
                   /\ Posted(t, id) <=> \E i \in 1..Len(q) : q[i] = [type |-> t, id |-> id]
    BY <1>8 DEF Posted
  <2>4. \A d : /\ Departing(d)' <=> \E i \in 1..Len(r) : r[i] = [type |-> "goingAway", client |-> d]
               /\ Departing(d) <=> \E i \in 1..Len(q) : q[i] = [type |-> "goingAway", client |-> d]
    BY <1>8 DEF Departing
  <2> HIDE DEF q, r
  <2>5. ASSUME NEW t, NEW id
        PROVE  Posted(t, id)' <=> Posted(t, id) \/ (t = "request" /\ id = k)
    <3>1. PICK a : a = [type |-> t, id |-> id]
      OBVIOUS
    <3>2. Posted(t, id)' <=> Posted(t, id) \/ a = m
      BY <1>14, <2>3, <3>1
    <3> QED BY <2>1, <3>1, <3>2
  <2>6. ASSUME NEW d
        PROVE  Departing(d)' <=> Departing(d)
    <3>1. PICK a : a = [type |-> "goingAway", client |-> d]
      OBVIOUS
    <3>2. Departing(d)' <=> Departing(d) \/ a = m
      BY <1>14, <2>4, <3>1
    <3> QED BY <2>2, <3>1, <3>2
  <2> QED BY <2>5, <2>6
<1>16. \A t : ~ Posted(t, k)
  <2>1. SUFFICES ASSUME NEW t, NEW i \in 1..Len(q), q[i] = [type |-> t, id |-> k]
                 PROVE  FALSE
    BY <1>8 DEF Posted
  <2>2. q[i] \in Messages
    BY <1>8
  <2>3. CASE q[i] \in [type : {"request", "release", "abort"}, id : Ids]
    BY <1>5, <2>1, <2>3
  <2>4. CASE q[i] \in [type : {"goingAway"}, client : Clients]
    <3>1. DOMAIN q[i] = {"type", "client"}
      BY <2>4
    <3>2. DOMAIN q[i] = {"type", "id"} /\ "client" \notin {"type", "id"}
      BY <2>1
    <3> QED BY <3>1, <3>2
  <2> QED BY <2>2, <2>3, <2>4 DEF Messages
<1>17. DepartInv'
  <2>1. \A d \in Clients : Departing(d)' => status'[d] # "active"
    BY <1>1, <1>3, <1>15 DEF DepartInv
  <2>2. ASSUME NEW i \in 1..Len(r), r[i].type = "request", r[i].id \notin pendingRequests'
        PROVE  \E j \in (i + 1)..Len(r) :
                  r[j] = [type |-> "goingAway", client |-> ClientOf(r[i].id)]
    <3>1. i \in 1..Len(q) /\ r[i] = q[i]
      BY <1>3, <1>8, <1>12, <2>2
    <3>2. PICK j \in (i + 1)..Len(q) :
              q[j] = [type |-> "goingAway", client |-> ClientOf(q[i].id)]
      BY <1>1, <1>3, <2>2, <3>1 DEF DepartInv
    <3>3. j \in 1..Len(q) /\ j \in (i + 1)..Len(r)
      BY <1>8, <3>2
    <3> QED BY <1>8, <3>1, <3>2, <3>3
  <2>3. ASSUME NEW i \in 1..Len(r), r[i].type = "request", r[i].id \notin pendingRequests'
        PROVE  requests'[r[i].id].client = ClientOf(r[i].id)
    <3>1. r[i].id \in Ids
      BY <1>3, <1>8, <1>11, <1>12, <2>3
    <3> QED BY <1>4, <3>1 DEF NewRequest, ClientOf
  <2> QED BY <2>1, <2>2, <2>3 DEF DepartInv, ClientOf
(* The clients. *)
<1>18. ASSUME NEW d, NEW t, NEW id, Says(tasks[d], t, id), d \in Clients
       PROVE  id \in Ids
    BY <1>1, <1>18, TaskTypes DEF ClientType
<1>19. ASSUME NEW d, NEW t, NEW id, Says(toContext[d], t, id), d \in Workers
       PROVE  id \in Ids
    BY <1>1, <1>19, SaysTyped DEF ClientType
<1>20. ClientType'
  <2>1. TaskAnswers \subseteq TaskAnswers' /\ Answers \subseteq Answers'
    BY <1>5 DEF TaskAnswers, Answers
  <2>2. \A d \in Clients : tasks[d] \in Seq(TaskAnswers')
    <3> SUFFICES ASSUME NEW d \in Clients PROVE tasks[d] \in Seq(TaskAnswers')
      OBVIOUS
    <3>1. tasks[d] \in Seq(TaskAnswers)
      BY <1>1 DEF ClientType
    <3> QED BY <2>1, <3>1
  <2>3. \A d \in Workers : toContext[d] \in Seq(Answers')
    <3> SUFFICES ASSUME NEW d \in Workers PROVE toContext[d] \in Seq(Answers')
      OBVIOUS
    <3>1. toContext[d] \in Seq(Answers)
      BY <1>1 DEF ClientType
    <3> QED BY <2>1, <3>1
  <2>4. /\ tasks' \in [Clients -> Seq(TaskAnswers')]
        /\ toContext' \in [Workers -> Seq(Answers')]
    BY <1>1, <1>3, <2>2, <2>3 DEF ClientType
  <2>5. \A t, id : /\ \A d : Says(tasks[d], t, id)' <=> Says(tasks[d], t, id)
                   /\ \A d : Says(toContext[d], t, id)' <=> Says(toContext[d], t, id)
    BY <1>3 DEF Says
  <2>6. ASSUME NEW d \in Clients, NEW t, NEW id, Says(tasks[d], t, id)
        PROVE  ClientOf(id)' = d
    BY <1>1, <1>5, <1>18, <2>6 DEF ClientType
  <2>7. ASSUME NEW d \in Workers, NEW t, NEW id, Says(toContext[d], t, id)
        PROVE  ClientOf(id)' = d
    BY <1>1, <1>5, <1>19, <2>7 DEF ClientType
  <2>8. /\ status' \in [Clients -> {"active", "stopped", "destroyed"}]
        /\ pendingRequests' \subseteq Ids' /\ releasePromises' \subseteq Ids'
        /\ aborted' \subseteq Ids' /\ running' \subseteq Ids'
    BY <1>1, <1>3, <1>5 DEF ClientType
  <2> QED BY <2>4, <2>5, <2>6, <2>7, <2>8 DEF ClientType
<1>21. \A t : /\ \A id \in Ids : OnItsWay(t, id)' <=> OnItsWay(t, id)
              /\ ~ OnItsWay(t, k)'
  <2>1. ASSUME NEW t, NEW id \in Ids PROVE OnItsWay(t, id)' <=> OnItsWay(t, id)
    BY <1>3, <1>5 DEF OnItsWay
  <2>2. ASSUME NEW t PROVE ~ OnItsWay(t, k)'
    <3>1. OnItsWay(t, k)' <=> \/ Says(tasks[o.client], t, k)
                              \/ o.client \in Workers /\ Says(toContext[o.client], t, k)
      BY <1>3, <1>5 DEF OnItsWay, Says
    <3> QED BY <1>5, <1>18, <1>19, <3>1
  <2> QED BY <2>1, <2>2
<1>22. \A id : /\ Live(id) <=> Posted("request", id) \/ id \in Queued \cup Held
               /\ Live(id)' <=> Posted("request", id)' \/ id \in Queued' \cup Held'
    BY DEF Live
<1>23. ASSUME NEW id \in Ids
       PROVE  AnswerInv(id)' /\ PromiseInv(id)' /\ EntryInv(id)'
  <2>1. AnswerInv(id) /\ PromiseInv(id) /\ EntryInv(id) /\ id # k
    BY <1>5 DEF IInv
  <2>2. /\ id \in pendingRequests' <=> id \in pendingRequests
        /\ id \in releasePromises' <=> id \in releasePromises
        /\ \A t : Posted(t, id)' <=> Posted(t, id)
        /\ Live(id)' <=> Live(id)
        /\ \A t : OnItsWay(t, id)' <=> OnItsWay(t, id)
        /\ ClientOf(id)' = ClientOf(id)
    BY <1>3, <1>5, <1>6, <1>15, <1>21, <1>22, <2>1
  <2>3. Departing(ClientOf(id))' <=> Departing(ClientOf(id))
    <3>1. PICK d : d = ClientOf(id)
      OBVIOUS
    <3>2. Departing(ClientOf(id))' <=> Departing(d)'
      BY <2>2, <3>1 DEF Departing
    <3> QED BY <1>15, <3>1, <3>2
  <2>4. AnswerInv(id)'
    BY <1>6, <2>1, <2>2 DEF AnswerInv
  <2>5. PromiseInv(id)'
    BY <1>3, <1>6, <2>1, <2>2 DEF PromiseInv
  <2>6. EntryInv(id)'
    BY <1>3, <1>6, <2>1, <2>2, <2>3 DEF EntryInv
  <2> QED BY <2>4, <2>5, <2>6
<1>24. AnswerInv(k)' /\ PromiseInv(k)' /\ EntryInv(k)'
  <2>1. k \notin Queued' /\ k \notin Held' /\ k \notin running' /\ k \notin aborted'
    BY <1>1, <1>3, <1>5, <1>6, <1>7 DEF ClientType
  <2>2. AnswerInv(k)'
    BY <1>21 DEF AnswerInv
  <2>3. PromiseInv(k)'
    BY <1>3, <1>5, <1>15, <1>16, <2>1 DEF PromiseInv
  <2>4. EntryInv(k)'
    BY <2>1 DEF EntryInv
  <2> QED BY <2>2, <2>3, <2>4
<1> QED
    BY <1>5, <1>6, <1>13, <1>17, <1>20, <1>23, <1>24 DEF IInv

-----------------------------------------------------------------------------
(* The theorems                                                            *)

(* The invariant holds initially.                                          *)
LEMMA InitInv == Init => IInv
<1> SUFFICES ASSUME Init PROVE IInv
    OBVIOUS
<1>1. /\ requests = <<>> /\ mainQueue = <<>> /\ Ids = {} /\ Len(requests) = 0
      /\ lockRequestQueueMap = [n \in Names |-> <<>>]
      /\ heldLocks = [n \in Names |-> <<>>]
      /\ pendingRequests = {} /\ releasePromises = {} /\ aborted = {} /\ running = {}
    BY DEF Init, Ids
<1>2. RegistryInv
  <2>1. \A n \in Names : /\ lockRequestQueueMap[n] = <<>> /\ heldLocks[n] = <<>>
                         /\ NameInv(lockRequestQueueMap[n], heldLocks[n])
    BY <1>1 DEF NameInv
  <2>2. NoGrantableWaits
    BY <2>1 DEF NoGrantableWaits
  <2>3. requests \in Seq(Option) /\ <<>> \in Seq(Ids)
    BY <1>1
  <2> QED BY <1>1, <2>1, <2>2, <2>3, EmptySays DEF RegistryInv
<1>3. PostedInv /\ DepartInv
    BY <1>1 DEF PostedInv, DepartInv, Departing
<1>4. ClientType
  <2>1. /\ \A c \in Clients : tasks[c] = <<>>
        /\ \A c \in Workers : toContext[c] = <<>>
        /\ tasks \in [Clients -> Seq(TaskAnswers)] /\ toContext \in [Workers -> Seq(Answers)]
        /\ status \in [Clients -> {"active", "stopped", "destroyed"}]
    BY DEF Init
  <2> QED BY <1>1, <2>1, EmptySays DEF ClientType
<1> QED
    BY <1>1, <1>2, <1>3, <1>4, WebLocksAssumption DEF IInv

(* The main thread keeps the invariant, and first come, first served.      *)
LEMMA MainThreadStep ==
    ASSUME IInv, MainThreadNext
    PROVE  IInv' /\ OvertakenByNobody
<1>1. RegistryInv /\ PostedInv
    BY DEF IInv
<1>2. /\ RegistryInv' /\ OvertakenByNobody /\ \E answers : Effect(answers)
      /\ \E type : MainThread(type)
  <2>1. CASE RunRequest
    BY <1>1, <2>1, RequestEffect DEF RunRequest
  <2>2. CASE RunRelease
    BY <1>1, <2>2, ReleaseEffect DEF RunRelease
  <2>3. CASE RunAbort
    BY <1>1, <2>3, AbortEffect DEF RunAbort
  <2>4. CASE RunGoingAway
    BY <1>1, <2>4, GoingAwayEffect DEF RunGoingAway
  <2> QED BY <2>1, <2>2, <2>3, <2>4 DEF MainThreadNext
<1> QED
    BY <1>2, MainStep

(* A step that changes nothing keeps the invariant.                        *)
LEMMA StutterStep ==
    ASSUME IInv, UNCHANGED vars
    PROVE  IInv'
<1>1. UNCHANGED <<requests, status, pendingRequests, releasePromises, aborted, running,
                  tasks, mainQueue, toContext, lockRequestQueueMap, heldLocks>>
    BY DEF vars, clientVars, scriptVars, registryVars
<1>2. RegistryInv'
    BY <1>1, RegistryUnchanged DEF registryVars, IInv
<1>3. Ids' = Ids /\ Queued' = Queued /\ Held' = Held
      /\ Messages' = Messages /\ TaskAnswers' = TaskAnswers /\ Answers' = Answers
    BY <1>1 DEF Ids, Queued, Held, NameOf, Messages, TaskAnswers, Answers
<1>4. PostedInv' /\ DepartInv' /\ ClientType'
    BY <1>1, <1>3 DEF IInv, PostedInv, DepartInv, ClientType, Departing, ClientOf, Says
<1>5. ASSUME NEW id \in Ids
      PROVE  AnswerInv(id)' /\ PromiseInv(id)' /\ EntryInv(id)'
  <2>1. AnswerInv(id) /\ PromiseInv(id) /\ EntryInv(id)
    BY DEF IInv
  <2>2. /\ \A t : Posted(t, id)' <=> Posted(t, id)
        /\ \A t : OnItsWay(t, id)' <=> OnItsWay(t, id)
        /\ ClientOf(id)' = ClientOf(id)
        /\ Departing(ClientOf(id))' <=> Departing(ClientOf(id))
    BY <1>1 DEF Posted, OnItsWay, ClientOf, Departing
  <2>3. Live(id)' <=> Live(id)
    BY <1>3, <2>2 DEF Live
  <2>4. AnswerInv(id)'
    BY <1>1, <1>3, <2>1, <2>2, <2>3 DEF AnswerInv
  <2>5. PromiseInv(id)'
    BY <1>1, <1>3, <2>1, <2>2, <2>3 DEF PromiseInv
  <2>6. EntryInv(id)'
    BY <1>1, <1>3, <2>1, <2>2, <2>3 DEF EntryInv
  <2> QED BY <2>4, <2>5, <2>6
<1> QED
    BY <1>1, <1>2, <1>3, <1>4, <1>5 DEF IInv

(* Every step keeps the invariant.                                         *)
LEMMA NextInv ==
    ASSUME IInv, [Next]_vars
    PROVE  IInv'
<1>1. CASE MainThreadNext
    BY <1>1, MainThreadStep
<1>2. CASE \E c \in Workers : WorkerRunsAnswer(c)
    BY <1>2, WorkerStep
<1>3. CASE \E c \in Clients : ManagerTask(c)
    BY <1>3, ManagerTaskStep
<1>4. CASE Environment
  <2>1. CASE \E o \in Option : Request(o)
    BY <2>1, RequestStep
  <2>2. CASE \E id \in Ids : SignalToAbortTheRequest(id) \/ WaitingPromiseSettles(id)
    BY <2>2, SignalStep, SettlesStep
  <2>3. CASE \E c \in Clients : Stop(c) \/ ContextDestroyed(c)
    BY <2>3, StopStep, DestroyedStep
  <2> QED BY <1>4, <2>1, <2>2, <2>3 DEF Environment
<1>5. CASE Terminated \/ UNCHANGED vars
    BY <1>5, StutterStep DEF Terminated
<1> QED
    BY <1>1, <1>2, <1>3, <1>4, <1>5 DEF Next

(* The invariant holds in every reachable state.                           *)
THEOREM Invariance == Spec => []IInv
<1> QED
    BY InitInv, NextInv, PTL DEF Spec

(* Every variable keeps its type: a manager, the queues between a manager  *)
(* and the registry and the registry itself name only requests that were   *)
(* made.                                                                   *)
THEOREM TypeCorrect == Spec => []TypeOK
<1>1. IInv => TypeOK
    BY DEF IInv, RegistryInv, PostedInv, ClientType, Messages, Answers, AnswerTypes,
           TaskAnswers, TypeOK
<1> QED
    BY <1>1, Invariance, PTL

(* Locks held under one name exclude each other unless all are shared:     *)
(* what processLockRequestQueue() grants is compatible with what is held,  *)
(* although isGrantable() compares with the first holder only.             *)
THEOREM LocksExclude == Spec => []HeldCompatible
<1>1. IInv => HeldCompatible
  <2> SUFFICES ASSUME IInv, NEW n \in Names PROVE
            \A i, j \in DOMAIN heldLocks[n] :
                i # j => /\ heldLocks[n][i] # heldLocks[n][j]
                         /\ requests[heldLocks[n][i]].mode = "shared"
                         /\ requests[heldLocks[n][j]].mode = "shared"
    BY DEF HeldCompatible
  <2>1. heldLocks[n] \in Seq(Ids) /\ NameInv(lockRequestQueueMap[n], heldLocks[n])
    BY DEF IInv, RegistryInv
  <2>2. DOMAIN heldLocks[n] = 1..Len(heldLocks[n])
    BY <2>1
  <2> QED BY <2>1, <2>2 DEF NameInv
<1> QED
    BY <1>1, Invariance, PTL

(* No function of the main thread leaves a queue behind whose first        *)
(* request could be granted.                                               *)
THEOREM QueuesProcessed == Spec => []NoGrantableWaits
<1>1. IInv => NoGrantableWaits
    BY DEF IInv, RegistryInv
<1> QED
    BY <1>1, Invariance, PTL

(* Every entry of the registry has somebody who will remove it.            *)
THEOREM EntriesOwned == Spec => []NoOrphanedEntry
<1>1. IInv => NoOrphanedEntry
  <2> SUFFICES ASSUME IInv, NEW n \in Names PROVE
            /\ \A id \in ToSet(heldLocks[n]) :
                \/ id \in pendingRequests /\ OnItsWay("granted", id)
                \/ id \in running /\ id \in releasePromises
                \/ Posted("release", id)
                \/ Departing(ClientOf(id))
            /\ \A id \in ToSet(lockRequestQueueMap[n]) :
                id \in pendingRequests \/ Departing(ClientOf(id))
    BY DEF NoOrphanedEntry
  <2>1. /\ RegistryInv /\ heldLocks[n] \in Seq(Ids) /\ lockRequestQueueMap[n] \in Seq(Ids)
        /\ \A id \in Ids : EntryInv(id)
    BY DEF IInv, RegistryInv
  <2>2. ASSUME NEW id \in ToSet(heldLocks[n]) PROVE id \in Held
    <3>1. Contains(heldLocks[n], id) /\ id \in Ids
      BY <2>1, ContainsToSet, IdSequence
    <3> QED BY <2>1, <3>1 DEF RegistryInv, Held
  <2>3. ASSUME NEW id \in ToSet(lockRequestQueueMap[n]) PROVE id \in Queued
    <3>1. Contains(lockRequestQueueMap[n], id) /\ id \in Ids
      BY <2>1, ContainsToSet, IdSequence
    <3> QED BY <2>1, <3>1 DEF RegistryInv, Queued
  <2>4. Held \subseteq Ids /\ Queued \subseteq Ids
    BY DEF Held, Queued
  <2> QED BY <2>1, <2>2, <2>3, <2>4 DEF EntryInv
<1> QED
    BY <1>1, Invariance, PTL

(* A script whose callback runs and whose promise is unsettled holds its   *)
(* lock, or the notice that it was stolen is on its way.                   *)
THEOREM CallbacksHoldLocks == Spec => []RunningHoldsLock
<1>1. IInv => RunningHoldsLock
  <2> SUFFICES ASSUME IInv, NEW id \in running \cap releasePromises
               PROVE  Contains(heldLocks[NameOf(id)], id) \/ OnItsWay("stolen", id)
    BY DEF RunningHoldsLock
  <2>1. id \in Ids /\ PromiseInv(id)
    BY DEF IInv, ClientType
  <2> QED BY <2>1 DEF PromiseInv, Held
<1> QED
    BY <1>1, Invariance, PTL

(* A waiting request is overtaken by nobody that was not ahead of it in    *)
(* its queue, except by a thief.                                           *)
THEOREM Fair == Spec => FirstComeFirstServed
<1>1. ASSUME IInv, [Next]_vars PROVE OvertakenByNobody \/ UNCHANGED registryVars
  <2>1. CASE MainThreadNext
    BY <1>1, <2>1, MainThreadStep
  <2>2. CASE \E c \in Workers : WorkerRunsAnswer(c)
    BY <2>2 DEF WorkerRunsAnswer
  <2>3. CASE \E c \in Clients : ManagerTask(c)
    BY <2>3 DEF ManagerTask, TaskFindsNoRequest, TaskAborted, TaskRunsCallback,
                TaskCallbackFails, TaskDenied, Task
  <2>4. CASE Environment
    BY <2>4 DEF Environment, Request, SignalToAbortTheRequest, WaitingPromiseSettles,
                Stop, ContextDestroyed
  <2>5. CASE Terminated \/ UNCHANGED vars
    BY <2>5 DEF Terminated, vars
  <2> QED BY <1>1, <2>1, <2>2, <2>3, <2>4, <2>5 DEF Next
<1>2. ASSUME UNCHANGED registryVars PROVE OvertakenByNobody
    BY <1>2 DEF registryVars, OvertakenByNobody
<1>3. IInv /\ [Next]_vars => [OvertakenByNobody]_vars
    BY <1>1, <1>2
<1>4. Spec => [][OvertakenByNobody]_vars
    BY <1>3, Invariance, PTL DEF Spec
<1>5. [OvertakenByNobody]_vars =>
        [\A n \in Names :
            LET q == lockRequestQueueMap[n] IN
            \A i \in DOMAIN q :
                Contains(lockRequestQueueMap'[n], q[i]) =>
                    \A id \in ToSet(heldLocks'[n]) \ ToSet(heldLocks[n]) :
                        \/ requests[id].kind = "steal"
                        \/ \E j \in 1..(i - 1) : q[j] = id]_vars
    BY DEF OvertakenByNobody
<1> QED
    BY <1>4, <1>5, PTL DEF FirstComeFirstServed
=============================================================================
