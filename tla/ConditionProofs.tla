-------------------------- MODULE ConditionProofs --------------------------
(***************************************************************************)
(* WTF::Condition over the ParkingLot, for every number of threads and     *)
(* conditions and every hash: no parked thread is lost or woken twice, no  *)
(* notification is missed, and a Condition implements the abstract Monitor.*)
(*                                                                         *)
(* The proof looks at the queues through the line of each condition: the   *)
(* threads parked on it, in the order in which they stand in its bucket of *)
(* the current table.  Buckets are shared by conditions whose hashes meet, *)
(* and a rehash moves all threads to other buckets, but the lines stay as  *)
(* they are: every step leaves them alone (Quiet), appends a thread to one *)
(* of them, takes threads out of one, or clears the address of a thread    *)
(* that is in no line any more.  That a rehash keeps the lines is the      *)
(* longest part (RehashKeepsWaiters): it concatenates all queues and       *)
(* selects them apart again by the new hash, so the lemmas on Selected and *)
(* FlattenSeq, and those on the numbering of the buckets, come first.      *)
(***************************************************************************)
EXTENDS Condition, FiniteSetTheorems, SequenceTheorems, TLAPS

(* Every nonempty set of natural numbers has a least element.              *)
LEMMA LeastNatural ==
  ASSUME NEW S, S \subseteq Nat, S # {}
  PROVE  \E n \in S : \A m \in S : n <= m
<1> DEFINE R == OpToRel(<, Nat)
<1>1. IsWellFoundedOn(R, Nat)
  BY NatLessThanWellFounded
<1> HIDE DEF R
<1>2. PICK n \in S : \A m \in S : ~ (<<m, n>> \in R)
  BY <1>1, WFMin
<1>3. \A m \in S : ~ (m < n)
  BY <1>2 DEF R, OpToRel
<1> QED
  BY <1>3

(* A recursive function on 0..n exists.                                    *)
LEMMA Recursion ==
  ASSUME NEW X, NEW a \in X, NEW n \in Nat, NEW G \in [1..n -> [X -> X]]
  PROVE  \E f \in [0..n -> X] :
           f[0] = a /\ \A i \in 1..n : f[i] = G[i][f[i - 1]]
<1> DEFINE Is(m, f) == f[0] = a /\ \A i \in 1..m : f[i] = G[i][f[i - 1]]
           Bad == {m \in 0..n : ~ \E f \in [0..m -> X] : Is(m, f)}
<1> SUFFICES ASSUME n \in Bad PROVE FALSE
  OBVIOUS
<1>1. PICK m \in Bad : \A l \in Bad : m <= l
  <2>1. Bad \subseteq Nat /\ Bad # {}
    OBVIOUS
  <2> HIDE DEF Bad
  <2> QED BY <2>1, LeastNatural
<1>2. m # 0
  <2>1. [i \in 0..0 |-> a] \in [0..0 -> X] /\ Is(0, [i \in 0..0 |-> a])
    OBVIOUS
  <2> QED BY <2>1
<1>3. m - 1 \in 0..n /\ m - 1 \notin Bad
  <2>1. m \in 0..n
    OBVIOUS
  <2> HIDE DEF Bad
  <2> QED BY <1>1, <1>2, <2>1
<1>4. PICK f \in [0..(m - 1) -> X] : Is(m - 1, f)
  BY <1>3
<1> DEFINE g == [i \in 0..m |-> IF i = m THEN G[m][f[m - 1]] ELSE f[i]]
<1>5. g \in [0..m -> X]
  BY <1>2
<1>6. Is(m, g)
  BY <1>2, <1>4
<1> QED
  BY <1>1, <1>5, <1>6

(* A set that has the empty sequence and every extension of its sequences  *)
(* has all sequences.                                                      *)
LEMMA AllSequences ==
  ASSUME NEW T, NEW G, <<>> \in G,
         \A s \in Seq(T) : \A x \in T : s \in G => Append(s, x) \in G
  PROVE  \A s \in Seq(T) : s \in G
<1> DEFINE Bad == {n \in Nat : \E s \in Seq(T) : Len(s) = n /\ s \notin G}
<1> SUFFICES ASSUME Bad # {} PROVE FALSE
  <2>1. \A s \in Seq(T) : Len(s) \in Nat
    OBVIOUS
  <2> QED BY <2>1
<1>1. PICK n \in Bad : \A m \in Bad : n <= m
  <2>1. Bad \subseteq Nat
    OBVIOUS
  <2> HIDE DEF Bad
  <2> QED BY <2>1, LeastNatural
<1>2. PICK s \in Seq(T) : Len(s) = n /\ s \notin G
  OBVIOUS
<1>3. PICK r \in Seq(T), x \in T : s = Append(r, x)
  <2>1. s # <<>>
    BY <1>2
  <2> QED BY <2>1, SequenceEmptyOrAppend
<1>4. r \in G
  <2>1. Len(r) \in Nat /\ ~ (n <= Len(r))
    BY <1>2, <1>3
  <2>2. Len(r) \notin Bad
    <3> HIDE DEF Bad
    <3> QED BY <1>1, <2>1
  <2> QED BY <2>1, <2>2
<1> QED
  BY <1>2, <1>3, <1>4

-----------------------------------------------------------------------------
(*                    What a selection makes of a list                     *)

(* g[i] is what is selected of the first i elements of s.                  *)
Builds(g, s, S) ==
  /\ g[0] = <<>>
  /\ \A i \in 1..Len(s) : g[i] = IF s[i] \in S THEN Append(g[i - 1], s[i]) ELSE g[i - 1]

(* The recursion of Selected() has a solution.                             *)
LEMMA SelectedBuilds ==
  ASSUME NEW T, NEW s \in Seq(T), NEW S
  PROVE  \E g \in [0..Len(s) -> Seq(T)] : Builds(g, s, S) /\ Selected(s, S) = g[Len(s)]
<1> DEFINE Keep(i, r) == IF s[i] \in S THEN Append(r, s[i]) ELSE r
           Eqn(g) == [i \in 0..Len(s) |->
                        IF i = 0 THEN <<>>
                        ELSE IF s[i] \in S THEN Append(g[i - 1], s[i]) ELSE g[i - 1]]
           G == [i \in 1..Len(s) |-> [r \in Seq(T) |-> Keep(i, r)]]
           upTo == CHOOSE g : g = Eqn(g)
<1>1. Selected(s, S) = upTo[Len(s)]
  BY DEF Selected
<1>2. <<>> \in Seq(T) /\ Len(s) \in Nat
  OBVIOUS
<1>3. G \in [1..Len(s) -> [Seq(T) -> Seq(T)]]
  OBVIOUS
<1> HIDE DEF G
<1>4. PICK g \in [0..Len(s) -> Seq(T)] :
          g[0] = <<>> /\ \A i \in 1..Len(s) : g[i] = G[i][g[i - 1]]
  <2> DEFINE X == Seq(T)
             a == <<>>
             N == Len(s)
  <2>1. a \in X /\ N \in Nat /\ G \in [1..N -> [X -> X]]
    BY <1>2, <1>3
  <2> HIDE DEF X, a, N
  <2>2. \E f \in [0..N -> X] : f[0] = a /\ \A i \in 1..N : f[i] = G[i][f[i - 1]]
    BY ONLY <2>1, Recursion
  <2> QED BY <2>2 DEF X, a, N
<1>5. g = Eqn(g)
  <2>1. ASSUME NEW i \in 1..Len(s)
        PROVE  g[i] = Keep(i, g[i - 1])
    <3>1. i - 1 \in 0..Len(s) /\ g[i - 1] \in Seq(T)
      BY <1>2
    <3>2. G[i][g[i - 1]] = Keep(i, g[i - 1])
      BY <3>1 DEF G
    <3> QED BY <1>4, <3>2
  <2>2. ASSUME NEW i \in 0..Len(s)
        PROVE  g[i] = Eqn(g)[i]
    <3>1. CASE i = 0
      BY <1>4, <3>1
    <3>2. CASE i # 0
      <4>1. i \in 1..Len(s)
        BY <1>2, <3>2
      <4> QED BY <2>1, <3>2, <4>1
    <3> QED BY <3>1, <3>2
  <2> QED BY <1>4, <2>2
<1>6. upTo = Eqn(upTo)
  <2> HIDE DEF Eqn
  <2> QED BY <1>5
<1> HIDE DEF upTo
<1>7. upTo[0] = <<>> /\ \A i \in 1..Len(s) : upTo[i] = Keep(i, upTo[i - 1])
  <2>1. \A i \in 0..Len(s) : upTo[i] = Eqn(upTo)[i]
    BY <1>6
  <2> QED BY <2>1
<1> DEFINE Bad == {n \in 0..Len(s) : upTo[n] \notin Seq(T)}
<1>8. Bad = {}
  <2> SUFFICES ASSUME Bad # {} PROVE FALSE
    OBVIOUS
  <2>1. PICK n \in Bad : \A m \in Bad : n <= m
    <3>1. Bad \subseteq Nat
      OBVIOUS
    <3> HIDE DEF Bad
    <3> QED BY <3>1, LeastNatural
  <2>2. n \in 0..Len(s) /\ upTo[n] \notin Seq(T)
    OBVIOUS
  <2>3. n # 0
    BY <1>2, <1>7, <2>2
  <2>4. n - 1 \in 0..Len(s) /\ n - 1 \notin Bad
    <3> HIDE DEF Bad
    <3> QED BY <2>1, <2>2, <2>3
  <2>5. upTo[n - 1] \in Seq(T)
    BY <2>4
  <2>6. n \in 1..Len(s) /\ s[n] \in T
    BY <2>2, <2>3
  <2>7. upTo[n] = Keep(n, upTo[n - 1])
    BY <1>7, <2>6
  <2>8. \A q \in Seq(T) : Keep(n, q) \in Seq(T)
    BY <2>6
  <2> HIDE DEF Bad, Keep
  <2> QED BY <2>2, <2>5, <2>7, <2>8
<1>9. upTo \in [0..Len(s) -> Seq(T)]
  <2>1. \A i \in 0..Len(s) : upTo[i] \in Seq(T)
    BY <1>8
  <2>2. upTo = [i \in 0..Len(s) |-> upTo[i]]
    BY <1>6
  <2> QED BY <2>1, <2>2
<1> QED
  BY <1>1, <1>7, <1>9 DEF Builds

(* Nothing is selected of nothing.                                         *)
LEMMA SelectedEmpty == ASSUME NEW S PROVE Selected(<<>>, S) = <<>>
<1> DEFINE T == {}
           s == <<>>
<1>1. s \in Seq(T) /\ Len(s) = 0
  OBVIOUS
<1> HIDE DEF s, T
<1>2. PICK g \in [0..Len(s) -> Seq(T)] : Builds(g, s, S) /\ Selected(s, S) = g[Len(s)]
  BY <1>1, SelectedBuilds
<1>3. Selected(s, S) = <<>>
  BY <1>1, <1>2 DEF Builds
<1> QED
  BY <1>3 DEF s

(* What is selected of a list with one more element.                       *)
LEMMA SelectedAppend ==
  ASSUME NEW T, NEW s \in Seq(T), NEW x \in T, NEW S
  PROVE  /\ Selected(s, S) \in Seq(T)
         /\ Selected(Append(s, x), S) =
              IF x \in S THEN Append(Selected(s, S), x) ELSE Selected(s, S)
<1> DEFINE r == Append(s, x)
<1>1. /\ r \in Seq(T) /\ Len(s) \in Nat /\ Len(r) = Len(s) + 1
      /\ r[Len(s) + 1] = x /\ \A i \in 1..Len(s) : r[i] = s[i]
  OBVIOUS
<1> HIDE DEF r
<1>2. PICK g \in [0..Len(s) -> Seq(T)] : Builds(g, s, S) /\ Selected(s, S) = g[Len(s)]
  BY SelectedBuilds
<1>3. PICK h \in [0..Len(r) -> Seq(T)] : Builds(h, r, S) /\ Selected(r, S) = h[Len(r)]
  BY <1>1, SelectedBuilds
<1>4. \A i \in 0..Len(s) : h[i] = g[i]
  <2> DEFINE Bad == {n \in 0..Len(s) : h[n] # g[n]}
  <2> SUFFICES ASSUME Bad # {} PROVE FALSE
    OBVIOUS
  <2>1. PICK n \in Bad : \A m \in Bad : n <= m
    <3>1. Bad \subseteq Nat
      OBVIOUS
    <3> HIDE DEF Bad
    <3> QED BY <3>1, LeastNatural
  <2>2. n \in 0..Len(s) /\ h[n] # g[n]
    OBVIOUS
  <2>3. n # 0
    BY <1>2, <1>3, <2>2 DEF Builds
  <2>4. n - 1 \in 0..Len(s) /\ n - 1 \notin Bad
    <3> HIDE DEF Bad
    <3> QED BY <2>1, <2>2, <2>3
  <2>5. h[n - 1] = g[n - 1]
    BY <2>4
  <2>6. n \in 1..Len(s) /\ n \in 1..Len(r)
    BY <1>1, <2>2, <2>3
  <2>7. r[n] = s[n]
    BY <1>1, <2>6
  <2>8. h[n] = IF r[n] \in S THEN Append(h[n - 1], r[n]) ELSE h[n - 1]
    BY <1>3, <2>6 DEF Builds
  <2>9. g[n] = IF s[n] \in S THEN Append(g[n - 1], s[n]) ELSE g[n - 1]
    BY <1>2, <2>6 DEF Builds
  <2> HIDE DEF Bad
  <2> QED BY <2>2, <2>5, <2>7, <2>8, <2>9
<1>5. h[Len(s) + 1] = IF x \in S THEN Append(h[Len(s)], x) ELSE h[Len(s)]
  <2>1. Len(s) + 1 \in 1..Len(r) /\ Len(s) + 1 - 1 = Len(s)
    BY <1>1
  <2>2. h[Len(s) + 1] = IF r[Len(s) + 1] \in S
                        THEN Append(h[Len(s) + 1 - 1], r[Len(s) + 1])
                        ELSE h[Len(s) + 1 - 1]
    BY <1>3, <2>1 DEF Builds
  <2>3. h[Len(s) + 1 - 1] = h[Len(s)]
    BY <2>1
  <2> QED BY <1>1, <2>2, <2>3
<1>6. Len(s) \in 0..Len(s)
  BY <1>1
<1>7. h[Len(s)] = g[Len(s)] /\ g[Len(s)] \in Seq(T)
  BY <1>2, <1>4, <1>6
<1>8. Selected(r, S) = h[Len(s) + 1]
  BY <1>1, <1>3
<1> QED
  BY <1>2, <1>5, <1>7, <1>8 DEF r

(* An extended list has the elements of the list and the new one.          *)
LEMMA AppendContains ==
  ASSUME NEW T, NEW s \in Seq(T), NEW x \in T, NEW y
  PROVE  Contains(Append(s, x), y) <=> Contains(s, y) \/ y = x
<1> DEFINE r == Append(s, x)
<1>1. /\ r \in Seq(T) /\ Len(s) \in Nat /\ Len(r) = Len(s) + 1
      /\ r[Len(s) + 1] = x /\ \A i \in 1..Len(s) : r[i] = s[i]
  OBVIOUS
<1> HIDE DEF r
<1>2. Contains(s, y) => Contains(r, y)
  BY <1>1 DEF Contains
<1>3. y = x => Contains(r, y)
  <2>1. Len(s) + 1 \in 1..Len(r)
    BY <1>1
  <2> QED BY <1>1, <2>1 DEF Contains
<1>4. Contains(r, y) => Contains(s, y) \/ y = x
  BY <1>1 DEF Contains
<1> QED
  BY <1>2, <1>3, <1>4 DEF r

(* A concatenation has the elements of its parts.                          *)
LEMMA ConcatContains ==
  ASSUME NEW T, NEW s \in Seq(T), NEW t \in Seq(T), NEW x
  PROVE  Contains(s \o t, x) <=> Contains(s, x) \/ Contains(t, x)
<1>1. ASSUME NEW i \in 1..Len(t)
      PROVE  (s \o t)[Len(s) + i] = t[i] /\ Len(s) + i \in 1..Len(s \o t)
  OBVIOUS
<1>2. Contains(t, x) => Contains(s \o t, x)
  BY <1>1 DEF Contains
<1>3. Contains(s, x) => Contains(s \o t, x)
  BY DEF Contains
<1>4. Contains(s \o t, x) => Contains(s, x) \/ Contains(t, x)
  <2> SUFFICES ASSUME NEW i \in 1..Len(s \o t), (s \o t)[i] = x
               PROVE  Contains(s, x) \/ Contains(t, x)
    BY DEF Contains
  <2>1. CASE i <= Len(s)
    BY <2>1 DEF Contains
  <2>2. CASE i > Len(s)
    <3>1. i - Len(s) \in 1..Len(t) /\ t[i - Len(s)] = x
      BY <2>2
    <3> QED BY <3>1 DEF Contains
  <2> QED BY <2>1, <2>2
<1> QED
  BY <1>2, <1>3, <1>4

(* No element occurs twice.                                                *)
NoDup(s) == \A i, j \in 1..Len(s) : s[i] = s[j] => i = j

(* An extended list without repetitions.                                   *)
LEMMA AppendNoDup ==
  ASSUME NEW T, NEW s \in Seq(T), NEW x \in T
  PROVE  NoDup(Append(s, x)) <=> NoDup(s) /\ ~Contains(s, x)
<1> DEFINE r == Append(s, x)
<1>1. /\ r \in Seq(T) /\ Len(s) \in Nat /\ Len(r) = Len(s) + 1
      /\ r[Len(s) + 1] = x /\ \A i \in 1..Len(s) : r[i] = s[i]
  OBVIOUS
<1> HIDE DEF r
<1>2. /\ \A i \in 1..Len(s) : i \in 1..Len(r) /\ i # Len(s) + 1
      /\ Len(s) + 1 \in 1..Len(r)
      /\ \A i \in 1..Len(r) : i \in 1..Len(s) \/ i = Len(s) + 1
  BY <1>1
<1>3. NoDup(r) => NoDup(s)
  BY <1>1, <1>2 DEF NoDup
<1>4. NoDup(r) => ~Contains(s, x)
  BY <1>1, <1>2 DEF NoDup, Contains
<1>5. NoDup(s) /\ ~Contains(s, x) => NoDup(r)
  BY <1>1, <1>2 DEF NoDup, Contains
<1> QED
  BY <1>3, <1>4, <1>5 DEF r

(* A list without elements is empty.                                       *)
LEMMA NoElements ==
  ASSUME NEW T, NEW s \in Seq(T) PROVE s = <<>> <=> \A x : ~Contains(s, x)
<1>1. s # <<>> => 1 \in 1..Len(s)
  OBVIOUS
<1> QED
  BY <1>1 DEF Contains

(* A selection is a list of elements of the list, each as often as there:  *)
(* exactly those in S.                                                     *)
LEMMA SelectedElements ==
  ASSUME NEW T, NEW S, NEW s \in Seq(T)
  PROVE  /\ Selected(s, S) \in Seq(T)
         /\ \A x : Contains(Selected(s, S), x) <=> Contains(s, x) /\ x \in S
         /\ NoDup(s) => NoDup(Selected(s, S))
         /\ (\A x : Contains(s, x) => x \in S) => Selected(s, S) = s
<1> DEFINE P(q) == /\ Selected(q, S) \in Seq(T)
                   /\ \A y : Contains(Selected(q, S), y) <=> Contains(q, y) /\ y \in S
                   /\ NoDup(q) => NoDup(Selected(q, S))
                   /\ (\A y : Contains(q, y) => y \in S) => Selected(q, S) = q
           G == {q \in Seq(T) : P(q)}
<1>1. <<>> \in G
  <2>1. <<>> \in Seq(T) /\ \A y : ~Contains(<<>>, y)
    BY DEF Contains
  <2> QED BY <2>1, SelectedEmpty
<1>2. ASSUME NEW q \in Seq(T), NEW x \in T, q \in G PROVE Append(q, x) \in G
  <2>1. P(q) /\ Append(q, x) \in Seq(T)
    BY <1>2
  <2>2. Selected(Append(q, x), S) =
           IF x \in S THEN Append(Selected(q, S), x) ELSE Selected(q, S)
    BY SelectedAppend
  <2> DEFINE r == Selected(q, S)
  <2>3. r \in Seq(T)
    BY <2>1
  <2>4. \A y : Contains(Append(q, x), y) <=> Contains(q, y) \/ y = x
    BY AppendContains
  <2>5. \A y : Contains(Append(r, x), y) <=> Contains(r, y) \/ y = x
    <3> HIDE DEF r
    <3> QED BY <2>3, AppendContains
  <2>6. NoDup(Append(q, x)) <=> NoDup(q) /\ ~Contains(q, x)
    BY AppendNoDup
  <2>7. NoDup(Append(r, x)) <=> NoDup(r) /\ ~Contains(r, x)
    <3> HIDE DEF r
    <3> QED BY <2>3, AppendNoDup
  <2>8. /\ \A y : Contains(r, y) <=> Contains(q, y) /\ y \in S
        /\ NoDup(q) => NoDup(r)
        /\ (\A y : Contains(q, y) => y \in S) => r = q
    BY <2>1
  <2>9. Append(r, x) \in Seq(T)
    BY <2>3
  <2>10. Selected(Append(q, x), S) = IF x \in S THEN Append(r, x) ELSE r
    BY <2>2
  <2> HIDE DEF r
  <2>11. CASE x \in S
    <3>1. Selected(Append(q, x), S) = Append(r, x)
      BY <2>10, <2>11
    <3>2. \A y : Contains(Append(r, x), y) <=> Contains(Append(q, x), y) /\ y \in S
      BY <2>4, <2>5, <2>8, <2>11
    <3>3. NoDup(Append(q, x)) => NoDup(Append(r, x))
      BY <2>6, <2>7, <2>8
    <3>4. (\A y : Contains(Append(q, x), y) => y \in S) => Append(r, x) = Append(q, x)
      BY <2>4, <2>8
    <3> QED BY <2>1, <2>9, <3>1, <3>2, <3>3, <3>4
  <2>12. CASE x \notin S
    <3>1. Selected(Append(q, x), S) = r
      BY <2>10, <2>12
    <3>2. \A y : Contains(r, y) <=> Contains(Append(q, x), y) /\ y \in S
      BY <2>4, <2>8, <2>12
    <3>3. NoDup(Append(q, x)) => NoDup(r)
      BY <2>6, <2>8
    <3>4. ~ \A y : Contains(Append(q, x), y) => y \in S
      BY <2>4, <2>12
    <3> QED BY <2>1, <2>3, <3>1, <3>2, <3>3, <3>4
  <2> QED BY <2>11, <2>12
<1> HIDE DEF G
<1>3. s \in G
  BY <1>1, <1>2, AllSequences
<1> QED
  BY <1>3 DEF G

(* What is selected depends on the elements of the list only.              *)
LEMMA SelectedSame ==
  ASSUME NEW T, NEW s \in Seq(T), NEW R, NEW S,
         \A x : Contains(s, x) => (x \in R <=> x \in S)
  PROVE  Selected(s, R) = Selected(s, S)
<1> DEFINE G == {q \in Seq(T) : (\A x : Contains(q, x) => (x \in R <=> x \in S))
                                    => Selected(q, R) = Selected(q, S)}
<1>1. <<>> \in G
  BY SelectedEmpty
<1>2. ASSUME NEW q \in Seq(T), NEW x \in T, q \in G PROVE Append(q, x) \in G
  <2>1. SUFFICES ASSUME \A y : Contains(Append(q, x), y) => (y \in R <=> y \in S)
                 PROVE  Selected(Append(q, x), R) = Selected(Append(q, x), S)
    OBVIOUS
  <2>2. \A y : Contains(Append(q, x), y) <=> Contains(q, y) \/ y = x
    BY AppendContains
  <2>3. (x \in R <=> x \in S) /\ Selected(q, R) = Selected(q, S)
    BY <1>2, <2>1, <2>2
  <2>4. Selected(Append(q, x), R) =
           IF x \in R THEN Append(Selected(q, R), x) ELSE Selected(q, R)
    BY SelectedAppend
  <2>5. Selected(Append(q, x), S) =
           IF x \in S THEN Append(Selected(q, S), x) ELSE Selected(q, S)
    BY SelectedAppend
  <2> QED BY <2>3, <2>4, <2>5
<1> HIDE DEF G
<1>3. s \in G
  BY <1>1, <1>2, AllSequences
<1> QED
  BY <1>3 DEF G

(* Selecting twice is selecting once.                                      *)
LEMMA SelectedTwice ==
  ASSUME NEW T, NEW s \in Seq(T), NEW R, NEW S
  PROVE  Selected(Selected(s, R), S) = Selected(s, R \cap S)
<1> DEFINE B == R \cap S
           G == {q \in Seq(T) : Selected(Selected(q, R), S) = Selected(q, B)}
<1>0. \A x : x \in B <=> x \in R /\ x \in S
  OBVIOUS
<1> HIDE DEF B
<1>1. <<>> \in G
  BY SelectedEmpty
<1>2. ASSUME NEW q \in Seq(T), NEW x \in T, q \in G PROVE Append(q, x) \in G
  <2> DEFINE r == Selected(q, R)
  <2>1. Selected(Append(q, x), R) = IF x \in R THEN Append(r, x) ELSE r
    BY SelectedAppend
  <2>2. r \in Seq(T)
    BY SelectedElements
  <2>3. Selected(Append(q, x), B) = IF x \in B THEN Append(Selected(q, B), x) ELSE Selected(q, B)
    BY SelectedAppend
  <2>4. Selected(r, S) = Selected(q, B)
    BY <1>2
  <2> HIDE DEF r
  <2>5. Selected(Append(r, x), S) = IF x \in S THEN Append(Selected(r, S), x) ELSE Selected(r, S)
    BY <2>2, SelectedAppend
  <2>6. Selected(Selected(Append(q, x), R), S) = Selected(Append(q, x), B)
    <3>1. CASE x \in R
      BY <1>0, <2>1, <2>3, <2>4, <2>5, <3>1
    <3>2. CASE x \notin R
      BY <1>0, <2>1, <2>3, <2>4, <3>2
    <3> QED BY <3>1, <3>2
  <2>7. Append(q, x) \in Seq(T)
    OBVIOUS
  <2> QED BY <2>6, <2>7
<1> HIDE DEF G
<1>3. s \in G
  BY <1>1, <1>2, AllSequences
<1> QED
  BY <1>3 DEF G, B

(* What is selected of a concatenation.                                    *)
LEMMA SelectedConcat ==
  ASSUME NEW T, NEW s \in Seq(T), NEW t \in Seq(T), NEW S
  PROVE  Selected(s \o t, S) = Selected(s, S) \o Selected(t, S)
<1>a. ASSUME NEW p \in Seq(T), NEW x \in T
      PROVE  Selected(Append(p, x), S) =
               IF x \in S THEN Append(Selected(p, S), x) ELSE Selected(p, S)
  BY SelectedAppend
<1> DEFINE G == {q \in Seq(T) : Selected(s \o q, S) = Selected(s, S) \o Selected(q, S)}
<1>0. Selected(s, S) \in Seq(T)
  BY SelectedElements
<1>1. <<>> \in G
  <2>1. s \o <<>> = s /\ Selected(s, S) \o <<>> = Selected(s, S) /\ <<>> \in Seq(T)
    BY <1>0
  <2> QED BY <2>1, SelectedEmpty
<1>2. ASSUME NEW q \in Seq(T), NEW x \in T, q \in G PROVE Append(q, x) \in G
  <2>1. Selected(s \o q, S) = Selected(s, S) \o Selected(q, S) /\ Selected(q, S) \in Seq(T)
    BY <1>2, SelectedElements
  <2>2. s \o Append(q, x) = Append(s \o q, x) /\ s \o q \in Seq(T) /\ Append(q, x) \in Seq(T)
    OBVIOUS
  <2>3. Selected(Append(s \o q, x), S) =
           IF x \in S THEN Append(Selected(s \o q, S), x) ELSE Selected(s \o q, S)
    BY <1>a, <2>2
  <2>4. Selected(Append(q, x), S) =
           IF x \in S THEN Append(Selected(q, S), x) ELSE Selected(q, S)
    BY SelectedAppend
  <2>5. Selected(s, S) \o Append(Selected(q, S), x) = Append(Selected(s, S) \o Selected(q, S), x)
    <3> DEFINE a == Selected(s, S)
               b == Selected(q, S)
    <3>1. a \in Seq(T) /\ b \in Seq(T)
      BY <1>0, <2>1
    <3> HIDE DEF a, b
    <3>2. a \o Append(b, x) = Append(a \o b, x)
      BY <3>1
    <3> QED BY <3>2 DEF a, b
  <2>6. Selected(s \o Append(q, x), S) = Selected(s, S) \o Selected(Append(q, x), S)
    BY <2>1, <2>2, <2>3, <2>4, <2>5
  <2> QED BY <2>2, <2>6
<1> HIDE DEF G
<1>3. t \in G
  BY <1>1, <1>2, AllSequences
<1> QED
  BY <1>3 DEF G

(* A list without repetitions loses its head.                              *)
LEMMA WithoutHead ==
  ASSUME NEW T, NEW s \in Seq(T), NoDup(s), s # <<>>
  PROVE  /\ Head(s) \in T /\ Contains(s, Head(s))
         /\ Tail(s) \in Seq(T) /\ NoDup(Tail(s))
         /\ \A x : Contains(Tail(s), x) <=> Contains(s, x) /\ x # Head(s)
         /\ Selected(s, T \ {Head(s)}) = Tail(s)
<1> DEFINE h == Head(s)
           t == Tail(s)
<1>1. /\ Len(s) \in Nat \ {0} /\ h = s[1] /\ h \in T
      /\ t \in Seq(T) /\ Len(t) = Len(s) - 1 /\ \A i \in 1..Len(t) : t[i] = s[i + 1]
  OBVIOUS
<1>2. s = <<h>> \o t /\ <<h>> \in Seq(T)
  OBVIOUS
<1> HIDE DEF h, t
<1>3. Contains(s, h)
  BY <1>1 DEF Contains
<1>4. \A i \in 1..Len(t) : i + 1 \in 1..Len(s) /\ i + 1 # 1
  BY <1>1
<1>5. NoDup(t)
  BY <1>1, <1>4 DEF NoDup
<1>6. \A x : Contains(t, x) => Contains(s, x) /\ x # h
  BY <1>1, <1>4 DEF NoDup, Contains
<1>7. \A x : Contains(s, x) /\ x # h => Contains(t, x)
  <2> SUFFICES ASSUME NEW i \in 1..Len(s), s[i] # h PROVE Contains(t, s[i])
    BY DEF Contains
  <2>1. i # 1 /\ i - 1 \in 1..Len(t) /\ t[i - 1] = s[i]
    BY <1>1
  <2> QED BY <2>1 DEF Contains
<1> DEFINE R == T \ {h}
<1>8. Selected(s, R) = t
  <2>0. h \notin R /\ \A x \in T : x # h => x \in R
    OBVIOUS
  <2> HIDE DEF R
  <2>1. Selected(s, R) = Selected(<<h>>, R) \o Selected(t, R)
    <3> DEFINE a == <<h>>
    <3>1. a \in Seq(T) /\ s = a \o t
      BY <1>2
    <3> HIDE DEF a
    <3>2. Selected(a \o t, R) = Selected(a, R) \o Selected(t, R)
      BY <1>1, <3>1, SelectedConcat
    <3> QED BY <3>1, <3>2 DEF a
  <2>2. Selected(<<h>>, R) = <<>>
    <3> DEFINE a == <<>>
    <3>1. a \in Seq(T) /\ <<h>> = Append(a, h)
      OBVIOUS
    <3> HIDE DEF a
    <3>2. Selected(Append(a, h), R) = Selected(a, R)
      BY <1>1, <2>0, <3>1, SelectedAppend
    <3> QED BY <3>1, <3>2, SelectedEmpty DEF a
  <2>3. Selected(t, R) = t
    <3>1. \A x : Contains(t, x) => x \in T
      BY <1>1 DEF Contains
    <3>2. \A x : Contains(t, x) => x \in R
      BY <1>6, <2>0, <3>1
    <3> QED BY <1>1, <3>2, SelectedElements
  <2> QED BY <1>1, <2>1, <2>2, <2>3
<1> QED
  BY <1>1, <1>3, <1>5, <1>6, <1>7, <1>8 DEF h, t, R

(* The elements of a list of lists, and what is selected of it when only   *)
(* one of the lists has elements of S.                                     *)
LEMMA FlattenElements ==
  ASSUME NEW T, NEW ss, ss \in Seq(Seq(T)), Len(ss) # 0
  PROVE  /\ FlattenSeq(ss) \in Seq(T)
         /\ \A x : Contains(FlattenSeq(ss), x) <=> \E i \in 1..Len(ss) : Contains(ss[i], x)
         /\ \A S : \A k \in 1..Len(ss) :
              (\A i \in 1..Len(ss) : i # k => Selected(ss[i], S) = <<>>) =>
                Selected(FlattenSeq(ss), S) = Selected(ss[k], S)
<1>a. ASSUME NEW a \in Seq(T), NEW b \in Seq(T), NEW S
      PROVE  Selected(a \o b, S) = Selected(a, S) \o Selected(b, S)
  BY SelectedConcat
<1> DEFINE Eqn(g) == [i \in 1..Len(ss) |->
                          IF i = 1 THEN ss[i] ELSE g[i - 1] \o ss[i]]
           G == [i \in 1..Len(ss) |-> [r \in Seq(T) |-> r \o ss[i]]]
           flat == CHOOSE g : g = Eqn(g)
<1>0. Len(ss) \in Nat /\ <<>> \in Seq(T) /\ \A i \in 1..Len(ss) : ss[i] \in Seq(T)
  OBVIOUS
<1>1. FlattenSeq(ss) = flat[Len(ss)]
  BY DEF FlattenSeq
<1>2. flat = Eqn(flat)
  <2>1. G \in [1..Len(ss) -> [Seq(T) -> Seq(T)]]
    BY <1>0
  <2> HIDE DEF G
  <2>2. PICK h \in [0..Len(ss) -> Seq(T)] :
            h[0] = <<>> /\ \A i \in 1..Len(ss) : h[i] = G[i][h[i - 1]]
    <3> DEFINE X == Seq(T)
               a == <<>>
               N == Len(ss)
    <3>1. a \in X /\ N \in Nat /\ G \in [1..N -> [X -> X]]
      BY <1>0, <2>1
    <3> HIDE DEF X, a, N
    <3>2. \E f \in [0..N -> X] : f[0] = a /\ \A i \in 1..N : f[i] = G[i][f[i - 1]]
      BY ONLY <3>1, Recursion
    <3> QED BY <3>2 DEF X, a, N
  <2> DEFINE g == [i \in 1..Len(ss) |-> h[i]]
  <2>3. ASSUME NEW i \in 1..Len(ss)
        PROVE  g[i] = Eqn(g)[i]
    <3>0. i - 1 \in 0..Len(ss)
      BY <1>0
    <3>1. i - 1 \in 0..Len(ss) /\ h[i - 1] \in Seq(T)
      BY <2>2, <3>0
    <3>2. h[i] = h[i - 1] \o ss[i]
      BY <2>2, <3>1 DEF G
    <3>3. CASE i = 1
      <4>1. h[i] = ss[i]
        BY <1>0, <2>2, <3>2, <3>3
      <4> QED BY <3>3, <4>1
    <3>4. CASE i # 1
      <4>1. i - 1 \in 1..Len(ss)
        BY <1>0, <3>4
      <4> QED BY <3>2, <3>4, <4>1
    <3> QED BY <3>3, <3>4
  <2>4. g = Eqn(g)
    BY <2>3
  <2> HIDE DEF g, Eqn
  <2> QED BY <2>4
<1> HIDE DEF flat
<1>3. ASSUME NEW i \in 1..Len(ss)
      PROVE  flat[i] = IF i = 1 THEN ss[i] ELSE flat[i - 1] \o ss[i]
  <2>1. flat[i] = Eqn(flat)[i]
    BY <1>2
  <2> QED BY <2>1
<1> HIDE DEF Eqn, G
<1> DEFINE Parts(n) == \A x : Contains(flat[n], x) <=> \E i \in 1..n : Contains(ss[i], x)
           Picked(n) ==
             \A S : \A k \in 1..Len(ss) :
               (\A i \in 1..Len(ss) : i # k => Selected(ss[i], S) = <<>>) =>
                 Selected(flat[n], S) = IF k <= n THEN Selected(ss[k], S) ELSE <<>>
           Good(n) == flat[n] \in Seq(T) /\ Parts(n) /\ Picked(n)
           Bad == {n \in 1..Len(ss) : ~ Good(n)}
<1> SUFFICES ASSUME Bad # {} PROVE FALSE
  <2>1. Len(ss) \in 1..Len(ss)
    BY <1>0
  <2>2. Bad = {} => Good(Len(ss))
    BY <2>1
  <2>3. \A k \in 1..Len(ss) : k <= Len(ss)
    BY <1>0
  <2> QED BY <1>1, <2>2, <2>3
<1>4. PICK n \in Bad : \A m \in Bad : n <= m
  <2>1. Bad \subseteq Nat
    OBVIOUS
  <2> HIDE DEF Bad
  <2> QED BY <2>1, LeastNatural
<1>5. n \in 1..Len(ss) /\ ~Good(n)
  OBVIOUS
<1>6. n # 1
  <2>1. SUFFICES Good(1)
    BY <1>5
  <2>2. flat[1] = ss[1] /\ flat[1] \in Seq(T)
    BY <1>0, <1>3
  <2>3. Parts(1)
    BY <1>0, <2>2
  <2>4. Picked(1)
    <3> SUFFICES ASSUME NEW S, NEW k \in 1..Len(ss),
                        \A i \in 1..Len(ss) : i # k => Selected(ss[i], S) = <<>>
                 PROVE  Selected(flat[1], S) = IF k <= 1 THEN Selected(ss[k], S) ELSE <<>>
      OBVIOUS
    <3>1. 1 \in 1..Len(ss) /\ (k <= 1 <=> k = 1)
      BY <1>0
    <3> QED BY <2>2, <3>1
  <2> HIDE DEF Parts, Picked
  <2> QED BY <2>2, <2>3, <2>4
<1>7. n - 1 \in 1..Len(ss) /\ n - 1 \notin Bad
  <2> HIDE DEF Bad, Good
  <2> QED BY <1>4, <1>5, <1>6
<1>8. Good(n - 1)
  BY <1>7
<1> DEFINE r == flat[n - 1]
<1>9. flat[n] = r \o ss[n] /\ r \in Seq(T) /\ ss[n] \in Seq(T) /\ r \o ss[n] \in Seq(T)
  <2>1. flat[n] = r \o ss[n] /\ r \in Seq(T) /\ ss[n] \in Seq(T)
    BY <1>0, <1>3, <1>5, <1>6, <1>8
  <2> QED BY <2>1
<1>10. Parts(n)
  <2> SUFFICES ASSUME NEW x
               PROVE  Contains(flat[n], x) <=> \E i \in 1..n : Contains(ss[i], x)
    OBVIOUS
  <2>1. Contains(r, x) <=> \E i \in 1..(n - 1) : Contains(ss[i], x)
    BY <1>8
  <2>2. \A i \in 1..n : i \in 1..(n - 1) \/ i = n
    BY <1>0, <1>5
  <2>3. n \in 1..n /\ \A i \in 1..(n - 1) : i \in 1..n
    BY <1>0, <1>5
  <2> HIDE DEF r
  <2>4. Contains(r \o ss[n], x) <=> Contains(r, x) \/ Contains(ss[n], x)
    BY <1>9, ConcatContains
  <2> QED BY <1>9, <2>1, <2>2, <2>3, <2>4
<1>11. Picked(n)
  <2> SUFFICES ASSUME NEW S, NEW k \in 1..Len(ss),
                      \A i \in 1..Len(ss) : i # k => Selected(ss[i], S) = <<>>
               PROVE  Selected(flat[n], S) = IF k <= n THEN Selected(ss[k], S) ELSE <<>>
    OBVIOUS
  <2>1. Selected(r, S) = IF k <= n - 1 THEN Selected(ss[k], S) ELSE <<>>
    BY <1>8
  <2>2. Selected(ss[n], S) = IF k = n THEN Selected(ss[k], S) ELSE <<>>
    BY <1>5
  <2>3. Selected(ss[k], S) \in Seq(T)
    BY <1>0, SelectedElements
  <2> HIDE DEF r, Good, Bad, Picked, Parts
  <2>4. Selected(r \o ss[n], S) = Selected(r, S) \o Selected(ss[n], S)
    BY <1>a, <1>9
  <2>5. CASE k <= n - 1
    <3>1. k # n /\ k <= n
      BY <1>0, <1>5, <2>5
    <3>2. Selected(ss[k], S) \o <<>> = Selected(ss[k], S)
      BY <2>3
    <3> QED BY <1>9, <2>1, <2>2, <2>4, <2>5, <3>1, <3>2
  <2>6. CASE k = n
    <3>1. ~(k <= n - 1) /\ k <= n
      BY <1>0, <1>5, <2>6
    <3>2. <<>> \o Selected(ss[k], S) = Selected(ss[k], S)
      BY <2>3
    <3> QED BY <1>9, <2>1, <2>2, <2>4, <2>6, <3>1, <3>2
  <2>7. CASE k > n
    <3>1. ~(k <= n - 1) /\ ~(k <= n) /\ k # n
      BY <1>0, <1>5, <2>7
    <3>2. <<>> \o <<>> = <<>>
      OBVIOUS
    <3> QED BY <1>9, <2>1, <2>2, <2>4, <3>1, <3>2
  <2> QED BY <1>0, <1>5, <2>5, <2>6, <2>7
<1>12. Good(n)
  <2> HIDE DEF Parts, Picked, r
  <2> QED BY <1>9, <1>10, <1>11
<1> QED
  BY <1>5, <1>12

-----------------------------------------------------------------------------
(*                            Tables of buckets                            *)

MaxBuckets == Cardinality(Threads) * MaxLoadFactor * GrowthFactor

(* A table is not empty, and its buckets have numbers up to its size.      *)
IsTable(d) ==
  /\ d \in Seq(Nat)
  /\ Len(d) \in 1..MaxBuckets
  /\ \A i \in 1..Len(d) : d[i] \in 0..Len(d)

Tables(ts) == ts \in Seq(Seq(Nat)) /\ \A i \in 1..Len(ts) : IsTable(ts[i])

(* us has the tables of ts, with some more buckets; if there was no table, *)
(* there is one now.                                                       *)
Fills(ts, us) ==
  /\ Len(us) = IF ts = <<>> THEN 1 ELSE Len(ts)
  /\ \A i \in 1..Len(ts) :
       /\ Len(us[i]) = Len(ts[i])
       /\ \A j \in 1..Len(ts[i]) : ts[i][j] # Null => us[i][j] = ts[i][j]

(* A product grows with its factors.                                       *)
LEMMA Products ==
  /\ \A a, b \in Nat : a * b \in Nat
  /\ \A a, b, c \in Nat : a <= b => a * c <= b * c
  /\ \A a, b \in Nat \ {0} : a * b \in Nat \ {0} /\ a <= a * b /\ a <= b * a
<1>1. \A a, b \in Nat : a * b \in Nat
  OBVIOUS
<1>2. \A a, b, c \in Nat : a <= b => a * c <= b * c
  <2> SUFFICES ASSUME NEW a \in Nat, NEW b \in Nat, NEW c \in Nat, a <= b
               PROVE  a * c <= b * c
    OBVIOUS
  <2>1. PICK d \in Nat : b = a + d
    <3>1. b - a \in Nat /\ b = a + (b - a)
      OBVIOUS
    <3> QED BY <3>1
  <2>2. b * c = a * c + d * c
    BY <2>1
  <2>3. d * c \in Nat /\ a * c \in Nat
    BY <1>1
  <2> QED BY <2>2, <2>3
<1>3. \A a, b \in Nat \ {0} : a * b \in Nat \ {0} /\ a <= a * b /\ a <= b * a
  <2> SUFFICES ASSUME NEW a \in Nat \ {0}, NEW b \in Nat \ {0}
               PROVE  a * b \in Nat \ {0} /\ a <= a * b /\ a <= b * a
    OBVIOUS
  <2>1. 1 * a <= b * a
    BY <1>2
  <2>2. 1 * a = a /\ b * a = a * b
    OBVIOUS
  <2>3. a * b \in Nat
    BY <1>1
  <2> QED BY <2>1, <2>2, <2>3
<1> QED
  BY <1>1, <1>2, <1>3

(* The sizes of tables: the first one, and one for n threads.              *)
LEMMA Sizes ==
  ASSUME Threads # {}
  PROVE  /\ Cardinality(Threads) \in Nat \ {0}
         /\ MaxBuckets \in Nat \ {0}
         /\ Buckets = 1..MaxBuckets
         /\ MaxLoadFactor \in 1..MaxBuckets
         /\ \A n \in 1..Cardinality(Threads) :
              /\ n * GrowthFactor * MaxLoadFactor \in 1..MaxBuckets
              /\ n * MaxLoadFactor \in Nat
              /\ n * MaxLoadFactor <= n * GrowthFactor * MaxLoadFactor
<1> DEFINE N == Cardinality(Threads)
           L == MaxLoadFactor
           F == GrowthFactor
<1>1. N \in Nat \ {0} /\ L \in Nat \ {0} /\ F \in Nat \ {0}
  BY ThreadsAssumption, FactorAssumption, FS_CardinalityType, FS_EmptySet
<1> HIDE DEF N, L, F
<1>2. L * F \in Nat \ {0} /\ L <= L * F /\ F * L = L * F
  BY <1>1, Products
<1>3. N * L * F = N * (L * F)
  BY <1>1
<1>4. N * (L * F) \in Nat \ {0} /\ L * F <= N * (L * F)
  BY <1>1, <1>2, Products
<1>5. L \in 1..(N * L * F)
  BY <1>1, <1>2, <1>3, <1>4
<1>6. ASSUME NEW n \in 1..N
      PROVE  /\ n * F * L \in 1..(N * L * F)
             /\ n * L \in Nat
             /\ n * L <= n * F * L
  <2>1. n \in Nat \ {0} /\ n <= N
    BY <1>1
  <2>2. n * F * L = n * (L * F) /\ n * F * L = n * F * L
    BY <1>1, <2>1
  <2>3. n * (L * F) <= N * (L * F)
    BY <1>1, <1>2, <2>1, Products
  <2>4. n * (L * F) \in Nat \ {0}
    BY <1>2, <2>1, Products
  <2>5. n * F * L \in 1..(N * L * F)
    BY <1>3, <1>4, <2>2, <2>3, <2>4
  <2>6. n <= n * F /\ n * F \in Nat
    BY <1>1, <2>1, Products
  <2>7. n * L <= n * F * L /\ n * L \in Nat
    BY <1>1, <2>1, <2>6, Products
  <2> QED BY <2>5, <2>7
<1> QED
  BY <1>1, <1>3, <1>4, <1>5, <1>6 DEF N, L, F, MaxBuckets, Buckets

(* A condition has a position in a table of any size.                      *)
LEMMA IndexInTable ==
  ASSUME NEW c \in Conditions, NEW n \in Nat \ {0} PROVE Index(c, n) \in 1..n
<1>1. Hash[c] \in Nat
  BY HashAssumption
<1>2. Hash[c] % n \in 0..(n - 1)
  BY <1>1
<1> QED
  BY <1>2 DEF Index

(* Where a condition has a bucket, it is one of the Buckets.               *)
LEMMA BucketRange ==
  ASSUME NEW ts, Tables(ts), NEW i \in 1..Len(ts), NEW c \in Conditions
  PROVE  /\ Len(ts[i]) \in Nat \ {0} /\ Index(c, Len(ts[i])) \in 1..Len(ts[i])
         /\ BucketIn(ts, i, c) \in 0..Len(ts[i])
         /\ BucketIn(ts, i, c) # Null => /\ BucketIn(ts, i, c) \in Buckets
                                         /\ BucketIn(ts, i, c) \in 1..Len(ts[i])
<1>1. IsTable(ts[i])
  BY DEF Tables
<1> DEFINE n == Len(ts[i])
<1>2. n \in Nat \ {0} /\ n \in 1..MaxBuckets
  BY <1>1 DEF IsTable
<1>3. Index(c, n) \in 1..n
  <2> HIDE DEF n
  <2> QED BY <1>2, IndexInTable
<1>4. BucketIn(ts, i, c) \in 0..n
  BY <1>1, <1>3 DEF IsTable, BucketIn
<1>5. Buckets = 1..MaxBuckets
  BY DEF Buckets, MaxBuckets
<1>6. MaxBuckets \in Nat
  <2>1. /\ Cardinality(Threads) \in Nat /\ MaxLoadFactor \in Nat /\ GrowthFactor \in Nat
    BY ThreadsAssumption, FactorAssumption, FS_CardinalityType
  <2> QED BY <2>1, Products DEF MaxBuckets
<1> HIDE DEF n
<1>7. ASSUME BucketIn(ts, i, c) # Null
      PROVE  BucketIn(ts, i, c) \in Buckets /\ BucketIn(ts, i, c) \in 1..n
  BY <1>2, <1>4, <1>5, <1>6, <1>7 DEF Null
<1> QED
  BY <1>2, <1>3, <1>4, <1>7 DEF n

(* Materialize() adds buckets, with numbers up to the size of the table.   *)
LEMMA MaterializeTable ==
  ASSUME NEW d, IsTable(d), NEW S
  PROVE  /\ IsTable(Materialize(d, S)) /\ Len(Materialize(d, S)) = Len(d)
         /\ \A i \in 1..Len(d) :
              /\ d[i] # Null => Materialize(d, S)[i] = d[i]
              /\ i \in S => Materialize(d, S)[i] # Null
<1> DEFINE empty == {i \in DOMAIN d : d[i] = Null}
           E == empty \cap S
           above(i) == {j \in E : j >= i}
           r == [i \in DOMAIN d |->
                   IF i \in E THEN Len(d) - Cardinality(empty) + Cardinality(above(i))
                   ELSE d[i]]
<1>1. r = Materialize(d, S)
  BY DEF Materialize
<1>2. /\ d \in Seq(Nat) /\ DOMAIN d = 1..Len(d) /\ Len(d) \in Nat
      /\ Len(d) \in 1..MaxBuckets /\ \A i \in 1..Len(d) : d[i] \in 0..Len(d)
  BY DEF IsTable
<1>3. /\ IsFiniteSet(empty) /\ Cardinality(empty) \in Nat /\ Cardinality(empty) <= Len(d)
  <2>1. IsFiniteSet(1..Len(d)) /\ Cardinality(1..Len(d)) = Len(d)
    BY <1>2, FS_Interval
  <2>2. empty \in SUBSET (1..Len(d))
    BY <1>2
  <2> HIDE DEF empty
  <2> QED BY <2>1, <2>2, FS_Subset, FS_CardinalityType
<1>4. ASSUME NEW i \in E
      PROVE  Len(d) - Cardinality(empty) + Cardinality(above(i)) \in 1..Len(d)
  <2>1. above(i) \in SUBSET empty /\ i \in above(i)
    <3>1. i \in Nat
      BY <1>2
    <3> QED BY <3>1
  <2> HIDE DEF empty, above
  <2>2. IsFiniteSet(above(i)) /\ Cardinality(above(i)) <= Cardinality(empty)
    BY <1>3, <2>1, FS_Subset
  <2>3. Cardinality(above(i)) \in Nat
    BY <2>2, FS_CardinalityType
  <2>4. Cardinality(above(i)) # 0
    BY <2>1, <2>2, FS_EmptySet
  <2> QED BY <1>2, <1>3, <2>2, <2>3, <2>4
<1> HIDE DEF above
<1>5. \A i \in 1..Len(d) : r[i] \in 0..Len(d) /\ (i \in E => r[i] # Null)
  <2> SUFFICES ASSUME NEW i \in 1..Len(d)
               PROVE  r[i] \in 0..Len(d) /\ (i \in E => r[i] # Null)
    OBVIOUS
  <2> HIDE DEF empty, E
  <2>1. CASE i \in E
    <3>1. r[i] \in 1..Len(d)
      BY <1>2, <1>4, <2>1
    <3> QED BY <1>2, <3>1 DEF Null
  <2>2. CASE i \notin E
    BY <1>2, <2>2
  <2> QED BY <2>1, <2>2
<1>6. \A i \in 1..Len(d) : d[i] # Null => r[i] = d[i]
  BY <1>2
<1>7. \A i \in 1..Len(d) : i \in S => r[i] # Null
  <2>1. \A i \in 1..Len(d) : i \in S => i \in E \/ d[i] # Null
    BY <1>2
  <2> HIDE DEF r, E
  <2> QED BY <1>5, <1>6, <2>1
<1>8. DOMAIN r = 1..Len(d)
  BY <1>2
<1> HIDE DEF r
<1>9. r \in [1..Len(d) -> Nat] /\ r \in Seq(Nat) /\ Len(r) = Len(d)
  <2>1. r = [i \in 1..Len(d) |-> r[i]]
    BY <1>1, <1>2 DEF r
  <2>2. \A i \in 1..Len(d) : r[i] \in Nat
    BY <1>2, <1>5
  <2>3. r \in [1..Len(d) -> Nat]
    BY <2>1, <2>2
  <2> QED BY <1>2, <2>3
<1>10. IsTable(r)
  BY <1>2, <1>5, <1>9 DEF IsTable
<1> QED
  BY <1>1, <1>6, <1>7, <1>9, <1>10

(* There is a table after ensureHashtable().                               *)
LEMMA EnsureTables ==
  ASSUME NEW ts, Tables(ts), Threads # {}
  PROVE  /\ Tables(EnsureHashtable(ts)) /\ Fills(ts, EnsureHashtable(ts))
         /\ Len(EnsureHashtable(ts)) \in Nat \ {0}
         /\ ts # <<>> => EnsureHashtable(ts) = ts
<1> DEFINE es == EnsureHashtable(ts)
<1>1. CASE ts # <<>>
  <2>1. es = ts
    BY <1>1 DEF EnsureHashtable
  <2>2. Fills(ts, ts)
    BY <1>1 DEF Fills
  <2>3. Len(ts) \in Nat \ {0}
    BY <1>1 DEF Tables
  <2> QED BY <2>1, <2>2, <2>3
<1>2. CASE ts = <<>>
  <2> DEFINE d == [i \in 1..MaxLoadFactor |-> Null]
  <2>1. es = <<d>>
    BY <1>2 DEF EnsureHashtable
  <2>2. MaxLoadFactor \in 1..MaxBuckets /\ MaxLoadFactor \in Nat
    BY Sizes, FactorAssumption
  <2>3. d \in Seq(Nat) /\ Len(d) = MaxLoadFactor /\ \A i \in 1..MaxLoadFactor : d[i] = 0
    BY <2>2 DEF Null
  <2> HIDE DEF d
  <2>4. IsTable(d)
    BY <2>2, <2>3 DEF IsTable
  <2> HIDE DEF es
  <2>5. es \in Seq(Seq(Nat)) /\ Len(es) = 1 /\ es[1] = d
    BY <2>1, <2>3
  <2>6. Tables(es)
    BY <2>4, <2>5 DEF Tables
  <2>7. Fills(ts, es)
    BY <1>2, <2>5 DEF Fills
  <2> QED BY <1>2, <2>5, <2>6, <2>7 DEF es
<1> QED
  BY <1>1, <1>2

(* Some positions of the current table get a bucket.                       *)
LEMMA FillLast ==
  ASSUME NEW es, Tables(es), Len(es) \in Nat \ {0}, NEW S
  PROVE  LET us == [es EXCEPT ![Len(es)] = Materialize(@, S)] IN
         /\ Tables(us) /\ Fills(es, us) /\ Len(us) = Len(es)
         /\ \A i \in 1..Len(es[Len(es)]) : i \in S => us[Len(es)][i] # Null
<1> DEFINE n == Len(es)
           d == es[n]
           m == Materialize(d, S)
           us == [es EXCEPT ![n] = m]
<1>1. n \in 1..Len(es) /\ es \in Seq(Seq(Nat)) /\ es # <<>>
  BY DEF Tables
<1>2. IsTable(d)
  BY <1>1 DEF Tables
<1> HIDE DEF d
<1>3. /\ IsTable(m) /\ Len(m) = Len(d)
      /\ \A i \in 1..Len(d) : /\ d[i] # Null => m[i] = d[i]
                              /\ i \in S => m[i] # Null
  BY <1>2, MaterializeTable
<1> HIDE DEF m
<1>4. /\ us \in Seq(Seq(Nat)) /\ Len(us) = Len(es) /\ us[n] = m
      /\ \A i \in 1..Len(es) : i # n => us[i] = es[i]
  <2>1. m \in Seq(Nat)
    BY <1>3 DEF IsTable
  <2> QED BY <1>1, <2>1
<1> HIDE DEF us
<1>5. Tables(us)
  BY <1>3, <1>4 DEF Tables
<1>6. Fills(es, us)
  <2>1. ASSUME NEW i \in 1..Len(es)
        PROVE  /\ Len(us[i]) = Len(es[i])
               /\ \A j \in 1..Len(es[i]) : es[i][j] # Null => us[i][j] = es[i][j]
    <3>1. CASE i # n
      BY <1>4, <3>1
    <3>2. CASE i = n
      <4>1. us[i] = m /\ es[i] = d
        BY <1>4, <3>2 DEF d
      <4> QED BY <1>3, <4>1
    <3> QED BY <3>1, <3>2
  <2> QED BY <1>1, <1>4, <2>1 DEF Fills
<1>7. us = [es EXCEPT ![Len(es)] = Materialize(@, S)]
  BY DEF us, m, d
<1>8. \A i \in 1..Len(es[Len(es)]) : i \in S => us[Len(es)][i] # Null
  BY <1>3, <1>4 DEF d
<1> QED
  BY <1>4, <1>5, <1>6, <1>7, <1>8

(* Buckets are added one after the other.                                  *)
LEMMA FillsAgain ==
  ASSUME NEW ts, NEW es, NEW us, Tables(ts), Tables(es), Fills(ts, es), Fills(es, us),
         Len(es) \in Nat \ {0}
  PROVE  Fills(ts, us)
<1>1. es # <<>> /\ Len(us) = Len(es)
  BY DEF Fills, Tables
<1>2. ASSUME NEW i \in 1..Len(ts)
      PROVE  /\ Len(us[i]) = Len(ts[i])
             /\ \A j \in 1..Len(ts[i]) : ts[i][j] # Null => us[i][j] = ts[i][j]
  <2>1. Len(es) = Len(ts) /\ i \in 1..Len(es)
    BY DEF Fills, Tables
  <2>2. /\ Len(es[i]) = Len(ts[i])
        /\ \A j \in 1..Len(ts[i]) : ts[i][j] # Null => es[i][j] = ts[i][j]
    BY DEF Fills
  <2>3. /\ Len(us[i]) = Len(es[i])
        /\ \A j \in 1..Len(es[i]) : es[i][j] # Null => us[i][j] = es[i][j]
    BY <2>1 DEF Fills
  <2> QED BY <2>2, <2>3
<1>3. Len(us) = IF ts = <<>> THEN 1 ELSE Len(ts)
  BY <1>1 DEF Fills
<1> QED
  BY <1>2, <1>3 DEF Fills

(* The current table gets a bucket for a condition, as enqueue() and       *)
(* dequeue() with EnsureNonEmpty make it.                                  *)
LEMMA WithBucketTables ==
  ASSUME NEW ts, Tables(ts), NEW c \in Conditions, Threads # {}
  PROVE  /\ Tables(WithBucket(ts, c)) /\ Fills(ts, WithBucket(ts, c))
         /\ Len(EnsureHashtable(ts)) \in Nat \ {0}
         /\ Len(WithBucket(ts, c)) = Len(EnsureHashtable(ts))
         /\ ts # <<>> => Len(EnsureHashtable(ts)) = Len(ts)
         /\ BucketIn(WithBucket(ts, c), Len(EnsureHashtable(ts)), c) # Null
<1> DEFINE es == EnsureHashtable(ts)
<1>1. /\ Tables(es) /\ Fills(ts, es) /\ Len(es) \in Nat \ {0}
      /\ ts # <<>> => es = ts
  BY EnsureTables
<1> DEFINE n == Len(es)
           S == {Index(c, Len(es[n]))}
           ws == [es EXCEPT ![n] = Materialize(@, S)]
<1>2. ws = WithBucket(ts, c)
  BY DEF WithBucket
<1> HIDE DEF es
<1>3. n \in 1..Len(es)
  BY <1>1
<1>4. Len(es[n]) \in Nat \ {0} /\ Index(c, Len(es[n])) \in 1..Len(es[n])
  BY <1>1, <1>3, BucketRange
<1> HIDE DEF S
<1>5. /\ Tables(ws) /\ Fills(es, ws) /\ Len(ws) = Len(es)
      /\ \A i \in 1..Len(es[Len(es)]) : i \in S => ws[Len(es)][i] # Null
  BY <1>1, FillLast
<1> HIDE DEF ws
<1>6. Fills(ts, ws)
  BY <1>1, <1>5, FillsAgain
<1>7. Len(ws[n]) = Len(es[n])
  BY <1>3, <1>5 DEF Fills
<1>8. BucketIn(ws, n, c) # Null
  BY <1>4, <1>5, <1>7 DEF BucketIn, S
<1> QED
  BY <1>1, <1>2, <1>5, <1>6, <1>8 DEF es

(* lockHashtable() fills the current table with buckets.                   *)
LEMMA AllBuckets ==
  ASSUME NEW ts, Tables(ts), Threads # {}
  PROVE  LET es == EnsureHashtable(ts)
             us == [es EXCEPT ![Len(es)] = Materialize(@, DOMAIN @)] IN
         Tables(us) /\ Fills(ts, us) /\ Len(es) \in 1..Len(us)
<1> DEFINE es == EnsureHashtable(ts)
           S == DOMAIN es[Len(es)]
           us == [es EXCEPT ![Len(es)] = Materialize(@, S)]
<1>1. Tables(es) /\ Fills(ts, es) /\ Len(es) \in Nat \ {0}
  BY EnsureTables
<1>2. us = [es EXCEPT ![Len(es)] = Materialize(@, DOMAIN @)]
  OBVIOUS
<1> HIDE DEF es, S
<1>3. Tables(us) /\ Fills(es, us) /\ Len(us) = Len(es)
  BY <1>1, FillLast
<1> HIDE DEF us
<1>4. Fills(ts, us)
  BY <1>1, <1>3, FillsAgain
<1>5. Len(es) \in 1..Len(us)
  BY <1>1, <1>3
<1> QED
  BY <1>2, <1>3, <1>4, <1>5 DEF es

(* The table of a rehash has a bucket for every thread to be queued.       *)
LEMMA NewTableIs ==
  ASSUME NEW size \in 1..MaxBuckets, MaxBuckets \in Nat, NEW n \in 0..size,
         NEW tds \in Seq(Threads),
         \A k \in 1..Len(tds) : address[tds[k]] \in Conditions
  PROVE  /\ IsTable(NewTable(size, tds, n)) /\ Len(NewTable(size, tds, n)) = size
         /\ \A k \in 1..Len(tds) :
              NewTable(size, tds, n)[Index(address[tds[k]], size)] # Null
<1> DEFINE positions == [k \in DOMAIN tds |-> Index(address[tds[k]], size)]
           first == [i \in 1..size |->
                       IF Contains(positions, i)
                       THEN CHOOSE k \in DOMAIN tds :
                              positions[k] = i /\ \A j \in 1..(k - 1) : positions[j] # i
                       ELSE Len(tds) + i]
           upTo(i) == {j \in 1..size : first[j] <= first[i]}
           rank == [i \in 1..size |-> Cardinality(upTo(i))]
           new == [i \in 1..size |->
                     IF rank[i] <= n THEN n + 1 - rank[i]
                     ELSE IF Contains(positions, i) THEN rank[i] ELSE Null]
<1>1. new = NewTable(size, tds, n)
  BY DEF NewTable
<1>2. size \in Nat \ {0} /\ n \in Nat /\ n <= size
  OBVIOUS
<1>3. \A i \in 1..size : first[i] \in Nat
  <2> SUFFICES ASSUME NEW i \in 1..size PROVE first[i] \in Nat
    OBVIOUS
  <2>1. Len(tds) \in Nat /\ DOMAIN tds = 1..Len(tds)
    OBVIOUS
  <2>2. CASE ~Contains(positions, i)
    <3> HIDE DEF positions
    <3> QED BY <1>2, <2>1, <2>2
  <2>3. CASE Contains(positions, i)
    <3> DEFINE K == {k \in 1..Len(tds) : positions[k] = i}
    <3>1. Len(positions) = Len(tds)
      BY <2>1
    <3>2. K # {} /\ K \subseteq Nat
      <4> HIDE DEF positions
      <4> QED BY <2>3, <3>1 DEF Contains
    <3>3. PICK k \in K : \A m \in K : k <= m
      <4> HIDE DEF K
      <4> QED BY <3>2, LeastNatural
    <3>4. k \in DOMAIN tds /\ positions[k] = i /\ \A j \in 1..(k - 1) : positions[j] # i
      <4> HIDE DEF positions
      <4>1. k \in 1..Len(tds) /\ positions[k] = i
        OBVIOUS
      <4>2. \A j \in 1..(k - 1) : j \in 1..Len(tds) /\ ~(k <= j)
        BY <2>1, <4>1
      <4> QED BY <2>1, <3>3, <4>1, <4>2
    <3> DEFINE P(m) == positions[m] = i /\ \A j \in 1..(m - 1) : positions[j] # i
    <3>5. first[i] = CHOOSE m \in DOMAIN tds : P(m)
      <4> HIDE DEF positions
      <4> QED BY <2>3
    <3>6. \E m \in DOMAIN tds : P(m)
      BY <3>4
    <3> HIDE DEF P, first
    <3>7. first[i] \in DOMAIN tds
      BY <3>5, <3>6
    <3> QED BY <2>1, <3>7
  <2> QED BY <2>2, <2>3
<1> HIDE DEF first, positions
<1>4. \A i \in 1..size : rank[i] \in 1..size
  <2> SUFFICES ASSUME NEW i \in 1..size PROVE Cardinality(upTo(i)) \in 1..size
    OBVIOUS
  <2>1. upTo(i) \in SUBSET (1..size) /\ i \in upTo(i)
    BY <1>3
  <2>2. IsFiniteSet(1..size) /\ Cardinality(1..size) = size
    BY <1>2, FS_Interval
  <2> HIDE DEF upTo
  <2>3. IsFiniteSet(upTo(i)) /\ Cardinality(upTo(i)) <= size
    BY <2>1, <2>2, FS_Subset
  <2>4. Cardinality(upTo(i)) \in Nat /\ Cardinality(upTo(i)) # 0
    BY <2>1, <2>3, FS_CardinalityType, FS_EmptySet
  <2> QED BY <1>2, <2>3, <2>4
<1> HIDE DEF rank
<1>5. \A i \in 1..size : new[i] \in 0..size /\ (Contains(positions, i) => new[i] # Null)
  <2> SUFFICES ASSUME NEW i \in 1..size
               PROVE  new[i] \in 0..size /\ (Contains(positions, i) => new[i] # Null)
    OBVIOUS
  <2>1. rank[i] \in 1..size
    BY <1>4
  <2>2. CASE rank[i] <= n
    BY <1>2, <2>1, <2>2 DEF Null
  <2>3. CASE ~(rank[i] <= n)
    BY <1>2, <2>1, <2>3 DEF Null
  <2> QED BY <2>2, <2>3
<1>6. new \in Seq(Nat) /\ Len(new) = size
  <2>1. new = [i \in 1..size |-> new[i]] /\ \A i \in 1..size : new[i] \in Nat
    BY <1>2, <1>5
  <2> HIDE DEF new
  <2>2. new \in [1..size -> Nat]
    BY <2>1
  <2> QED BY <1>2, <2>2
<1> HIDE DEF new
<1>7. IsTable(new)
  BY <1>5, <1>6 DEF IsTable
<1>8. ASSUME NEW k \in 1..Len(tds)
      PROVE  new[Index(address[tds[k]], size)] # Null
  <2>1. Index(address[tds[k]], size) \in 1..size
    BY <1>2, IndexInTable
  <2>2. Contains(positions, Index(address[tds[k]], size))
    <3>1. Len(positions) = Len(tds) /\ positions[k] = Index(address[tds[k]], size)
      BY DEF positions
    <3> QED BY <3>1 DEF Contains
  <2> QED BY <1>5, <2>1, <2>2
<1> QED
  BY <1>1, <1>6, <1>7, <1>8

-----------------------------------------------------------------------------
(*                       The queues of the conditions                      *)

(* g is f with the value v at x.                                           *)
Updated(f, x, v, g) == g = [f EXCEPT ![x] = v]

(* g is f with t at the end of f[b], or with only K's elements in f[b].    *)
Joined(f, b, t, g) == g = [f EXCEPT ![b] = Append(@, t)]
Kept(f, b, K, g) == g = [f EXCEPT ![b] = Selected(@, K)]

(* B is the bucket of c.                                                   *)
IsBucketOf(ts, c, B) == ts # <<>> /\ B = BucketIn(ts, Len(ts), c) /\ B # Null

(* WaitersOf(c), of any tables, queues and addresses.                      *)
Waiters(ts, qu, ad, c) ==
  IF ts = <<>> \/ BucketIn(ts, Len(ts), c) = Null THEN <<>>
  ELSE Selected(qu[BucketIn(ts, Len(ts), c)], {u \in Threads : ad[u] = c})

LinesOf(ts, qu, ad) == [c \in Conditions |-> Waiters(ts, qu, ad, c)]

(* Every queued thread is in the bucket that the current table has for the *)
(* condition it is parked on.                                              *)
Placed(ts, qu, ad) ==
  /\ Tables(ts)
  /\ qu \in [Buckets -> Seq(Threads)]
  /\ ad \in [Threads -> Conditions \cup {None}]
  /\ \A b \in Buckets : \A x : Contains(qu[b], x) =>
       /\ ts # <<>> /\ x \in Threads /\ ad[x] \in Conditions
       /\ BucketIn(ts, Len(ts), ad[x]) = b

(* The waiters of a condition are the queued threads parked on it.         *)
LEMMA WaitersAre ==
  ASSUME NEW ts, NEW qu, NEW ad, Placed(ts, qu, ad), NEW c \in Conditions
  PROVE  /\ Waiters(ts, qu, ad, c) \in Seq(Threads)
         /\ \A x : Contains(Waiters(ts, qu, ad, c), x) <=>
                     /\ x \in Threads /\ ad[x] = c
                     /\ \E b \in Buckets : Contains(qu[b], x)
<1> DEFINE W == Waiters(ts, qu, ad, c)
           B == BucketIn(ts, Len(ts), c)
           S == {u \in Threads : ad[u] = c}
<1>1. CASE ts = <<>> \/ B = Null
  <2>1. W = <<>> /\ W \in Seq(Threads) /\ \A x : ~Contains(<<>>, x)
    BY <1>1 DEF Waiters, Contains
  <2>2. ASSUME NEW x \in Threads, ad[x] = c, NEW b \in Buckets, Contains(qu[b], x)
        PROVE  FALSE
    <3>1. ts # <<>> /\ B = b
      BY <2>2 DEF Placed
    <3>2. b # 0
      BY DEF Buckets
    <3> QED BY <1>1, <3>1, <3>2 DEF Null
  <2> QED BY <2>1, <2>2
<1>2. CASE ts # <<>> /\ B # Null
  <2>1. Len(ts) \in 1..Len(ts) /\ Tables(ts)
    BY <1>2 DEF Placed, Tables
  <2>2. B \in Buckets
    BY <1>2, <2>1, BucketRange
  <2>3. qu[B] \in Seq(Threads)
    BY <2>2 DEF Placed
  <2>4. W = Selected(qu[B], S)
    BY <1>2 DEF Waiters
  <2> HIDE DEF B, S, W
  <2>5. W \in Seq(Threads) /\ \A x : Contains(W, x) <=> Contains(qu[B], x) /\ x \in S
    BY <2>3, <2>4, SelectedElements
  <2>6. \A x \in Threads : ad[x] = c => \A b \in Buckets : Contains(qu[b], x) => b = B
    BY DEF Placed, B
  <2>7. \A x : x \in S <=> x \in Threads /\ ad[x] = c
    BY DEF S
  <2> QED BY <2>2, <2>5, <2>6, <2>7 DEF W
<1> QED
  BY <1>1, <1>2

(* New buckets change no queue.                                            *)
LEMMA FillingKeepsWaiters ==
  ASSUME NEW ts, NEW us, NEW qu, NEW ad, Placed(ts, qu, ad), Tables(us), Fills(ts, us)
  PROVE  /\ Placed(us, qu, ad)
         /\ \A c \in Conditions : Waiters(us, qu, ad, c) = Waiters(ts, qu, ad, c)
<1>1. /\ Tables(ts) /\ qu \in [Buckets -> Seq(Threads)]
      /\ ad \in [Threads -> Conditions \cup {None}]
  BY DEF Placed
<1>2. us # <<>> /\ Len(us) \in 1..Len(us)
  <2>1. us \in Seq(Seq(Nat)) /\ ts \in Seq(Seq(Nat))
    BY <1>1 DEF Tables
  <2>2. Len(us) \in Nat \ {0}
    BY <2>1 DEF Fills
  <2> QED BY <2>1, <2>2
<1>3. ASSUME ts # <<>>, NEW c \in Conditions
      PROVE  /\ Len(us) = Len(ts) /\ Len(ts) \in 1..Len(ts)
             /\ BucketIn(ts, Len(ts), c) # Null =>
                  BucketIn(us, Len(us), c) = BucketIn(ts, Len(ts), c)
  <2> DEFINE n == Len(ts)
  <2>1. n \in 1..n /\ Len(us) = n
    BY <1>1, <1>3 DEF Tables, Fills
  <2>2. /\ Len(us[n]) = Len(ts[n])
        /\ \A j \in 1..Len(ts[n]) : ts[n][j] # Null => us[n][j] = ts[n][j]
    BY <2>1 DEF Fills
  <2>3. Index(c, Len(ts[n])) \in 1..Len(ts[n])
    BY <1>1, <2>1, BucketRange
  <2> HIDE DEF n
  <2>4. BucketIn(ts, n, c) # Null => BucketIn(us, n, c) = BucketIn(ts, n, c)
    BY <2>2, <2>3 DEF BucketIn
  <2> QED BY <2>1, <2>4 DEF n
<1>4. \A b \in Buckets : b # Null
  BY DEF Buckets, Null
<1>5. ASSUME NEW b \in Buckets, NEW x, Contains(qu[b], x)
      PROVE  /\ x \in Threads /\ ad[x] \in Conditions /\ BucketIn(us, Len(us), ad[x]) = b
  <2>1. /\ ts # <<>> /\ x \in Threads /\ ad[x] \in Conditions
        /\ BucketIn(ts, Len(ts), ad[x]) = b
    BY <1>5 DEF Placed
  <2> QED BY <1>3, <1>4, <2>1
<1>6. Placed(us, qu, ad)
  BY <1>1, <1>2, <1>5 DEF Placed
<1>7. ASSUME NEW c \in Conditions
      PROVE  Waiters(us, qu, ad, c) = Waiters(ts, qu, ad, c)
  <2>1. CASE ts # <<>> /\ BucketIn(ts, Len(ts), c) # Null
    BY <1>2, <1>3, <2>1 DEF Waiters
  <2>2. CASE ts = <<>> \/ BucketIn(ts, Len(ts), c) = Null
    <3>1. Waiters(ts, qu, ad, c) = <<>>
      BY <2>2 DEF Waiters
    <3>2. \A x : Contains(Waiters(us, qu, ad, c), x) <=> Contains(Waiters(ts, qu, ad, c), x)
      BY <1>6, WaitersAre
    <3>3. Waiters(us, qu, ad, c) \in Seq(Threads) /\ Waiters(ts, qu, ad, c) \in Seq(Threads)
      BY <1>6, WaitersAre
    <3>4. \A x : ~Contains(Waiters(us, qu, ad, c), x)
      BY <3>1, <3>2, <3>3, NoElements
    <3>5. Waiters(us, qu, ad, c) = <<>>
      BY <3>3, <3>4, NoElements
    <3> QED BY <3>1, <3>5
  <2> QED BY <2>1, <2>2
<1> QED
  BY <1>6, <1>7

(* A thread that is in no queue joins the one of c.                        *)
LEMMA EnqueueAddsWaiter ==
  ASSUME NEW ts, NEW qu, NEW ad, Placed(ts, qu, ad), NEW t \in Threads, ad[t] = None,
         NEW c \in Conditions, NEW B, IsBucketOf(ts, c, B), NEW qv, Joined(qu, B, t, qv),
         NEW ae, Updated(ad, t, c, ae)
  PROVE  /\ Placed(ts, qv, ae)
         /\ Joined(LinesOf(ts, qu, ad), c, t, LinesOf(ts, qv, ae))
<1>0. ts # <<>> /\ B = BucketIn(ts, Len(ts), c) /\ B # Null
  BY DEF IsBucketOf
<1>1. /\ Tables(ts) /\ qu \in [Buckets -> Seq(Threads)]
      /\ ad \in [Threads -> Conditions \cup {None}]
      /\ Len(ts) \in 1..Len(ts)
  BY <1>0 DEF Placed, Tables
<1>2. B \in Buckets
  BY <1>0, <1>1, BucketRange
<1>3. \A b \in Buckets : ~Contains(qu[b], t)
  BY NoneAssumption DEF Placed
<1>4. qv = [qu EXCEPT ![B] = Append(@, t)] /\ ae = [ad EXCEPT ![t] = c]
  BY DEF Updated, Joined
<1>5. /\ qv \in [Buckets -> Seq(Threads)] /\ qv[B] = Append(qu[B], t)
      /\ \A b \in Buckets : b # B => qv[b] = qu[b]
  BY <1>1, <1>2, <1>4
<1>6. /\ ae \in [Threads -> Conditions \cup {None}] /\ ae[t] = c
      /\ \A u \in Threads : u # t => ae[u] = ad[u]
  BY <1>1, <1>4
<1>7. ASSUME NEW b \in Buckets, NEW x, Contains(qv[b], x)
      PROVE  Contains(qu[b], x) \/ (b = B /\ x = t)
  <2>1. CASE b # B
    BY <1>5, <1>7, <2>1
  <2>2. CASE b = B
    <3>1. qu[B] \in Seq(Threads)
      BY <1>1, <1>2
    <3>2. Contains(Append(qu[B], t), x) <=> Contains(qu[B], x) \/ x = t
      BY <3>1, AppendContains
    <3> QED BY <1>5, <1>7, <2>2, <3>2
  <2> QED BY <2>1, <2>2
<1>8. Placed(ts, qv, ae)
  <2> SUFFICES ASSUME NEW b \in Buckets, NEW x, Contains(qv[b], x)
               PROVE  /\ x \in Threads /\ ae[x] \in Conditions
                      /\ BucketIn(ts, Len(ts), ae[x]) = b
    BY <1>0, <1>1, <1>5, <1>6 DEF Placed
  <2>1. CASE b = B /\ x = t
    BY <1>0, <1>6, <2>1
  <2>2. CASE Contains(qu[b], x)
    <3>1. x # t
      BY <1>3, <2>2
    <3>2. x \in Threads /\ ad[x] \in Conditions /\ BucketIn(ts, Len(ts), ad[x]) = b
      BY <2>2 DEF Placed
    <3> QED BY <1>6, <3>1, <3>2
  <2> QED BY <1>7, <2>1, <2>2
<1>9. ASSUME NEW d \in Conditions
      PROVE  /\ d # c => Waiters(ts, qv, ae, d) = Waiters(ts, qu, ad, d)
             /\ d = c => Waiters(ts, qv, ae, d) = Append(Waiters(ts, qu, ad, d), t)
  <2> DEFINE C == BucketIn(ts, Len(ts), d)
             R == {u \in Threads : ad[u] = d}
             S == {u \in Threads : ae[u] = d}
  <2>1. CASE C = Null
    <3>1. d # c
      BY <1>0, <2>1
    <3> QED BY <2>1, <3>1 DEF Waiters
  <2>2. CASE C # Null
    <3>1. C \in Buckets
      BY <1>1, <2>2, BucketRange
    <3>2. Waiters(ts, qv, ae, d) = Selected(qv[C], S) /\ Waiters(ts, qu, ad, d) = Selected(qu[C], R)
      BY <1>0, <2>2 DEF Waiters
    <3>3. \A x : Contains(qu[C], x) => (x \in R <=> x \in S)
      BY <1>3, <1>6, <3>1
    <3>4. (t \in S <=> d = c) /\ qu[C] \in Seq(Threads)
      BY <1>1, <1>6, <3>1
    <3>5. d = c => C = B
      BY <1>0
    <3> HIDE DEF C, R, S
    <3>6. Selected(qu[C], R) = Selected(qu[C], S)
      BY <3>3, <3>4, SelectedSame
    <3>7. CASE C # B
      BY <1>5, <3>1, <3>2, <3>5, <3>6, <3>7
    <3>8. CASE C = B
      <4>1. Selected(Append(qu[C], t), S) =
              IF t \in S THEN Append(Selected(qu[C], S), t) ELSE Selected(qu[C], S)
        BY <3>4, SelectedAppend
      <4> QED BY <1>5, <3>2, <3>4, <3>6, <3>8, <4>1
    <3> QED BY <3>7, <3>8
  <2> QED BY <2>1, <2>2
<1>10. Joined(LinesOf(ts, qu, ad), c, t, LinesOf(ts, qv, ae))
  BY <1>9 DEF Joined, LinesOf
<1> QED
  BY <1>8, <1>10

(* Some waiters of c leave its queue.                                      *)
LEMMA RemovingWaiters ==
  ASSUME NEW ts, NEW qu, NEW ad, Placed(ts, qu, ad), NEW K,
         NEW c \in Conditions, NEW B, IsBucketOf(ts, c, B),
         \A x \in Threads : x \notin K => ad[x] = c,
         NEW qv, Kept(qu, B, K, qv)
  PROVE  /\ Placed(ts, qv, ad)
         /\ Kept(LinesOf(ts, qu, ad), c, K, LinesOf(ts, qv, ad))
<1>0. ts # <<>> /\ B = BucketIn(ts, Len(ts), c) /\ B # Null
  BY DEF IsBucketOf
<1>1. /\ Tables(ts) /\ qu \in [Buckets -> Seq(Threads)]
      /\ ad \in [Threads -> Conditions \cup {None}]
      /\ Len(ts) \in 1..Len(ts)
  BY <1>0 DEF Placed, Tables
<1>2. B \in Buckets
  BY <1>0, <1>1, BucketRange
<1>4. qv = [qu EXCEPT ![B] = Selected(@, K)]
  BY DEF Kept
<1>a. qu[B] \in Seq(Threads)
  BY <1>1, <1>2
<1>b. /\ Selected(qu[B], K) \in Seq(Threads)
      /\ \A x : Contains(Selected(qu[B], K), x) <=> Contains(qu[B], x) /\ x \in K
  BY <1>a, SelectedElements
<1>5. /\ qv \in [Buckets -> Seq(Threads)] /\ qv[B] = Selected(qu[B], K)
      /\ \A b \in Buckets : b # B => qv[b] = qu[b]
  BY <1>1, <1>2, <1>4, <1>b
<1>6. \A b \in Buckets : \A x : Contains(qv[b], x) => Contains(qu[b], x)
  BY <1>5, <1>b
<1>7. Placed(ts, qv, ad)
  BY <1>1, <1>5, <1>6 DEF Placed
<1>8. ASSUME NEW d \in Conditions
      PROVE  /\ d # c => Waiters(ts, qv, ad, d) = Waiters(ts, qu, ad, d)
             /\ d = c => Waiters(ts, qv, ad, d) = Selected(Waiters(ts, qu, ad, d), K)
  <2> DEFINE C == BucketIn(ts, Len(ts), d)
             S == {u \in Threads : ad[u] = d}
  <2>1. CASE C = Null
    <3>1. d # c
      BY <1>0, <2>1
    <3> QED BY <2>1, <3>1 DEF Waiters
  <2>2. CASE C # Null
    <3>1. C \in Buckets
      BY <1>1, <2>2, BucketRange
    <3>2. Waiters(ts, qv, ad, d) = Selected(qv[C], S) /\ Waiters(ts, qu, ad, d) = Selected(qu[C], S)
      BY <1>0, <2>2 DEF Waiters
    <3>3. d = c => C = B
      BY <1>0
    <3>4. d # c => \A x \in S : x \in K
      OBVIOUS
    <3> HIDE DEF C, S
    <3>5. CASE C # B
      BY <1>5, <3>1, <3>2, <3>3, <3>5
    <3>6. CASE C = B
      <4>1. Selected(Selected(qu[B], K), S) = Selected(qu[B], K \cap S)
        BY <1>a, SelectedTwice
      <4>2. Selected(Selected(qu[B], S), K) = Selected(qu[B], S \cap K)
        BY <1>a, SelectedTwice
      <4>3. S \cap K = K \cap S
        OBVIOUS
      <4>4. d # c => S \cap K = S
        BY <3>4
      <4> QED BY <1>5, <3>2, <3>6, <4>1, <4>2, <4>3, <4>4
    <3> QED BY <3>5, <3>6
  <2> QED BY <2>1, <2>2
<1>9. Kept(LinesOf(ts, qu, ad), c, K, LinesOf(ts, qv, ad))
  BY <1>8 DEF Kept, LinesOf
<1> QED
  BY <1>7, <1>9

(* The address of a thread in no queue matters to no queue.                *)
LEMMA ForgettingAddress ==
  ASSUME NEW ts, NEW qu, NEW ad, Placed(ts, qu, ad), NEW t \in Threads,
         \A b \in Buckets : ~Contains(qu[b], t),
         NEW ae, Updated(ad, t, None, ae)
  PROVE  /\ Placed(ts, qu, ae)
         /\ \A d \in Conditions : Waiters(ts, qu, ae, d) = Waiters(ts, qu, ad, d)
<1>1. /\ Tables(ts) /\ qu \in [Buckets -> Seq(Threads)]
      /\ ad \in [Threads -> Conditions \cup {None}]
  BY DEF Placed
<1>2. /\ ae \in [Threads -> Conditions \cup {None}] /\ ae[t] = None
      /\ \A u \in Threads : u # t => ae[u] = ad[u]
  BY <1>1 DEF Updated
<1>3. Placed(ts, qu, ae)
  <2> SUFFICES ASSUME NEW b \in Buckets, NEW x, Contains(qu[b], x)
               PROVE  /\ ts # <<>> /\ x \in Threads /\ ae[x] \in Conditions
                      /\ BucketIn(ts, Len(ts), ae[x]) = b
    BY <1>1, <1>2 DEF Placed
  <2>1. /\ ts # <<>> /\ x \in Threads /\ ad[x] \in Conditions
        /\ BucketIn(ts, Len(ts), ad[x]) = b /\ x # t
    BY DEF Placed
  <2> QED BY <1>2, <2>1
<1>4. ASSUME NEW d \in Conditions PROVE Waiters(ts, qu, ae, d) = Waiters(ts, qu, ad, d)
  <2> DEFINE C == BucketIn(ts, Len(ts), d)
             R == {u \in Threads : ad[u] = d}
             S == {u \in Threads : ae[u] = d}
  <2>1. CASE ts = <<>> \/ C = Null
    BY <2>1 DEF Waiters
  <2>2. CASE ts # <<>> /\ C # Null
    <3>0. Len(ts) \in 1..Len(ts)
      BY <1>1, <2>2 DEF Tables
    <3>1. C \in Buckets
      BY <1>1, <2>2, <3>0, BucketRange
    <3>2. Waiters(ts, qu, ae, d) = Selected(qu[C], S) /\ Waiters(ts, qu, ad, d) = Selected(qu[C], R)
      BY <2>2 DEF Waiters
    <3>3. \A x : Contains(qu[C], x) => (x \in R <=> x \in S)
      <4>1. \A x : Contains(qu[C], x) => x \in Threads /\ x # t
        BY <3>1 DEF Placed
      <4> QED BY <1>2, <4>1
    <3>4. qu[C] \in Seq(Threads)
      BY <1>1, <3>1
    <3> HIDE DEF C, R, S
    <3>5. Selected(qu[C], R) = Selected(qu[C], S)
      BY <3>3, <3>4, SelectedSame
    <3> QED BY <3>2, <3>5
  <2> QED BY <2>1, <2>2
<1> QED
  BY <1>3, <1>4

(* The threads that a rehash takes from the queues, in queue order.        *)
LEMMA QueuedThreads ==
  ASSUME NEW ts, NEW qu, NEW ad, Placed(ts, qu, ad), ts # <<>>,
         NEW tds, tds = FlattenSeq([b \in 1..Len(ts[Len(ts)]) |-> qu[b]])
  PROVE  /\ tds \in Seq(Threads)
         /\ \A x : Contains(tds, x) <=> \E b \in Buckets : Contains(qu[b], x)
         /\ \A c \in Conditions :
              Selected(tds, {u \in Threads : ad[u] = c}) = Waiters(ts, qu, ad, c)
<1>s. ASSUME NEW p \in Seq(Threads), NEW S
      PROVE  /\ Selected(p, S) \in Seq(Threads)
             /\ \A x : Contains(Selected(p, S), x) <=> Contains(p, x) /\ x \in S
  BY ONLY SelectedElements
<1> DEFINE n == Len(ts[Len(ts)])
           qs == [b \in 1..n |-> qu[b]]
<1>1. /\ Tables(ts) /\ qu \in [Buckets -> Seq(Threads)]
      /\ ad \in [Threads -> Conditions \cup {None}]
      /\ Len(ts) \in 1..Len(ts)
  BY DEF Placed, Tables
<1>2. n \in Nat \ {0} /\ n \in 1..MaxBuckets
  BY <1>1 DEF Tables, IsTable
<1>3. MaxBuckets \in Nat /\ Buckets = 1..MaxBuckets
  <2>1. /\ Cardinality(Threads) \in Nat /\ MaxLoadFactor \in Nat /\ GrowthFactor \in Nat
    BY ThreadsAssumption, FactorAssumption, FS_CardinalityType
  <2> QED BY <2>1, Products DEF MaxBuckets, Buckets
<1>4. 1..n \subseteq Buckets
  BY <1>2, <1>3
<1>5. \A b \in Buckets : \A x : Contains(qu[b], x) => /\ b \in 1..n /\ x \in Threads
                                                      /\ ad[x] \in Conditions
                                                      /\ BucketIn(ts, Len(ts), ad[x]) = b
  <2> SUFFICES ASSUME NEW b \in Buckets, NEW x, Contains(qu[b], x)
               PROVE  /\ b \in 1..n /\ x \in Threads
                      /\ ad[x] \in Conditions
                      /\ BucketIn(ts, Len(ts), ad[x]) = b
    OBVIOUS
  <2>1. x \in Threads /\ ad[x] \in Conditions /\ BucketIn(ts, Len(ts), ad[x]) = b
    BY DEF Placed
  <2>2. b # Null
    BY <1>3 DEF Null
  <2>3. b \in 1..n
    BY <1>1, <2>1, <2>2, BucketRange
  <2> QED BY <2>1, <2>3
<1> HIDE DEF n
<1>6. /\ qs \in Seq(Seq(Threads)) /\ Len(qs) = n /\ Len(qs) # 0
      /\ \A b \in 1..n : qs[b] = qu[b]
  <2>1. \A b \in 1..n : qu[b] \in Seq(Threads)
    BY <1>1, <1>4
  <2> QED BY <1>2, <2>1
<1>7. tds = FlattenSeq(qs)
  BY DEF n
<1> HIDE DEF qs
<1>8. /\ FlattenSeq(qs) \in Seq(Threads)
      /\ \A x : Contains(FlattenSeq(qs), x) <=> \E i \in 1..Len(qs) : Contains(qs[i], x)
      /\ \A S : \A k \in 1..Len(qs) :
           (\A i \in 1..Len(qs) : i # k => Selected(qs[i], S) = <<>>) =>
             Selected(FlattenSeq(qs), S) = Selected(qs[k], S)
  BY <1>6, FlattenElements
<1>9. \A x : Contains(tds, x) <=> \E b \in Buckets : Contains(qu[b], x)
  <2>1. \A x : Contains(tds, x) <=> \E b \in 1..n : Contains(qu[b], x)
    BY <1>6, <1>7, <1>8
  <2> QED BY <1>4, <1>5, <2>1
<1>10. ASSUME NEW c \in Conditions
       PROVE  Selected(tds, {u \in Threads : ad[u] = c}) = Waiters(ts, qu, ad, c)
  <2> DEFINE B == BucketIn(ts, Len(ts), c)
             S == {u \in Threads : ad[u] = c}
  <2>1. \A x : x \in S <=> x \in Threads /\ ad[x] = c
    OBVIOUS
  <2>2. B # Null => B \in 1..n
    BY <1>1, BucketRange DEF n
  <2>3. Waiters(ts, qu, ad, c) = IF B = Null THEN <<>> ELSE Selected(qu[B], S)
    BY DEF Waiters
  <2>4. \A b \in Buckets : \A x : Contains(qu[b], x) /\ x \in S => b = B
    BY <1>5
  <2> HIDE DEF B, S
  <2>5. ASSUME NEW b \in 1..n, b # B PROVE Selected(qu[b], S) = <<>>
    <3>1. b \in Buckets /\ qu[b] \in Seq(Threads)
      BY <1>1, <1>4
    <3>2. /\ Selected(qu[b], S) \in Seq(Threads)
          /\ \A x : Contains(Selected(qu[b], S), x) <=> Contains(qu[b], x) /\ x \in S
      BY <1>s, <3>1
    <3>3. \A x : ~Contains(Selected(qu[b], S), x)
      BY <2>4, <2>5, <3>1, <3>2
    <3> QED BY <3>2, <3>3, NoElements
  <2>6. CASE B # Null
    <3>1. B \in 1..Len(qs) /\ qs[B] = qu[B]
      BY <1>6, <2>2, <2>6
    <3>2. \A i \in 1..Len(qs) : i # B => Selected(qs[i], S) = <<>>
      BY <1>6, <2>5
    <3>3. Selected(FlattenSeq(qs), S) = Selected(qs[B], S)
      BY <1>8, <3>1, <3>2
    <3> QED BY <1>7, <2>3, <2>6, <3>1, <3>3 DEF S
  <2>7. CASE B = Null
    <3>1. \A x : ~(Contains(tds, x) /\ x \in S)
      <4>1. \A b \in Buckets : b # B
        BY <1>3, <2>7 DEF Null
      <4> QED BY <1>9, <2>4, <4>1
    <3>2. tds \in Seq(Threads)
      BY <1>7, <1>8
    <3>3. /\ Selected(tds, S) \in Seq(Threads)
          /\ \A x : Contains(Selected(tds, S), x) <=> Contains(tds, x) /\ x \in S
      BY <1>s, <3>2
    <3>4. Selected(tds, S) = <<>>
      BY <3>1, <3>3, NoElements
    <3> QED BY <2>3, <2>7, <3>4 DEF S
  <2> QED BY <2>6, <2>7
<1> QED
  BY <1>7, <1>8, <1>9, <1>10

(* An element is appended at the end.                                      *)
LEMMA Appended ==
  ASSUME NEW T, NEW p \in Seq(T), NEW x \in T
  PROVE  /\ Append(p, x) \in Seq(T) /\ Len(p) \in Nat /\ Len(Append(p, x)) = Len(p) + 1
         /\ Append(p, x)[Len(p) + 1] = x /\ \A i \in 1..Len(p) : Append(p, x)[i] = p[i]
OBVIOUS

(* A new table is the last one.                                            *)
LEMMA AppendedTable ==
  ASSUME NEW p \in Seq(Seq(Nat)), NEW x \in Seq(Nat)
  PROVE  /\ Append(p, x) \in Seq(Seq(Nat)) /\ Len(Append(p, x)) = Len(p) + 1
         /\ Append(p, x)[Len(p) + 1] = x /\ Append(p, x) # <<>> /\ Len(p) \in Nat
         /\ \A i \in 1..Len(p) : Append(p, x)[i] = p[i]
<1>1. /\ Append(p, x) \in Seq(Seq(Nat)) /\ Len(p) \in Nat /\ Len(Append(p, x)) = Len(p) + 1
      /\ Append(p, x)[Len(p) + 1] = x /\ \A i \in 1..Len(p) : Append(p, x)[i] = p[i]
  BY Appended
<1> DEFINE q == Append(p, x)
<1> HIDE DEF q
<1>2. Len(q) # 0
  BY <1>1 DEF q
<1>3. q # <<>>
  BY <1>2
<1> QED
  BY <1>1, <1>3 DEF q

(* The threads tds of the queues qu move to the table new and to queues qv. *)
MovedTo(ts, qu, ad, tds, new, qv) ==
  /\ tds = FlattenSeq([b \in 1..Len(ts[Len(ts)]) |-> qu[b]])
  /\ IsTable(new)
  /\ \A k \in 1..Len(tds) : new[Index(ad[tds[k]], Len(new))] # Null
  /\ qv = [b \in Buckets |->
             Selected(tds, {u \in ToSet(tds) : new[Index(ad[u], Len(new))] = b})]

(* A rehash keeps the order in which threads wait on each condition.       *)
LEMMA RehashKeepsWaiters ==
  ASSUME NEW ts, NEW qu, NEW ad, Placed(ts, qu, ad), ts # <<>>,
         NEW tds, NEW new, NEW qv, MovedTo(ts, qu, ad, tds, new, qv)
  PROVE  /\ Placed(Append(ts, new), qv, ad)
         /\ \A c \in Conditions : Waiters(Append(ts, new), qv, ad, c) = Waiters(ts, qu, ad, c)
<1>m. /\ IsTable(new)
      /\ \A k \in 1..Len(tds) : new[Index(ad[tds[k]], Len(new))] # Null
  BY DEF MovedTo
<1>s. ASSUME NEW p \in Seq(Threads), NEW S
      PROVE  /\ Selected(p, S) \in Seq(Threads)
             /\ \A x : Contains(Selected(p, S), x) <=> Contains(p, x) /\ x \in S
  BY ONLY SelectedElements
<1> DEFINE us == Append(ts, new)
           In(b) == {u \in ToSet(tds) : new[Index(ad[u], Len(new))] = b}
<1>1. /\ Tables(ts) /\ qu \in [Buckets -> Seq(Threads)]
      /\ ad \in [Threads -> Conditions \cup {None}]
      /\ ts \in Seq(Seq(Nat)) /\ new \in Seq(Nat)
  BY <1>m DEF Placed, Tables, IsTable
<1>2. /\ us \in Seq(Seq(Nat)) /\ Len(us) = Len(ts) + 1 /\ us[Len(us)] = new /\ us # <<>>
      /\ \A i \in 1..Len(ts) : us[i] = ts[i]
      /\ Len(ts) \in Nat
  BY <1>1, AppendedTable
<1> HIDE DEF us
<1>3. Tables(us)
  <2>1. ASSUME NEW i \in 1..Len(us) PROVE IsTable(us[i])
    <3>1. i \in 1..Len(ts) \/ i = Len(us)
      BY <1>2
    <3> QED BY <1>m, <1>1, <1>2, <3>1 DEF Tables
  <2> QED BY <1>2, <2>1 DEF Tables
<1>4. /\ tds \in Seq(Threads)
      /\ \A x : Contains(tds, x) <=> \E b \in Buckets : Contains(qu[b], x)
      /\ \A c \in Conditions :
           Selected(tds, {u \in Threads : ad[u] = c}) = Waiters(ts, qu, ad, c)
  BY QueuedThreads DEF MovedTo
<1>5. \A x : x \in ToSet(tds) <=> Contains(tds, x)
  <2>1. DOMAIN tds = 1..Len(tds)
    BY <1>4
  <2> QED BY <2>1 DEF ToSet, Contains
<1>6. \A x : Contains(tds, x) =>
        /\ x \in Threads /\ ad[x] \in Conditions
        /\ BucketIn(us, Len(us), ad[x]) = new[Index(ad[x], Len(new))]
        /\ BucketIn(us, Len(us), ad[x]) # Null
  <2> SUFFICES ASSUME NEW x, Contains(tds, x)
               PROVE  /\ x \in Threads /\ ad[x] \in Conditions
                      /\ BucketIn(us, Len(us), ad[x]) = new[Index(ad[x], Len(new))]
                      /\ BucketIn(us, Len(us), ad[x]) # Null
    OBVIOUS
  <2>1. x \in Threads /\ ad[x] \in Conditions
    BY <1>4 DEF Placed
  <2>2. PICK k \in 1..Len(tds) : tds[k] = x
    BY DEF Contains
  <2>3. new[Index(ad[x], Len(new))] # Null
    BY <1>m, <2>2
  <2> QED BY <1>2, <2>1, <2>3 DEF BucketIn
<1>7. \A b : \A x : x \in In(b) <=> Contains(tds, x) /\ BucketIn(us, Len(us), ad[x]) = b
  BY <1>5, <1>6
<1>8. qv = [b \in Buckets |-> Selected(tds, In(b))]
  BY DEF MovedTo
<1> HIDE DEF In
<1>9. ASSUME NEW b \in Buckets
      PROVE  /\ qv[b] \in Seq(Threads)
             /\ \A x : Contains(qv[b], x) <=> Contains(tds, x) /\ x \in In(b)
  <2>1. qv[b] = Selected(tds, In(b))
    BY <1>8
  <2>2. /\ Selected(tds, In(b)) \in Seq(Threads)
        /\ \A x : Contains(Selected(tds, In(b)), x) <=> Contains(tds, x) /\ x \in In(b)
    BY <1>s, <1>4
  <2> QED BY <2>1, <2>2
<1>10. qv \in [Buckets -> Seq(Threads)]
  <2>1. DOMAIN qv = Buckets /\ qv = [b \in Buckets |-> qv[b]]
    BY <1>8
  <2> QED BY <1>9, <2>1
<1>11. Placed(us, qv, ad)
  <2>1. ASSUME NEW b \in Buckets, NEW x, Contains(qv[b], x)
        PROVE  /\ us # <<>> /\ x \in Threads /\ ad[x] \in Conditions
               /\ BucketIn(us, Len(us), ad[x]) = b
    BY <1>2, <1>6, <1>7, <1>9, <2>1
  <2> QED BY <1>1, <1>3, <1>10, <2>1 DEF Placed
<1>12. ASSUME NEW c \in Conditions
       PROVE  Waiters(us, qv, ad, c) = Waiters(ts, qu, ad, c)
  <2> DEFINE C == BucketIn(us, Len(us), c)
             S == {u \in Threads : ad[u] = c}
  <2>1. Waiters(ts, qu, ad, c) = Selected(tds, S)
    BY <1>4
  <2>2. Waiters(us, qv, ad, c) = IF C = Null THEN <<>> ELSE Selected(qv[C], S)
    BY <1>2 DEF Waiters
  <2>3. \A x : Contains(tds, x) /\ x \in S => C # Null /\ x \in In(C)
    BY <1>6, <1>7
  <2>4. C # Null => C \in Buckets
    <3>1. Len(us) \in 1..Len(us)
      BY <1>2
    <3> QED BY <1>3, <3>1, BucketRange
  <2> HIDE DEF C, S
  <2>5. CASE C = Null
    <3>1. /\ Selected(tds, S) \in Seq(Threads)
          /\ \A x : Contains(Selected(tds, S), x) <=> Contains(tds, x) /\ x \in S
      BY <1>s, <1>4
    <3>2. Selected(tds, S) = <<>>
      BY <2>3, <2>5, <3>1, NoElements
    <3> QED BY <2>1, <2>2, <2>5, <3>2
  <2>6. CASE C # Null
    <3>1. qv[C] = Selected(tds, In(C))
      BY <1>8, <2>4, <2>6
    <3>2. Selected(Selected(tds, In(C)), S) = Selected(tds, In(C) \cap S)
      BY <1>4, SelectedTwice
    <3> DEFINE K == In(C) \cap S
    <3>3. \A x : Contains(tds, x) => (x \in K <=> x \in S)
      BY <2>3
    <3> HIDE DEF K
    <3>4. Selected(tds, K) = Selected(tds, S)
      BY <1>4, <3>3, SelectedSame
    <3> QED BY <2>1, <2>2, <2>6, <3>1, <3>2, <3>4 DEF K
  <2> QED BY <2>5, <2>6
<1> QED
  BY <1>11, <1>12 DEF us

-----------------------------------------------------------------------------
(*                     Where the parked threads are                        *)

(* With the waiters W, the addresses ad and the threads sg in hand: a      *)
(* thread with an address is once among the waiters of that condition or   *)
(* once in the hands of one notifying thread, and no other thread is.      *)
Parks(W, ad, sg) ==
  /\ W \in [Conditions -> Seq(Threads)]
  /\ ad \in [Threads -> Conditions \cup {None}]
  /\ sg \in [Threads -> Seq(Threads)]
  /\ \A c \in Conditions :
       NoDup(W[c]) /\ \A x : Contains(W[c], x) => x \in Threads /\ ad[x] = c
  /\ \A u \in Threads : NoDup(sg[u])
  /\ \A u, v \in Threads : \A x : Contains(sg[u], x) /\ Contains(sg[v], x) => u = v
  /\ \A u \in Threads : \A x : Contains(sg[u], x) =>
       /\ x \in Threads /\ ad[x] \in Conditions
       /\ \A c \in Conditions : ~Contains(W[c], x)
  /\ \A x \in Threads : ad[x] # None =>
       (\E c \in Conditions : Contains(W[c], x)) \/ \E u \in Threads : Contains(sg[u], x)

(* A thread without an address joins the waiters of c.                     *)
LEMMA ParksAfterEnqueue ==
  ASSUME NEW W, NEW ad, NEW sg, Parks(W, ad, sg), NEW t \in Threads, ad[t] = None,
         NEW c \in Conditions, NEW V, Joined(W, c, t, V),
         NEW ae, Updated(ad, t, c, ae)
  PROVE  Parks(V, ae, sg)
<1>1. /\ W \in [Conditions -> Seq(Threads)] /\ ad \in [Threads -> Conditions \cup {None}]
      /\ W[c] \in Seq(Threads)
  BY DEF Parks
<1>2. /\ \A x : Contains(Append(W[c], t), x) <=> Contains(W[c], x) \/ x = t
      /\ NoDup(Append(W[c], t)) <=> NoDup(W[c]) /\ ~Contains(W[c], t)
      /\ Append(W[c], t) \in Seq(Threads)
  BY <1>1, AppendContains, AppendNoDup
<1>3. /\ V \in [Conditions -> Seq(Threads)] /\ V[c] = Append(W[c], t)
      /\ \A d \in Conditions : d # c => V[d] = W[d]
  BY <1>1, <1>2 DEF Updated, Joined
<1>4. /\ ae \in [Threads -> Conditions \cup {None}] /\ ae[t] = c
      /\ \A x \in Threads : x # t => ae[x] = ad[x]
  BY <1>1 DEF Updated, Joined
<1>5. /\ \A d \in Conditions : ~Contains(W[d], t)
      /\ \A u \in Threads : ~Contains(sg[u], t)
  BY NoneAssumption DEF Parks
<1>6. \A d \in Conditions : \A x : Contains(V[d], x) <=> Contains(W[d], x) \/ (d = c /\ x = t)
  BY <1>2, <1>3
<1>7. \A d \in Conditions : NoDup(V[d])
  BY <1>2, <1>3, <1>5 DEF Parks
<1>8. \A d \in Conditions : \A x : Contains(V[d], x) => x \in Threads /\ ae[x] = d
  <2>1. \A d \in Conditions : \A x : Contains(W[d], x) => x \in Threads /\ ad[x] = d
    BY DEF Parks
  <2> QED BY <1>4, <1>5, <1>6, <2>1
<1>9. \A u \in Threads : \A x : Contains(sg[u], x) =>
        /\ x \in Threads /\ ae[x] \in Conditions
        /\ \A d \in Conditions : ~Contains(V[d], x)
  BY <1>4, <1>5, <1>6 DEF Parks
<1>10. \A x \in Threads : ae[x] # None =>
         (\E d \in Conditions : Contains(V[d], x)) \/ \E u \in Threads : Contains(sg[u], x)
  BY <1>4, <1>6 DEF Parks
<1> QED
  BY <1>3, <1>4, <1>7, <1>8, <1>9, <1>10 DEF Parks

(* A waiter of c leaves the queue and forgets its address.                 *)
LEMMA ParksAfterTimeOut ==
  ASSUME NEW W, NEW ad, NEW sg, Parks(W, ad, sg), NEW t \in Threads,
         NEW c \in Conditions, Contains(W[c], t),
         NEW K, K = Threads \ {t}, NEW V, Kept(W, c, K, V),
         NEW ae, Updated(ad, t, None, ae)
  PROVE  Parks(V, ae, sg)
<1>0. /\ \A x : x \in K <=> x \in Threads /\ x # t
      /\ V = [W EXCEPT ![c] = Selected(@, K)]
  BY DEF Kept
<1>1. /\ W \in [Conditions -> Seq(Threads)] /\ ad \in [Threads -> Conditions \cup {None}]
      /\ W[c] \in Seq(Threads)
  BY DEF Parks
<1>2. /\ \A x : Contains(Selected(W[c], K), x) <=> Contains(W[c], x) /\ x \in K
      /\ NoDup(W[c]) => NoDup(Selected(W[c], K))
      /\ Selected(W[c], K) \in Seq(Threads)
  BY <1>1, SelectedElements
<1>3. /\ V \in [Conditions -> Seq(Threads)] /\ V[c] = Selected(W[c], K)
      /\ \A d \in Conditions : d # c => V[d] = W[d]
  BY <1>0, <1>1, <1>2
<1>4. /\ ae \in [Threads -> Conditions \cup {None}] /\ ae[t] = None
      /\ \A x \in Threads : x # t => ae[x] = ad[x]
  BY <1>1 DEF Updated
<1>5. /\ \A d \in Conditions : Contains(W[d], t) => d = c
      /\ \A u \in Threads : ~Contains(sg[u], t)
  BY DEF Parks
<1>6. \A d \in Conditions : \A x : Contains(V[d], x) <=> Contains(W[d], x) /\ x # t
  <2>1. \A d \in Conditions : \A x : Contains(W[d], x) => x \in Threads
    BY DEF Parks
  <2>2. \A x : Contains(W[c], x) => (x \in K <=> x # t)
    BY <1>0, <2>1
  <2>3. \A x : Contains(V[c], x) <=> Contains(W[c], x) /\ x # t
    BY <1>2, <1>3, <2>2
  <2>4. \A d \in Conditions : d # c => ~Contains(W[d], t) /\ V[d] = W[d]
    BY <1>3, <1>5
  <2> QED BY <2>3, <2>4
<1>7. \A d \in Conditions : NoDup(V[d])
  BY <1>2, <1>3 DEF Parks
<1>8. \A d \in Conditions : \A x : Contains(V[d], x) => x \in Threads /\ ae[x] = d
  BY <1>4, <1>6 DEF Parks
<1>9. \A u \in Threads : \A x : Contains(sg[u], x) =>
        /\ x \in Threads /\ ae[x] \in Conditions
        /\ \A d \in Conditions : ~Contains(V[d], x)
  <2>1. \A u \in Threads : \A x : Contains(sg[u], x) =>
          /\ x \in Threads /\ ad[x] \in Conditions /\ x # t
          /\ \A d \in Conditions : ~Contains(W[d], x)
    BY <1>5 DEF Parks
  <2> QED BY <1>4, <1>6, <2>1
<1>10. \A x \in Threads : ae[x] # None =>
         (\E d \in Conditions : Contains(V[d], x)) \/ \E u \in Threads : Contains(sg[u], x)
  BY <1>4, <1>6 DEF Parks
<1> QED
  BY <1>3, <1>4, <1>7, <1>8, <1>9, <1>10 DEF Parks

(* The waiters r of c pass from its queue into the hands of t.             *)
LEMMA ParksAfterHandOver ==
  ASSUME NEW W, NEW ad, NEW sg, Parks(W, ad, sg), NEW t \in Threads, sg[t] = <<>>,
         NEW c \in Conditions, NEW r \in Seq(Threads), NoDup(r),
         \A x : Contains(r, x) => Contains(W[c], x),
         NEW q \in Seq(Threads), NoDup(q),
         \A x : Contains(q, x) <=> Contains(W[c], x) /\ ~Contains(r, x),
         NEW V, Updated(W, c, q, V), NEW sh, Updated(sg, t, r, sh)
  PROVE  Parks(V, ad, sh)
<1>1. /\ W \in [Conditions -> Seq(Threads)] /\ ad \in [Threads -> Conditions \cup {None}]
      /\ sg \in [Threads -> Seq(Threads)]
  BY DEF Parks
<1>2. \A x : ~Contains(sg[t], x)
  BY DEF Contains
<1>3. /\ V \in [Conditions -> Seq(Threads)] /\ V[c] = q
      /\ \A d \in Conditions : d # c => V[d] = W[d]
  BY <1>1 DEF Updated
<1>4. /\ sh \in [Threads -> Seq(Threads)] /\ sh[t] = r
      /\ \A x \in Threads : x # t => sh[x] = sg[x]
  BY <1>1 DEF Updated
<1>5. \A d \in Conditions : \A x : Contains(V[d], x) <=> Contains(W[d], x) /\ ~Contains(r, x)
  <2>1. \A d \in Conditions : \A x : Contains(W[d], x) /\ Contains(r, x) => d = c
    BY DEF Parks
  <2> QED BY <1>3, <2>1
<1>6. \A u \in Threads : \A x : Contains(sh[u], x) <=>
        Contains(sg[u], x) \/ (u = t /\ Contains(r, x))
  BY <1>2, <1>4
<1>7. /\ \A d \in Conditions : NoDup(V[d])
      /\ \A u \in Threads : NoDup(sh[u])
  BY <1>3, <1>4 DEF Parks
<1>8. \A d \in Conditions : \A x : Contains(V[d], x) => x \in Threads /\ ad[x] = d
  BY <1>5 DEF Parks
<1>9. \A u \in Threads : \A x : Contains(r, x) => ~Contains(sg[u], x)
  BY DEF Parks
<1>10. \A u, v \in Threads : \A x : Contains(sh[u], x) /\ Contains(sh[v], x) => u = v
  BY <1>6, <1>9 DEF Parks
<1>11. \A u \in Threads : \A x : Contains(sh[u], x) =>
        /\ x \in Threads /\ ad[x] \in Conditions
        /\ \A d \in Conditions : ~Contains(V[d], x)
  <2>1. \A u \in Threads : \A x : Contains(sg[u], x) =>
          /\ x \in Threads /\ ad[x] \in Conditions
          /\ \A d \in Conditions : ~Contains(W[d], x)
    BY DEF Parks
  <2>2. \A x : Contains(r, x) => x \in Threads /\ ad[x] \in Conditions
    BY DEF Parks
  <2> QED BY <1>5, <1>6, <2>1, <2>2
<1>12. \A x \in Threads : ad[x] # None =>
         (\E d \in Conditions : Contains(V[d], x)) \/ \E u \in Threads : Contains(sh[u], x)
  BY <1>5, <1>6 DEF Parks
<1> QED
  BY <1>1, <1>3, <1>4, <1>7, <1>8, <1>10, <1>11, <1>12 DEF Parks

(* The first thread in the hands of t is signalled.                        *)
LEMMA ParksAfterSignal ==
  ASSUME NEW W, NEW ad, NEW sg, Parks(W, ad, sg), NEW t \in Threads, sg[t] # <<>>,
         NEW ae, Updated(ad, Head(sg[t]), None, ae),
         NEW sh, Updated(sg, t, Tail(sg[t]), sh)
  PROVE  /\ Parks(W, ae, sh)
         /\ Head(sg[t]) \in Threads /\ \A d \in Conditions : ~Contains(W[d], Head(sg[t]))
<1> DEFINE h == Head(sg[t])
<1>1. /\ W \in [Conditions -> Seq(Threads)] /\ ad \in [Threads -> Conditions \cup {None}]
      /\ sg \in [Threads -> Seq(Threads)] /\ sg[t] \in Seq(Threads) /\ NoDup(sg[t])
  BY DEF Parks
<1>2. /\ h \in Threads /\ Contains(sg[t], h)
      /\ Tail(sg[t]) \in Seq(Threads) /\ NoDup(Tail(sg[t]))
      /\ \A x : Contains(Tail(sg[t]), x) <=> Contains(sg[t], x) /\ x # h
  BY <1>1, WithoutHead
<1>3. ae = [ad EXCEPT ![h] = None]
  BY DEF Updated
<1> HIDE DEF h
<1>4. /\ ae \in [Threads -> Conditions \cup {None}] /\ ae[h] = None
      /\ \A x \in Threads : x # h => ae[x] = ad[x]
  BY <1>1, <1>2, <1>3
<1>5. /\ sh \in [Threads -> Seq(Threads)] /\ sh[t] = Tail(sg[t])
      /\ \A x \in Threads : x # t => sh[x] = sg[x]
  BY <1>1, <1>2 DEF Updated
<1>6. \A d \in Conditions : ~Contains(W[d], h)
  BY <1>2 DEF Parks
<1>7. \A u \in Threads : Contains(sg[u], h) => u = t
  BY <1>2 DEF Parks
<1>8. \A u \in Threads : \A x : Contains(sh[u], x) <=> Contains(sg[u], x) /\ x # h
  BY <1>2, <1>5, <1>7
<1>9. \A u \in Threads : NoDup(sh[u])
  BY <1>2, <1>5 DEF Parks
<1>10. \A d \in Conditions : \A x : Contains(W[d], x) => x \in Threads /\ ae[x] = d
  BY <1>4, <1>6 DEF Parks
<1>11. \A u, v \in Threads : \A x : Contains(sh[u], x) /\ Contains(sh[v], x) => u = v
  BY <1>8 DEF Parks
<1>12. \A u \in Threads : \A x : Contains(sh[u], x) =>
        /\ x \in Threads /\ ae[x] \in Conditions
        /\ \A d \in Conditions : ~Contains(W[d], x)
  BY <1>4, <1>8 DEF Parks
<1>13. \A x \in Threads : ae[x] # None =>
         (\E d \in Conditions : Contains(W[d], x)) \/ \E u \in Threads : Contains(sh[u], x)
  BY <1>4, <1>8 DEF Parks
<1>14. \A c \in Conditions :
         NoDup(W[c]) /\ \A x : Contains(W[c], x) => x \in Threads /\ ae[x] = c
  BY <1>10 DEF Parks
<1>15. Parks(W, ae, sh)
  BY <1>1, <1>4, <1>5, <1>9, <1>11, <1>12, <1>13, <1>14 DEF Parks
<1> QED
  BY <1>2, <1>6, <1>15 DEF h

-----------------------------------------------------------------------------
(*                        The inductive invariant                          *)

(* The places of the code where a thread can be.                           *)
Labels == {"idle", "locked", "lockHashtable", "lockBuckets", "enqueue", "beforeSleep",
           "asleep", "dequeueSelf", "awaitSignal", "relock", "clear", "unparkAll",
           "unpark", "signal"}

(* The waiters of all conditions.                                          *)
Lines == LinesOf(tables, queue, address)

(* The types of the variables.                                             *)
TypeInv ==
  /\ holder \in [Conditions -> Threads \cup {None}]
  /\ hasWaiters \in [Conditions -> BOOLEAN]
  /\ registered \in SUBSET Threads /\ numThreads = Cardinality(registered)
  /\ pc \in [Threads -> Labels]
  /\ cond \in [Threads -> Conditions \cup {None}]
  /\ all \in [Threads -> BOOLEAN]
  /\ my \in [Threads -> Nat]
  /\ count \in [Threads -> Nat]
  /\ toSignal \in [Threads -> Seq(Threads)]
  /\ result \in [Threads -> BOOLEAN]

(* What a thread knows, at each place of the code.                         *)
LocalInv(t) ==
  /\ pc[t] # "idle" => cond[t] \in Conditions
  /\ pc[t] \in {"enqueue", "dequeueSelf", "unpark"} =>
       my[t] \in 1..Len(tables) /\ BucketIn(tables, my[t], cond[t]) # Null
  /\ pc[t] = "lockBuckets" => my[t] \in 1..Len(tables)
  /\ pc[t] \in {"lockHashtable", "lockBuckets"} => count[t] \in 1..numThreads
  /\ address[t] # None => InPark(t) /\ address[t] = cond[t]
  /\ InPark(t) \/ pc[t] \in {"clear", "unparkAll"} => tables # <<>>
  /\ pc[t] \in {"clear", "unparkAll"} => all[t]
  /\ pc[t] = "signal" <=> toSignal[t] # <<>>

(* Where a thread holds the lock of its condition, ...                     *)
Holding == {"locked", "lockHashtable", "lockBuckets", "enqueue", "beforeSleep"}

(* ... and where it may: a notification is made with or without it.        *)
MayHold == Holding \cup {"clear", "unparkAll", "unpark", "signal"}

(* Who holds the lock of a condition.                                      *)
HolderInv ==
  \A t \in Threads :
    /\ pc[t] \in Holding => holder[cond[t]] = t
    /\ \A c \in Conditions : holder[c] = t => cond[t] = c /\ pc[t] \in MayHold

(* A flag is set only once there is a table.                               *)
FlagInv == \A c \in Conditions : hasWaiters[c] => tables # <<>>

(* The inductive invariant.                                                *)
IInv ==
  /\ TypeInv
  /\ Placed(tables, queue, address)
  /\ Parks(Lines, address, toSignal)
  /\ \A t \in Threads : LocalInv(t)
  /\ HolderInv
  /\ FlagInv

(* What the thread t may do.                                               *)
Acts(t) ==
  \/ \E c \in Conditions : Lock(t, c) \/ NotifyOne(t, c) \/ NotifyAll(t, c)
  \/ Unlock(t) \/ WaitPast(t) \/ WaitUntil(t)
  \/ Step(t)

(* WaitersOf is the line of its condition.                                 *)
LEMMA WaitersOfIs ==
  /\ \A c : WaitersOf(c) = Waiters(tables, queue, address, c)
  /\ [c \in Conditions |-> WaitersOf(c)] = Lines
BY DEF WaitersOf, Waiters, ParkedOn, Lines, LinesOf

(* A thread under the bucket lock, in the current table, sees the waiters  *)
(* of its condition.                                                       *)
LEMMA UnderTheLock ==
  ASSUME IInv, NEW t \in Threads, pc[t] \in {"enqueue", "dequeueSelf", "unpark"},
         my[t] = Len(tables)
  PROVE  /\ cond[t] \in Conditions /\ tables # <<>>
         /\ MyBucket(t) = BucketIn(tables, Len(tables), cond[t])
         /\ MyBucket(t) # Null /\ MyBucket(t) \in Buckets
         /\ Parked(t) = Lines[cond[t]] /\ Parked(t) \in Seq(Threads)
         /\ queue[MyBucket(t)] \in Seq(Threads)
<1>1. /\ cond[t] \in Conditions /\ Len(tables) \in 1..Len(tables)
      /\ BucketIn(tables, Len(tables), cond[t]) # Null
  <2>1. LocalInv(t) /\ pc[t] # "idle"
    BY DEF IInv
  <2> QED BY <2>1 DEF LocalInv
<1>2. Tables(tables) /\ queue \in [Buckets -> Seq(Threads)]
  BY DEF IInv, Placed
<1>3. tables # <<>>
  BY <1>1, <1>2 DEF Tables
<1>4. MyBucket(t) = BucketIn(tables, Len(tables), cond[t])
  BY DEF MyBucket
<1>5. MyBucket(t) \in Buckets
  BY <1>1, <1>2, <1>4, BucketRange
<1>6. Parked(t) = Lines[cond[t]]
  BY <1>1, <1>3, <1>4 DEF Parked, ParkedOn, Lines, LinesOf, Waiters
<1>7. Lines[cond[t]] \in Seq(Threads)
  BY <1>1 DEF IInv, Parks
<1> QED
  BY <1>1, <1>2, <1>3, <1>4, <1>5, <1>6, <1>7

(* What a rehash does to the tables and the queues.                        *)
RehashInto(t, ts) ==
  /\ Tables(ts) /\ ts # <<>> /\ LoadTable(t, ts) /\ Len(tables) <= Len(ts)
  /\ \A i \in 1..Len(tables) : ts[i] = tables[i]
  /\ Placed(ts, queue', address)
  /\ \A c \in Conditions : Waiters(ts, queue', address, c) = Waiters(tables, queue, address, c)

(* A rehash, or a table that turns out large enough, keeps everybody in    *)
(* line.                                                                   *)
LEMMA RehashTables ==
  ASSUME IInv, NEW t \in Threads, Rehash(t) PROVE \E ts : RehashInto(t, ts)
<1> DEFINE old == Last(tables)
           tds == FlattenSeq([b \in 1..Len(old) |-> queue[b]])
           size == count[t] * GrowthFactor * MaxLoadFactor
           new == NewTable(size, tds, Len(old))
<1>1. Placed(tables, queue, address) /\ Tables(tables) /\ tables \in Seq(Seq(Nat))
  BY DEF IInv, Placed, Tables
<1>2. /\ my[t] \in 1..Len(tables) /\ count[t] \in 1..numThreads
      /\ numThreads = Cardinality(registered) /\ registered \in SUBSET Threads
  <2>1. LocalInv(t) /\ pc[t] = "lockBuckets" /\ TypeInv
    BY DEF IInv, Rehash
  <2> QED BY <2>1 DEF LocalInv, TypeInv
<1>3. tables # <<>> /\ Len(tables) \in 1..Len(tables) /\ old = tables[Len(tables)]
  BY <1>1, <1>2 DEF Last
<1>4. CASE LargeEnough(old, count[t])
  <2>1. LoadTable(t, tables) /\ queue' = queue
    BY <1>4 DEF Rehash
  <2>2. RehashInto(t, tables)
    BY <1>1, <1>3, <2>1 DEF RehashInto
  <2> QED BY <2>2
<1>5. CASE ~LargeEnough(old, count[t])
  <2>1. /\ LoadTable(t, Append(tables, new))
        /\ queue' = [b \in Buckets |->
                       Selected(tds, {u \in ToSet(tds) : new[Index(address[u], Len(new))] = b})]
    BY <1>5 DEF Rehash
  <2>2. count[t] \in 1..Cardinality(Threads) /\ Threads # {}
    <3>1. Cardinality(registered) <= Cardinality(Threads) /\ Cardinality(Threads) \in Nat
      BY <1>2, ThreadsAssumption, FS_Subset, FS_CardinalityType
    <3>2. Cardinality(registered) \in Nat
      BY <1>2, ThreadsAssumption, FS_Subset, FS_CardinalityType
    <3> QED BY <1>2, <3>1, <3>2
  <2>3. /\ size \in 1..MaxBuckets /\ MaxBuckets \in Nat
        /\ count[t] * MaxLoadFactor \in Nat /\ count[t] * MaxLoadFactor <= size
    BY <2>2, Sizes
  <2>4. IsTable(old)
    BY <1>1, <1>3 DEF Tables
  <2>5. Len(old) \in 0..size
    <3>1. Len(old) \in Nat
      BY <2>4 DEF IsTable
    <3>2. ~(Len(old) >= count[t] * MaxLoadFactor)
      BY <1>5 DEF LargeEnough
    <3> HIDE DEF old, size
    <3> QED BY <2>3, <3>1, <3>2
  <2>6. /\ tds \in Seq(Threads)
        /\ \A x : Contains(tds, x) <=> \E b \in Buckets : Contains(queue[b], x)
    <3>1. tds = FlattenSeq([b \in 1..Len(tables[Len(tables)]) |-> queue[b]])
      BY <1>3
    <3> HIDE DEF tds
    <3> QED BY <1>1, <1>3, <3>1, QueuedThreads
  <2>7. tds = FlattenSeq([b \in 1..Len(tables[Len(tables)]) |-> queue[b]])
    BY <1>3
  <2> HIDE DEF tds, size, old
  <2>8. \A k \in 1..Len(tds) : address[tds[k]] \in Conditions
    <3> SUFFICES ASSUME NEW k \in 1..Len(tds) PROVE address[tds[k]] \in Conditions
      OBVIOUS
    <3>1. Contains(tds, tds[k])
      BY DEF Contains
    <3>2. PICK b \in Buckets : Contains(queue[b], tds[k])
      BY <2>6, <3>1
    <3> QED BY <1>1, <3>2 DEF Placed
  <2>9. /\ IsTable(new) /\ Len(new) = size
        /\ \A k \in 1..Len(tds) : new[Index(address[tds[k]], size)] # Null
    BY <2>3, <2>5, <2>6, <2>8, NewTableIs
  <2> HIDE DEF new
  <2>b. MovedTo(tables, queue, address, tds, new, queue')
    BY <2>1, <2>7, <2>9 DEF MovedTo
  <2>10. /\ Placed(Append(tables, new), queue', address)
         /\ \A c \in Conditions : Waiters(Append(tables, new), queue', address, c)
                                    = Waiters(tables, queue, address, c)
    BY <1>1, <1>3, <2>b, RehashKeepsWaiters
  <2>11. /\ Append(tables, new) # <<>> /\ Len(tables) <= Len(Append(tables, new))
         /\ \A i \in 1..Len(tables) : Append(tables, new)[i] = tables[i]
    <3>1. new \in Seq(Nat)
      BY <2>9 DEF IsTable
    <3>2. /\ Len(Append(tables, new)) = Len(tables) + 1 /\ Len(tables) \in Nat
          /\ Append(tables, new) # <<>>
          /\ \A i \in 1..Len(tables) : Append(tables, new)[i] = tables[i]
      BY <1>1, <3>1, AppendedTable
    <3> QED BY <3>2
  <2>12. Tables(Append(tables, new))
    BY <2>10 DEF Placed
  <2>13. RehashInto(t, Append(tables, new))
    BY <2>1, <2>10, <2>11, <2>12 DEF RehashInto
  <2> QED BY <2>13
<1> QED
  BY <1>4, <1>5

(* What t's step leaves alone of the other threads.                        *)
Others(t) ==
  \A u \in Threads \ {t} :
    /\ pc'[u] = pc[u] /\ cond'[u] = cond[u] /\ all'[u] = all[u] /\ my'[u] = my[u]
    /\ count'[u] = count[u] /\ toSignal'[u] = toSignal[u] /\ result'[u] = result[u]

(* The types stay, and so does what others have.                           *)
TypedStep(t) == TypeInv' /\ Others(t) /\ numThreads' \in Nat /\ numThreads <= numThreads'

(* The step of a thread changes its own variables, and keeps the types.    *)
LEMMA Typed ==
  ASSUME IInv, NEW t \in Threads, Acts(t) PROVE TypedStep(t)
<1> USE DEF Goto, mutexVars, tableVars, callVars
<1>1. /\ TypeInv /\ Tables(tables) /\ Len(tables) \in Nat /\ LocalInv(t)
      /\ Threads # {} /\ t \in Threads
  BY DEF IInv, Placed, Tables
<1>2. numThreads \in Nat /\ IsFiniteSet(registered)
  BY <1>1, ThreadsAssumption, FS_Subset, FS_CardinalityType DEF TypeInv
<1>3. /\ pc[t] # "idle" => cond[t] \in Conditions
      /\ pc[t] = "unpark" /\ my[t] = Len(tables) =>
           Parked(t) \in Seq(Threads) /\ (Parked(t) # <<>> => <<Head(Parked(t))>> \in Seq(Threads))
      /\ pc[t] = "signal" => toSignal[t] \in Seq(Threads) /\ toSignal[t] # <<>> /\ Tail(toSignal[t]) \in Seq(Threads)
  <2>1. pc[t] # "idle" => cond[t] \in Conditions
    BY <1>1 DEF LocalInv
  <2>2. pc[t] = "unpark" /\ my[t] = Len(tables) => Parked(t) \in Seq(Threads)
    BY UnderTheLock
  <2>3. Parked(t) \in Seq(Threads) /\ Parked(t) # <<>> => <<Head(Parked(t))>> \in Seq(Threads)
    OBVIOUS
  <2>4. pc[t] = "signal" => toSignal[t] \in Seq(Threads) /\ toSignal[t] # <<>> /\ Tail(toSignal[t]) \in Seq(Threads)
    BY <1>1 DEF LocalInv, TypeInv
  <2> QED BY <2>1, <2>2, <2>3, <2>4
<1>4. \A ts : Tables(ts) => Len(EnsureHashtable(ts)) \in Nat
  BY <1>1, EnsureTables
<1>5. "idle" \in Labels /\ "locked" \in Labels /\ "lockHashtable" \in Labels
      /\ "lockBuckets" \in Labels /\ "enqueue" \in Labels /\ "beforeSleep" \in Labels
      /\ "asleep" \in Labels /\ "dequeueSelf" \in Labels /\ "awaitSignal" \in Labels
      /\ "relock" \in Labels /\ "clear" \in Labels /\ "unparkAll" \in Labels
      /\ "unpark" \in Labels /\ "signal" \in Labels
  BY DEF Labels
<1> DEFINE Small == /\ pc' \in [Threads -> Labels] /\ cond' \in [Threads -> Conditions \cup {None}]
                    /\ all' \in [Threads -> BOOLEAN] /\ my' \in [Threads -> Nat]
                    /\ toSignal' \in [Threads -> Seq(Threads)]
                    /\ \A u \in Threads \ {t} :
                         /\ pc'[u] = pc[u] /\ cond'[u] = cond[u] /\ all'[u] = all[u]
                         /\ my'[u] = my[u] /\ toSignal'[u] = toSignal[u]
<1>a. NotifyReturns(t) =>
        /\ pc' \in [Threads -> Labels] /\ cond' \in [Threads -> Conditions \cup {None}]
        /\ all' \in [Threads -> BOOLEAN]
        /\ \A u \in Threads \ {t} : pc'[u] = pc[u] /\ cond'[u] = cond[u] /\ all'[u] = all[u]
  BY <1>1, <1>5 DEF NotifyReturns, TypeInv
<1>b. DequeueSelfLoad(t) => Small
  BY <1>1, <1>5 DEF DequeueSelfLoad, TypeInv
<1>c. UnparkAllLoad(t) => Small
  BY <1>1, <1>5, <1>a DEF UnparkAllLoad, TypeInv
<1>6. CASE \E c \in Conditions : Lock(t, c)
  BY <1>1, <1>2, <1>3, <1>4, <1>5, <1>6 DEF Lock, TypedStep, TypeInv, Others
<1>7. CASE \E c \in Conditions : NotifyOne(t, c)
  BY <1>1, <1>2, <1>4, <1>5, <1>7 DEF NotifyOne, MayNotify, UnparkOneLoad, TypedStep, TypeInv,
     Others
<1>8. CASE \E c \in Conditions : NotifyAll(t, c)
  BY <1>1, <1>2, <1>4, <1>5, <1>8 DEF NotifyAll, MayNotify, TypedStep, TypeInv, Others
<1>9. CASE Unlock(t)
  BY <1>1, <1>2, <1>3, <1>4, <1>5, <1>9 DEF Unlock, ReleaseLock, TypedStep, TypeInv, Others
<1>10. CASE WaitPast(t)
  BY <1>1, <1>2, <1>3, <1>4, <1>5, <1>10 DEF WaitPast, ReleaseLock, TypedStep, TypeInv, Others
<1>11. CASE WaitUntil(t)
  <2>1. /\ registered' \in SUBSET Threads /\ numThreads' = Cardinality(registered')
        /\ numThreads' \in Nat /\ numThreads <= numThreads'
    <3>1. CASE t \in registered
      <4>1. registered \cup {t} = registered
        BY <3>1
      <4>2. registered' = registered /\ numThreads' = numThreads
        BY <1>11, <3>1, <4>1 DEF WaitUntil
      <4> QED BY <1>1, <1>2, <4>2 DEF TypeInv
    <3>2. CASE t \notin registered
      <4>1. Cardinality(registered \cup {t}) = Cardinality(registered) + 1
        BY <1>2, <3>2, FS_AddElement
      <4> QED BY <1>1, <1>2, <1>11, <3>2, <4>1 DEF WaitUntil, TypeInv
    <3> QED BY <3>1, <3>2
  <2>2. /\ pc' \in [Threads -> Labels] /\ my' \in [Threads -> Nat] /\ count' \in [Threads -> Nat]
        /\ \A u \in Threads \ {t} : pc'[u] = pc[u] /\ my'[u] = my[u] /\ count'[u] = count[u]
    <3>1. CASE pc' = [pc EXCEPT ![t] = "lockHashtable"] /\ UNCHANGED my /\ count' = [count EXCEPT ![t] = numThreads']
      BY <1>1, <1>5, <2>1, <3>1 DEF TypeInv
    <3>2. CASE pc' = [pc EXCEPT ![t] = "enqueue"] /\ LoadTable(t, tables) /\ UNCHANGED count
      BY <1>1, <1>4, <1>5, <3>2 DEF TypeInv, LoadTable
    <3> QED BY <1>11, <3>1, <3>2 DEF WaitUntil
  <2>3. UNCHANGED <<mutexVars, hasWaiters, cond, all, toSignal>>
    BY <1>11 DEF WaitUntil
  <2> QED BY <1>1, <2>1, <2>2, <2>3 DEF TypedStep, TypeInv, Others
<1>12. CASE LockHashtable(t)
  BY <1>1, <1>2, <1>3, <1>4, <1>5, <1>12 DEF LockHashtable, TypedStep, TypeInv, Others
<1>13. CASE LockBucket(t)
  BY <1>1, <1>2, <1>3, <1>4, <1>5, <1>13 DEF LockBucket, TypedStep, TypeInv, Others
<1>14. CASE TableWasRehashed(t)
  BY <1>1, <1>2, <1>3, <1>4, <1>5, <1>14 DEF TableWasRehashed, UnlockBuckets, TypedStep,
     TypeInv, Others
<1>15. CASE Rehash(t)
  <2>1. my' \in [Threads -> Nat] /\ \A u \in Threads \ {t} : my'[u] = my[u]
    <3>1. PICK ts : RehashInto(t, ts)
      BY <1>15, RehashTables
    <3> QED BY <1>1, <1>4, <3>1 DEF TypeInv, RehashInto, LoadTable
  <2>2. /\ UNCHANGED <<mutexVars, hasWaiters, numThreads, registered, cond, all, toSignal>>
        /\ count' = [count EXCEPT ![t] = 0] /\ pc' = [pc EXCEPT ![t] = "enqueue"]
    BY <1>15 DEF Rehash
  <2> QED BY <1>1, <1>2, <1>5, <2>1, <2>2 DEF TypedStep, TypeInv, Others
<1>16. CASE EnqueueAgain(t)
  BY <1>1, <1>2, <1>3, <1>4, <1>5, <1>16 DEF EnqueueAgain, TryAgain, LoadTable, TypedStep,
     TypeInv, Others
<1>17. CASE Enqueue(t)
  BY <1>1, <1>2, <1>3, <1>4, <1>5, <1>17 DEF Enqueue, UnderBucketLock, TypedStep, TypeInv, Others
<1>18. CASE BeforeSleep(t)
  BY <1>1, <1>2, <1>3, <1>4, <1>5, <1>18 DEF BeforeSleep, ReleaseLock, TypedStep, TypeInv, Others
<1>19. CASE Woken(t)
  BY <1>1, <1>2, <1>3, <1>4, <1>5, <1>19 DEF Woken, ParkReturns, TypedStep, TypeInv, Others
<1>20. CASE TimesOut(t)
  <2>1. Small /\ UNCHANGED <<mutexVars, hasWaiters, tableVars, callVars>>
    BY <1>b, <1>20 DEF TimesOut, DequeueSelfLoad
  <2> QED BY <1>1, <1>2, <2>1 DEF TypedStep, TypeInv, Others
<1>21. CASE DequeueSelfAgain(t)
  <2>1. Small /\ UNCHANGED <<mutexVars, hasWaiters, tableVars, callVars>>
    BY <1>b, <1>21 DEF DequeueSelfAgain, DequeueSelfLoad
  <2> QED BY <1>1, <1>2, <2>1 DEF TypedStep, TypeInv, Others
<1>22. CASE DequeueSelf(t)
  BY <1>1, <1>2, <1>3, <1>4, <1>5, <1>22 DEF DequeueSelf, UnderBucketLock, ParkReturns,
     TypedStep, TypeInv, Others
<1>23. CASE NotInQueue(t)
  BY <1>1, <1>2, <1>3, <1>4, <1>5, <1>23 DEF NotInQueue, UnderBucketLock, TypedStep, TypeInv, Others
<1>24. CASE AwaitSignal(t)
  BY <1>1, <1>2, <1>3, <1>4, <1>5, <1>24 DEF AwaitSignal, SignalArrived, ParkReturns,
     TypedStep, TypeInv, Others
<1>25. CASE Relock(t)
  BY <1>1, <1>2, <1>3, <1>4, <1>5, <1>25 DEF Relock, TypedStep, TypeInv, Others
<1>26. CASE Clear(t)
  BY <1>1, <1>2, <1>3, <1>4, <1>5, <1>26 DEF Clear, TypedStep, TypeInv, Others
<1>27. CASE BeginUnparkAll(t)
  <2>1. Small /\ UNCHANGED <<mutexVars, hasWaiters, tableVars, count>>
    BY <1>c, <1>27 DEF BeginUnparkAll, UnparkAllLoad
  <2> QED BY <1>1, <1>2, <2>1 DEF TypedStep, TypeInv, Others
<1>28. CASE UnparkOneAgain(t)
  BY <1>1, <1>2, <1>3, <1>4, <1>5, <1>28 DEF UnparkOneAgain, TryAgain, UnparkOneLoad,
     TypedStep, TypeInv, Others
<1>29. CASE UnparkAllAgain(t)
  <2>1. Small /\ UNCHANGED <<mutexVars, hasWaiters, tableVars, count>>
    BY <1>c, <1>29 DEF UnparkAllAgain, UnparkAllLoad
  <2> QED BY <1>1, <1>2, <2>1 DEF TypedStep, TypeInv, Others
<1>30. CASE UnparkOne(t)
  <2>1. /\ pc[t] = "unpark" /\ my[t] = Len(tables) /\ my' = [my EXCEPT ![t] = 0]
        /\ UNCHANGED <<mutexVars, tableVars, address, count>>
        /\ hasWaiters' = hasWaiters \/ hasWaiters' = [hasWaiters EXCEPT ![cond[t]] = FALSE]
    BY <1>30 DEF UnparkOne, UnderBucketLock, TableUnchanged, MyHashtableIsCurrent
  <2>2. Small
    <3>1. CASE Parked(t) = <<>>
      BY <1>1, <1>5, <1>a, <1>30, <2>1, <3>1 DEF UnparkOne, TypeInv
    <3>2. CASE Parked(t) # <<>>
      BY <1>1, <1>3, <1>5, <1>30, <2>1, <3>2 DEF UnparkOne, TypeInv
    <3> QED BY <3>1, <3>2
  <2> HIDE DEF Small
  <2>3. hasWaiters' \in [Conditions -> BOOLEAN]
    BY <1>1, <1>3, <2>1 DEF TypeInv
  <2> QED BY <1>1, <1>2, <2>1, <2>2, <2>3 DEF Small, TypedStep, TypeInv, Others
<1>31. CASE UnparkAll(t)
  <2>1. /\ pc[t] = "unpark" /\ my[t] = Len(tables) /\ my' = [my EXCEPT ![t] = 0]
        /\ UNCHANGED <<mutexVars, hasWaiters, tableVars, address, count>>
    BY <1>31 DEF UnparkAll, UnderBucketLock, TableUnchanged, MyHashtableIsCurrent
  <2>2. Small
    <3>1. CASE Parked(t) = <<>>
      BY <1>1, <1>5, <1>a, <1>31, <2>1, <3>1 DEF UnparkAll, TypeInv
    <3>2. CASE Parked(t) # <<>>
      BY <1>1, <1>3, <1>5, <1>31, <2>1, <3>2 DEF UnparkAll, TypeInv
    <3> QED BY <3>1, <3>2
  <2> QED BY <1>1, <1>2, <2>1, <2>2 DEF TypedStep, TypeInv, Others
<1>32. CASE Signal(t)
  <2>1. Small
    <3>1. CASE Len(toSignal[t]) = 1
      BY <1>1, <1>3, <1>5, <1>a, <1>32, <3>1 DEF Signal, TypeInv
    <3>2. CASE Len(toSignal[t]) # 1
      BY <1>1, <1>3, <1>5, <1>32, <3>2 DEF Signal, TypeInv
    <3> QED BY <3>1, <3>2
  <2>2. UNCHANGED <<mutexVars, hasWaiters, tableVars, count>>
    BY <1>32 DEF Signal
  <2> QED BY <1>1, <1>2, <2>1, <2>2 DEF TypedStep, TypeInv, Others
<1> QED
  BY <1>6, <1>7, <1>8, <1>9, <1>10, <1>11, <1>12, <1>13, <1>14, <1>15, <1>16, <1>17, <1>18,
     <1>19, <1>20, <1>21, <1>22, <1>23, <1>24, <1>25, <1>26, <1>27, <1>28, <1>29, <1>30,
     <1>31, <1>32 DEF Acts, Step
-----------------------------------------------------------------------------
(*               What the steps do to queues, and what not                 *)

(* us has the tables of ts and their buckets, and perhaps more.            *)
Grows(ts, us) ==
  /\ Len(ts) <= Len(us)
  /\ ts # <<>> => us # <<>>
  /\ \A i \in 1..Len(ts) :
       /\ Len(us[i]) = Len(ts[i])
       /\ \A j \in 1..Len(ts[i]) : ts[i][j] # Null => us[i][j] = ts[i][j]

(* No condition gets or loses a waiter.                                    *)
Quiet ==
  /\ Placed(tables', queue', address') /\ Grows(tables, tables')
  /\ Lines' = Lines /\ address' = address /\ toSignal' = toSignal

(* Tables whose empty positions are filled have grown.                     *)
LEMMA FillingGrows ==
  ASSUME NEW ts, NEW us, Tables(ts), Tables(us), Fills(ts, us)
  PROVE  Grows(ts, us) /\ us # <<>> /\ Len(us) \in 1..Len(us)
<1>1. ts \in Seq(Seq(Nat)) /\ us \in Seq(Seq(Nat))
  BY DEF Tables
<1>2. Len(us) \in Nat \ {0} /\ Len(ts) <= Len(us)
  BY <1>1 DEF Fills
<1>3. us # <<>> /\ Len(us) \in 1..Len(us)
  BY <1>1, <1>2
<1> QED
  BY <1>2, <1>3 DEF Fills, Grows

(* A step that leaves tables, queues, addresses and hands alone is quiet.  *)
LEMMA UnchangedQuiet ==
  ASSUME IInv, UNCHANGED <<tables, queue, address, toSignal>> PROVE Quiet
<1>1. Placed(tables', queue', address')
  BY DEF IInv
<1>2. Len(tables) \in Nat
  BY DEF IInv, Placed, Tables
<1>3. Grows(tables, tables')
  BY <1>2 DEF Grows
<1>4. Lines' = Lines
  BY DEF Lines, LinesOf
<1> QED
  BY <1>1, <1>3, <1>4 DEF Quiet

(* There are more buckets in the tables, or one table more after a rehash. *)
LEMMA FilledQuiet ==
  ASSUME IInv, NEW ts, Tables(ts), Len(tables) <= Len(ts), tables # <<>> => ts # <<>>,
         \A i \in 1..Len(tables) : ts[i] = tables[i],
         Placed(ts, queue', address),
         \A c \in Conditions : Waiters(ts, queue', address, c) = Waiters(tables, queue, address, c),
         Tables(tables'), Fills(ts, tables'), UNCHANGED <<address, toSignal>>
  PROVE  Quiet /\ tables' # <<>> /\ Len(tables') \in 1..Len(tables')
<1>1. /\ Placed(tables', queue', address)
      /\ \A c \in Conditions : Waiters(tables', queue', address, c) = Waiters(ts, queue', address, c)
  BY FillingKeepsWaiters
<1>2. Lines' = Lines
  BY <1>1 DEF Lines, LinesOf
<1>3. Grows(ts, tables') /\ tables' # <<>> /\ Len(tables') \in 1..Len(tables')
  BY FillingGrows
<1>4. Grows(tables, tables')
  <2>1. Len(tables) \in Nat /\ Len(ts) \in Nat /\ Len(tables') \in Nat
    BY DEF IInv, Placed, Tables
  <2>2. ASSUME NEW i \in 1..Len(tables)
        PROVE  /\ Len(tables'[i]) = Len(tables[i])
               /\ \A j \in 1..Len(tables[i]) : tables[i][j] # Null => tables'[i][j] = tables[i][j]
    <3>1. i \in 1..Len(ts) /\ ts[i] = tables[i]
      BY <2>1
    <3> QED BY <1>3, <3>1 DEF Grows
  <2>3. Len(tables) <= Len(tables')
    BY <1>3, <2>1 DEF Grows
  <2> QED BY <1>3, <2>2, <2>3 DEF Grows
<1> QED
  BY <1>1, <1>2, <1>3, <1>4 DEF Quiet

(* The tables after a thread has found a bucket for c.                     *)
LoadedFor(c) == /\ tables' # <<>> /\ Len(tables') \in 1..Len(tables')
                /\ BucketIn(tables', Len(tables'), c) # Null

(* A load of a table and a bucket is quiet, from any tables that hold the  *)
(* same waiters.                                                           *)
LEMMA LoadedQuiet ==
  ASSUME IInv, NEW ts, Tables(ts), Len(tables) <= Len(ts), tables # <<>> => ts # <<>>,
         \A i \in 1..Len(tables) : ts[i] = tables[i],
         Placed(ts, queue', address),
         \A c \in Conditions : Waiters(ts, queue', address, c) = Waiters(tables, queue, address, c),
         NEW d \in Conditions, tables' = WithBucket(ts, d), UNCHANGED <<address, toSignal>>,
         Threads # {}
  PROVE  Quiet /\ LoadedFor(d) /\ Len(EnsureHashtable(ts)) = Len(tables')
<1>1. /\ Tables(tables') /\ Fills(ts, tables')
      /\ Len(tables') = Len(EnsureHashtable(ts))
      /\ BucketIn(tables', Len(EnsureHashtable(ts)), d) # Null
  BY WithBucketTables
<1>2. Quiet /\ tables' # <<>> /\ Len(tables') \in 1..Len(tables')
  BY <1>1, FilledQuiet
<1> QED
  BY <1>1, <1>2 DEF LoadedFor

(* The same without a rehash.                                              *)
LEMMA LoadQuiet ==
  ASSUME IInv, NEW d \in Conditions, tables' = WithBucket(tables, d),
         UNCHANGED <<queue, address, toSignal>>, Threads # {}
  PROVE  /\ Quiet /\ LoadedFor(d) /\ Len(EnsureHashtable(tables)) = Len(tables')
         /\ tables # <<>> => Len(tables') = Len(tables)
<1>1. Placed(tables, queue', address) /\ Tables(tables) /\ Len(tables) \in Nat
  BY DEF IInv, Placed, Tables
<1>2. Quiet /\ LoadedFor(d) /\ Len(EnsureHashtable(tables)) = Len(tables')
  BY <1>1, LoadedQuiet
<1> QED
  BY <1>2 DEF EnsureHashtable

(* A thread that rehashes, or finds that it need not.                      *)
LEMMA RehashQuiet ==
  ASSUME IInv, NEW t \in Threads, Rehash(t)
  PROVE  Quiet /\ LoadedFor(cond[t]) /\ my' = [my EXCEPT ![t] = Len(tables')]
<1>1. PICK ts : RehashInto(t, ts)
  BY RehashTables
<1>2. cond[t] \in Conditions
  <2>1. LocalInv(t) /\ pc[t] = "lockBuckets"
    BY DEF IInv, Rehash
  <2> QED BY <2>1 DEF LocalInv
<1>3. UNCHANGED <<address, toSignal>> /\ Threads # {}
  BY DEF Rehash
<1>4. /\ tables' = WithBucket(ts, cond[t])
      /\ my' = [my EXCEPT ![t] = Len(EnsureHashtable(ts))]
  BY <1>1 DEF RehashInto, LoadTable
<1>5. Quiet /\ LoadedFor(cond[t]) /\ Len(EnsureHashtable(ts)) = Len(tables')
  BY <1>1, <1>2, <1>3, <1>4, LoadedQuiet DEF RehashInto
<1> QED
  BY <1>4, <1>5

(* lockHashtable()                                                         *)
LEMMA LockHashtableQuiet ==
  ASSUME IInv, NEW t \in Threads, LockHashtable(t)
  PROVE  Quiet /\ tables' # <<>> /\ my' = [my EXCEPT ![t] = Len(tables')]
<1> DEFINE es == EnsureHashtable(tables)
           us == [es EXCEPT ![Len(es)] = Materialize(@, DOMAIN @)]
<1>1. /\ tables' = us /\ my' = [my EXCEPT ![t] = Len(es)]
      /\ UNCHANGED <<queue, address, toSignal>> /\ Threads # {}
  BY DEF LockHashtable
<1>2. Placed(tables, queue', address) /\ Tables(tables) /\ Len(tables) \in Nat
  BY <1>1 DEF IInv, Placed, Tables
<1>3. Tables(us) /\ Fills(tables, us)
  BY <1>1, <1>2, AllBuckets
<1>4. Len(us) = Len(es)
  <2>1. Tables(es)
    BY <1>1, <1>2, EnsureTables
  <2>2. es \in Seq(Seq(Nat))
    BY <2>1 DEF Tables
  <2> HIDE DEF es
  <2> QED BY <2>2
<1> HIDE DEF us, es
<1>5. Quiet /\ tables' # <<>>
  BY <1>1, <1>2, <1>3, FilledQuiet
<1> QED
  BY <1>1, <1>4, <1>5

(* The waiters and parked threads before a step, as sets of facts.         *)
LEMMA Before ==
  ASSUME IInv
  PROVE  /\ Placed(tables, queue, address) /\ Parks(Lines, address, toSignal)
         /\ Tables(tables) /\ Len(tables) \in Nat /\ Grows(tables, tables)
         /\ Lines \in [Conditions -> Seq(Threads)]
         /\ \A c \in Conditions : Lines[c] = Waiters(tables, queue, address, c) /\ NoDup(Lines[c])
         /\ \A t \in Threads : \A b \in Buckets : Contains(queue[b], t) =>
              /\ address[t] = cond[t] /\ cond[t] \in Conditions
              /\ Contains(Lines[cond[t]], t)
<1>1. Placed(tables, queue, address) /\ Parks(Lines, address, toSignal)
  BY DEF IInv
<1>2. Tables(tables) /\ Len(tables) \in Nat
  BY <1>1 DEF Placed, Tables
<1>3. Grows(tables, tables)
  BY <1>2 DEF Grows
<1>4. /\ Lines \in [Conditions -> Seq(Threads)]
      /\ \A c \in Conditions : Lines[c] = Waiters(tables, queue, address, c) /\ NoDup(Lines[c])
  BY <1>1 DEF Parks, Lines, LinesOf
<1>5. ASSUME NEW t \in Threads, NEW b \in Buckets, Contains(queue[b], t)
      PROVE  /\ address[t] = cond[t] /\ cond[t] \in Conditions
             /\ Contains(Lines[cond[t]], t)
  <2>1. address[t] \in Conditions
    BY <1>1, <1>5 DEF Placed
  <2>2. address[t] = cond[t]
    <3>1. LocalInv(t)
      BY DEF IInv
    <3> QED BY <2>1, <3>1, NoneAssumption DEF LocalInv
  <2>3. Contains(Waiters(tables, queue, address, address[t]), t)
    BY <1>1, <1>5, <2>1, WaitersAre
  <2> QED BY <1>4, <2>1, <2>2, <2>3
<1> QED
  BY <1>1, <1>2, <1>3, <1>4, <1>5

(* The thread is queued.                                                   *)
LEMMA EnqueueEffect ==
  ASSUME IInv, NEW t \in Threads, Enqueue(t)
  PROVE  /\ cond[t] \in Conditions /\ tables # <<>> /\ address[t] = None
         /\ Placed(tables', queue', address')
         /\ Joined(Lines, cond[t], t, Lines')
         /\ Updated(address, t, cond[t], address')
         /\ tables' = tables /\ toSignal' = toSignal
<1>1. /\ pc[t] = "enqueue" /\ my[t] = Len(tables)
      /\ Updated(address, t, cond[t], address')
      /\ Joined(queue, MyBucket(t), t, queue')
      /\ tables' = tables /\ toSignal' = toSignal
  BY DEF Enqueue, UnderBucketLock, TableUnchanged, MyHashtableIsCurrent, tableVars,
         Updated, Joined
<1>2. cond[t] \in Conditions /\ tables # <<>> /\ IsBucketOf(tables, cond[t], MyBucket(t))
  BY <1>1, UnderTheLock DEF IsBucketOf
<1>3. address[t] = None
  <2>1. LocalInv(t)
    BY DEF IInv
  <2> QED BY <1>1, <2>1 DEF LocalInv, InPark
<1>4. Placed(tables, queue, address)
  BY DEF IInv
<1>5. /\ Placed(tables, queue', address')
      /\ Joined(LinesOf(tables, queue, address), cond[t], t, LinesOf(tables, queue', address'))
  BY <1>1, <1>2, <1>3, <1>4, EnqueueAddsWaiter
<1> QED
  BY <1>1, <1>2, <1>3, <1>5 DEF Lines

(* The thread takes itself out of the queue.                               *)
LEMMA DequeueSelfEffect ==
  ASSUME IInv, NEW t \in Threads, DequeueSelf(t)
  PROVE  /\ cond[t] \in Conditions /\ Contains(Lines[cond[t]], t)
         /\ Placed(tables', queue', address')
         /\ Kept(Lines, cond[t], Threads \ {t}, Lines')
         /\ Updated(address, t, None, address')
         /\ tables' = tables /\ toSignal' = toSignal
<1> DEFINE K == Threads \ {t}
           V == LinesOf(tables, queue', address)
<1>1. /\ pc[t] = "dequeueSelf" /\ my[t] = Len(tables)
      /\ Updated(address, t, None, address')
      /\ Contains(queue[MyBucket(t)], t)
      /\ Kept(queue, MyBucket(t), K, queue')
      /\ tables' = tables /\ toSignal' = toSignal
  BY DEF DequeueSelf, UnderBucketLock, TableUnchanged, MyHashtableIsCurrent, tableVars,
         ParkReturns, Updated, Kept
<1>2. /\ cond[t] \in Conditions /\ tables # <<>> /\ IsBucketOf(tables, cond[t], MyBucket(t))
      /\ MyBucket(t) \in Buckets
  BY <1>1, UnderTheLock DEF IsBucketOf
<1>3. address[t] = cond[t] /\ Contains(Lines[cond[t]], t)
  BY <1>1, <1>2, Before
<1>4. Placed(tables, queue, address)
  BY DEF IInv
<1>5. \A x \in Threads : x \notin K => address[x] = cond[t]
  BY <1>3
<1>6. t \notin K
  OBVIOUS
<1> HIDE DEF K, V
<1>7. Placed(tables, queue', address) /\ Kept(Lines, cond[t], K, V)
  BY <1>1, <1>2, <1>4, <1>5, RemovingWaiters DEF Lines, V
<1>8. \A b \in Buckets : ~Contains(queue'[b], t)
  <2>1. Lines \in [Conditions -> Seq(Threads)] /\ Lines[cond[t]] \in Seq(Threads)
    BY <1>2, Before
  <2>2. V[cond[t]] = Selected(Lines[cond[t]], K)
    BY <1>2, <1>7, <2>1 DEF Kept
  <2>3. ~Contains(V[cond[t]], t)
    BY <1>6, <2>1, <2>2, SelectedElements
  <2>4. V[cond[t]] = Waiters(tables, queue', address, cond[t])
    BY <1>2 DEF V, LinesOf
  <2> QED BY <1>2, <1>3, <1>7, <2>3, <2>4, WaitersAre
<1>9. /\ Placed(tables, queue', address')
      /\ \A d \in Conditions : Waiters(tables, queue', address', d) = Waiters(tables, queue', address, d)
  BY <1>1, <1>7, <1>8, ForgettingAddress
<1>10. Lines' = V
  BY <1>1, <1>9 DEF Lines, LinesOf, V
<1> QED
  BY <1>1, <1>2, <1>3, <1>7, <1>9, <1>10 DEF K

(* Threads of the notified condition leave its queue.                      *)
LEMMA DequeueEffect ==
  ASSUME IInv, NEW t \in Threads, pc[t] = "unpark", my[t] = Len(tables),
         NEW K, \A x \in Threads : x \notin K => address[x] = cond[t],
         Kept(queue, MyBucket(t), K, queue'), UNCHANGED <<tables, address>>
  PROVE  Placed(tables', queue', address') /\ Kept(Lines, cond[t], K, Lines')
<1>1. cond[t] \in Conditions /\ IsBucketOf(tables, cond[t], MyBucket(t))
  BY UnderTheLock DEF IsBucketOf
<1>2. Placed(tables, queue, address)
  BY DEF IInv
<1>3. /\ Placed(tables, queue', address)
      /\ Kept(LinesOf(tables, queue, address), cond[t], K, LinesOf(tables, queue', address))
  BY <1>1, <1>2, RemovingWaiters
<1> QED
  BY <1>3 DEF Lines

(* What a notification dequeues.                                           *)
HandedOver(t, r, q) ==
  /\ Placed(tables', queue', address')
  /\ Updated(Lines, cond[t], q, Lines')
  /\ Updated(toSignal, t, r, toSignal')
  /\ address' = address /\ tables' = tables /\ cond[t] \in Conditions

(* unparkOne hands the first waiter over, if there is one.                 *)
LEMMA UnparkOneEffect ==
  ASSUME IInv, NEW t \in Threads, UnparkOne(t)
  PROVE  /\ cond[t] \in Conditions /\ Parked(t) = Lines[cond[t]]
         /\ Lines[cond[t]] = <<>> => Quiet
         /\ Lines[cond[t]] # <<>> =>
              HandedOver(t, <<Head(Lines[cond[t]])>>, Tail(Lines[cond[t]]))
<1>1. /\ pc[t] = "unpark" /\ my[t] = Len(tables)
      /\ UNCHANGED <<tables, address>>
      /\ queue' = [queue EXCEPT ![MyBucket(t)] =
                     IF Parked(t) = <<>> THEN queue[MyBucket(t)]
                     ELSE Selected(queue[MyBucket(t)], Threads \ {Head(Parked(t))})]
      /\ IF Parked(t) = <<>> THEN UNCHANGED toSignal
         ELSE toSignal' = [toSignal EXCEPT ![t] = <<Head(Parked(t))>>]
  BY DEF UnparkOne, UnderBucketLock, TableUnchanged, MyHashtableIsCurrent, tableVars
<1>2. /\ cond[t] \in Conditions /\ MyBucket(t) \in Buckets
      /\ Parked(t) = Lines[cond[t]] /\ Parked(t) \in Seq(Threads)
  BY <1>1, UnderTheLock
<1>3. CASE Parked(t) = <<>>
  <2>1. queue' = queue
    <3>1. queue \in [Buckets -> Seq(Threads)]
      BY DEF IInv, Placed
    <3> QED BY <1>1, <1>2, <1>3, <3>1
  <2>2. Quiet
    BY <1>1, <1>3, <2>1, UnchangedQuiet
  <2> QED BY <1>2, <1>3, <2>2
<1>4. CASE Parked(t) # <<>>
  <2> DEFINE s == Parked(t)
             h == Head(s)
             K == Threads \ {h}
  <2> HIDE DEF s
  <2>1. s \in Seq(Threads) /\ s # <<>> /\ s = Lines[cond[t]] /\ NoDup(s)
    BY <1>2, <1>4, Before DEF s
  <2>2. /\ h \in Threads /\ Contains(s, h) /\ Selected(s, Threads \ {h}) = Tail(s)
    BY <2>1, WithoutHead
  <2>3. address[h] = cond[t]
    <3>1. Parks(Lines, address, toSignal)
      BY Before
    <3> QED BY <1>2, <2>1, <2>2, <3>1 DEF Parks
  <2> HIDE DEF h
  <2>4. \A x \in Threads : x \notin K => address[x] = cond[t]
    BY <2>2, <2>3
  <2>5. /\ Kept(queue, MyBucket(t), K, queue')
        /\ Updated(toSignal, t, <<h>>, toSignal')
    BY <1>1, <1>4 DEF s, h, Kept, Updated
  <2>6. Selected(s, K) = Tail(s)
    BY <2>2
  <2> HIDE DEF K
  <2>7. Placed(tables', queue', address') /\ Kept(Lines, cond[t], K, Lines')
    BY <1>1, <2>4, <2>5, DequeueEffect
  <2>8. Updated(Lines, cond[t], Tail(s), Lines')
    BY <2>1, <2>6, <2>7 DEF Kept, Updated
  <2>9. HandedOver(t, <<h>>, Tail(s))
    BY <1>1, <1>2, <2>5, <2>7, <2>8 DEF HandedOver
  <2> QED BY <1>2, <2>1, <2>9 DEF h
<1> QED
  BY <1>3, <1>4

(* unparkCount hands all waiters over.                                     *)
LEMMA UnparkAllEffect ==
  ASSUME IInv, NEW t \in Threads, UnparkAll(t)
  PROVE  /\ cond[t] \in Conditions /\ Parked(t) = Lines[cond[t]]
         /\ HandedOver(t, Lines[cond[t]], <<>>)
<1> DEFINE K == Threads \ ParkedOn(cond[t])
           s == Lines[cond[t]]
<1>1. /\ pc[t] = "unpark" /\ my[t] = Len(tables)
      /\ UNCHANGED <<tables, address>>
      /\ Kept(queue, MyBucket(t), K, queue')
      /\ IF Parked(t) = <<>> THEN UNCHANGED toSignal
         ELSE toSignal' = [toSignal EXCEPT ![t] = Parked(t)]
  BY DEF UnparkAll, UnderBucketLock, TableUnchanged, MyHashtableIsCurrent, tableVars, Kept
<1>2. /\ cond[t] \in Conditions /\ Parked(t) = Lines[cond[t]]
  BY <1>1, UnderTheLock
<1>3. \A x \in Threads : x \notin K <=> address[x] = cond[t]
  BY DEF ParkedOn
<1> HIDE DEF K
<1>4. Placed(tables', queue', address') /\ Kept(Lines, cond[t], K, Lines')
  BY <1>1, <1>3, DequeueEffect
<1>5. Selected(s, K) = <<>>
  <2>1. s \in Seq(Threads) /\ \A x : Contains(s, x) => x \notin K
    <3>1. Parks(Lines, address, toSignal)
      BY Before
    <3> QED BY <1>2, <1>3, <3>1 DEF Parks
  <2> HIDE DEF s
  <2>2. /\ Selected(s, K) \in Seq(Threads)
        /\ \A x : Contains(Selected(s, K), x) <=> Contains(s, x) /\ x \in K
    BY <2>1, SelectedElements
  <2> QED BY <2>1, <2>2, NoElements
<1>6. Updated(Lines, cond[t], <<>>, Lines')
  BY <1>4, <1>5 DEF Kept, Updated
<1>7. Updated(toSignal, t, Parked(t), toSignal')
  <2>1. LocalInv(t) /\ toSignal \in [Threads -> Seq(Threads)]
    BY DEF IInv, TypeInv
  <2>2. toSignal[t] = <<>>
    BY <1>1, <2>1 DEF LocalInv
  <2> QED BY <1>1, <2>1, <2>2 DEF Updated
<1> QED
  BY <1>1, <1>2, <1>4, <1>6, <1>7 DEF HandedOver

(* A signal frees the first thread in hand from its address and its hand.  *)
LEMMA SignalEffect ==
  ASSUME IInv, NEW t \in Threads, Signal(t)
  PROVE  /\ toSignal[t] # <<>> /\ tables' = tables
         /\ Placed(tables', queue', address') /\ Lines' = Lines
         /\ address' = [address EXCEPT ![Head(toSignal[t])] = None]
         /\ toSignal' = [toSignal EXCEPT ![t] = Tail(@)]
         /\ Parks(Lines', address', toSignal')
<1>1. /\ pc[t] = "signal" /\ tables' = tables /\ queue' = queue
      /\ address' = [address EXCEPT ![Head(toSignal[t])] = None]
      /\ toSignal' = [toSignal EXCEPT ![t] = Tail(@)]
  BY DEF Signal, tableVars
<1>2. toSignal[t] # <<>>
  <2>1. LocalInv(t)
    BY DEF IInv
  <2> QED BY <1>1, <2>1 DEF LocalInv
<1>3. Placed(tables, queue, address) /\ Parks(Lines, address, toSignal)
  BY DEF IInv
<1>4. /\ Parks(Lines, address', toSignal')
      /\ Head(toSignal[t]) \in Threads
      /\ \A d \in Conditions : ~Contains(Lines[d], Head(toSignal[t]))
  <2>1. /\ Updated(address, Head(toSignal[t]), None, address')
        /\ Updated(toSignal, t, Tail(toSignal[t]), toSignal')
    BY <1>1 DEF Updated
  <2> QED BY <1>2, <1>3, <2>1, ParksAfterSignal
<1> DEFINE h == Head(toSignal[t])
<1> HIDE DEF h
<1>5. h \in Threads /\ \A b \in Buckets : ~Contains(queue[b], h)
  <2>1. h \in Threads /\ \A d \in Conditions : ~Contains(Lines[d], h)
    BY <1>4 DEF h
  <2> QED BY <2>1, Before
<1>6. Updated(address, h, None, address')
  BY <1>1 DEF h, Updated
<1>7. /\ Placed(tables, queue, address')
      /\ \A d \in Conditions : Waiters(tables, queue, address', d) = Waiters(tables, queue, address, d)
  BY <1>3, <1>5, <1>6, ForgettingAddress
<1>8. Lines' = Lines
  BY <1>1, <1>7 DEF Lines, LinesOf
<1> QED
  BY <1>1, <1>2, <1>4, <1>7, <1>8

-----------------------------------------------------------------------------
(*                        The invariant is inductive                       *)

(* Actions that leave tables, queues, addresses and hands alone.           *)
LEMMA QuietActions ==
  ASSUME IInv, NEW t \in Threads,
         \/ \E c \in Conditions : Lock(t, c) \/ NotifyAll(t, c)
         \/ Unlock(t) \/ WaitPast(t) \/ LockBucket(t) \/ TableWasRehashed(t)
         \/ BeforeSleep(t) \/ Woken(t) \/ TimesOut(t) \/ DequeueSelfAgain(t)
         \/ NotInQueue(t) \/ AwaitSignal(t) \/ Relock(t) \/ Clear(t)
         \/ BeginUnparkAll(t) \/ UnparkAllAgain(t)
  PROVE  UNCHANGED <<tables, queue, address, toSignal>> /\ Quiet
<1> USE DEF Goto, mutexVars, tableVars, callVars
<1>1. CASE AwaitSignal(t)
  <2>1. address \in [Threads -> Conditions \cup {None}] /\ address[t] = None
    BY <1>1 DEF IInv, Placed, AwaitSignal, SignalArrived
  <2>2. address' = address
    BY <1>1, <2>1 DEF AwaitSignal
  <2>3. UNCHANGED <<tables, queue, address, toSignal>>
    BY <1>1, <2>2 DEF AwaitSignal, ParkReturns
  <2> QED BY <2>3, UnchangedQuiet
<1>2. CASE \/ \E c \in Conditions : Lock(t, c) \/ NotifyAll(t, c)
           \/ Unlock(t) \/ WaitPast(t) \/ LockBucket(t) \/ TableWasRehashed(t)
           \/ BeforeSleep(t) \/ Woken(t) \/ TimesOut(t) \/ DequeueSelfAgain(t)
           \/ NotInQueue(t) \/ Relock(t) \/ Clear(t)
           \/ BeginUnparkAll(t) \/ UnparkAllAgain(t)
  <2>1. UNCHANGED <<tables, queue, address, toSignal>>
    BY <1>2 DEF Lock, NotifyAll, Unlock, WaitPast, LockBucket, TableWasRehashed, BeforeSleep,
                Woken, TimesOut, DequeueSelfAgain, NotInQueue, Relock, Clear, BeginUnparkAll,
                UnparkAllAgain, ParkReturns, DequeueSelfLoad, UnparkAllLoad
  <2> QED BY <2>1, UnchangedQuiet
<1> QED
  BY <1>1, <1>2

(* Actions that look for a bucket in the current table, or make it.        *)
LEMMA LoadActions ==
  ASSUME IInv, NEW t \in Threads
  PROVE  /\ \A c \in Conditions : NotifyOne(t, c) =>
              Quiet /\ LoadedFor(c) /\ my' = [my EXCEPT ![t] = Len(tables')]
         /\ UnparkOneAgain(t) \/ EnqueueAgain(t) =>
              Quiet /\ LoadedFor(cond[t]) /\ my' = [my EXCEPT ![t] = Len(tables')]
         /\ WaitUntil(t) /\ pc'[t] = "enqueue" =>
              Quiet /\ LoadedFor(cond[t]) /\ my' = [my EXCEPT ![t] = Len(tables')]
         /\ WaitUntil(t) /\ pc'[t] # "enqueue" => Quiet /\ tables' = tables
<1>0. /\ Threads # {} /\ LocalInv(t) /\ TypeInv /\ FlagInv /\ Len(tables) \in Nat
      /\ tables # <<>> <=> Len(tables) # 0
  BY DEF IInv, Placed, Tables
<1>1. ASSUME NEW c \in Conditions, NotifyOne(t, c)
      PROVE  Quiet /\ LoadedFor(c) /\ my' = [my EXCEPT ![t] = Len(tables')]
  <2>1. /\ tables' = WithBucket(tables, c) /\ my' = [my EXCEPT ![t] = Len(tables)]
        /\ UNCHANGED <<queue, address, toSignal>> /\ tables # <<>>
    BY <1>0, <1>1 DEF NotifyOne, MayNotify, UnparkOneLoad, FlagInv
  <2>2. Quiet /\ LoadedFor(c) /\ Len(tables') = Len(tables)
    BY <1>0, <2>1, LoadQuiet
  <2> QED BY <2>1, <2>2
<1>2. ASSUME UnparkOneAgain(t) \/ EnqueueAgain(t)
      PROVE  Quiet /\ LoadedFor(cond[t]) /\ my' = [my EXCEPT ![t] = Len(tables')]
  <2>1. cond[t] \in Conditions /\ tables # <<>>
    BY <1>0, <1>2 DEF UnparkOneAgain, EnqueueAgain, TryAgain, LocalInv
  <2>2. /\ tables' = WithBucket(tables, cond[t])
        /\ UNCHANGED <<queue, address, toSignal>>
        /\ \/ my' = [my EXCEPT ![t] = Len(tables)]
           \/ my' = [my EXCEPT ![t] = Len(EnsureHashtable(tables))]
    BY <1>2 DEF UnparkOneAgain, EnqueueAgain, UnparkOneLoad, LoadTable
  <2>3. /\ Quiet /\ LoadedFor(cond[t]) /\ Len(tables') = Len(tables)
        /\ Len(EnsureHashtable(tables)) = Len(tables')
    BY <1>0, <2>1, <2>2, LoadQuiet
  <2> QED BY <2>2, <2>3
<1>3. ASSUME WaitUntil(t), pc'[t] = "enqueue"
      PROVE  Quiet /\ LoadedFor(cond[t]) /\ my' = [my EXCEPT ![t] = Len(tables')]
  <2>1. cond[t] \in Conditions
    BY <1>0, <1>3 DEF WaitUntil, LocalInv
  <2>2. /\ tables' = WithBucket(tables, cond[t])
        /\ my' = [my EXCEPT ![t] = Len(EnsureHashtable(tables))]
    <3>1. pc' # [pc EXCEPT ![t] = "lockHashtable"]
      BY <1>0, <1>3 DEF TypeInv
    <3> QED BY <1>3, <3>1 DEF WaitUntil, LoadTable, Goto
  <2>3. UNCHANGED <<queue, address, toSignal>>
    BY <1>3 DEF WaitUntil
  <2>4. Quiet /\ LoadedFor(cond[t]) /\ Len(EnsureHashtable(tables)) = Len(tables')
    BY <1>0, <2>1, <2>2, <2>3, LoadQuiet
  <2> QED BY <2>2, <2>4
<1>4. ASSUME WaitUntil(t), pc'[t] # "enqueue"
      PROVE  Quiet /\ tables' = tables
  <2>1. pc' # [pc EXCEPT ![t] = "enqueue"]
    BY <1>0, <1>4 DEF TypeInv
  <2>2. UNCHANGED <<tables, queue, address, toSignal>>
    BY <1>4, <2>1 DEF WaitUntil, Goto
  <2> QED BY <2>2, UnchangedQuiet
<1> QED
  BY <1>1, <1>2, <1>3, <1>4

(* How a step changes queues, addresses and hands.                         *)
Kind(t) ==
  \/ Quiet
  \/ pc[t] = "enqueue" /\ Enqueue(t)
  \/ DequeueSelf(t)
  \/ UnparkOne(t) /\ HandedOver(t, <<Head(Lines[cond[t]])>>, Tail(Lines[cond[t]]))
       /\ Lines[cond[t]] # <<>>
  \/ UnparkAll(t) /\ HandedOver(t, Lines[cond[t]], <<>>)
  \/ Signal(t)

(* Every step is of one of these kinds.                                    *)
LEMMA Kinds ==
  ASSUME IInv, NEW t \in Threads, Acts(t) PROVE Kind(t)
<1>1. CASE \/ \E c \in Conditions : Lock(t, c) \/ NotifyAll(t, c)
           \/ Unlock(t) \/ WaitPast(t) \/ LockBucket(t) \/ TableWasRehashed(t)
           \/ BeforeSleep(t) \/ Woken(t) \/ TimesOut(t) \/ DequeueSelfAgain(t)
           \/ NotInQueue(t) \/ AwaitSignal(t) \/ Relock(t) \/ Clear(t)
           \/ BeginUnparkAll(t) \/ UnparkAllAgain(t)
  BY <1>1, QuietActions DEF Kind
<1>2. CASE \/ \E c \in Conditions : NotifyOne(t, c)
           \/ UnparkOneAgain(t) \/ EnqueueAgain(t) \/ WaitUntil(t)
  BY <1>2, LoadActions DEF Kind
<1>3. CASE Rehash(t)
  BY <1>3, RehashQuiet DEF Kind
<1>4. CASE LockHashtable(t)
  BY <1>4, LockHashtableQuiet DEF Kind
<1>5. CASE Enqueue(t)
  BY <1>5 DEF Kind, Enqueue, UnderBucketLock
<1>6. CASE DequeueSelf(t) \/ Signal(t)
  BY <1>6 DEF Kind
<1>7. CASE UnparkOne(t)
  BY <1>7, UnparkOneEffect DEF Kind
<1>8. CASE UnparkAll(t)
  BY <1>8, UnparkAllEffect DEF Kind
<1> QED
  BY <1>1, <1>2, <1>3, <1>4, <1>5, <1>6, <1>7, <1>8 DEF Acts, Step

(* Where the parked threads are, after a step.                             *)
LEMMA PlacesStep ==
  ASSUME IInv, NEW t \in Threads, Acts(t)
  PROVE  /\ Placed(tables', queue', address') /\ Parks(Lines', address', toSignal')
         /\ Grows(tables, tables')
         /\ \A u \in Threads : \/ address'[u] = address[u]
                               \/ address'[u] = None
                               \/ u = t /\ Enqueue(t)
<1>0. /\ Placed(tables, queue, address) /\ Parks(Lines, address, toSignal)
      /\ Grows(tables, tables) /\ address \in [Threads -> Conditions \cup {None}]
      /\ Lines \in [Conditions -> Seq(Threads)]
  BY Before DEF Placed
<1>1. CASE Quiet
  BY <1>0, <1>1 DEF Quiet
<1>2. CASE Enqueue(t)
  <2>1. /\ cond[t] \in Conditions /\ address[t] = None
        /\ Placed(tables', queue', address')
        /\ Joined(Lines, cond[t], t, Lines')
        /\ Updated(address, t, cond[t], address')
        /\ tables' = tables /\ toSignal' = toSignal
    BY <1>2, EnqueueEffect
  <2>2. Parks(Lines', address', toSignal)
    BY <1>0, <2>1, ParksAfterEnqueue
  <2>3. \A u \in Threads : u # t => address'[u] = address[u]
    BY <1>0, <2>1 DEF Updated
  <2> QED BY <1>0, <1>2, <2>1, <2>2, <2>3
<1>3. CASE DequeueSelf(t)
  <2> DEFINE K == Threads \ {t}
  <2>1. /\ cond[t] \in Conditions /\ Contains(Lines[cond[t]], t)
        /\ Placed(tables', queue', address')
        /\ Kept(Lines, cond[t], K, Lines')
        /\ Updated(address, t, None, address')
        /\ tables' = tables /\ toSignal' = toSignal
    BY <1>3, DequeueSelfEffect
  <2>2. K = Threads \ {t}
    OBVIOUS
  <2> HIDE DEF K
  <2>3. Parks(Lines', address', toSignal)
    BY <1>0, <2>1, <2>2, ParksAfterTimeOut
  <2>4. \A u \in Threads : address'[u] = address[u] \/ address'[u] = None
    BY <1>0, <2>1 DEF Updated
  <2> QED BY <1>0, <2>1, <2>3, <2>4
<1>4. ASSUME NEW r \in Seq(Threads), NEW q \in Seq(Threads), HandedOver(t, r, q),
             pc[t] = "unpark", NoDup(r), NoDup(q),
             \A x : Contains(r, x) => Contains(Lines[cond[t]], x),
             \A x : Contains(q, x) <=> Contains(Lines[cond[t]], x) /\ ~Contains(r, x)
      PROVE  /\ Placed(tables', queue', address') /\ Parks(Lines', address', toSignal')
             /\ Grows(tables, tables') /\ address' = address
  <2>1. toSignal[t] = <<>>
    <3>1. LocalInv(t)
      BY DEF IInv
    <3> QED BY <1>4, <3>1 DEF LocalInv
  <2>2. /\ Placed(tables', queue', address')
        /\ Updated(Lines, cond[t], q, Lines') /\ Updated(toSignal, t, r, toSignal')
        /\ address' = address /\ tables' = tables /\ cond[t] \in Conditions
    BY <1>4 DEF HandedOver
  <2>3. Parks(Lines', address, toSignal')
    BY <1>0, <1>4, <2>1, <2>2, ParksAfterHandOver
  <2> QED BY <1>0, <2>2, <2>3
<1>5. CASE UnparkOne(t) /\ Lines[cond[t]] # <<>>
           /\ HandedOver(t, <<Head(Lines[cond[t]])>>, Tail(Lines[cond[t]]))
  <2> DEFINE s == Lines[cond[t]]
             r == <<Head(s)>>
  <2>1. s \in Seq(Threads) /\ NoDup(s) /\ s # <<>> /\ pc[t] = "unpark"
    BY <1>0, <1>5, Before DEF HandedOver, UnparkOne, UnderBucketLock
  <2>2. HandedOver(t, r, Tail(s))
    BY <1>5
  <2>3. s = Lines[cond[t]]
    OBVIOUS
  <2> HIDE DEF s
  <2>4. /\ Head(s) \in Threads /\ Contains(s, Head(s))
        /\ Tail(s) \in Seq(Threads) /\ NoDup(Tail(s))
        /\ \A x : Contains(Tail(s), x) <=> Contains(s, x) /\ x # Head(s)
    BY <2>1, WithoutHead
  <2>5. r \in Seq(Threads) /\ NoDup(r) /\ \A x : Contains(r, x) <=> x = Head(s)
    BY <2>4 DEF NoDup, Contains
  <2> HIDE DEF r
  <2>6. /\ \A x : Contains(r, x) => Contains(Lines[cond[t]], x)
        /\ \A x : Contains(Tail(s), x) <=> Contains(Lines[cond[t]], x) /\ ~Contains(r, x)
    BY <2>3, <2>4, <2>5
  <2>7. /\ Placed(tables', queue', address') /\ Parks(Lines', address', toSignal')
        /\ Grows(tables, tables') /\ address' = address
    BY <1>4, <2>1, <2>2, <2>4, <2>5, <2>6
  <2> QED BY <2>7
<1>6. CASE UnparkAll(t) /\ HandedOver(t, Lines[cond[t]], <<>>)
  <2> DEFINE s == Lines[cond[t]]
             q == <<>>
  <2>1. s \in Seq(Threads) /\ NoDup(s) /\ pc[t] = "unpark"
    BY <1>0, <1>6, Before DEF HandedOver, UnparkAll, UnderBucketLock
  <2>2. q \in Seq(Threads) /\ NoDup(q) /\ \A x : ~Contains(q, x)
    BY DEF NoDup, Contains
  <2>3. HandedOver(t, s, q) /\ s = Lines[cond[t]]
    BY <1>6
  <2> HIDE DEF s, q
  <2>4. /\ \A x : Contains(s, x) => Contains(Lines[cond[t]], x)
        /\ \A x : Contains(q, x) <=> Contains(Lines[cond[t]], x) /\ ~Contains(s, x)
    BY <2>2, <2>3
  <2>5. /\ Placed(tables', queue', address') /\ Parks(Lines', address', toSignal')
        /\ Grows(tables, tables') /\ address' = address
    BY <1>4, <2>1, <2>2, <2>3, <2>4
  <2> QED BY <2>5
<1>7. CASE Signal(t)
  <2>1. /\ tables' = tables /\ toSignal[t] # <<>>
        /\ Placed(tables', queue', address')
        /\ address' = [address EXCEPT ![Head(toSignal[t])] = None]
        /\ Parks(Lines', address', toSignal')
    BY <1>7, SignalEffect
  <2>2. \A u \in Threads : address'[u] = address[u] \/ address'[u] = None
    BY <1>0, <2>1
  <2> QED BY <1>0, <2>1, <2>2
<1> QED
  BY <1>1, <1>2, <1>3, <1>5, <1>6, <1>7, Kinds DEF Kind

(* A bucket stays where it is.                                             *)
LEMMA BucketStays ==
  ASSUME NEW ts, NEW us, Tables(ts), Tables(us), Grows(ts, us), NEW i \in 1..Len(ts),
         NEW c \in Conditions, BucketIn(ts, i, c) # Null
  PROVE  i \in 1..Len(us) /\ BucketIn(us, i, c) # Null
<1>1. Len(ts) \in Nat /\ Len(us) \in Nat /\ Len(ts) <= Len(us)
  BY DEF Tables, Grows
<1>2. /\ Len(us[i]) = Len(ts[i])
      /\ \A j \in 1..Len(ts[i]) : ts[i][j] # Null => us[i][j] = ts[i][j]
  BY DEF Grows
<1>3. Index(c, Len(ts[i])) \in 1..Len(ts[i])
  BY BucketRange
<1> QED
  BY <1>1, <1>2, <1>3 DEF BucketIn

(* What the other threads know stays true.                                 *)
LEMMA OthersLocal ==
  ASSUME IInv, NEW t \in Threads, Acts(t), NEW u \in Threads, u # t PROVE LocalInv(u)'
<1>1. LocalInv(u) /\ Tables(tables)
  BY DEF IInv, Placed
<1>2. TypedStep(t)
  BY Typed
<1>3. /\ pc'[u] = pc[u] /\ cond'[u] = cond[u] /\ all'[u] = all[u] /\ my'[u] = my[u]
      /\ count'[u] = count[u] /\ toSignal'[u] = toSignal[u]
      /\ numThreads' \in Nat /\ numThreads <= numThreads'
  BY <1>2 DEF TypedStep, Others
<1>4. /\ Tables(tables') /\ Grows(tables, tables')
      /\ address'[u] = address[u] \/ address'[u] = None
  BY PlacesStep DEF Placed
<1>5. numThreads \in Nat
  BY ThreadsAssumption, FS_Subset, FS_CardinalityType DEF IInv, TypeInv
<1>6. /\ tables # <<>> => tables' # <<>>
      /\ my[u] \in 1..Len(tables) => my[u] \in 1..Len(tables')
  BY <1>1, <1>4 DEF Grows, Tables
<1>7. pc[u] \in {"enqueue", "dequeueSelf", "unpark"} =>
        my[u] \in 1..Len(tables') /\ BucketIn(tables', my[u], cond[u]) # Null
  <2> SUFFICES ASSUME pc[u] \in {"enqueue", "dequeueSelf", "unpark"}
               PROVE  my[u] \in 1..Len(tables') /\ BucketIn(tables', my[u], cond[u]) # Null
    OBVIOUS
  <2>1. cond[u] \in Conditions /\ my[u] \in 1..Len(tables) /\ BucketIn(tables, my[u], cond[u]) # Null
    BY <1>1 DEF LocalInv
  <2> QED BY <1>1, <1>4, <2>1, BucketStays
<1>8. pc[u] \in {"lockHashtable", "lockBuckets"} => count[u] \in 1..numThreads'
  BY <1>1, <1>3, <1>5 DEF LocalInv
<1> QED
  BY <1>1, <1>3, <1>4, <1>6, <1>7, <1>8 DEF LocalInv, InPark

(* The lock's holder, if the step takes and releases none.                 *)
LEMMA HolderKept ==
  ASSUME IInv, NEW t \in Threads, Others(t), holder' = holder,
         pc'[t] \in Holding => holder[cond'[t]] = t,
         \A c \in Conditions : holder[c] = t => cond'[t] = c /\ pc'[t] \in MayHold
  PROVE  HolderInv'
<1>1. HolderInv
  BY DEF IInv
<1>2. ASSUME NEW u \in Threads
      PROVE  /\ pc'[u] \in Holding => holder'[cond'[u]] = u
             /\ \A c \in Conditions : holder'[c] = u => cond'[u] = c /\ pc'[u] \in MayHold
  <2>1. CASE u = t
    BY <2>1
  <2>2. CASE u # t
    BY <1>1, <2>2 DEF Others, HolderInv
  <2> QED BY <2>1, <2>2
<1> QED
  BY <1>2 DEF HolderInv

(* The lock of the thread's condition changes hands.                       *)
LEMMA HolderMoves ==
  ASSUME IInv, NEW t \in Threads, Others(t), NEW c \in Conditions,
         NEW h \in {t, None}, holder' = [holder EXCEPT ![c] = h],
         holder[c] \in {t, None},
         h = t => /\ cond'[t] = c /\ pc'[t] \in MayHold
                  /\ \A d \in Conditions : holder[d] # t,
         h = None => cond[t] = c /\ pc'[t] \notin Holding
  PROVE  HolderInv'
<1>1. HolderInv /\ holder \in [Conditions -> Threads \cup {None}]
  BY DEF IInv, TypeInv
<1>2. /\ holder'[c] = h /\ \A d \in Conditions : d # c => holder'[d] = holder[d]
      /\ \A x : x \notin Conditions => holder'[x] = holder[x]
  BY <1>1
<1>3. ASSUME NEW u \in Threads
      PROVE  /\ pc'[u] \in Holding => holder'[cond'[u]] = u
             /\ \A d \in Conditions : holder'[d] = u => cond'[u] = d /\ pc'[u] \in MayHold
  <2>1. CASE u = t
    <3>1. CASE h = t
      BY <1>2, <2>1, <3>1
    <3>2. CASE h = None
      <4>1. \A d \in Conditions : holder[d] = t => d = c
        BY <1>1, <3>2 DEF HolderInv
      <4>2. \A d \in Conditions : holder'[d] # t
        BY <1>2, <3>2, <4>1, NoneAssumption
      <4> QED BY <2>1, <3>2, <4>2
    <3> QED BY <3>1, <3>2
  <2>2. CASE u # t
    <3>1. pc'[u] = pc[u] /\ cond'[u] = cond[u]
      BY <2>2 DEF Others
    <3>2. holder'[c] # u /\ holder[c] # u
      BY <1>2, <2>2, NoneAssumption
    <3>3. \A d \in Conditions : holder'[d] = u => holder[d] = u
      BY <1>2, <3>2
    <3>4. pc[u] \in Holding => holder[cond[u]] = u /\ cond[u] # c
      BY <1>1, <3>2 DEF HolderInv
    <3>5. pc[u] \in Holding => holder'[cond[u]] = u
      <4>1. pc[u] \in Holding => cond[u] \in Conditions
        BY DEF IInv, LocalInv, Holding
      <4> QED BY <1>2, <3>4, <4>1
    <3> QED BY <1>1, <3>1, <3>3, <3>5 DEF HolderInv
  <2> QED BY <2>1, <2>2
<1> QED
  BY <1>3 DEF HolderInv

(* A notification returns to a place that agrees with the lock.            *)
LEMMA HolderReturns ==
  ASSUME IInv, NEW t \in Threads, Others(t), holder' = holder, NotifyReturns(t)
  PROVE  HolderInv'
<1>1. /\ HolderInv /\ pc \in [Threads -> Labels] /\ cond \in [Threads -> Conditions \cup {None}]
      /\ holder \in [Conditions -> Threads \cup {None}]
  BY DEF IInv, TypeInv
<1>2. CASE holder[cond[t]] = t
  <2>1. pc'[t] = "locked" /\ cond'[t] = cond[t]
    BY <1>1, <1>2 DEF NotifyReturns, Goto
  <2>2. \A c \in Conditions : holder[c] = t => cond[t] = c
    BY <1>1 DEF HolderInv
  <2>3. "locked" \in Holding /\ "locked" \in MayHold
    BY DEF Holding, MayHold
  <2> QED BY <1>2, <2>1, <2>2, <2>3, HolderKept
<1>3. CASE holder[cond[t]] # t
  <2>1. pc'[t] = "idle"
    BY <1>1, <1>3 DEF NotifyReturns, Goto
  <2>2. \A c \in Conditions : holder[c] # t
    BY <1>1, <1>3 DEF HolderInv
  <2>3. "idle" \notin Holding
    BY DEF Holding
  <2> QED BY <2>1, <2>2, <2>3, HolderKept
<1> QED
  BY <1>2, <1>3

(* Who holds the lock of a condition, after a step.                        *)
LEMMA HolderStep ==
  ASSUME IInv, NEW t \in Threads, Acts(t) PROVE HolderInv'
<1> USE DEF Goto, mutexVars, tableVars, callVars
<1>0. /\ HolderInv /\ pc \in [Threads -> Labels] /\ cond \in [Threads -> Conditions \cup {None}]
      /\ holder \in [Conditions -> Threads \cup {None}] /\ t \in Threads
      /\ LocalInv(t) /\ Others(t)
  BY Typed DEF IInv, TypeInv, TypedStep
<1>a. ASSUME holder' = holder, pc[t] \in MayHold, pc'[t] \in MayHold, cond'[t] = cond[t],
             pc'[t] \in Holding => pc[t] \in Holding
      PROVE  HolderInv'
  <2>1. pc'[t] \in Holding => holder[cond'[t]] = t
    BY <1>0, <1>a DEF HolderInv
  <2>2. \A c \in Conditions : holder[c] = t => cond'[t] = c /\ pc'[t] \in MayHold
    BY <1>0, <1>a DEF HolderInv
  <2> QED BY <1>0, <1>a, <2>1, <2>2, HolderKept
<1>b. ASSUME holder' = holder, pc[t] \notin MayHold, pc'[t] \notin Holding
      PROVE  HolderInv'
  <2>1. \A c \in Conditions : holder[c] # t
    BY <1>0, <1>b DEF HolderInv
  <2> QED BY <1>0, <1>b, <2>1, HolderKept
<1>c. ASSUME holder' = holder, NotifyReturns(t) PROVE HolderInv'
  BY <1>0, <1>c, HolderReturns
<1>d. pc[t] # "idle" => cond[t] \in Conditions
  BY <1>0 DEF LocalInv
<1>e. pc[t] \in Holding => holder[cond[t]] = t
  BY <1>0 DEF HolderInv
<1>1. CASE WaitUntil(t)
  <2>1. /\ pc[t] = "locked" /\ pc'[t] \in {"lockHashtable", "enqueue"}
        /\ cond'[t] = cond[t] /\ holder' = holder
    BY <1>0, <1>1 DEF WaitUntil
  <2> QED BY <1>a, <2>1 DEF Holding, MayHold
<1>2. CASE LockHashtable(t)
  <2>1. /\ pc[t] = "lockHashtable" /\ pc'[t] = "lockBuckets"
        /\ cond'[t] = cond[t] /\ holder' = holder
    BY <1>0, <1>2 DEF LockHashtable
  <2> QED BY <1>a, <2>1 DEF Holding, MayHold
<1>3. CASE LockBucket(t)
  <2>1. /\ pc[t] = "lockBuckets" /\ pc'[t] = "lockBuckets"
        /\ cond'[t] = cond[t] /\ holder' = holder
    BY <1>0, <1>3 DEF LockBucket
  <2> QED BY <1>a, <2>1 DEF Holding, MayHold
<1>4. CASE TableWasRehashed(t)
  <2>1. /\ pc[t] = "lockBuckets" /\ pc'[t] = "lockHashtable"
        /\ cond'[t] = cond[t] /\ holder' = holder
    BY <1>0, <1>4 DEF TableWasRehashed
  <2> QED BY <1>a, <2>1 DEF Holding, MayHold
<1>5. CASE Rehash(t)
  <2>1. /\ pc[t] = "lockBuckets" /\ pc'[t] = "enqueue"
        /\ cond'[t] = cond[t] /\ holder' = holder
    BY <1>0, <1>5 DEF Rehash
  <2> QED BY <1>a, <2>1 DEF Holding, MayHold
<1>6. CASE EnqueueAgain(t)
  <2>1. /\ pc[t] = "enqueue" /\ pc'[t] = "enqueue"
        /\ cond'[t] = cond[t] /\ holder' = holder
    BY <1>0, <1>6 DEF EnqueueAgain, TryAgain
  <2> QED BY <1>a, <2>1 DEF Holding, MayHold
<1>7. CASE Enqueue(t)
  <2>1. /\ pc[t] = "enqueue" /\ pc'[t] = "beforeSleep"
        /\ cond'[t] = cond[t] /\ holder' = holder
    BY <1>0, <1>7 DEF Enqueue, UnderBucketLock
  <2> QED BY <1>a, <2>1 DEF Holding, MayHold
<1>8. CASE Woken(t)
  <2>1. /\ pc[t] = "asleep" /\ pc'[t] = "relock"
        /\ cond'[t] = cond[t] /\ holder' = holder
    BY <1>0, <1>8 DEF Woken, ParkReturns
  <2> QED BY <1>b, <2>1 DEF Holding, MayHold
<1>9. CASE TimesOut(t)
  <2>1. /\ pc[t] = "asleep" /\ pc'[t] \in {"awaitSignal", "dequeueSelf"}
        /\ cond'[t] = cond[t] /\ holder' = holder
    BY <1>0, <1>9 DEF TimesOut, DequeueSelfLoad
  <2> QED BY <1>b, <2>1 DEF Holding, MayHold
<1>10. CASE DequeueSelfAgain(t)
  <2>1. /\ pc[t] = "dequeueSelf" /\ pc'[t] \in {"awaitSignal", "dequeueSelf"}
        /\ cond'[t] = cond[t] /\ holder' = holder
    BY <1>0, <1>10 DEF DequeueSelfAgain, TryAgain, DequeueSelfLoad
  <2> QED BY <1>b, <2>1 DEF Holding, MayHold
<1>11. CASE DequeueSelf(t)
  <2>1. /\ pc[t] = "dequeueSelf" /\ pc'[t] = "relock"
        /\ cond'[t] = cond[t] /\ holder' = holder
    BY <1>0, <1>11 DEF DequeueSelf, UnderBucketLock, ParkReturns
  <2> QED BY <1>b, <2>1 DEF Holding, MayHold
<1>12. CASE NotInQueue(t)
  <2>1. /\ pc[t] = "dequeueSelf" /\ pc'[t] = "awaitSignal"
        /\ cond'[t] = cond[t] /\ holder' = holder
    BY <1>0, <1>12 DEF NotInQueue, UnderBucketLock
  <2> QED BY <1>b, <2>1 DEF Holding, MayHold
<1>13. CASE AwaitSignal(t)
  <2>1. /\ pc[t] = "awaitSignal" /\ pc'[t] = "relock"
        /\ cond'[t] = cond[t] /\ holder' = holder
    BY <1>0, <1>13 DEF AwaitSignal, ParkReturns
  <2> QED BY <1>b, <2>1 DEF Holding, MayHold
<1>14. CASE Clear(t)
  <2>1. /\ pc[t] = "clear" /\ pc'[t] = "unparkAll"
        /\ cond'[t] = cond[t] /\ holder' = holder
    BY <1>0, <1>14 DEF Clear
  <2> QED BY <1>a, <2>1 DEF Holding, MayHold
<1>15. CASE UnparkOneAgain(t)
  <2>1. /\ pc[t] = "unpark" /\ pc'[t] = "unpark"
        /\ cond'[t] = cond[t] /\ holder' = holder
    BY <1>0, <1>15 DEF UnparkOneAgain, TryAgain, UnparkOneLoad
  <2> QED BY <1>a, <2>1 DEF Holding, MayHold
<1>16. CASE BeginUnparkAll(t)
  <2>1. holder' = holder /\ pc[t] = "unparkAll"
    BY <1>16 DEF BeginUnparkAll, UnparkAllLoad
  <2>2. CASE NotifyReturns(t)
    BY <1>c, <2>1, <2>2
  <2>3. CASE ~NotifyReturns(t)
    <3>1. pc'[t] = "unpark" /\ cond'[t] = cond[t]
      BY <1>0, <1>16, <2>1, <2>3 DEF BeginUnparkAll, UnparkAllLoad
    <3> QED BY <1>a, <2>1, <3>1 DEF Holding, MayHold
  <2> QED BY <2>2, <2>3
<1>17. CASE UnparkAllAgain(t)
  <2>1. holder' = holder /\ pc[t] = "unpark"
    BY <1>17 DEF UnparkAllAgain, TryAgain, UnparkAllLoad
  <2>2. CASE NotifyReturns(t)
    BY <1>c, <2>1, <2>2
  <2>3. CASE ~NotifyReturns(t)
    <3>1. pc'[t] = "unpark" /\ cond'[t] = cond[t]
      BY <1>0, <1>17, <2>1, <2>3 DEF UnparkAllAgain, TryAgain, UnparkAllLoad
    <3> QED BY <1>a, <2>1, <3>1 DEF Holding, MayHold
  <2> QED BY <2>2, <2>3
<1>18. CASE UnparkOne(t)
  <2>1. holder' = holder /\ pc[t] = "unpark"
    BY <1>18 DEF UnparkOne, UnderBucketLock
  <2>2. CASE NotifyReturns(t)
    BY <1>c, <2>1, <2>2
  <2>3. CASE ~NotifyReturns(t)
    <3>1. pc'[t] = "signal" /\ cond'[t] = cond[t]
      BY <1>0, <1>18, <2>1, <2>3 DEF UnparkOne, UnderBucketLock
    <3> QED BY <1>a, <2>1, <3>1 DEF Holding, MayHold
  <2> QED BY <2>2, <2>3
<1>19. CASE UnparkAll(t)
  <2>1. holder' = holder /\ pc[t] = "unpark"
    BY <1>19 DEF UnparkAll, UnderBucketLock
  <2>2. CASE NotifyReturns(t)
    BY <1>c, <2>1, <2>2
  <2>3. CASE ~NotifyReturns(t)
    <3>1. pc'[t] = "signal" /\ cond'[t] = cond[t]
      BY <1>0, <1>19, <2>1, <2>3 DEF UnparkAll, UnderBucketLock
    <3> QED BY <1>a, <2>1, <3>1 DEF Holding, MayHold
  <2> QED BY <2>2, <2>3
<1>20. CASE Signal(t)
  <2>1. holder' = holder /\ pc[t] = "signal"
    BY <1>20 DEF Signal
  <2>2. CASE NotifyReturns(t)
    BY <1>c, <2>1, <2>2
  <2>3. CASE ~NotifyReturns(t)
    <3>1. pc'[t] = "signal" /\ cond'[t] = cond[t]
      BY <1>0, <1>20, <2>1, <2>3 DEF Signal
    <3> QED BY <1>a, <2>1, <3>1 DEF Holding, MayHold
  <2> QED BY <2>2, <2>3
<1>21. CASE \E c \in Conditions : NotifyOne(t, c) \/ NotifyAll(t, c)
  <2>1. PICK c \in Conditions : NotifyOne(t, c) \/ NotifyAll(t, c)
    BY <1>21
  <2>2. /\ pc[t] = "idle" \/ (pc[t] = "locked" /\ cond[t] = c)
        /\ holder' = holder /\ cond'[t] = c /\ pc'[t] \in {"unpark", "clear"}
    BY <1>0, <2>1 DEF NotifyOne, NotifyAll, MayNotify, UnparkOneLoad
  <2>3. CASE pc[t] = "idle"
    BY <1>b, <2>2, <2>3 DEF Holding, MayHold
  <2>4. CASE pc[t] = "locked" /\ cond[t] = c
    BY <1>a, <2>2, <2>4 DEF Holding, MayHold
  <2> QED BY <2>2, <2>3, <2>4
<1>22. CASE \E c \in Conditions : Lock(t, c)
  <2>1. PICK c \in Conditions : Lock(t, c)
    BY <1>22
  <2>2. /\ pc[t] = "idle" /\ holder[c] = None /\ holder' = [holder EXCEPT ![c] = t]
        /\ cond'[t] = c /\ pc'[t] = "locked"
    BY <1>0, <2>1 DEF Lock
  <2>3. pc'[t] \in MayHold /\ \A d \in Conditions : holder[d] # t
    BY <1>0, <2>2 DEF HolderInv, MayHold, Holding
  <2>4. t # None
    BY NoneAssumption
  <2> QED BY <1>0, <2>2, <2>3, <2>4, HolderMoves
<1>23. CASE Relock(t)
  <2>1. /\ pc[t] = "relock" /\ holder[cond[t]] = None
        /\ holder' = [holder EXCEPT ![cond[t]] = t]
        /\ cond'[t] = cond[t] /\ pc'[t] = "locked" /\ cond[t] \in Conditions
    BY <1>0, <1>d, <1>23 DEF Relock
  <2>2. pc'[t] \in MayHold /\ \A d \in Conditions : holder[d] # t
    BY <1>0, <2>1 DEF HolderInv, MayHold, Holding
  <2>3. t # None
    BY NoneAssumption
  <2> QED BY <1>0, <2>1, <2>2, <2>3, HolderMoves
<1>24. CASE Unlock(t)
  <2>1. /\ pc[t] = "locked" /\ pc'[t] = "idle" /\ cond[t] \in Conditions
        /\ holder' = [holder EXCEPT ![cond[t]] = None]
    BY <1>0, <1>d, <1>24 DEF Unlock, ReleaseLock
  <2>2. holder[cond[t]] = t /\ pc'[t] \notin Holding
    BY <1>e, <2>1 DEF Holding
  <2>3. t # None
    BY NoneAssumption
  <2> QED BY <1>0, <2>1, <2>2, <2>3, HolderMoves
<1>25. CASE WaitPast(t)
  <2>1. /\ pc[t] = "locked" /\ pc'[t] = "relock" /\ cond[t] \in Conditions
        /\ holder' = [holder EXCEPT ![cond[t]] = None]
    BY <1>0, <1>d, <1>25 DEF WaitPast, ReleaseLock
  <2>2. holder[cond[t]] = t /\ pc'[t] \notin Holding
    BY <1>e, <2>1 DEF Holding
  <2>3. t # None
    BY NoneAssumption
  <2> QED BY <1>0, <2>1, <2>2, <2>3, HolderMoves
<1>26. CASE BeforeSleep(t)
  <2>1. /\ pc[t] = "beforeSleep" /\ pc'[t] = "asleep" /\ cond[t] \in Conditions
        /\ holder' = [holder EXCEPT ![cond[t]] = None]
    BY <1>0, <1>d, <1>26 DEF BeforeSleep, ReleaseLock
  <2>2. holder[cond[t]] = t /\ pc'[t] \notin Holding
    BY <1>e, <2>1 DEF Holding
  <2>3. t # None
    BY NoneAssumption
  <2> QED BY <1>0, <2>1, <2>2, <2>3, HolderMoves
<1> QED
  BY <1>1, <1>2, <1>3, <1>4, <1>5, <1>6, <1>7, <1>8, <1>9, <1>10, <1>11, <1>12, <1>13, <1>14,
     <1>15, <1>16, <1>17, <1>18, <1>19, <1>20, <1>21, <1>22, <1>23, <1>24, <1>25, <1>26 DEF
     Acts, Step

(* What the thread knows after its own step.                               *)
LEMMA OwnLocal ==
  ASSUME IInv, NEW t \in Threads, Acts(t) PROVE LocalInv(t)'
<1> USE DEF Goto, mutexVars, tableVars, callVars
<1>0. /\ pc \in [Threads -> Labels] /\ cond \in [Threads -> Conditions \cup {None}]
      /\ my \in [Threads -> Nat] /\ count \in [Threads -> Nat] /\ all \in [Threads -> BOOLEAN]
      /\ toSignal \in [Threads -> Seq(Threads)] /\ address \in [Threads -> Conditions \cup {None}]
      /\ t \in Threads /\ numThreads \in Nat /\ LocalInv(t)
      /\ Tables(tables) /\ (tables # <<>> => Len(tables) \in 1..Len(tables))
  <2>1. numThreads \in Nat
    BY ThreadsAssumption, FS_Subset, FS_CardinalityType DEF IInv, TypeInv
  <2> QED BY <2>1 DEF IInv, TypeInv, Placed, Tables
<1>1. /\ ~InPark(t) => address[t] = None
      /\ pc[t] # "signal" => toSignal[t] = <<>>
      /\ pc[t] # "idle" => cond[t] \in Conditions
      /\ InPark(t) => tables # <<>>
  BY <1>0 DEF LocalInv
<1>2. Quiet => /\ address'[t] = address[t] /\ toSignal'[t] = toSignal[t]
               /\ tables # <<>> => tables' # <<>>
  BY DEF Quiet, Grows
<1>3. /\ Tables(tables') /\ tables' # <<>> => Len(tables') \in 1..Len(tables')
  <2>1. Tables(tables')
    BY PlacesStep DEF Placed
  <2> QED BY <2>1 DEF Tables
<1>f. ASSUME pc'[t] \in {"idle", "locked", "relock"}, pc'[t] # "idle" => cond'[t] \in Conditions,
             address'[t] = None, toSignal'[t] = <<>>
      PROVE  LocalInv(t)'
  BY <1>f DEF LocalInv, InPark
<1>g. ASSUME pc'[t] \in {"enqueue", "unpark"}, cond'[t] \in Conditions, my'[t] = Len(tables'),
             LoadedFor(cond'[t]), address'[t] = None, toSignal'[t] = <<>>
      PROVE  LocalInv(t)'
  BY <1>g DEF LocalInv, InPark, LoadedFor
<1>h. ASSUME NotifyReturns(t), pc[t] # "idle", address'[t] = None, toSignal'[t] = <<>>
      PROVE  LocalInv(t)'
  <2>1. pc'[t] \in {"idle", "locked"} /\ (pc'[t] # "idle" => cond'[t] = cond[t])
    BY <1>0, <1>h DEF NotifyReturns
  <2> QED BY <1>1, <1>f, <1>h, <2>1
<1>i. ASSUME pc'[t] \in {"awaitSignal", "dequeueSelf"}, InPark(t), Quiet, tables' = tables,
             cond'[t] = cond[t],
             pc'[t] = "dequeueSelf" => /\ my'[t] = Len(tables)
                                       /\ BucketIn(tables, Len(tables), cond[t]) # Null
      PROVE  LocalInv(t)'
  <2>1. /\ address'[t] = address[t] /\ toSignal'[t] = toSignal[t] /\ tables # <<>>
        /\ Len(tables) \in 1..Len(tables) /\ cond[t] \in Conditions
    BY <1>0, <1>1, <1>2, <1>i DEF InPark
  <2>2. toSignal'[t] = <<>> /\ (address'[t] # None => address'[t] = cond'[t])
    BY <1>0, <1>1, <1>i, <2>1 DEF LocalInv, InPark
  <2> QED BY <1>i, <2>1, <2>2 DEF LocalInv, InPark
<1>4. CASE \E c \in Conditions : Lock(t, c)
  <2>1. pc[t] = "idle" /\ pc'[t] = "locked" /\ cond'[t] \in Conditions
    BY <1>0, <1>4 DEF Lock
  <2>2. Quiet
    BY <1>4, QuietActions
  <2>3. address[t] = None
    BY <1>1, <2>1 DEF InPark
  <2> QED BY <1>1, <1>2, <1>f, <2>1, <2>2, <2>3
<1>5. CASE Unlock(t)
  <2>1. pc[t] = "locked" /\ pc'[t] = "idle" /\ TRUE
    BY <1>0, <1>5 DEF Unlock
  <2>2. Quiet
    BY <1>5, QuietActions
  <2>3. address[t] = None
    BY <1>1, <1>5, <2>1 DEF InPark, Unlock
  <2> QED BY <1>1, <1>2, <1>f, <2>1, <2>2, <2>3
<1>6. CASE WaitPast(t)
  <2>1. pc[t] = "locked" /\ pc'[t] = "relock" /\ cond'[t] = cond[t]
    BY <1>0, <1>6 DEF WaitPast
  <2>2. Quiet
    BY <1>6, QuietActions
  <2>3. address[t] = None
    BY <1>1, <1>6, <2>1 DEF InPark, WaitPast
  <2> QED BY <1>1, <1>2, <1>f, <2>1, <2>2, <2>3
<1>7. CASE Woken(t)
  <2>1. pc[t] = "asleep" /\ pc'[t] = "relock" /\ cond'[t] = cond[t]
    BY <1>0, <1>7 DEF Woken, ParkReturns
  <2>2. Quiet
    BY <1>7, QuietActions
  <2>3. address[t] = None
    BY <1>1, <1>7, <2>1 DEF InPark, Woken, ParkReturns
  <2> QED BY <1>1, <1>2, <1>f, <2>1, <2>2, <2>3
<1>8. CASE AwaitSignal(t)
  <2>1. pc[t] = "awaitSignal" /\ pc'[t] = "relock" /\ cond'[t] = cond[t]
    BY <1>0, <1>8 DEF AwaitSignal, ParkReturns, SignalArrived
  <2>2. Quiet
    BY <1>8, QuietActions
  <2>3. address[t] = None
    BY <1>1, <1>8, <2>1 DEF InPark, AwaitSignal, ParkReturns, SignalArrived
  <2> QED BY <1>1, <1>2, <1>f, <2>1, <2>2, <2>3
<1>9. CASE Relock(t)
  <2>1. pc[t] = "relock" /\ pc'[t] = "locked" /\ cond'[t] = cond[t]
    BY <1>0, <1>9 DEF Relock
  <2>2. Quiet
    BY <1>9, QuietActions
  <2>3. address[t] = None
    BY <1>1, <1>9, <2>1 DEF InPark, Relock
  <2> QED BY <1>1, <1>2, <1>f, <2>1, <2>2, <2>3
<1>10. CASE DequeueSelf(t)
  <2>1. /\ pc[t] = "dequeueSelf" /\ pc'[t] = "relock" /\ cond'[t] = cond[t]
        /\ address'[t] = None /\ toSignal' = toSignal
    BY <1>0, <1>10 DEF DequeueSelf, UnderBucketLock, ParkReturns
  <2> QED BY <1>1, <1>f, <2>1
<1>11. CASE \E c \in Conditions : NotifyOne(t, c)
  <2>1. PICK c \in Conditions : NotifyOne(t, c)
    BY <1>11
  <2>2. pc[t] \in {"idle", "locked"} /\ pc'[t] = "unpark" /\ cond'[t] = c
    BY <1>0, <2>1 DEF NotifyOne, MayNotify, UnparkOneLoad
  <2>3. Quiet /\ LoadedFor(c) /\ my'[t] = Len(tables')
    BY <1>0, <2>1, LoadActions
  <2>4. address[t] = None
    BY <1>1, <2>2 DEF InPark
  <2> QED BY <1>1, <1>2, <1>g, <2>2, <2>3, <2>4
<1>12. CASE WaitUntil(t) /\ pc'[t] = "enqueue"
  <2>1. pc[t] = "locked" /\ cond' = cond
    BY <1>12 DEF WaitUntil
  <2>2. Quiet /\ LoadedFor(cond[t]) /\ my'[t] = Len(tables')
    BY <1>0, <1>12, LoadActions
  <2>3. address[t] = None
    BY <1>1, <2>1 DEF InPark
  <2> QED BY <1>1, <1>2, <1>g, <1>12, <2>1, <2>2, <2>3
<1>13. CASE WaitUntil(t) /\ pc'[t] # "enqueue"
  <2>1. pc[t] = "locked" /\ cond' = cond
    BY <1>13 DEF WaitUntil
  <2>2. Quiet
    BY <1>13, LoadActions
  <2>3. pc' # [pc EXCEPT ![t] = "enqueue"]
    BY <1>0, <1>13
  <2>4. /\ pc' = [pc EXCEPT ![t] = "lockHashtable"] /\ count' = [count EXCEPT ![t] = numThreads']
        /\ numThreads' = numThreads + 1
    BY <1>13, <2>3 DEF WaitUntil
  <2>5. pc'[t] = "lockHashtable" /\ count'[t] \in 1..numThreads'
    BY <1>0, <2>4
  <2>6. address[t] = None
    BY <1>1, <2>1 DEF InPark
  <2> QED BY <1>1, <1>2, <2>1, <2>2, <2>5, <2>6 DEF LocalInv, InPark
<1>14. CASE LockHashtable(t)
  <2>1. /\ pc[t] = "lockHashtable" /\ pc'[t] = "lockBuckets" /\ cond'[t] = cond[t]
        /\ count' = count /\ numThreads' = numThreads
    BY <1>0, <1>14 DEF LockHashtable
  <2>2. Quiet /\ tables' # <<>> /\ my'[t] = Len(tables')
    BY <1>0, <1>14, LockHashtableQuiet
  <2>3. address[t] = None /\ count[t] \in 1..numThreads
    BY <1>0, <1>1, <2>1 DEF InPark, LocalInv
  <2>4. my'[t] \in 1..Len(tables')
    BY <1>3, <2>2
  <2> QED BY <1>1, <1>2, <2>1, <2>2, <2>3, <2>4 DEF LocalInv, InPark
<1>15. CASE LockBucket(t) \/ TableWasRehashed(t)
  <2>1. /\ pc[t] = "lockBuckets" /\ pc'[t] \in {"lockHashtable", "lockBuckets"} /\ cond'[t] = cond[t]
        /\ count' = count /\ numThreads' = numThreads /\ my' = my /\ tables' = tables
    BY <1>0, <1>15 DEF LockBucket, TableWasRehashed
  <2>2. Quiet
    BY <1>15, QuietActions
  <2>3. address[t] = None /\ count[t] \in 1..numThreads /\ my[t] \in 1..Len(tables)
    BY <1>0, <1>1, <2>1 DEF InPark, LocalInv
  <2> QED BY <1>1, <1>2, <2>1, <2>2, <2>3 DEF LocalInv, InPark
<1>16. CASE Rehash(t)
  <2>1. pc[t] = "lockBuckets" /\ pc'[t] = "enqueue" /\ cond' = cond
    BY <1>0, <1>16 DEF Rehash
  <2>2. Quiet /\ LoadedFor(cond[t]) /\ my'[t] = Len(tables')
    BY <1>0, <1>16, RehashQuiet
  <2>3. address[t] = None
    BY <1>1, <2>1 DEF InPark
  <2> QED BY <1>1, <1>2, <1>g, <2>1, <2>2, <2>3
<1>17. CASE EnqueueAgain(t)
  <2>1. pc[t] = "enqueue" /\ pc'[t] = "enqueue" /\ cond' = cond
    BY <1>0, <1>17 DEF EnqueueAgain, TryAgain
  <2>2. Quiet /\ LoadedFor(cond[t]) /\ my'[t] = Len(tables')
    BY <1>0, <1>17, LoadActions
  <2>3. address[t] = None
    BY <1>1, <2>1 DEF InPark
  <2> QED BY <1>1, <1>2, <1>g, <2>1, <2>2, <2>3
<1>18. CASE UnparkOneAgain(t)
  <2>1. pc[t] = "unpark" /\ pc'[t] = "unpark" /\ cond' = cond
    BY <1>0, <1>18 DEF UnparkOneAgain, TryAgain, UnparkOneLoad
  <2>2. Quiet /\ LoadedFor(cond[t]) /\ my'[t] = Len(tables')
    BY <1>0, <1>18, LoadActions
  <2>3. address[t] = None
    BY <1>1, <2>1 DEF InPark
  <2> QED BY <1>1, <1>2, <1>g, <2>1, <2>2, <2>3
<1>19. CASE Enqueue(t)
  <2>1. /\ pc[t] = "enqueue" /\ pc'[t] = "beforeSleep" /\ cond'[t] = cond[t]
        /\ address'[t] = cond[t] /\ toSignal' = toSignal /\ tables' = tables
    BY <1>0, <1>19 DEF Enqueue, UnderBucketLock
  <2>2. tables # <<>> /\ toSignal[t] = <<>> /\ cond[t] \in Conditions
    BY <1>1, <1>19, <2>1, EnqueueEffect
  <2> QED BY <2>1, <2>2 DEF LocalInv, InPark
<1>20. CASE BeforeSleep(t)
  <2>1. /\ pc[t] = "beforeSleep" /\ pc'[t] = "asleep" /\ cond'[t] = cond[t] /\ tables' = tables
        /\ address' = address /\ toSignal' = toSignal
    BY <1>0, <1>20 DEF BeforeSleep
  <2>2. /\ tables # <<>> /\ toSignal[t] = <<>> /\ cond[t] \in Conditions
        /\ address[t] # None => address[t] = cond[t]
    BY <1>0, <1>1, <2>1 DEF InPark, LocalInv
  <2> QED BY <2>1, <2>2 DEF LocalInv, InPark
<1>21. CASE TimesOut(t)
  <2>1. /\ pc[t] = "asleep" /\ pc'[t] \in {"awaitSignal", "dequeueSelf"} /\ cond'[t] = cond[t]
        /\ tables' = tables
        /\ pc'[t] = "dequeueSelf" => /\ my'[t] = Len(tables)
                                     /\ BucketIn(tables, Len(tables), cond[t]) # Null
    BY <1>0, <1>21 DEF TimesOut, DequeueSelfLoad
  <2>2. Quiet
    BY <1>21, QuietActions
  <2>3. InPark(t)
    BY <2>1 DEF InPark
  <2> QED BY <1>i, <2>1, <2>2, <2>3
<1>22. CASE DequeueSelfAgain(t)
  <2>1. /\ pc[t] = "dequeueSelf" /\ pc'[t] \in {"awaitSignal", "dequeueSelf"} /\ cond'[t] = cond[t]
        /\ tables' = tables
        /\ pc'[t] = "dequeueSelf" => /\ my'[t] = Len(tables)
                                     /\ BucketIn(tables, Len(tables), cond[t]) # Null
    BY <1>0, <1>22 DEF DequeueSelfAgain, TryAgain, DequeueSelfLoad
  <2>2. Quiet
    BY <1>22, QuietActions
  <2>3. InPark(t)
    BY <2>1 DEF InPark
  <2> QED BY <1>i, <2>1, <2>2, <2>3
<1>23. CASE NotInQueue(t)
  <2>1. /\ pc[t] = "dequeueSelf" /\ pc'[t] = "awaitSignal" /\ cond'[t] = cond[t]
        /\ tables' = tables
    BY <1>0, <1>23 DEF NotInQueue, UnderBucketLock
  <2>2. Quiet
    BY <1>23, QuietActions
  <2>3. InPark(t)
    BY <2>1 DEF InPark
  <2> QED BY <1>i, <2>1, <2>2, <2>3
<1>24. CASE \E c \in Conditions : NotifyAll(t, c)
  <2>1. PICK c \in Conditions : NotifyAll(t, c)
    BY <1>24
  <2>2. /\ pc[t] \in {"idle", "locked"} /\ pc'[t] = "clear" /\ cond'[t] = c /\ hasWaiters[c]
        /\ all'[t] /\ tables' = tables
    BY <1>0, <2>1 DEF NotifyAll, MayNotify
  <2>3. Quiet /\ tables # <<>>
    BY <1>24, <2>2, QuietActions DEF IInv, FlagInv
  <2>4. address[t] = None
    BY <1>1, <2>2 DEF InPark
  <2> QED BY <1>1, <1>2, <2>2, <2>3, <2>4 DEF LocalInv, InPark
<1>25. CASE Clear(t)
  <2>1. /\ pc[t] = "clear" /\ pc'[t] = "unparkAll" /\ cond'[t] = cond[t] /\ all' = all
        /\ tables' = tables
    BY <1>0, <1>25 DEF Clear
  <2>2. Quiet
    BY <1>25, QuietActions
  <2>3. address[t] = None /\ all[t] /\ tables # <<>>
    BY <1>0, <1>1, <2>1 DEF InPark, LocalInv
  <2> QED BY <1>1, <1>2, <2>1, <2>2, <2>3 DEF LocalInv, InPark
<1>26. CASE BeginUnparkAll(t)
  <2>1. pc[t] = "unparkAll" /\ tables' = tables
    BY <1>26 DEF BeginUnparkAll, UnparkAllLoad
  <2>2. Quiet
    BY <1>26, QuietActions
  <2>3. address'[t] = None /\ toSignal'[t] = <<>> /\ tables # <<>> /\ cond[t] \in Conditions
    <3>1. my[t] \in 1..Len(tables) \/ tables # <<>>
      BY <1>0, <2>1 DEF LocalInv
    <3>2. tables # <<>>
      BY <1>0, <3>1 DEF Tables
    <3> QED BY <1>1, <1>2, <2>1, <2>2, <3>2 DEF InPark
  <2>4. CASE NotifyReturns(t)
    BY <1>h, <2>1, <2>3, <2>4
  <2>5. CASE ~NotifyReturns(t)
    <3>1. /\ pc'[t] = "unpark" /\ cond'[t] = cond[t] /\ my'[t] = Len(tables')
          /\ BucketIn(tables, Len(tables), cond[t]) # Null
      BY <1>0, <1>26, <2>1, <2>5 DEF BeginUnparkAll, UnparkAllLoad
    <3>2. LoadedFor(cond'[t])
      BY <1>0, <2>1, <2>3, <3>1 DEF LoadedFor
    <3> QED BY <1>g, <2>3, <3>1, <3>2
  <2> QED BY <2>4, <2>5
<1>27. CASE UnparkAllAgain(t)
  <2>1. pc[t] = "unpark" /\ tables' = tables
    BY <1>27 DEF UnparkAllAgain, TryAgain, UnparkAllLoad
  <2>2. Quiet
    BY <1>27, QuietActions
  <2>3. address'[t] = None /\ toSignal'[t] = <<>> /\ tables # <<>> /\ cond[t] \in Conditions
    <3>1. my[t] \in 1..Len(tables) \/ tables # <<>>
      BY <1>0, <2>1 DEF LocalInv
    <3>2. tables # <<>>
      BY <1>0, <3>1 DEF Tables
    <3> QED BY <1>1, <1>2, <2>1, <2>2, <3>2 DEF InPark
  <2>4. CASE NotifyReturns(t)
    BY <1>h, <2>1, <2>3, <2>4
  <2>5. CASE ~NotifyReturns(t)
    <3>1. /\ pc'[t] = "unpark" /\ cond'[t] = cond[t] /\ my'[t] = Len(tables')
          /\ BucketIn(tables, Len(tables), cond[t]) # Null
      BY <1>0, <1>27, <2>1, <2>5 DEF UnparkAllAgain, TryAgain, UnparkAllLoad
    <3>2. LoadedFor(cond'[t])
      BY <1>0, <2>1, <2>3, <3>1 DEF LoadedFor
    <3> QED BY <1>g, <2>3, <3>1, <3>2
  <2> QED BY <2>4, <2>5
<1>28. CASE UnparkOne(t)
  <2>1. pc[t] = "unpark" /\ address' = address
    BY <1>28 DEF UnparkOne, UnderBucketLock
  <2>2. address[t] = None /\ toSignal[t] = <<>> /\ cond[t] \in Conditions
    BY <1>1, <2>1 DEF InPark
  <2>3. CASE Parked(t) = <<>>
    <3>1. NotifyReturns(t) /\ toSignal' = toSignal
      BY <1>28, <2>3 DEF UnparkOne
    <3> QED BY <1>h, <2>1, <2>2, <3>1
  <2>4. CASE Parked(t) # <<>>
    <3>0. <<Head(Parked(t))>> # <<>>
      OBVIOUS
    <3>1. pc'[t] = "signal" /\ cond'[t] = cond[t] /\ toSignal'[t] # <<>>
      BY <1>0, <1>28, <2>4, <3>0 DEF UnparkOne
    <3> QED BY <2>1, <2>2, <3>1 DEF LocalInv, InPark
  <2> QED BY <2>3, <2>4
<1>29. CASE UnparkAll(t)
  <2>1. pc[t] = "unpark" /\ address' = address
    BY <1>29 DEF UnparkAll, UnderBucketLock
  <2>2. address[t] = None /\ toSignal[t] = <<>> /\ cond[t] \in Conditions
    BY <1>1, <2>1 DEF InPark
  <2>3. CASE Parked(t) = <<>>
    <3>1. NotifyReturns(t) /\ toSignal' = toSignal
      BY <1>29, <2>3 DEF UnparkAll
    <3> QED BY <1>h, <2>1, <2>2, <3>1
  <2>4. CASE Parked(t) # <<>>
    <3>0. <<Head(Parked(t))>> # <<>>
      OBVIOUS
    <3>1. pc'[t] = "signal" /\ cond'[t] = cond[t] /\ toSignal'[t] # <<>>
      BY <1>0, <1>29, <2>4, <3>0 DEF UnparkAll
    <3> QED BY <2>1, <2>2, <3>1 DEF LocalInv, InPark
  <2> QED BY <2>3, <2>4
<1>30. CASE Signal(t)
  <2>1. pc[t] = "signal" /\ toSignal'[t] = Tail(toSignal[t])
    BY <1>0, <1>30 DEF Signal
  <2>2. address'[t] = None
    <3>1. address[t] = None
      BY <1>1, <2>1 DEF InPark
    <3>2. \/ address'[t] = address[t] \/ address'[t] = None \/ Enqueue(t)
      BY PlacesStep
    <3>3. ~Enqueue(t)
      BY <2>1 DEF Enqueue, UnderBucketLock
    <3> QED BY <3>1, <3>2, <3>3
  <2>3. toSignal[t] \in Seq(Threads) /\ toSignal[t] # <<>> /\ cond[t] \in Conditions
    BY <1>0, <1>1, <2>1 DEF LocalInv
  <2>4. Len(toSignal[t]) = 1 <=> Tail(toSignal[t]) = <<>>
    <3> DEFINE s == toSignal[t]
               r == Tail(s)
    <3> HIDE DEF s
    <3>1. s \in Seq(Threads) /\ s # <<>>
      BY <2>3 DEF s
    <3>2. r \in Seq(Threads) /\ Len(r) = Len(s) - 1 /\ Len(s) \in Nat
      BY <3>1
    <3> HIDE DEF r
    <3>3. r = <<>> <=> Len(r) = 0
      BY <3>2
    <3> QED BY <3>2, <3>3 DEF r, s
  <2>5. CASE Len(toSignal[t]) = 1
    <3>1. NotifyReturns(t)
      BY <1>30, <2>5 DEF Signal
    <3> QED BY <1>h, <2>1, <2>2, <2>4, <2>5, <3>1
  <2>6. CASE Len(toSignal[t]) # 1
    <3>1. pc' = pc /\ cond' = cond
      BY <1>30, <2>6 DEF Signal
    <3> QED BY <2>1, <2>2, <2>3, <2>4, <2>6, <3>1 DEF LocalInv, InPark
  <2> QED BY <2>5, <2>6
<1> QED
  BY <1>4, <1>5, <1>6, <1>7, <1>8, <1>9, <1>10, <1>11, <1>12, <1>13, <1>14, <1>15, <1>16,
     <1>17, <1>18, <1>19, <1>20, <1>21, <1>22, <1>23, <1>24, <1>25, <1>26, <1>27, <1>28,
     <1>29, <1>30 DEF Acts, Step

(* A flag is set once there is a table, still.                             *)
LEMMA FlagStep ==
  ASSUME IInv, NEW t \in Threads, Acts(t) PROVE FlagInv'
<1> USE DEF Goto, mutexVars, tableVars, callVars
<1>0. FlagInv /\ hasWaiters \in [Conditions -> BOOLEAN] /\ (tables # <<>> => tables' # <<>>)
  BY PlacesStep DEF IInv, TypeInv, Grows
<1>1. CASE Enqueue(t)
  BY <1>0, <1>1, EnqueueEffect DEF FlagInv
<1>2. CASE ~Enqueue(t)
  <2>1. \/ hasWaiters' = hasWaiters \/ hasWaiters' = [hasWaiters EXCEPT ![cond[t]] = FALSE]
    BY <1>2 DEF Acts, Step, Lock, NotifyOne, NotifyAll, Unlock, WaitPast, WaitUntil,
                LockHashtable, LockBucket, TableWasRehashed, Rehash, EnqueueAgain, BeforeSleep,
                Woken, TimesOut, DequeueSelfAgain, DequeueSelf, NotInQueue, AwaitSignal, Relock,
                Clear, BeginUnparkAll, UnparkOneAgain, UnparkAllAgain, UnparkOne, UnparkAll, Signal,
                ParkReturns, DequeueSelfLoad, UnparkAllLoad
  <2>2. \A c \in Conditions : hasWaiters'[c] => hasWaiters[c]
    BY <1>0, <2>1
  <2> QED BY <1>0, <2>2 DEF FlagInv
<1> QED
  BY <1>1, <1>2

(* The invariant holds initially.                                          *)
LEMMA InitInv == Init => IInv
<1> SUFFICES ASSUME Init PROVE IInv
  OBVIOUS
<1> USE DEF Init
<1>1. TypeInv
  <2>1. Cardinality({}) = 0
    BY FS_EmptySet
  <2> QED BY <2>1 DEF TypeInv, Labels
<1>2. Tables(tables)
  BY DEF Tables
<1>3. Placed(tables, queue, address)
  BY <1>2 DEF Placed, Contains
<1>4. Lines = [c \in Conditions |-> <<>>]
  BY DEF Lines, LinesOf, Waiters
<1>5. Parks(Lines, address, toSignal)
  <2>1. \A x : ~Contains(<<>>, x)
    BY DEF Contains
  <2>2. NoDup(<<>>)
    BY DEF NoDup
  <2> QED BY <1>4, <2>1, <2>2 DEF Parks
<1>6. \A t \in Threads : LocalInv(t)
  BY DEF LocalInv, InPark
<1>7. HolderInv
  BY NoneAssumption DEF HolderInv, Holding
<1>8. FlagInv
  BY DEF FlagInv
<1> QED
  BY <1>1, <1>3, <1>5, <1>6, <1>7, <1>8 DEF IInv

(* Every step keeps the invariant.                                         *)
LEMMA NextInv == IInv /\ [Next]_vars => IInv'
<1> SUFFICES ASSUME IInv, [Next]_vars PROVE IInv'
  OBVIOUS
<1>1. CASE UNCHANGED vars
  <2>1. TypeInv'
    BY <1>1 DEF IInv, vars, TypeInv
  <2>2. Placed(tables, queue, address)' /\ Lines' = Lines
    BY <1>1 DEF IInv, vars, Lines
  <2>3. Parks(Lines, address, toSignal)'
    BY <1>1, <2>2 DEF IInv, vars
  <2>4. \A t \in Threads : LocalInv(t)'
    BY <1>1 DEF IInv, vars, LocalInv, InPark
  <2>5. HolderInv' /\ FlagInv'
    BY <1>1 DEF IInv, vars, HolderInv, FlagInv
  <2> QED BY <2>1, <2>2, <2>3, <2>4, <2>5 DEF IInv
<1>2. ASSUME NEW t \in Threads, Acts(t) PROVE IInv'
  <2>1. TypeInv'
    BY <1>2, Typed DEF TypedStep
  <2>2. Placed(tables, queue, address)' /\ Parks(Lines, address, toSignal)'
    BY <1>2, PlacesStep
  <2>3. \A u \in Threads : LocalInv(u)'
    BY <1>2, OthersLocal, OwnLocal
  <2>4. HolderInv' /\ FlagInv'
    BY <1>2, HolderStep, FlagStep
  <2> QED BY <2>1, <2>2, <2>3, <2>4 DEF IInv
<1> QED
  BY <1>1, <1>2 DEF Next, Acts

-----------------------------------------------------------------------------
(*                              The theorems                               *)

(* The invariant says where every parked thread is.                        *)
LEMMA AccountedFor == IInv => ParkedThreadsAccountedFor
<1> SUFFICES ASSUME IInv, NEW t \in Threads
             PROVE  /\ address[t] # None =>
                         /\ InPark(t)
                         /\ LET places == {i \in DOMAIN WaitersOf(address[t]) :
                                             WaitersOf(address[t])[i] = t}
                            IN \/ Cardinality(places) = 1 /\ Signallers(t) = {}
                               \/ places = {} /\ Cardinality(Signallers(t)) = 1
                    /\ address[t] = None =>
                         Signallers(t) = {} /\ \A b \in Buckets : ~Contains(queue[b], t)
  BY DEF ParkedThreadsAccountedFor
<1>0. /\ Parks(Lines, address, toSignal) /\ LocalInv(t)
      /\ address \in [Threads -> Conditions \cup {None}]
  BY DEF IInv, Placed
<1>1. Signallers(t) = {u \in Threads : Contains(toSignal[u], t)}
  BY DEF Signallers
<1>2. ASSUME address[t] = None
      PROVE  Signallers(t) = {} /\ \A b \in Buckets : ~Contains(queue[b], t)
  <2>1. \A u \in Threads : ~Contains(toSignal[u], t)
    BY <1>0, <1>2, NoneAssumption DEF Parks
  <2>2. \A b \in Buckets : ~Contains(queue[b], t)
    BY <1>2, Before, NoneAssumption
  <2> QED BY <1>1, <2>1, <2>2
<1>3. ASSUME address[t] # None
      PROVE  /\ InPark(t)
             /\ LET places == {i \in DOMAIN WaitersOf(address[t]) :
                                 WaitersOf(address[t])[i] = t}
                IN \/ Cardinality(places) = 1 /\ Signallers(t) = {}
                   \/ places = {} /\ Cardinality(Signallers(t)) = 1
  <2> DEFINE c == address[t]
             W == WaitersOf(c)
             places == {i \in DOMAIN W : W[i] = t}
  <2>1. InPark(t) /\ c \in Conditions
    BY <1>0, <1>3 DEF LocalInv
  <2>2. W = Lines[c]
    BY <2>1, WaitersOfIs DEF Lines, LinesOf
  <2>3. W \in Seq(Threads) /\ NoDup(W)
    BY <1>0, <2>1, <2>2 DEF Parks
  <2> HIDE DEF W, c
  <2>4. DOMAIN W = 1..Len(W)
    BY <2>3
  <2>5. \/ Contains(W, t) /\ \A u \in Threads : ~Contains(toSignal[u], t)
        \/ /\ ~Contains(W, t)
           /\ \E u \in Threads : Contains(toSignal[u], t)
    <3>1. \A d \in Conditions : Contains(Lines[d], t) => d = c
      BY <1>0 DEF Parks, c
    <3>2. (\E d \in Conditions : Contains(Lines[d], t)) \/ \E u \in Threads : Contains(toSignal[u], t)
      BY <1>0, <1>3 DEF Parks
    <3>3. \A u \in Threads : Contains(toSignal[u], t) => ~Contains(Lines[c], t)
      BY <1>0, <2>1 DEF Parks
    <3> QED BY <2>2, <3>1, <3>2, <3>3
  <2>6. CASE Contains(W, t) /\ \A u \in Threads : ~Contains(toSignal[u], t)
    <3>1. PICK i \in 1..Len(W) : W[i] = t
      BY <2>6 DEF Contains
    <3>2. places = {i}
      BY <2>3, <2>4, <3>1 DEF NoDup
    <3>3. Cardinality(places) = 1
      BY <3>2, FS_Singleton
    <3>4. Signallers(t) = {}
      BY <1>1, <2>6
    <3> QED BY <2>1, <3>3, <3>4 DEF W, c
  <2>7. CASE ~Contains(W, t) /\ \E u \in Threads : Contains(toSignal[u], t)
    <3>1. PICK u \in Threads : Contains(toSignal[u], t)
      BY <2>7
    <3>2. \A v \in Threads : Contains(toSignal[v], t) => v = u
      BY <1>0, <3>1 DEF Parks
    <3>3. Signallers(t) = {u}
      BY <1>1, <3>1, <3>2
    <3>4. Cardinality(Signallers(t)) = 1
      BY <3>3, FS_Singleton
    <3>5. places = {}
      BY <2>4, <2>7 DEF Contains
    <3> QED BY <2>1, <3>4, <3>5 DEF W, c
  <2> QED BY <2>5, <2>6, <2>7
<1> QED
  BY <1>2, <1>3

(* A thread that waits on c will be seen: by the flag, or by a notifyAll.  *)
Seen(c) ==
  \/ hasWaiters[c]
  \/ \E t \in Threads : pc[t] \in {"unparkAll", "unpark"} /\ all[t] /\ cond[t] = c

(* No thread waits unseen.                                                 *)
Unmissed == \A c \in Conditions : Lines[c] # <<>> => Seen(c)

(* Seen from the lines, this is NoMissedNotification.                      *)
LEMMA UnmissedIs == Unmissed <=> NoMissedNotification
<1>1. \A c \in Conditions : Lines[c] = WaitersOf(c)
  BY WaitersOfIs DEF Lines, LinesOf
<1> QED
  BY <1>1 DEF Unmissed, Seen, NoMissedNotification

(* A condition with no bucket has no waiters.                              *)
LEMMA NoBucketNoWaiters ==
  ASSUME NEW c \in Conditions, BucketIn(tables, Len(tables), c) = Null
  PROVE  Lines[c] = <<>>
BY DEF Lines, LinesOf, Waiters

(* If notifyOne finds the bucket empty afterwards, nobody waits.           *)
LEMMA EmptyBucketNoWaiters ==
  ASSUME IInv, NEW t \in Threads, UnparkOne(t), queue'[MyBucket(t)] = <<>>
  PROVE  Lines'[cond[t]] = <<>>
<1>1. /\ pc[t] = "unpark" /\ my[t] = Len(tables) /\ tables' = tables
  BY DEF UnparkOne, UnderBucketLock, TableUnchanged, MyHashtableIsCurrent, tableVars
<1>2. /\ cond[t] \in Conditions /\ tables # <<>>
      /\ MyBucket(t) = BucketIn(tables, Len(tables), cond[t])
      /\ MyBucket(t) # Null
  BY <1>1, UnderTheLock
<1>3. Lines'[cond[t]] = Selected(queue'[MyBucket(t)], {u \in Threads : address'[u] = cond[t]})
  BY <1>1, <1>2 DEF Lines, LinesOf, Waiters
<1> DEFINE S == {u \in Threads : address'[u] = cond[t]}
<1> HIDE DEF S
<1>4. Selected(<<>>, S) = <<>>
  BY SelectedEmpty
<1> QED
  BY <1>3, <1>4 DEF S

(* No step makes a notification miss a waiter.                             *)
LEMMA UnmissedStep ==
  ASSUME IInv, Unmissed, NEW t \in Threads, Acts(t) PROVE Unmissed'
<1> USE DEF Goto, mutexVars, tableVars, callVars
<1>0. /\ pc \in [Threads -> Labels] /\ cond \in [Threads -> Conditions \cup {None}]
      /\ all \in [Threads -> BOOLEAN] /\ hasWaiters \in [Conditions -> BOOLEAN]
      /\ LocalInv(t) /\ Others(t) /\ Lines \in [Conditions -> Seq(Threads)]
  BY Typed, Before DEF IInv, TypeInv, TypedStep
<1>a. ASSUME NEW c \in Conditions, hasWaiters[c] => hasWaiters'[c] \/ Lines'[c] = <<>>,
             Lines'[c] # <<>> => Lines[c] # <<>>,
             \/ pc[t] \notin {"unparkAll", "unpark"} \/ ~all[t] \/ cond[t] # c
             \/ pc'[t] \in {"unparkAll", "unpark"} /\ all'[t] /\ cond'[t] = c
             \/ Lines'[c] = <<>>
      PROVE  Lines'[c] # <<>> => Seen(c)'
  <2> SUFFICES ASSUME Lines'[c] # <<>> PROVE Seen(c)'
    OBVIOUS
  <2>1. Seen(c)
    BY <1>a DEF Unmissed
  <2>2. CASE hasWaiters[c]
    BY <1>a, <2>2 DEF Seen
  <2>3. CASE ~hasWaiters[c]
    <3>1. PICK u \in Threads : pc[u] \in {"unparkAll", "unpark"} /\ all[u] /\ cond[u] = c
      BY <2>1, <2>3 DEF Seen
    <3>2. CASE u # t
      BY <1>0, <3>1, <3>2 DEF Others, Seen
    <3>3. CASE u = t
      BY <1>a, <3>1, <3>3 DEF Seen
    <3> QED BY <3>2, <3>3
  <2> QED BY <2>2, <2>3
<1>b. ASSUME hasWaiters' = hasWaiters, Lines' = Lines,
             pc[t] \notin {"unparkAll", "unpark"} \/ ~all[t]
      PROVE  Unmissed'
  <2>1. ASSUME NEW c \in Conditions PROVE Lines'[c] # <<>> => Seen(c)'
    BY <1>a, <1>b, <2>1
  <2> QED BY <2>1 DEF Unmissed
<1>1. CASE \/ \E c \in Conditions : Lock(t, c) \/ NotifyAll(t, c)
           \/ Unlock(t) \/ WaitPast(t) \/ LockBucket(t) \/ TableWasRehashed(t)
           \/ BeforeSleep(t) \/ Woken(t) \/ TimesOut(t) \/ DequeueSelfAgain(t)
           \/ NotInQueue(t) \/ AwaitSignal(t) \/ Relock(t)
  <2>1. Lines' = Lines
    BY <1>1, QuietActions DEF Quiet
  <2>2. hasWaiters' = hasWaiters /\ pc[t] \notin {"unparkAll", "unpark"}
    BY <1>1 DEF Lock, NotifyAll, MayNotify, Unlock, WaitPast, LockBucket, TableWasRehashed,
       BeforeSleep,
                Woken, TimesOut, DequeueSelfAgain, NotInQueue, AwaitSignal, Relock,
                TryAgain, UnderBucketLock, ParkReturns, DequeueSelfLoad
  <2> QED BY <1>b, <2>1, <2>2
<1>2. CASE \/ \E c \in Conditions : NotifyOne(t, c)
           \/ UnparkOneAgain(t) \/ EnqueueAgain(t) \/ WaitUntil(t) \/ Rehash(t) \/ LockHashtable(t)
  <2>1. Lines' = Lines
    BY <1>2, LoadActions, RehashQuiet, LockHashtableQuiet DEF Quiet
  <2>2. hasWaiters' = hasWaiters /\ (pc[t] \notin {"unparkAll", "unpark"} \/ ~all[t])
    BY <1>2 DEF NotifyOne, MayNotify, UnparkOneAgain, EnqueueAgain, WaitUntil, Rehash,
       LockHashtable,
                TryAgain
  <2> QED BY <1>b, <2>1, <2>2
<1>3. CASE Clear(t)
  <2>1. Lines' = Lines
    BY <1>3, QuietActions DEF Quiet
  <2>2. /\ pc[t] = "clear" /\ hasWaiters' = [hasWaiters EXCEPT ![cond[t]] = FALSE]
        /\ pc'[t] = "unparkAll" /\ all' = all /\ cond' = cond
    BY <1>0, <1>3 DEF Clear
  <2>3. all[t]
    BY <1>0, <2>2 DEF LocalInv
  <2>4. ASSUME NEW c \in Conditions PROVE Lines'[c] # <<>> => Seen(c)'
    <3>1. CASE c = cond[t]
      BY <2>2, <2>3, <3>1 DEF Seen
    <3>2. CASE c # cond[t]
      <4>1. hasWaiters'[c] = hasWaiters[c]
        BY <1>0, <2>2, <3>2
      <4> QED BY <1>a, <2>1, <3>2, <4>1
    <3> QED BY <3>1, <3>2
  <2> QED BY <2>4 DEF Unmissed
<1>4. CASE BeginUnparkAll(t) \/ UnparkAllAgain(t)
  <2>1. Lines' = Lines
    BY <1>4, QuietActions DEF Quiet
  <2>2. hasWaiters' = hasWaiters /\ pc[t] # "idle"
    BY <1>4 DEF BeginUnparkAll, UnparkAllAgain, UnparkAllLoad, TryAgain
  <2>3. cond[t] \in Conditions
    BY <1>0, <2>2 DEF LocalInv
  <2>4. \/ Lines[cond[t]] = <<>>
        \/ pc'[t] = "unpark" /\ all' = all /\ cond' = cond
    <3>1. CASE BucketIn(tables, Len(tables), cond[t]) = Null
      BY <2>3, <3>1, NoBucketNoWaiters
    <3>2. CASE BucketIn(tables, Len(tables), cond[t]) # Null
      BY <1>0, <1>4, <3>2 DEF BeginUnparkAll, UnparkAllAgain, UnparkAllLoad
    <3> QED BY <3>1, <3>2
  <2>5. ASSUME NEW c \in Conditions PROVE Lines'[c] # <<>> => Seen(c)'
    BY <1>a, <2>1, <2>2, <2>4
  <2> QED BY <2>5 DEF Unmissed
<1>5. CASE Enqueue(t)
  <2>1. /\ cond[t] \in Conditions /\ Joined(Lines, cond[t], t, Lines')
    BY <1>5, EnqueueEffect
  <2>2. /\ hasWaiters' = [hasWaiters EXCEPT ![cond[t]] = TRUE] /\ pc[t] = "enqueue"
    BY <1>5 DEF Enqueue, UnderBucketLock
  <2>3. ASSUME NEW c \in Conditions PROVE Lines'[c] # <<>> => Seen(c)'
    <3>1. CASE c = cond[t]
      BY <1>0, <2>2, <3>1 DEF Seen
    <3>2. CASE c # cond[t]
      <4>1. hasWaiters'[c] = hasWaiters[c] /\ Lines'[c] = Lines[c]
        BY <1>0, <2>1, <2>2, <3>2 DEF Joined
      <4> QED BY <1>a, <2>2, <4>1
    <3> QED BY <3>1, <3>2
  <2> QED BY <2>3 DEF Unmissed
<1>6. CASE DequeueSelf(t)
  <2>1. /\ cond[t] \in Conditions /\ Kept(Lines, cond[t], Threads \ {t}, Lines')
        /\ Contains(Lines[cond[t]], t)
    BY <1>6, DequeueSelfEffect
  <2>2. hasWaiters' = hasWaiters /\ pc[t] = "dequeueSelf"
    BY <1>6 DEF DequeueSelf, UnderBucketLock, ParkReturns
  <2>3. Lines[cond[t]] # <<>>
    BY <2>1 DEF Contains
  <2>4. ASSUME NEW c \in Conditions PROVE Lines'[c] # <<>> => Lines[c] # <<>>
    BY <1>0, <2>1, <2>3 DEF Kept
  <2>5. ASSUME NEW c \in Conditions PROVE Lines'[c] # <<>> => Seen(c)'
    BY <1>a, <2>2, <2>4
  <2> QED BY <2>5 DEF Unmissed
<1>7. CASE UnparkOne(t)
  <2>1. /\ cond[t] \in Conditions /\ Parked(t) = Lines[cond[t]]
        /\ Lines[cond[t]] = <<>> => Quiet
        /\ Lines[cond[t]] # <<>> =>
              HandedOver(t, <<Head(Lines[cond[t]])>>, Tail(Lines[cond[t]]))
    BY <1>7, UnparkOneEffect
  <2> DEFINE rest == IF Parked(t) = <<>> THEN queue[MyBucket(t)]
                     ELSE Selected(queue[MyBucket(t)], Threads \ {Head(Parked(t))})
  <2>2. /\ ~all[t] /\ queue' = [queue EXCEPT ![MyBucket(t)] = rest]
        /\ IF MayHaveMoreThreads(t, rest) THEN UNCHANGED hasWaiters
           ELSE hasWaiters' = [hasWaiters EXCEPT ![cond[t]] = FALSE]
    BY <1>7 DEF UnparkOne
  <2>3. MyBucket(t) \in Buckets /\ queue \in [Buckets -> Seq(Threads)]
    BY <1>7, UnderTheLock DEF UnparkOne, UnderBucketLock, TableUnchanged, MyHashtableIsCurrent,
                              IInv, Placed
  <2> HIDE DEF rest
  <2>4. queue'[MyBucket(t)] = rest
    BY <2>2, <2>3
  <2>5. \A c \in Conditions : c # cond[t] => Lines'[c] = Lines[c]
    BY <1>0, <2>1 DEF Quiet, HandedOver, Updated
  <2>6. Lines'[cond[t]] # <<>> => Lines[cond[t]] # <<>>
    BY <2>1 DEF Quiet
  <2>7. hasWaiters[cond[t]] => hasWaiters'[cond[t]] \/ Lines'[cond[t]] = <<>>
    <3>1. CASE MayHaveMoreThreads(t, rest)
      BY <2>2, <3>1
    <3>2. CASE Parked(t) = <<>>
      BY <2>1, <2>6, <3>2
    <3>3. CASE rest = <<>>
      BY <1>7, <2>4, <3>3, EmptyBucketNoWaiters
    <3> QED BY <3>1, <3>2, <3>3 DEF MayHaveMoreThreads
  <2>8. \A c \in Conditions : c # cond[t] => hasWaiters'[c] = hasWaiters[c]
    BY <1>0, <2>2
  <2>9. ASSUME NEW c \in Conditions PROVE Lines'[c] # <<>> => Seen(c)'
    <3>1. CASE c = cond[t]
      BY <1>a, <2>2, <2>6, <2>7, <3>1
    <3>2. CASE c # cond[t]
      BY <1>a, <2>2, <2>5, <2>8, <3>2
    <3> QED BY <3>1, <3>2
  <2> QED BY <2>9 DEF Unmissed
<1>8. CASE UnparkAll(t)
  <2>1. cond[t] \in Conditions /\ HandedOver(t, Lines[cond[t]], <<>>)
    BY <1>8, UnparkAllEffect
  <2>2. hasWaiters' = hasWaiters
    BY <1>8 DEF UnparkAll
  <2>3. Updated(Lines, cond[t], <<>>, Lines')
    BY <2>1 DEF HandedOver
  <2>4. ASSUME NEW c \in Conditions PROVE Lines'[c] # <<>> => Seen(c)'
    <3>1. CASE c = cond[t]
      BY <1>0, <2>3, <3>1 DEF Updated
    <3>2. CASE c # cond[t]
      <4>1. Lines'[c] = Lines[c]
        BY <1>0, <2>3, <3>2 DEF Updated
      <4> QED BY <1>a, <2>2, <3>2, <4>1
    <3> QED BY <3>1, <3>2
  <2> QED BY <2>4 DEF Unmissed
<1>9. CASE Signal(t)
  <2>1. Lines' = Lines
    BY <1>9, SignalEffect
  <2>2. hasWaiters' = hasWaiters /\ pc[t] = "signal"
    BY <1>9 DEF Signal
  <2> QED BY <1>b, <2>1, <2>2
<1> QED
  BY <1>1, <1>2, <1>3, <1>4, <1>5, <1>6, <1>7, <1>8, <1>9 DEF Acts, Step

(* The invariant, for every set of threads and conditions.                 *)
THEOREM ConditionInvariant == Spec => []IInv
<1> QED
  BY InitInv, NextInv, PTL DEF Spec

(* No parked thread is lost and none is woken twice, whatever rehashes and *)
(* timeouts come between.                                                  *)
THEOREM ConditionAccountsForThreads == Spec => []ParkedThreadsAccountedFor
<1> QED
  BY ConditionInvariant, AccountedFor, PTL

(* A notification is not missed.                                           *)
THEOREM ConditionNoMissedNotification == Spec => []NoMissedNotification
<1>1. Init => Unmissed
  <2>1. Init => \A c \in Conditions : Lines[c] = <<>>
    BY DEF Init, Lines, LinesOf, Waiters
  <2> QED BY <2>1 DEF Unmissed
<1>2. IInv /\ Unmissed /\ [Next]_vars => Unmissed'
  <2> SUFFICES ASSUME IInv, Unmissed, [Next]_vars PROVE Unmissed'
    OBVIOUS
  <2>1. CASE UNCHANGED vars
    BY <2>1 DEF vars, Unmissed, Seen, Lines
  <2>2. ASSUME NEW t \in Threads, Acts(t) PROVE Unmissed'
    BY <2>2, UnmissedStep
  <2> QED BY <2>1, <2>2 DEF Next, Acts
<1>3. Spec => []Unmissed
  BY <1>1, <1>2, ConditionInvariant, PTL DEF Spec
<1> QED
  BY <1>3, UnmissedIs, PTL

-----------------------------------------------------------------------------
(*                     A Condition is a Monitor                            *)

(* u is among the waiters of some condition.                               *)
InLine(W, u) == \E c \in Conditions : Contains(W[c], u)

(* The status of a thread that is or is not in line, at the label l.       *)
Told(w, l, r) ==
  IF w THEN "waiting"
  ELSE IF l \in {"beforeSleep", "asleep", "dequeueSelf", "awaitSignal"} THEN "notified"
  ELSE IF l = "relock" THEN (IF r THEN "notified" ELSE "timedOut")
  ELSE "running"

(* What Monitor's status is.                                               *)
Status == [u \in Threads |-> Told(InLine(Lines, u), pc[u], result[u])]

(* In line means in the line of the address.                               *)
LEMMA LineOfAddress ==
  ASSUME NEW W, NEW ad, NEW sg, Parks(W, ad, sg), NEW u \in Threads
  PROVE  ad[u] # None /\ Contains(W[ad[u]], u) <=> InLine(W, u)
<1>1. ASSUME ad[u] # None, Contains(W[ad[u]], u) PROVE InLine(W, u)
  <2>1. ad[u] \in Conditions
    BY <1>1 DEF Parks
  <2> QED BY <1>1, <2>1 DEF InLine
<1>2. ASSUME InLine(W, u) PROVE ad[u] # None /\ Contains(W[ad[u]], u)
  <2>1. PICK c \in Conditions : Contains(W[c], u)
    BY <1>2 DEF InLine
  <2>2. ad[u] = c
    BY <2>1 DEF Parks
  <2> QED BY <2>1, <2>2, NoneAssumption
<1> QED
  BY <1>1, <1>2

(* What Monitor sees of a state and of the next one.                       *)
LEMMA MonitorSees ==
  ASSUME Parks(Lines, address, toSignal), Parks(Lines', address', toSignal')
  PROVE  /\ [c \in Conditions |-> WaitersOf(c)] = Lines
         /\ [c \in Conditions |-> WaitersOf(c)]' = Lines'
         /\ [u \in Threads |-> StatusOf(u)] = Status
         /\ [u \in Threads |-> StatusOf(u)]' = Status'
<1>1. /\ [c \in Conditions |-> WaitersOf(c)] = Lines
      /\ \A c \in Conditions : WaitersOf(c) = Lines[c]
  BY DEF WaitersOf, Waiters, ParkedOn, Lines, LinesOf
<1>2. /\ [c \in Conditions |-> WaitersOf(c)]' = Lines'
      /\ \A c \in Conditions : WaitersOf(c)' = Lines'[c]
  BY DEF WaitersOf, Waiters, ParkedOn, Lines, LinesOf
<1>3. ASSUME NEW u \in Threads
      PROVE  StatusOf(u) = Told(InLine(Lines, u), pc[u], result[u])
  <2>1. address[u] # None => address[u] \in Conditions
    BY DEF Parks
  <2>2. address[u] # None /\ Contains(WaitersOf(address[u]), u) <=> InLine(Lines, u)
    <3>1. address[u] # None /\ Contains(Lines[address[u]], u) <=> InLine(Lines, u)
      BY LineOfAddress
    <3> QED BY <1>1, <2>1, <3>1
  <2> QED BY <2>2 DEF StatusOf, Told, InPark
<1>4. ASSUME NEW u \in Threads
      PROVE  StatusOf(u)' = Told(InLine(Lines', u), pc'[u], result'[u])
  <2>1. address'[u] # None => address'[u] \in Conditions
    BY DEF Parks
  <2>2. address'[u] # None /\ Contains(WaitersOf(address[u])', u) <=> InLine(Lines', u)
    <3>1. address'[u] # None /\ Contains(Lines'[address'[u]], u) <=> InLine(Lines', u)
      BY LineOfAddress
    <3>2. address'[u] \in Conditions => WaitersOf(address[u])' = Lines'[address'[u]]
      BY DEF WaitersOf, Waiters, ParkedOn, Lines, LinesOf
    <3> QED BY <2>1, <3>1, <3>2
  <2> QED BY <2>2 DEF StatusOf, Told, InPark
<1> QED
  BY <1>1, <1>2, <1>3, <1>4 DEF Status

(* Monitor's steps, in terms of lines and statuses.                        *)
Sees ==
  /\ [c \in Conditions |-> WaitersOf(c)] = Lines
  /\ [c \in Conditions |-> WaitersOf(c)]' = Lines'
  /\ [u \in Threads |-> StatusOf(u)] = Status
  /\ [u \in Threads |-> StatusOf(u)]' = Status'

(* Monitor's sequence operators are Condition's.                           *)
LEMMA SameOperators ==
  /\ \A s, x : M!Contains(s, x) = Contains(s, x)
  /\ \A s, S : M!Selected(s, S) = Selected(s, S)
<1>1. \A s, x : M!Contains(s, x) = Contains(s, x)
  BY DEF M!Contains, Contains
<1>2. \A s, S : M!Selected(s, S) = Selected(s, S)
  BY DEF M!Selected, Selected
<1> QED
  BY <1>1, <1>2

(* Nothing visible changes.                                                *)
LEMMA SeesStutter ==
  ASSUME Sees, holder' = holder, Lines' = Lines, Status' = Status
  PROVE  [M!Next]_(M!vars)
BY DEF Sees, M!vars

(* A thread takes a free lock.                                             *)
LEMMA SeesAcquire ==
  ASSUME Sees, NEW t \in Threads, NEW c \in Conditions,
         holder[c] = None, Status[t] = "running", holder' = [holder EXCEPT ![c] = t],
         Lines' = Lines, Status' = Status
  PROVE  [M!Next]_(M!vars)
<1>1. M!Acquire(t, c)
  BY DEF Sees, M!Acquire
<1> QED
  BY <1>1 DEF M!Next

(* A thread gives up its lock.                                             *)
LEMMA SeesRelease ==
  ASSUME Sees, NEW t \in Threads, NEW c \in Conditions,
         holder[c] = t, holder' = [holder EXCEPT ![c] = None],
         Lines' = Lines, Status' = Status
  PROVE  [M!Next]_(M!vars)
<1>1. M!Release(t, c)
  BY DEF Sees, M!Release
<1> QED
  BY <1>1 DEF M!Next

(* A thread that holds the lock joins the line.                            *)
LEMMA SeesWait ==
  ASSUME Sees, NEW t \in Threads, NEW c \in Conditions,
         holder[c] = t, Status[t] = "running", holder' = holder,
         Joined(Lines, c, t, Lines'), Updated(Status, t, "waiting", Status')
  PROVE  [M!Next]_(M!vars)
<1>1. M!Wait(t, c)
  BY DEF Sees, M!Wait, Joined, Updated
<1> QED
  BY <1>1 DEF M!Next

(* A wait whose timeout is in the past.                                    *)
LEMMA SeesWaitPast ==
  ASSUME Sees, NEW t \in Threads, NEW c \in Conditions,
         holder[c] = t, Status[t] = "running", holder' = [holder EXCEPT ![c] = None],
         Lines' = Lines, Updated(Status, t, "timedOut", Status')
  PROVE  [M!Next]_(M!vars)
<1>1. M!WaitPast(t, c)
  BY DEF Sees, M!WaitPast, Updated
<1> QED
  BY <1>1 DEF M!Next

(* The head of the line is notified.                                       *)
LEMMA SeesNotifyOne ==
  ASSUME Sees, NEW c \in Conditions, holder' = holder, Lines[c] # <<>>,
         Updated(Lines, c, Tail(Lines[c]), Lines'),
         Updated(Status, Head(Lines[c]), "notified", Status')
  PROVE  [M!Next]_(M!vars)
<1>1. M!NotifyOne(c)
  BY DEF Sees, M!NotifyOne, Updated
<1> QED
  BY <1>1 DEF M!Next

(* The whole line is notified.                                             *)
LEMMA SeesNotifyAll ==
  ASSUME Sees, NEW c \in Conditions, holder' = holder,
         Updated(Lines, c, <<>>, Lines'),
         Status' = [u \in Threads |-> IF Contains(Lines[c], u) THEN "notified" ELSE Status[u]]
  PROVE  [M!Next]_(M!vars)
<1>1. M!NotifyAll(c)
  BY SameOperators DEF Sees, M!NotifyAll, Updated
<1> QED
  BY <1>1 DEF M!Next

(* A thread that has given up the lock leaves the line.                    *)
LEMMA SeesTimeOut ==
  ASSUME Sees, NEW t \in Threads, NEW c \in Conditions, holder' = holder,
         holder[c] # t, Contains(Lines[c], t), Kept(Lines, c, Threads \ {t}, Lines'),
         Updated(Status, t, "timedOut", Status')
  PROVE  [M!Next]_(M!vars)
<1>1. M!TimeOut(t, c)
  BY SameOperators DEF Sees, M!TimeOut, Kept, Updated
<1> QED
  BY <1>1 DEF M!Next

(* A wait ends with the lock taken again.                                  *)
LEMMA SeesReturn ==
  ASSUME Sees, NEW t \in Threads, NEW c \in Conditions, holder[c] = None,
         Status[t] \in {"notified", "timedOut"}, holder' = [holder EXCEPT ![c] = t],
         Lines' = Lines, Updated(Status, t, "running", Status')
  PROVE  [M!Next]_(M!vars)
<1>1. M!Return(t, c)
  BY DEF Sees, M!Return, Updated
<1> QED
  BY <1>1 DEF M!Next

(* The labels of a thread inside its park, and of one outside its wait.    *)
Parking == {"beforeSleep", "asleep", "dequeueSelf", "awaitSignal"}
Running == Labels \ (Parking \cup {"relock"})

(* A thread outside its park is in no line.                                *)
LEMMA OutOfLine ==
  ASSUME IInv, NEW t \in Threads, pc[t] \notin Parking \/ address[t] = None
  PROVE  ~InLine(Lines, t)
<1>1. Parks(Lines, address, toSignal) /\ LocalInv(t)
  BY DEF IInv
<1>2. address[t] = None
  BY <1>1 DEF LocalInv, InPark, Parking
<1> QED
  BY <1>1, <1>2, LineOfAddress

(* What Monitor sees of the thread t, from where t is.                     *)
LEMMA OwnStatus ==
  ASSUME IInv, NEW t \in Threads
  PROVE  /\ Status[t] = Told(InLine(Lines, t), pc[t], result[t])
         /\ pc[t] \in Running => Status[t] = "running"
         /\ pc[t] = "relock" => Status[t] \in {"notified", "timedOut"}
<1>1. Status[t] = Told(InLine(Lines, t), pc[t], result[t])
  BY DEF Status
<1>2. pc[t] \notin Parking => ~InLine(Lines, t)
  BY OutOfLine
<1> QED
  BY <1>1, <1>2 DEF Told, Running, Parking

(* A step of t that moves nobody else in or out of line tells t only.      *)
LEMMA TellsOne ==
  ASSUME NEW t \in Threads, Others(t), NEW s,
         \A u \in Threads \ {t} : InLine(Lines', u) <=> InLine(Lines, u),
         Told(InLine(Lines', t), pc'[t], result'[t]) = s
  PROVE  Updated(Status, t, s, Status')
<1>1. Status' = [u \in Threads |-> Told(InLine(Lines', u), pc'[u], result'[u])]
  BY DEF Status
<1>2. ASSUME NEW u \in Threads, u # t
      PROVE  Told(InLine(Lines', u), pc'[u], result'[u]) = Told(InLine(Lines, u), pc[u], result[u])
  BY <1>2 DEF Others, Told
<1> QED
  BY <1>1, <1>2 DEF Status, Updated

(* A step of t that moves nobody in or out of line and keeps t's status    *)
(* tells nobody.                                                           *)
LEMMA TellsNobody ==
  ASSUME IInv, NEW t \in Threads, Others(t), Lines' = Lines,
         \/ pc[t] \in Running /\ pc'[t] \in Running
         \/ pc[t] \in Parking /\ pc'[t] \in Parking
         \/ pc[t] \in Parking /\ pc'[t] = "relock" /\ result'[t] /\ address[t] = None
  PROVE  Status' = Status
<1>1. Updated(Status, t, Told(InLine(Lines', t), pc'[t], result'[t]), Status')
  BY TellsOne
<1>2. Told(InLine(Lines', t), pc'[t], result'[t]) = Told(InLine(Lines, t), pc[t], result[t])
  <2>1. pc[t] \notin Parking \/ address[t] = None => ~InLine(Lines, t)
    BY OutOfLine
  <2> QED BY <2>1 DEF Told, Running, Parking
<1>3. Told(InLine(Lines, t), pc[t], result[t]) = Status[t]
  BY OwnStatus
<1> QED
  BY <1>1, <1>2, <1>3 DEF Updated, Status

(* The head of the line is notified.                                       *)
LEMMA TellsHead ==
  ASSUME IInv, NEW t \in Threads, Others(t), NEW c \in Conditions, Lines[c] # <<>>,
         Updated(Lines, c, Tail(Lines[c]), Lines'),
         pc[t] \in Running, pc'[t] \in Running
  PROVE  Updated(Status, Head(Lines[c]), "notified", Status')
<1> DEFINE h == Head(Lines[c])
<1>1. /\ Lines \in [Conditions -> Seq(Threads)] /\ Parks(Lines, address, toSignal)
      /\ NoDup(Lines[c])
  BY Before
<1>2. /\ h \in Threads /\ Contains(Lines[c], h)
      /\ \A x : Contains(Tail(Lines[c]), x) <=> Contains(Lines[c], x) /\ x # h
  <2>1. Lines[c] \in Seq(Threads)
    BY <1>1
  <2> QED BY <1>1, <2>1, WithoutHead
<1> HIDE DEF h
<1>3. Lines'[c] = Tail(Lines[c]) /\ \A d \in Conditions : d # c => Lines'[d] = Lines[d]
  BY <1>1 DEF Updated
<1>4. \A d \in Conditions : \A x : Contains(Lines[d], x) => address[x] = d
  BY <1>1 DEF Parks
<1>5. pc[h] \in Parking /\ h # t
  <2>1. InLine(Lines, h)
    BY <1>2 DEF InLine
  <2>2. pc[h] \in Parking
    BY <1>2, <2>1, OutOfLine
  <2> QED BY <2>2 DEF Running
<1>6. \A u \in Threads : u # h => (InLine(Lines', u) <=> InLine(Lines, u))
  BY <1>2, <1>3 DEF InLine
<1>7. ~InLine(Lines', h)
  BY <1>2, <1>3, <1>4 DEF InLine
<1>8. Status' = [u \in Threads |-> Told(InLine(Lines', u), pc'[u], result'[u])]
  BY DEF Status
<1>9. Told(InLine(Lines', h), pc'[h], result'[h]) = "notified"
  BY <1>2, <1>5, <1>7 DEF Told, Parking, Others
<1>10. ASSUME NEW u \in Threads, u # h
       PROVE  Told(InLine(Lines', u), pc'[u], result'[u]) = Told(InLine(Lines, u), pc[u], result[u])
  <2>1. CASE u = t
    <3>1. ~InLine(Lines, t)
      BY OutOfLine DEF Running
    <3> QED BY <1>6, <1>10, <2>1, <3>1 DEF Told, Running, Parking
  <2>2. CASE u # t
    BY <1>6, <1>10, <2>2 DEF Told, Others
  <2> QED BY <2>1, <2>2
<1> QED
  BY <1>8, <1>9, <1>10 DEF Status, Updated, h

(* Everybody in the line is notified.                                      *)
LEMMA TellsAll ==
  ASSUME IInv, NEW t \in Threads, Others(t), NEW c \in Conditions,
         Updated(Lines, c, <<>>, Lines'),
         pc[t] \in Running, pc'[t] \in Running
  PROVE  Status' = [u \in Threads |-> IF Contains(Lines[c], u) THEN "notified" ELSE Status[u]]
<1>1. Lines \in [Conditions -> Seq(Threads)] /\ Parks(Lines, address, toSignal)
  BY Before
<1>2. Lines'[c] = <<>> /\ \A d \in Conditions : d # c => Lines'[d] = Lines[d]
  BY <1>1 DEF Updated
<1>3. \A d \in Conditions : \A x : Contains(Lines[d], x) => address[x] = d
  BY <1>1 DEF Parks
<1>4. \A x : ~Contains(<<>>, x)
  BY DEF Contains
<1>5. Status' = [u \in Threads |-> Told(InLine(Lines', u), pc'[u], result'[u])]
  BY DEF Status
<1>6. ASSUME NEW u \in Threads
      PROVE  Told(InLine(Lines', u), pc'[u], result'[u]) =
               IF Contains(Lines[c], u) THEN "notified" ELSE Status[u]
  <2>1. CASE Contains(Lines[c], u)
    <3>1. InLine(Lines, u)
      BY <2>1 DEF InLine
    <3>2. pc[u] \in Parking
      BY <3>1, OutOfLine
    <3>3. u # t
      BY <3>2 DEF Running
    <3>4. ~InLine(Lines', u)
      BY <1>2, <1>3, <1>4, <2>1 DEF InLine
    <3>5. pc'[u] = pc[u]
      BY <3>3 DEF Others
    <3> QED BY <2>1, <3>2, <3>4, <3>5 DEF Told, Parking
  <2>2. CASE ~Contains(Lines[c], u)
    <3>1. InLine(Lines', u) <=> InLine(Lines, u)
      BY <1>2, <1>4, <2>2 DEF InLine
    <3>2. Status[u] = Told(InLine(Lines, u), pc[u], result[u])
      BY OwnStatus
    <3>3. CASE u = t
      <4>1. ~InLine(Lines, t)
        BY OutOfLine DEF Running
      <4> QED BY <2>2, <3>1, <3>2, <3>3, <4>1 DEF Told, Running, Parking
    <3>4. CASE u # t
      BY <2>2, <3>1, <3>2, <3>4 DEF Told, Others
    <3> QED BY <3>3, <3>4
  <2> QED BY <2>1, <2>2
<1> QED
  BY <1>5, <1>6

(* Every step of a thread is a step of the monitor or is invisible to it.  *)
LEMMA StepRefines ==
  ASSUME IInv, NEW t \in Threads, Acts(t) PROVE [M!Next]_(M!vars)
<1> USE DEF Goto, mutexVars, tableVars, callVars
<1>0. /\ pc \in [Threads -> Labels] /\ cond \in [Threads -> Conditions \cup {None}]
      /\ result \in [Threads -> BOOLEAN]
      /\ HolderInv /\ LocalInv(t) /\ Others(t) /\ Lines \in [Conditions -> Seq(Threads)]
      /\ pc' \in [Threads -> Labels]
  BY Typed, Before DEF IInv, TypeInv, TypedStep
<1>a. Sees
  <2>1. Parks(Lines, address, toSignal) /\ Parks(Lines', address', toSignal')
    BY PlacesStep, Before
  <2> QED BY <2>1, MonitorSees DEF Sees
<1>b. pc[t] # "idle" => cond[t] \in Conditions
  BY <1>0 DEF LocalInv
<1>c. pc[t] \in Holding => holder[cond[t]] = t
  BY <1>0 DEF HolderInv
<1>d. ASSUME holder' = holder, Lines' = Lines, pc[t] \in Running, pc'[t] \in Running
      PROVE  [M!Next]_(M!vars)
  <2>1. Status' = Status
    BY <1>0, <1>d, TellsNobody
  <2> QED BY <1>a, <1>d, <2>1, SeesStutter
<1>e. /\ pc[t] \in Running => Status[t] = "running"
      /\ pc[t] = "relock" => Status[t] \in {"notified", "timedOut"}
  BY OwnStatus
<1>1. ASSUME NEW c \in Conditions, Lock(t, c) PROVE [M!Next]_(M!vars)
  <2>1. Lines' = Lines
    BY <1>1, QuietActions DEF Quiet
  <2>2. /\ pc[t] = "idle" /\ pc'[t] = "locked" /\ holder[c] = None
        /\ holder' = [holder EXCEPT ![c] = t]
    BY <1>0, <1>1 DEF Lock
  <2>3. pc[t] \in Running /\ pc'[t] \in Running
    BY <2>2 DEF Running, Parking, Labels
  <2>4. Status' = Status
    BY <1>0, <2>1, <2>3, TellsNobody
  <2> QED BY <1>a, <1>e, <2>1, <2>2, <2>3, <2>4, SeesAcquire
<1>2. CASE Unlock(t) \/ BeforeSleep(t)
  <2>1. Lines' = Lines
    BY <1>2, QuietActions DEF Quiet
  <2>2. /\ \/ pc[t] = "locked" /\ pc'[t] = "idle"
           \/ pc[t] = "beforeSleep" /\ pc'[t] = "asleep"
        /\ holder' = [holder EXCEPT ![cond[t]] = None]
    BY <1>0, <1>2 DEF Unlock, BeforeSleep, ReleaseLock
  <2>3. \/ pc[t] \in Running /\ pc'[t] \in Running
        \/ pc[t] \in Parking /\ pc'[t] \in Parking
    BY <2>2 DEF Running, Parking, Labels
  <2>4. Status' = Status
    BY <1>0, <2>1, <2>3, TellsNobody
  <2>5. PICK c \in Conditions : c = cond[t]
    BY <1>b, <2>2
  <2>6. holder[c] = t
    BY <1>c, <2>2, <2>5 DEF Holding
  <2> QED BY <1>a, <2>1, <2>2, <2>4, <2>5, <2>6, SeesRelease
<1>3. CASE WaitPast(t)
  <2>1. Lines' = Lines
    BY <1>3, QuietActions DEF Quiet
  <2>2. /\ pc[t] = "locked" /\ pc'[t] = "relock" /\ result'[t] = FALSE
        /\ holder' = [holder EXCEPT ![cond[t]] = None]
    BY <1>0, <1>3 DEF WaitPast, ReleaseLock
  <2>3. ~InLine(Lines', t)
    BY <2>1, <2>2, OutOfLine DEF Parking
  <2>4. Told(InLine(Lines', t), pc'[t], result'[t]) = "timedOut"
    BY <2>2, <2>3 DEF Told
  <2>5. Updated(Status, t, "timedOut", Status')
    BY <1>0, <2>1, <2>4, TellsOne
  <2>6. PICK c \in Conditions : c = cond[t]
    BY <1>b, <2>2
  <2>7. holder[c] = t /\ Status[t] = "running"
    BY <1>c, <1>e, <2>2, <2>6 DEF Holding, Running, Parking, Labels
  <2> QED BY <1>a, <2>1, <2>2, <2>5, <2>6, <2>7, SeesWaitPast
<1>4. CASE Enqueue(t)
  <2>1. /\ cond[t] \in Conditions /\ Joined(Lines, cond[t], t, Lines')
    BY <1>4, EnqueueEffect
  <2>2. PICK c \in Conditions : c = cond[t]
    BY <2>1
  <2>3. /\ pc[t] = "enqueue" /\ holder' = holder
    BY <1>4 DEF Enqueue, UnderBucketLock
  <2>4. Lines'[c] = Append(Lines[c], t) /\ \A d \in Conditions : d # c => Lines'[d] = Lines[d]
    BY <1>0, <2>1, <2>2 DEF Joined
  <2>5. \A x : Contains(Lines'[c], x) <=> Contains(Lines[c], x) \/ x = t
    <3>1. Lines[c] \in Seq(Threads)
      BY <1>0
    <3> QED BY <2>4, <3>1, AppendContains
  <2>6. \A u \in Threads \ {t} : InLine(Lines', u) <=> InLine(Lines, u)
    BY <2>4, <2>5 DEF InLine
  <2>7. InLine(Lines', t)
    BY <2>5 DEF InLine
  <2>8. Told(InLine(Lines', t), pc'[t], result'[t]) = "waiting"
    BY <2>7 DEF Told
  <2>9. Updated(Status, t, "waiting", Status')
    BY <1>0, <2>6, <2>8, TellsOne
  <2>10. holder[c] = t /\ Status[t] = "running"
    BY <1>c, <1>e, <2>2, <2>3 DEF Holding, Running, Parking, Labels
  <2> QED BY <1>a, <2>1, <2>2, <2>3, <2>9, <2>10, SeesWait
<1>5. CASE DequeueSelf(t)
  <2>1. /\ cond[t] \in Conditions /\ Kept(Lines, cond[t], Threads \ {t}, Lines')
        /\ Contains(Lines[cond[t]], t) /\ Updated(address, t, None, address')
    BY <1>5, DequeueSelfEffect
  <2>2. PICK c \in Conditions : c = cond[t]
    BY <2>1
  <2>3. /\ pc[t] = "dequeueSelf" /\ pc'[t] = "relock" /\ result'[t] = FALSE /\ holder' = holder
    BY <1>0, <1>5 DEF DequeueSelf, UnderBucketLock, ParkReturns
  <2>4. Lines'[c] = Selected(Lines[c], Threads \ {t})
        /\ \A d \in Conditions : d # c => Lines'[d] = Lines[d]
    BY <1>0, <2>1, <2>2 DEF Kept
  <2>5. \A u \in Threads \ {t} : Contains(Lines'[c], u) <=> Contains(Lines[c], u)
    <3> DEFINE K == Threads \ {t}
    <3>1. Lines[c] \in Seq(Threads) /\ \A u \in Threads \ {t} : u \in K
      BY <1>0
    <3> HIDE DEF K
    <3>2. \A x : Contains(Selected(Lines[c], K), x) <=> Contains(Lines[c], x) /\ x \in K
      BY <3>1, SelectedElements
    <3> QED BY <2>4, <3>1, <3>2 DEF K
  <2>6. \A u \in Threads \ {t} : InLine(Lines', u) <=> InLine(Lines, u)
    BY <2>4, <2>5 DEF InLine
  <2>7. ~InLine(Lines', t)
    <3>1. address'[t] = None
      BY <2>1 DEF Updated, IInv, Placed
    <3>2. Parks(Lines', address', toSignal')
      BY PlacesStep
    <3> QED BY <3>1, <3>2, LineOfAddress
  <2>8. Told(InLine(Lines', t), pc'[t], result'[t]) = "timedOut"
    BY <2>3, <2>7 DEF Told
  <2>9. Updated(Status, t, "timedOut", Status')
    BY <1>0, <2>6, <2>8, TellsOne
  <2>10. holder[c] # t
    BY <1>0, <2>3 DEF HolderInv, MayHold, Holding
  <2> QED BY <1>a, <2>1, <2>2, <2>3, <2>9, <2>10, SeesTimeOut
<1>6. CASE Relock(t)
  <2>1. Lines' = Lines
    BY <1>6, QuietActions DEF Quiet
  <2>2. /\ pc[t] = "relock" /\ pc'[t] = "locked" /\ holder[cond[t]] = None
        /\ holder' = [holder EXCEPT ![cond[t]] = t]
    BY <1>0, <1>6 DEF Relock
  <2>3. ~InLine(Lines', t)
    BY <2>1, <2>2, OutOfLine DEF Parking
  <2>4. Told(InLine(Lines', t), pc'[t], result'[t]) = "running"
    BY <2>2, <2>3 DEF Told
  <2>5. Updated(Status, t, "running", Status')
    BY <1>0, <2>1, <2>4, TellsOne
  <2>6. PICK c \in Conditions : c = cond[t]
    BY <1>b, <2>2
  <2>7. Status[t] \in {"notified", "timedOut"}
    BY <1>e, <2>2
  <2> QED BY <1>a, <2>1, <2>2, <2>5, <2>6, <2>7, SeesReturn
<1>f. ASSUME NotifyReturns(t) PROVE pc'[t] \in {"locked", "idle"}
  BY <1>0, <1>f DEF NotifyReturns
<1>7. CASE UnparkOne(t)
  <2>1. /\ cond[t] \in Conditions
        /\ Lines[cond[t]] = <<>> => Quiet
        /\ Lines[cond[t]] # <<>> =>
              HandedOver(t, <<Head(Lines[cond[t]])>>, Tail(Lines[cond[t]]))
    BY <1>7, UnparkOneEffect
  <2>2. /\ pc[t] = "unpark" /\ holder' = holder /\ pc'[t] \in {"locked", "idle", "signal"}
    BY <1>0, <1>f, <1>7 DEF UnparkOne, UnderBucketLock
  <2>3. pc[t] \in Running /\ pc'[t] \in Running
    BY <2>2 DEF Running, Parking, Labels
  <2>4. CASE Lines[cond[t]] = <<>>
    BY <1>d, <2>1, <2>2, <2>3, <2>4 DEF Quiet
  <2>5. CASE Lines[cond[t]] # <<>>
    <3>1. PICK c \in Conditions : c = cond[t]
      BY <2>1
    <3>2. Updated(Lines, c, Tail(Lines[c]), Lines')
      BY <2>1, <2>5, <3>1 DEF HandedOver
    <3>3. Updated(Status, Head(Lines[c]), "notified", Status')
      BY <1>0, <2>3, <2>5, <3>1, <3>2, TellsHead
    <3> QED BY <1>a, <2>2, <2>5, <3>1, <3>2, <3>3, SeesNotifyOne
  <2> QED BY <2>4, <2>5
<1>8. CASE UnparkAll(t)
  <2>1. cond[t] \in Conditions /\ HandedOver(t, Lines[cond[t]], <<>>)
    BY <1>8, UnparkAllEffect
  <2>2. /\ pc[t] = "unpark" /\ holder' = holder /\ pc'[t] \in {"locked", "idle", "signal"}
    BY <1>0, <1>f, <1>8 DEF UnparkAll, UnderBucketLock
  <2>3. pc[t] \in Running /\ pc'[t] \in Running
    BY <2>2 DEF Running, Parking, Labels
  <2>4. PICK c \in Conditions : c = cond[t]
    BY <2>1
  <2>5. Updated(Lines, c, <<>>, Lines')
    BY <2>1, <2>4 DEF HandedOver
  <2>6. Status' = [u \in Threads |-> IF Contains(Lines[c], u) THEN "notified" ELSE Status[u]]
    BY <1>0, <2>3, <2>5, TellsAll
  <2> QED BY <1>a, <2>2, <2>5, <2>6, SeesNotifyAll
<1>9. CASE \/ \E c \in Conditions : NotifyAll(t, c)
           \/ LockBucket(t) \/ TableWasRehashed(t) \/ Clear(t)
           \/ BeginUnparkAll(t) \/ UnparkAllAgain(t)
  <2>1. Lines' = Lines
    BY <1>9, QuietActions DEF Quiet
  <2>2. /\ holder' = holder
        /\ pc[t] \in {"idle", "locked", "lockBuckets", "clear", "unparkAll", "unpark"}
        /\ pc'[t] \in {"clear", "lockHashtable", "lockBuckets", "unparkAll", "unpark", "locked", "idle"}
    BY <1>0, <1>f, <1>9 DEF NotifyAll, MayNotify, LockBucket, TableWasRehashed, Clear,
       BeginUnparkAll, UnparkAllAgain, UnparkAllLoad, TryAgain
  <2>3. pc[t] \in Running /\ pc'[t] \in Running
    BY <2>2 DEF Running, Parking, Labels
  <2> QED BY <1>d, <2>1, <2>2, <2>3
<1>10. CASE \/ \E c \in Conditions : NotifyOne(t, c)
            \/ UnparkOneAgain(t) \/ EnqueueAgain(t) \/ WaitUntil(t) \/ Rehash(t) \/ LockHashtable(t)
  <2>1. Lines' = Lines
    BY <1>10, LoadActions, RehashQuiet, LockHashtableQuiet DEF Quiet
  <2>2. /\ holder' = holder
        /\ pc[t] \in {"idle", "locked", "lockHashtable", "lockBuckets", "enqueue", "unpark"}
        /\ pc'[t] \in {"unpark", "enqueue", "lockHashtable", "lockBuckets"}
    BY <1>0, <1>10 DEF NotifyOne, MayNotify, UnparkOneAgain, UnparkOneLoad, EnqueueAgain, WaitUntil,
       Rehash, LockHashtable, TryAgain
  <2>3. pc[t] \in Running /\ pc'[t] \in Running
    BY <2>2 DEF Running, Parking, Labels
  <2> QED BY <1>d, <2>1, <2>2, <2>3
<1>11. CASE Signal(t)
  <2>1. Lines' = Lines
    BY <1>11, SignalEffect
  <2>2. /\ holder' = holder /\ pc[t] = "signal" /\ pc'[t] \in {"locked", "idle", "signal"}
    BY <1>0, <1>f, <1>11 DEF Signal
  <2>3. pc[t] \in Running /\ pc'[t] \in Running
    BY <2>2 DEF Running, Parking, Labels
  <2> QED BY <1>d, <2>1, <2>2, <2>3
<1>12. CASE TimesOut(t) \/ DequeueSelfAgain(t) \/ NotInQueue(t)
  <2>1. Lines' = Lines
    BY <1>12, QuietActions DEF Quiet
  <2>2. /\ holder' = holder /\ pc[t] \in {"asleep", "dequeueSelf"}
        /\ pc'[t] \in {"dequeueSelf", "awaitSignal"}
    BY <1>0, <1>12 DEF TimesOut, DequeueSelfAgain, NotInQueue, DequeueSelfLoad, TryAgain,
       UnderBucketLock
  <2>3. Status' = Status
    BY <1>0, <2>1, <2>2, TellsNobody DEF Parking
  <2> QED BY <1>a, <2>1, <2>2, <2>3, SeesStutter
<1>13. CASE Woken(t) \/ AwaitSignal(t)
  <2>1. Lines' = Lines
    BY <1>13, QuietActions DEF Quiet
  <2>2. /\ holder' = holder /\ pc[t] \in {"asleep", "awaitSignal"}
        /\ pc'[t] = "relock" /\ result'[t] /\ address[t] = None
    BY <1>0, <1>13 DEF Woken, AwaitSignal, SignalArrived, ParkReturns
  <2>3. Status' = Status
    BY <1>0, <2>1, <2>2, TellsNobody DEF Parking
  <2> QED BY <1>a, <2>1, <2>2, <2>3, SeesStutter
<1> QED
  BY <1>1, <1>2, <1>3, <1>4, <1>5, <1>6, <1>7, <1>8, <1>9, <1>10, <1>11, <1>12, <1>13 DEF Acts, Step

(* The initial states are initial states of the monitor.                   *)
LEMMA InitRefines == Init => M!Init
<1> SUFFICES ASSUME Init PROVE M!Init
  OBVIOUS
<1>1. \A c \in Conditions : WaitersOf(c) = <<>>
  BY DEF Init, WaitersOf
<1>2. \A t \in Threads : StatusOf(t) = "running"
  BY DEF Init, StatusOf, InPark
<1> QED
  BY <1>1, <1>2 DEF Init, M!Init

(* A WTF::Condition is a Monitor: waits, timeouts and notifications do to  *)
(* the waiting threads exactly what the abstract monitor allows, whichever *)
(* tables and rehashes they meet.                                          *)
THEOREM ConditionImplementsMonitor == Spec => ImplementsMonitor
<1>1. IInv /\ [Next]_vars => [M!Next]_(M!vars)
  <2> SUFFICES ASSUME IInv, [Next]_vars PROVE [M!Next]_(M!vars)
    OBVIOUS
  <2>1. CASE UNCHANGED vars
    BY <2>1 DEF vars, M!vars, WaitersOf, ParkedOn, StatusOf, InPark
  <2>2. ASSUME NEW t \in Threads, Acts(t) PROVE [M!Next]_(M!vars)
    BY <2>2, StepRefines
  <2> QED BY <2>1, <2>2 DEF Next, Acts
<1> QED
  BY <1>1, InitRefines, ConditionInvariant, PTL DEF Spec, ImplementsMonitor, M!Spec
=============================================================================
