------------------------------ MODULE ListLemmas ------------------------------
(***************************************************************************)
(* What the proofs about lists need: induction over the natural numbers,   *)
(* stated for sets of them and for sets of lists, what the flattening of a  *)
(* list of lists is, which elements of a list Only keeps, and that         *)
(* SortedBy has each element of a set once.                                *)
(***************************************************************************)
EXTENDS Integers, Sequences, SequencesExt, FiniteSets, Lists,
        WellFoundedInduction, NaturalsInduction, FiniteSetTheorems, TLAPS

(* Every set of natural numbers but the empty one has a least element.     *)
LEMMA Smallest ==
  ASSUME NEW T, T \subseteq Nat, T # {} PROVE \E n \in T : \A m \in T : n <= m
<1>1. IsWellFoundedOn(OpToRel(<, Nat), Nat)
  BY NatLessThanWellFounded
<1>2. PICK n \in T : \A m \in T : ~ (<<m, n>> \in OpToRel(<, Nat))
  BY <1>1, WFMin
<1>3. ASSUME NEW m \in T PROVE n <= m
  <2>1. ~ (<<m, n>> \in OpToRel(<, Nat)) /\ m \in Nat /\ n \in Nat
    BY <1>2
  <2>2. m \in Nat /\ n \in Nat => <<m, n>> \in {x \in Nat \X Nat : x[1] < x[2]} \/ ~ (m < n)
    OBVIOUS
  <2>3. ~ (m < n)
    BY <2>1, <2>2 DEF OpToRel
  <2>4. \A a, b \in Nat : ~ (a < b) => b <= a
    OBVIOUS
  <2> QED BY <2>1, <2>3, <2>4
<1> QED BY <1>3

(* Induction: what holds of 0, and of n + 1 if of n, holds of every n.     *)
LEMMA InductionNat ==
  ASSUME NEW S, S \subseteq Nat, 0 \in S, \A n \in S : n + 1 \in S
  PROVE  S = Nat
<1>1. ASSUME Nat \ S # {} PROVE FALSE
  <2>1. PICK n \in Nat \ S : \A m \in Nat \ S : n <= m
    BY <1>1, Smallest
  <2>2. n # 0 /\ n \in Nat
    BY <2>1
  <2>3. n - 1 \in Nat /\ (n - 1) + 1 = n /\ ~ (n <= n - 1)
    BY <2>2
  <2>4. n - 1 \in S
    BY <2>1, <2>3
  <2> QED BY <2>1, <2>3, <2>4
<1> QED BY <1>1

(* The results of an operation on the first k elements of a list, one      *)
(* after the other.                                                        *)
Steps(V, op, a, k) ==
  {f \in [1..k -> V] : f[1] = a[1] /\ \A i \in 2..k : f[i] = op[<<f[i - 1], a[i]>>]}

LEMMA StepsExtend ==
  ASSUME NEW V, NEW op \in [V \X V -> V], NEW n \in Nat, NEW a \in [1..n -> V],
         NEW k \in Nat, k + 1 <= n, k # 0, NEW f \in Steps(V, op, a, k)
  PROVE  \E g : g \in Steps(V, op, a, k + 1)
<1> DEFINE last == op[<<f[k], a[k + 1]>>]
           g == [i \in 1..k + 1 |-> IF i = k + 1 THEN last ELSE f[i]]
<1>1. /\ f \in [1..k -> V] /\ f[1] = a[1]
      /\ \A i \in 2..k : f[i] = op[<<f[i - 1], a[i]>>]
  BY DEF Steps
<1>2. last \in V
  <2>1. f[k] \in V /\ a[k + 1] \in V
    BY <1>1
  <2> QED BY <2>1
<1> HIDE DEF last
<1>3. g \in [1..k + 1 -> V]
  BY <1>1, <1>2
<1>4. g[1] = a[1]
  BY <1>1
<1>5. ASSUME NEW i \in 2..k + 1 PROVE g[i] = op[<<g[i - 1], a[i]>>]
  <2>1. CASE i = k + 1
    <3>1. g[i] = last /\ g[i - 1] = f[k]
      BY <2>1
    <3> QED BY <2>1, <3>1 DEF last
  <2>2. CASE i # k + 1
    <3>1. i \in 2..k /\ g[i] = f[i] /\ g[i - 1] = f[i - 1]
      BY <2>2
    <3> QED BY <1>1, <3>1
  <2> QED BY <2>1, <2>2
<1> HIDE DEF g
<1> QED BY <1>3, <1>4, <1>5 DEF Steps

LEMMA StepsExist ==
  ASSUME NEW V, NEW op \in [V \X V -> V], NEW n \in Nat \ {0}, NEW a \in [1..n -> V]
  PROVE  \E f : f \in Steps(V, op, a, n)
<1> DEFINE Good == {k \in Nat : k + 1 <= n => \E f : f \in Steps(V, op, a, k + 1)}
<1>1. 0 \in Good
  <2>1. a[1] \in V
    OBVIOUS
  <2>2. [i \in 1..1 |-> a[1]] \in Steps(V, op, a, 1)
    BY <2>1 DEF Steps
  <2> QED BY <2>2
<1>2. ASSUME NEW k \in Good PROVE k + 1 \in Good
  <2>1. ASSUME (k + 1) + 1 <= n PROVE \E g : g \in Steps(V, op, a, (k + 1) + 1)
    <3>1. PICK f : f \in Steps(V, op, a, k + 1)
      BY <2>1
    <3>2. k + 1 \in Nat /\ k + 1 # 0
      OBVIOUS
    <3> QED BY <2>1, <3>1, <3>2, StepsExtend
  <2> QED BY <2>1
<1>3. Good \subseteq Nat
  OBVIOUS
<1>4. Good = Nat
  <2> HIDE DEF Good
  <2> QED BY <1>1, <1>2, <1>3, InductionNat
<1>5. n - 1 \in Good /\ (n - 1) + 1 = n
  <2> HIDE DEF Good
  <2> QED BY <1>4
<1> QED BY <1>5

(* FlattenSeq is the last of the concatenations of the list's elements.    *)
Concatenation(R) == [x \in Seq(R) \X Seq(R) |-> x[1] \o x[2]]

LEMMA FlattenUnfolds ==
  ASSUME NEW R, NEW s \in Seq(Seq(R)), s # << >>
  PROVE  \E f \in [1..Len(s) -> Seq(R)] :
           /\ f[1] = s[1]
           /\ \A i \in 2..Len(s) : f[i] = f[i - 1] \o s[i]
           /\ FlattenSeq(s) = f[Len(s)]
<1> DEFINE n == Len(s)
           Step(f) == [i \in 1..n |-> IF i = 1 THEN s[i] ELSE f[i - 1] \o s[i]]
           F == CHOOSE f : f = Step(f)
<1>1. n \in Nat \ {0} /\ s \in [1..n -> Seq(R)]
  OBVIOUS
<1>2. Concatenation(R) \in [Seq(R) \X Seq(R) -> Seq(R)]
  BY DEF Concatenation
<1>3. FlattenSeq(s) = F[n]
  BY <1>1 DEF FlattenSeq
<1> HIDE DEF n
<1>4. PICK f : f \in Steps(Seq(R), Concatenation(R), s, n)
  BY <1>1, <1>2, StepsExist
<1>5. f \in [1..n -> Seq(R)] /\ f[1] = s[1]
  BY <1>4 DEF Steps
<1>6. ASSUME NEW i \in 2..n PROVE f[i] = f[i - 1] \o s[i]
  <2>1. f[i] = Concatenation(R)[<<f[i - 1], s[i]>>]
    BY <1>4 DEF Steps
  <2>2. i \in 1..n /\ i - 1 \in 1..n
    BY <1>1
  <2>3. f[i - 1] \in Seq(R) /\ s[i] \in Seq(R)
    BY <1>1, <1>5, <2>2
  <2> QED BY <2>1, <2>3 DEF Concatenation
<1>7. f = Step(f)
  <2>1. ASSUME NEW i \in 1..n PROVE f[i] = IF i = 1 THEN s[i] ELSE f[i - 1] \o s[i]
    <3>1. i = 1 \/ i \in 2..n
      BY <1>1
    <3> QED BY <1>1, <1>5, <1>6, <3>1
  <2> QED BY <1>5, <2>1
<1>8. F = Step(F)
  <2> HIDE DEF Step
  <2> QED BY <1>7
<1> HIDE DEF F
<1> DEFINE Same == {k \in Nat : k + 1 <= n => F[k + 1] = f[k + 1]}
<1>9. 0 \in Same
  BY <1>1, <1>5, <1>8
<1>10. ASSUME NEW k \in Same PROVE k + 1 \in Same
  <2>1. ASSUME (k + 1) + 1 <= n PROVE F[(k + 1) + 1] = f[(k + 1) + 1]
    <3> DEFINE i == (k + 1) + 1
    <3>1. i \in 2..n /\ i \in 1..n /\ i # 1 /\ i - 1 = k + 1 /\ k + 1 <= n
      BY <1>1, <2>1
    <3>2. F[i - 1] = f[i - 1]
      BY <3>1
    <3> HIDE DEF i
    <3>3. F[i] = F[i - 1] \o s[i]
      BY <1>8, <3>1
    <3>4. F[i] = f[i]
      BY <1>6, <3>1, <3>2, <3>3
    <3> QED BY <3>4 DEF i
  <2> QED BY <2>1
<1>11. Same = Nat
  <2>1. Same \subseteq Nat
    OBVIOUS
  <2> HIDE DEF Same
  <2> QED BY <1>9, <1>10, <2>1, InductionNat
<1>12. F[n] = f[n]
  <2>1. n - 1 \in Same /\ (n - 1) + 1 = n
    <3> HIDE DEF Same
    <3> QED BY <1>1, <1>11
  <2> QED BY <2>1
<1> QED BY <1>3, <1>5, <1>6, <1>12 DEF n

LEMMA FlattenType ==
  ASSUME NEW R, NEW s \in Seq(Seq(R)) PROVE FlattenSeq(s) \in Seq(R)
<1>1. CASE s = << >>
  <2>1. Len(s) = 0
    BY <1>1
  <2>2. FlattenSeq(s) = << >>
    BY <1>1, <2>1 DEF FlattenSeq
  <2> QED BY <2>2
<1>2. CASE s # << >>
  <2>1. PICK f \in [1..Len(s) -> Seq(R)] : FlattenSeq(s) = f[Len(s)]
    BY <1>2, FlattenUnfolds
  <2>2. Len(s) \in 1..Len(s)
    BY <1>2
  <2> QED BY <2>1, <2>2
<1> QED BY <1>1, <1>2

LEMMA FlattenOne ==
  ASSUME NEW R, NEW x \in Seq(R) PROVE FlattenSeq(<<x>>) = x
<1>1. <<x>> \in Seq(Seq(R)) /\ Len(<<x>>) = 1 /\ <<x>> # << >> /\ <<x>>[1] = x
  OBVIOUS
<1> QED BY <1>1, FlattenUnfolds

LEMMA ConcatInAnyGrouping ==
  ASSUME NEW R, NEW x \in Seq(R), NEW u \in Seq(R), NEW v \in Seq(R)
  PROVE  (x \o u) \o v = x \o (u \o v)
OBVIOUS

(* A list in front goes in front.                                          *)
LEMMA FlattenCons ==
  ASSUME NEW R, NEW x \in Seq(R), NEW s \in Seq(Seq(R)), s # << >>
  PROVE  FlattenSeq(<<x>> \o s) = x \o FlattenSeq(s)
<1> DEFINE n == Len(s)
           t == <<x>> \o s
<1>1. /\ n \in Nat \ {0} /\ s \in [1..n -> Seq(R)]
      /\ t \in Seq(Seq(R)) /\ t # << >> /\ Len(t) = n + 1
      /\ t[1] = x /\ \A i \in 2..n + 1 : t[i] = s[i - 1]
  OBVIOUS
<1>2. PICK f \in [1..n -> Seq(R)] : /\ f[1] = s[1]
                                    /\ \A i \in 2..n : f[i] = f[i - 1] \o s[i]
                                    /\ FlattenSeq(s) = f[n]
  BY FlattenUnfolds
<1> HIDE DEF t, n
<1>3. PICK g \in [1..n + 1 -> Seq(R)] : /\ g[1] = t[1]
                                        /\ \A i \in 2..n + 1 : g[i] = g[i - 1] \o t[i]
                                        /\ FlattenSeq(t) = g[n + 1]
  <2>1. PICK g \in [1..Len(t) -> Seq(R)] : /\ g[1] = t[1]
                                           /\ \A i \in 2..Len(t) : g[i] = g[i - 1] \o t[i]
                                           /\ FlattenSeq(t) = g[Len(t)]
    BY <1>1, FlattenUnfolds
  <2> QED BY <1>1, <2>1
<1> DEFINE Ahead == {k \in Nat : k + 1 <= n => g[k + 2] = x \o f[k + 1]}
<1>4. 0 \in Ahead
  <2>1. 2 \in 2..n + 1 /\ 2 - 1 = 1
    BY <1>1
  <2>2. g[2] = g[1] \o t[2] /\ t[2] = s[1]
    BY <1>1, <1>3, <2>1
  <2> QED BY <1>1, <1>2, <1>3, <2>2
<1>5. ASSUME NEW k \in Ahead PROVE k + 1 \in Ahead
  <2>1. ASSUME (k + 1) + 1 <= n PROVE g[(k + 1) + 2] = x \o f[(k + 1) + 1]
    <3>1. /\ k + 2 \in 2..n /\ k + 3 \in 2..n + 1 /\ k + 1 \in 1..n
          /\ (k + 3) - 1 = k + 2 /\ (k + 2) - 1 = k + 1
      BY <1>1, <2>1
    <3>2. g[k + 3] = g[k + 2] \o s[k + 2]
      BY <1>1, <1>3, <3>1
    <3>3. g[k + 2] = x \o f[k + 1]
      BY <3>1
    <3>4. f[k + 2] = f[k + 1] \o s[k + 2]
      BY <1>2, <3>1
    <3>5. f[k + 1] \in Seq(R) /\ s[k + 2] \in Seq(R)
      BY <1>1, <1>2, <3>1
    <3>6. (x \o f[k + 1]) \o s[k + 2] = x \o (f[k + 1] \o s[k + 2])
      <4> HIDE DEF Ahead
      <4> DEFINE u == f[k + 1]
                 v == s[k + 2]
      <4>1. u \in Seq(R) /\ v \in Seq(R)
        BY <3>5
      <4> HIDE DEF u, v
      <4>2. (x \o u) \o v = x \o (u \o v)
        BY SMTT(30), <4>1, ConcatInAnyGrouping
      <4> QED BY <4>2 DEF u, v
    <3>7. g[k + 3] = x \o f[k + 2]
      BY <3>2, <3>3, <3>4, <3>6
    <3> QED BY <3>7
  <2> QED BY <2>1
<1>6. Ahead = Nat
  <2>1. Ahead \subseteq Nat
    OBVIOUS
  <2> HIDE DEF Ahead
  <2> QED BY <1>4, <1>5, <2>1, InductionNat
<1>7. g[n + 1] = x \o f[n]
  <2>1. n - 1 \in Ahead /\ (n - 1) + 1 = n /\ (n - 1) + 2 = n + 1
    <3> HIDE DEF Ahead
    <3> QED BY <1>1, <1>6
  <2> QED BY SMTT(30), <2>1
<1> QED BY <1>2, <1>3, <1>7 DEF t, n

(* Induction: what holds of the empty list, and of a list with one element *)
(* more, holds of every list.                                              *)
LEMMA ListInduction ==
  ASSUME NEW R, NEW T, T \subseteq Seq(R), << >> \in T,
         \A s \in T : \A x \in R : s \o <<x>> \in T
  PROVE  T = Seq(R)
<1> DEFINE Good == {n \in Nat : \A s \in Seq(R) : Len(s) = n => s \in T}
<1>1. 0 \in Good
  OBVIOUS
<1>2. ASSUME NEW n \in Good PROVE n + 1 \in Good
  <2>1. ASSUME NEW s \in Seq(R), Len(s) = n + 1 PROVE s \in T
    <3> DEFINE front == SubSeq(s, 1, n)
               last == s[n + 1]
    <3>1. front \in Seq(R) /\ Len(front) = n /\ last \in R
      BY <2>1
    <3>2. s = front \o <<last>>
      BY SMTT(30), <2>1
    <3>3. front \in T
      BY <3>1
    <3> HIDE DEF front, last, Good
    <3> QED BY <3>1, <3>2, <3>3
  <2> QED BY <2>1
<1>3. Good = Nat
  <2>1. Good \subseteq Nat
    OBVIOUS
  <2> HIDE DEF Good
  <2> QED BY <1>1, <1>2, <2>1, InductionNat
<1>4. ASSUME NEW s \in Seq(R) PROVE s \in T
  <2>1. Len(s) \in Good
    BY <1>3
  <2> QED BY <2>1
<1> QED BY <1>4

LEMMA FlattenIs ==
  ASSUME NEW R, NEW s \in Seq(Seq(R)), s # << >>, NEW f \in [1..Len(s) -> Seq(R)],
         f[1] = s[1], \A i \in 2..Len(s) : f[i] = f[i - 1] \o s[i]
  PROVE  FlattenSeq(s) = f[Len(s)]
<1> DEFINE n == Len(s)
<1>1. n \in Nat \ {0}
  OBVIOUS
<1>2. PICK g \in [1..n -> Seq(R)] : /\ g[1] = s[1]
                                    /\ \A i \in 2..n : g[i] = g[i - 1] \o s[i]
                                    /\ FlattenSeq(s) = g[n]
  BY FlattenUnfolds
<1>3. \A i \in 2..n : f[i] = f[i - 1] \o s[i]
  OBVIOUS
<1> HIDE DEF n
<1> DEFINE Same == {k \in Nat : k + 1 <= n => g[k + 1] = f[k + 1]}
<1>4. 0 \in Same
  BY <1>2
<1>5. ASSUME NEW k \in Same PROVE k + 1 \in Same
  <2>1. ASSUME (k + 1) + 1 <= n PROVE g[(k + 1) + 1] = f[(k + 1) + 1]
    <3> DEFINE i == (k + 1) + 1
    <3>1. i \in 2..n /\ i - 1 = k + 1 /\ k + 1 <= n
      BY <1>1, <2>1
    <3>2. g[i - 1] = f[i - 1]
      BY <3>1
    <3> HIDE DEF i
    <3>3. g[i] = g[i - 1] \o s[i] /\ f[i] = f[i - 1] \o s[i]
      BY <1>2, <1>3, <3>1
    <3>4. g[i] = f[i]
      BY <3>2, <3>3
    <3> QED BY <3>4 DEF i
  <2> QED BY <2>1
<1>6. Same = Nat
  <2>1. Same \subseteq Nat
    OBVIOUS
  <2> HIDE DEF Same
  <2> QED BY <1>4, <1>5, <2>1, InductionNat
<1>7. g[n] = f[n]
  <2>1. n - 1 \in Same /\ (n - 1) + 1 = n
    <3> HIDE DEF Same
    <3> QED BY <1>1, <1>6
  <2> QED BY <2>1
<1> QED BY <1>2, <1>7 DEF n

LEMMA FlattenAppend ==
  ASSUME NEW R, NEW s \in Seq(Seq(R)), NEW x \in Seq(R)
  PROVE  FlattenSeq(s \o <<x>>) = FlattenSeq(s) \o x
<1>1. CASE s = << >>
  <2>1. s \o <<x>> = <<x>> /\ FlattenSeq(s) = << >> /\ << >> \o x = x
    BY <1>1 DEF FlattenSeq
  <2> QED BY <2>1, FlattenOne
<1>2. CASE s # << >>
  <2> DEFINE n == Len(s)
             t == s \o <<x>>
  <2>1. /\ n \in Nat \ {0} /\ s \in [1..n -> Seq(R)]
        /\ t \in Seq(Seq(R)) /\ t # << >> /\ Len(t) = n + 1
        /\ t[n + 1] = x /\ \A i \in 1..n : t[i] = s[i]
    BY <1>2
  <2>2. PICK f \in [1..n -> Seq(R)] : /\ f[1] = s[1]
                                      /\ \A i \in 2..n : f[i] = f[i - 1] \o s[i]
                                      /\ FlattenSeq(s) = f[n]
    BY <1>2, FlattenUnfolds
  <2> HIDE DEF t, n
  <2> DEFINE both == f[n] \o x
             g == [i \in 1..n + 1 |-> IF i = n + 1 THEN both ELSE f[i]]
  <2>3. both \in Seq(R)
    <3>1. f[n] \in Seq(R)
      BY <2>1, <2>2
    <3> QED BY <3>1
  <2>4. both = f[n] \o x
    OBVIOUS
  <2> HIDE DEF both
  <2>5. g \in [1..n + 1 -> Seq(R)] /\ g[n + 1] = both /\ \A i \in 1..n : g[i] = f[i]
    BY <2>1, <2>2, <2>3
  <2> HIDE DEF g
  <2>6. g[1] = t[1]
    BY <2>1, <2>2, <2>5
  <2>7. ASSUME NEW i \in 2..n + 1 PROVE g[i] = g[i - 1] \o t[i]
    <3>1. CASE i = n + 1
      <4>1. i - 1 = n /\ n \in 1..n
        BY <2>1, <3>1
      <4> QED BY <2>1, <2>4, <2>5, <3>1, <4>1
    <3>2. CASE i # n + 1
      <4>1. i \in 2..n /\ i \in 1..n /\ i - 1 \in 1..n
        BY <2>1, <3>2
      <4> QED BY <2>1, <2>2, <2>5, <4>1
    <3> QED BY <3>1, <3>2
  <2>8. FlattenSeq(t) = g[n + 1]
    <3>1. /\ g \in [1..Len(t) -> Seq(R)]
          /\ \A i \in 2..Len(t) : g[i] = g[i - 1] \o t[i]
      BY <2>1, <2>5, <2>7
    <3>2. FlattenSeq(t) = g[Len(t)]
      BY <2>1, <2>6, <3>1, FlattenIs
    <3> QED BY <2>1, <3>2
  <2> QED BY <2>2, <2>4, <2>5, <2>8 DEF t
<1> QED BY <1>1, <1>2

-----------------------------------------------------------------------------
(* Lists: what Only keeps, one element after the other.                    *)
Kept(x, S) == IF x \in S THEN <<x>> ELSE << >>

LEMMA KeptType ==
  ASSUME NEW R, NEW S, NEW x \in R PROVE Kept(x, S) \in Seq(R) /\ Kept(x, S) \in Seq(R \cap S)
<1>1. << >> \in Seq(R) /\ << >> \in Seq(R \cap S) /\ <<x>> \in Seq(R)
  OBVIOUS
<1>2. ASSUME x \in S PROVE <<x>> \in Seq(R \cap S)
  BY <1>2
<1> QED BY <1>1, <1>2 DEF Kept

(* The parts of which Only is made, one for each element.                  *)
KeptParts(R, S, s, parts) ==
  /\ parts \in Seq(Seq(R)) /\ parts \in Seq(Seq(R \cap S))
  /\ Only(s, S) = FlattenSeq(parts) /\ Len(parts) = Len(s)
  /\ \A i \in 1..Len(s) : parts[i] = Kept(s[i], S)

LEMMA OnlyIsFlat ==
  ASSUME NEW R, NEW S, NEW s \in Seq(R) PROVE \E parts : KeptParts(R, S, s, parts)
<1> DEFINE parts == [i \in 1..Len(s) |-> Kept(s[i], S)]
<1>1. Only(s, S) = FlattenSeq(parts)
  BY DEF Only, Kept
<1>2. ASSUME NEW i \in 1..Len(s)
      PROVE  Kept(s[i], S) \in Seq(R) /\ Kept(s[i], S) \in Seq(R \cap S)
  <2>1. s[i] \in R
    OBVIOUS
  <2> QED BY <2>1, KeptType
<1>3. Len(s) \in Nat
  OBVIOUS
<1>4. parts \in [1..Len(s) -> Seq(R)] /\ parts \in [1..Len(s) -> Seq(R \cap S)]
  BY <1>2
<1>5. \A i \in 1..Len(s) : parts[i] = Kept(s[i], S)
  OBVIOUS
<1> HIDE DEF parts
<1>6. ASSUME NEW Q, parts \in [1..Len(s) -> Q] PROVE parts \in Seq(Q) /\ Len(parts) = Len(s)
  BY <1>3, <1>6
<1>7. parts \in Seq(Seq(R)) /\ parts \in Seq(Seq(R \cap S)) /\ Len(parts) = Len(s)
  BY <1>4, <1>6
<1>8. KeptParts(R, S, s, parts)
  BY <1>1, <1>5, <1>7 DEF KeptParts
<1> QED BY <1>8

LEMMA OnlyType ==
  ASSUME NEW R, NEW S, NEW s \in Seq(R)
  PROVE  Only(s, S) \in Seq(R) /\ Only(s, S) \in Seq(R \cap S)
<1>1. PICK parts : KeptParts(R, S, s, parts)
  BY OnlyIsFlat
<1>2. parts \in Seq(Seq(R)) /\ parts \in Seq(Seq(R \cap S)) /\ Only(s, S) = FlattenSeq(parts)
  BY <1>1 DEF KeptParts
<1> QED BY <1>2, FlattenType

LEMMA OnlyEmpty == ASSUME NEW S PROVE Only(<< >>, S) = << >>
<1> DEFINE parts == [i \in DOMAIN << >> |-> IF << >>[i] \in S THEN <<<< >>[i]>> ELSE << >>]
<1>1. Only(<< >>, S) = FlattenSeq(parts)
  BY DEF Only
<1>2. parts = << >>
  OBVIOUS
<1> HIDE DEF parts
<1>3. FlattenSeq(parts) = << >>
  <2>1. Len(parts) = 0
    BY <1>2
  <2> QED BY <1>2, <2>1 DEF FlattenSeq
<1> QED BY <1>1, <1>3

LEMMA OnlyAppend ==
  ASSUME NEW R, NEW S, NEW s \in Seq(R), NEW x \in R
  PROVE  Only(s \o <<x>>, S) = Only(s, S) \o Kept(x, S)
<1> DEFINE n == Len(s)
           t == s \o <<x>>
<1>1. /\ n \in Nat /\ t \in Seq(R) /\ Len(t) = n + 1 /\ t[n + 1] = x
      /\ \A i \in 1..n : t[i] = s[i]
  OBVIOUS
<1>2. PICK parts : KeptParts(R, S, s, parts)
  BY OnlyIsFlat
<1>a. /\ parts \in Seq(Seq(R)) /\ Only(s, S) = FlattenSeq(parts) /\ Len(parts) = n
      /\ \A i \in 1..n : parts[i] = Kept(s[i], S)
  BY <1>2 DEF KeptParts
<1>b. PICK more : KeptParts(R, S, t, more)
  BY <1>1, OnlyIsFlat
<1>c. /\ more \in Seq(Seq(R)) /\ Only(t, S) = FlattenSeq(more) /\ Len(more) = Len(t)
      /\ \A i \in 1..Len(t) : more[i] = Kept(t[i], S)
  BY <1>b DEF KeptParts
<1> HIDE DEF t, n
<1>3. /\ more \in Seq(Seq(R)) /\ Only(t, S) = FlattenSeq(more) /\ Len(more) = n + 1
      /\ \A i \in 1..n + 1 : more[i] = Kept(t[i], S)
  BY <1>1, <1>c
<1>4. Kept(x, S) \in Seq(R)
  BY KeptType
<1>5. more = parts \o <<Kept(x, S)>>
  <2> DEFINE y == Kept(x, S)
             q == Seq(R)
  <2>1. more[n + 1] = y /\ \A i \in 1..n : more[i] = parts[i]
    BY <1>1, <1>a, <1>3
  <2>2. y \in q /\ parts \in Seq(q) /\ more \in Seq(q) /\ Len(parts) = n /\ Len(more) = n + 1
    BY <1>a, <1>3, <1>4
  <2> HIDE DEF y, q
  <2>3. more = parts \o <<y>>
    BY <1>1, <2>1, <2>2
  <2> QED BY <2>3 DEF y
<1>6. FlattenSeq(parts \o <<Kept(x, S)>>) = FlattenSeq(parts) \o Kept(x, S)
  BY <1>a, <1>4, FlattenAppend
<1> QED BY <1>a, <1>3, <1>5, <1>6 DEF t

LEMMA OnlyConcat ==
  ASSUME NEW R, NEW S, NEW s \in Seq(R), NEW t \in Seq(R)
  PROVE  Only(s \o t, S) = Only(s, S) \o Only(t, S)
<1> DEFINE T == {u \in Seq(R) : Only(s \o u, S) = Only(s, S) \o Only(u, S)}
<1>1. << >> \in T
  <2>1. s \o << >> = s /\ << >> \in Seq(R)
    OBVIOUS
  <2>2. Only(s, S) \in Seq(R)
    BY OnlyType
  <2>3. Only(s, S) \o << >> = Only(s, S)
    BY <2>2
  <2> QED BY <2>1, <2>3, OnlyEmpty
<1>2. ASSUME NEW u \in T, NEW x \in R PROVE u \o <<x>> \in T
  <2>1. u \in Seq(R) /\ u \o <<x>> \in Seq(R) /\ s \o u \in Seq(R)
    OBVIOUS
  <2>2. s \o (u \o <<x>>) = (s \o u) \o <<x>>
    BY <2>1
  <2>3. Only((s \o u) \o <<x>>, S) = Only(s \o u, S) \o Kept(x, S)
    BY <2>1, OnlyAppend
  <2>4. Only(u \o <<x>>, S) = Only(u, S) \o Kept(x, S)
    BY <2>1, OnlyAppend
  <2>5. Only(s \o u, S) = Only(s, S) \o Only(u, S)
    OBVIOUS
  <2>6. (Only(s, S) \o Only(u, S)) \o Kept(x, S) = Only(s, S) \o (Only(u, S) \o Kept(x, S))
    <3> DEFINE a == Only(s, S)
               b == Only(u, S)
               c == Kept(x, S)
    <3>1. a \in Seq(R) /\ b \in Seq(R) /\ c \in Seq(R)
      BY <2>1, OnlyType, KeptType
    <3> HIDE DEF a, b, c, T
    <3>2. (a \o b) \o c = a \o (b \o c)
      BY SMTT(30), <3>1
    <3> QED BY <3>2 DEF a, b, c
  <2> QED BY <2>1, <2>2, <2>3, <2>4, <2>5, <2>6
<1>3. T = Seq(R)
  <2>1. T \subseteq Seq(R)
    OBVIOUS
  <2> HIDE DEF T
  <2> QED BY <1>1, <1>2, <2>1, ListInduction
<1> QED BY <1>3

LEMMA OnlyOne ==
  ASSUME NEW x, NEW S PROVE Only(<<x>>, S) = Kept(x, S)
<1>1. << >> \in Seq({x}) /\ << >> \o <<x>> = <<x>> /\ x \in {x}
  OBVIOUS
<1>2. Only(<< >> \o <<x>>, S) = Only(<< >>, S) \o Kept(x, S)
  BY <1>1, OnlyAppend
<1>3. Kept(x, S) \in Seq({x})
  BY KeptType
<1>4. << >> \o Kept(x, S) = Kept(x, S)
  BY <1>3
<1> QED BY <1>1, <1>2, <1>4, OnlyEmpty

(* A list is kept whole or not at all.                                     *)
LEMMA OnlyAll ==
  ASSUME NEW S, NEW s \in Seq(S) PROVE Only(s, S) = s
<1> DEFINE T == {u \in Seq(S) : Only(u, S) = u}
<1>1. << >> \in T
  BY OnlyEmpty
<1>2. ASSUME NEW u \in T, NEW x \in S PROVE u \o <<x>> \in T
  <2>1. u \in Seq(S) /\ Only(u, S) = u /\ u \o <<x>> \in Seq(S)
    OBVIOUS
  <2>2. Only(u \o <<x>>, S) = Only(u, S) \o Kept(x, S)
    BY <2>1, OnlyAppend
  <2>3. Kept(x, S) = <<x>>
    BY DEF Kept
  <2> QED BY <2>1, <2>2, <2>3
<1>3. T = Seq(S)
  <2>1. T \subseteq Seq(S)
    OBVIOUS
  <2> HIDE DEF T
  <2> QED BY <1>1, <1>2, <2>1, ListInduction
<1> QED BY <1>3

LEMMA OnlyNone ==
  ASSUME NEW R, NEW S, R \cap S = {}, NEW s \in Seq(R) PROVE Only(s, S) = << >>
<1> DEFINE T == {u \in Seq(R) : Only(u, S) = << >>}
<1>1. << >> \in T
  BY OnlyEmpty
<1>2. ASSUME NEW u \in T, NEW x \in R PROVE u \o <<x>> \in T
  <2>1. u \in Seq(R) /\ Only(u, S) = << >> /\ u \o <<x>> \in Seq(R)
    OBVIOUS
  <2>2. Only(u \o <<x>>, S) = Only(u, S) \o Kept(x, S)
    BY <2>1, OnlyAppend
  <2>3. Kept(x, S) = << >>
    BY DEF Kept
  <2>4. << >> \o << >> = << >>
    OBVIOUS
  <2> QED BY <2>1, <2>2, <2>3, <2>4
<1>3. T = Seq(R)
  <2>1. T \subseteq Seq(R)
    OBVIOUS
  <2> HIDE DEF T
  <2> QED BY <1>1, <1>2, <2>1, ListInduction
<1> QED BY <1>3

(* Two sets that agree on the elements of a list keep the same of it.      *)
LEMMA OnlySame ==
  ASSUME NEW R, NEW S, NEW T, NEW s \in Seq(R), \A x \in R : x \in S <=> x \in T
  PROVE  Only(s, S) = Only(s, T)
<1> DEFINE U == {u \in Seq(R) : Only(u, S) = Only(u, T)}
<1>1. << >> \in U
  BY OnlyEmpty
<1>2. ASSUME NEW u \in U, NEW x \in R PROVE u \o <<x>> \in U
  <2>1. u \in Seq(R) /\ Only(u, S) = Only(u, T) /\ u \o <<x>> \in Seq(R)
    OBVIOUS
  <2>2. Only(u \o <<x>>, S) = Only(u, S) \o Kept(x, S)
    BY <2>1, OnlyAppend
  <2>3. Only(u \o <<x>>, T) = Only(u, T) \o Kept(x, T)
    BY <2>1, OnlyAppend
  <2>4. Kept(x, S) = Kept(x, T)
    BY DEF Kept
  <2> QED BY <2>1, <2>2, <2>3, <2>4
<1>3. U = Seq(R)
  <2>1. U \subseteq Seq(R)
    OBVIOUS
  <2> HIDE DEF U
  <2> QED BY <1>1, <1>2, <2>1, ListInduction
<1> QED BY <1>3

(* What is in the set is kept.                                             *)
LEMMA OnlyKeeps ==
  ASSUME NEW R, NEW S, NEW s \in Seq(R), NEW i \in 1..Len(s), s[i] \in S
  PROVE  \E j \in 1..Len(Only(s, S)) : Only(s, S)[j] = s[i]
<1> DEFINE Good(u) == \A n \in 1..Len(u) : u[n] \in S =>
                        \E j \in 1..Len(Only(u, S)) : Only(u, S)[j] = u[n]
           T == {u \in Seq(R) : Good(u)}
<1>1. << >> \in T
  OBVIOUS
<1>2. ASSUME NEW u \in T, NEW x \in R PROVE u \o <<x>> \in T
  <2> DEFINE v == u \o <<x>>
             a == Only(u, S)
             b == Kept(x, S)
  <2>1. u \in Seq(R) /\ v \in Seq(R) /\ Len(v) = Len(u) + 1 /\ v[Len(u) + 1] = x
        /\ \A n \in 1..Len(u) : v[n] = u[n]
    OBVIOUS
  <2>2. Only(v, S) = a \o b /\ a \in Seq(R) /\ b \in Seq(R)
    BY <2>1, OnlyAppend, OnlyType, KeptType
  <2>3. ASSUME NEW n \in 1..Len(v), v[n] \in S
        PROVE  \E j \in 1..Len(a \o b) : (a \o b)[j] = v[n]
    <3>1. CASE n \in 1..Len(u)
      <4>1. u[n] \in S /\ v[n] = u[n]
        BY <2>1, <2>3, <3>1
      <4>2. PICK j \in 1..Len(a) : a[j] = u[n]
        BY <3>1, <4>1
      <4> HIDE DEF a, b
      <4> QED BY <2>2, <4>1, <4>2, SMTT(30)
    <3>2. CASE n = Len(u) + 1
      <4>1. v[n] = x /\ b = <<x>>
        BY <2>1, <2>3, <3>2 DEF Kept
      <4> HIDE DEF a
      <4> QED BY <2>2, <4>1
    <3> QED BY <2>1, <2>3, <3>1, <3>2
  <2> QED BY <2>1, <2>2, <2>3
<1>3. T = Seq(R)
  <2>1. T \subseteq Seq(R)
    OBVIOUS
  <2> HIDE DEF T
  <2> QED BY <1>1, <1>2, <2>1, ListInduction
<1>4. Good(s)
  BY <1>3
<1> QED BY <1>4

-----------------------------------------------------------------------------
(* Lists: a list whose elements are replaced one by one.                   *)
Mapped(g, s) == [i \in 1..Len(s) |-> g[s[i]]]
Takes(g, R, Q) == \A x \in R : g[x] \in Q

LEMMA MappedType ==
  ASSUME NEW R, NEW Q, NEW g, Takes(g, R, Q), NEW s \in Seq(R)
  PROVE  /\ Mapped(g, s) \in Seq(Q) /\ Len(Mapped(g, s)) = Len(s)
         /\ \A i \in 1..Len(s) : Mapped(g, s)[i] = g[s[i]]
<1>1. ASSUME NEW i \in 1..Len(s) PROVE g[s[i]] \in Q
  <2>1. s[i] \in R
    OBVIOUS
  <2> QED BY <2>1 DEF Takes
<1>2. Len(s) \in Nat
  OBVIOUS
<1> QED BY <1>1, <1>2 DEF Mapped

(* A list without one of its places.                                       *)
LEMMA WithoutPlace ==
  ASSUME NEW S, NEW a \in Seq(S), NEW i \in 1..Len(a)
  PROVE  LET r == SubSeq(a, 1, i - 1) \o SubSeq(a, i + 1, Len(a))
         IN  /\ r \in Seq(S) /\ Len(r) = Len(a) - 1
             /\ \A j \in 1..Len(a) - 1 : r[j] = IF j < i THEN a[j] ELSE a[j + 1]
<1> DEFINE n == Len(a)
<1> DEFINE left == SubSeq(a, 1, i - 1)
           right == SubSeq(a, i + 1, n)
<1>a. left \in Seq(S) /\ Len(left) = i - 1 /\ \A j \in 1..i - 1 : left[j] = a[j]
  OBVIOUS
<1>b. right \in Seq(S) /\ Len(right) = n - i /\ \A j \in 1..n - i : right[j] = a[i + j]
  OBVIOUS
<1>1. PICK u \in Seq(S) : u = left /\ Len(u) = i - 1 /\ \A j \in 1..i - 1 : u[j] = a[j]
  <2> HIDE DEF left
  <2> QED BY <1>a
<1>2. PICK v \in Seq(S) : v = right /\ Len(v) = n - i /\ \A j \in 1..n - i : v[j] = a[i + j]
  <2> HIDE DEF right, n
  <2> QED BY <1>b
<1>3. PICK r \in Seq(S) : /\ r = u \o v /\ Len(r) = Len(u) + Len(v)
                          /\ \A j \in 1..Len(u) + Len(v) :
                               r[j] = IF j <= Len(u) THEN u[j] ELSE v[j - Len(u)]
  <2>1. /\ u \o v \in Seq(S) /\ Len(u \o v) = Len(u) + Len(v)
        /\ \A j \in 1..Len(u) + Len(v) : (u \o v)[j] = IF j <= Len(u) THEN u[j] ELSE v[j - Len(u)]
    OBVIOUS
  <2> QED BY <2>1
<1>4. n \in Nat /\ i \in 1..n
  OBVIOUS
<1>5. SubSeq(a, 1, i - 1) \o SubSeq(a, i + 1, Len(a)) = r
  BY <1>1, <1>2, <1>3
<1> HIDE DEF n
<1>6. Len(r) = n - 1
  BY <1>1, <1>2, <1>3, <1>4
<1>7. ASSUME NEW j \in 1..n - 1 PROVE r[j] = IF j < i THEN a[j] ELSE a[j + 1]
  <2>1. j \in 1..Len(u) + Len(v)
    BY <1>1, <1>2, <1>4
  <2>2. CASE j < i
    <3>1. j \in 1..i - 1
      BY <1>4, <2>2
    <3>2. r[j] = u[j]
      BY <1>1, <1>3, <2>1, <3>1
    <3> QED BY <1>1, <2>2, <3>1, <3>2
  <2>3. CASE ~ (j < i)
    <3>1. j - (i - 1) \in 1..n - i /\ i + (j - (i - 1)) = j + 1 /\ ~ (j <= i - 1)
      BY <1>4, <2>3
    <3>2. r[j] = v[j - (i - 1)]
      BY <1>1, <1>3, <2>1, <3>1
    <3> QED BY <1>2, <2>3, <3>1, <3>2
  <2> QED BY <2>2, <2>3
<1> QED BY <1>3, <1>5, <1>6, <1>7 DEF n

LEMMA ConcatIs ==
  ASSUME NEW Q, NEW a \in Seq(Q), NEW b \in Seq(Q), NEW c \in Seq(Q), Len(c) = Len(a) + Len(b),
         \A i \in 1..Len(a) : c[i] = a[i], \A i \in 1..Len(b) : c[Len(a) + i] = b[i]
  PROVE  c = a \o b
OBVIOUS

LEMMA MappedConcat ==
  ASSUME NEW R, NEW Q, NEW g, Takes(g, R, Q), NEW s \in Seq(R), NEW t \in Seq(R)
  PROVE  Mapped(g, s \o t) = Mapped(g, s) \o Mapped(g, t)
<1> DEFINE a == Mapped(g, s)
           b == Mapped(g, t)
           st == s \o t
           c == Mapped(g, st)
<1>1. /\ st \in Seq(R) /\ Len(st) = Len(s) + Len(t)
      /\ \A i \in 1..Len(s) : st[i] = s[i]
      /\ \A i \in 1..Len(t) : st[Len(s) + i] = t[i]
  OBVIOUS
<1>2. a \in Seq(Q) /\ Len(a) = Len(s) /\ \A i \in 1..Len(s) : a[i] = g[s[i]]
  BY MappedType
<1>3. b \in Seq(Q) /\ Len(b) = Len(t) /\ \A i \in 1..Len(t) : b[i] = g[t[i]]
  BY MappedType
<1> HIDE DEF a, b, st
<1>4. c \in Seq(Q) /\ Len(c) = Len(st) /\ \A i \in 1..Len(st) : c[i] = g[st[i]]
  BY <1>1, MappedType
<1>5. Len(s) \in Nat /\ Len(t) \in Nat /\ Len(c) = Len(a) + Len(b)
  BY <1>1, <1>2, <1>3, <1>4
<1> HIDE DEF c
<1>6. ASSUME NEW i \in 1..Len(a) PROVE c[i] = a[i]
  <2>1. i \in 1..Len(s) /\ i \in 1..Len(st)
    BY <1>1, <1>2, <1>5
  <2> QED BY SMTT(30), <1>1, <1>2, <1>4, <2>1
<1>7. ASSUME NEW i \in 1..Len(b) PROVE c[Len(a) + i] = b[i]
  <2>1. i \in 1..Len(t) /\ Len(s) + i \in 1..Len(st) /\ Len(a) = Len(s)
    BY <1>1, <1>2, <1>3, <1>5
  <2> QED BY SMTT(30), <1>1, <1>3, <1>4, <2>1
<1>8. c = a \o b
  BY ZenonT(30), <1>2, <1>3, <1>4, <1>5, <1>6, <1>7, ConcatIs
<1> QED BY <1>8 DEF a, b, c, st

LEMMA MappedEmpty == ASSUME NEW g PROVE Mapped(g, << >>) = << >>
BY DEF Mapped

LEMMA MappedOne == ASSUME NEW g, NEW x PROVE Mapped(g, <<x>>) = <<g[x]>>
<1> DEFINE y == g[x]
           s == <<x>>
<1>1. Len(s) = 1 /\ s[1] = x
  OBVIOUS
<1> HIDE DEF s
<1>2. Mapped(g, s) = [i \in 1..1 |-> g[s[i]]]
  BY <1>1 DEF Mapped
<1>3. \A i \in 1..1 : g[s[i]] = y
  BY <1>1
<1> HIDE DEF y
<1>4. Mapped(g, s) = [i \in 1..1 |-> y]
  BY <1>2, <1>3
<1>5. [i \in 1..1 |-> y] = <<y>>
  OBVIOUS
<1> QED BY <1>4, <1>5 DEF s, y

(* What is kept of the replaced elements is what replaces the kept ones.   *)
LEMMA OnlyMapped ==
  ASSUME NEW R, NEW Q, NEW g, Takes(g, R, Q), NEW S, NEW s \in Seq(R)
  PROVE  Only(Mapped(g, s), S) = Mapped(g, Only(s, {x \in R : g[x] \in S}))
<1> DEFINE P == {x \in R : g[x] \in S}
           T == {u \in Seq(R) : Only(Mapped(g, u), S) = Mapped(g, Only(u, P))}
<1>1. << >> \in T
  <2>1. << >> \in Seq(R)
    OBVIOUS
  <2> HIDE DEF P
  <2> QED BY <2>1, OnlyEmpty, MappedEmpty
<1>2. ASSUME NEW u \in T, NEW x \in R PROVE u \o <<x>> \in T
  <2>1. /\ u \in Seq(R) /\ u \o <<x>> \in Seq(R) /\ <<x>> \in Seq(R)
        /\ Only(Mapped(g, u), S) = Mapped(g, Only(u, P)) /\ g[x] \in Q
    BY DEF Takes
  <2>2. x \in P <=> g[x] \in S
    OBVIOUS
  <2> HIDE DEF P, T
  <2>3. Mapped(g, u \o <<x>>) = Mapped(g, u) \o <<g[x]>>
    <3>1. Mapped(g, u \o <<x>>) = Mapped(g, u) \o Mapped(g, <<x>>)
      <4> DEFINE y == <<x>>
      <4>1. y \in Seq(R) /\ u \in Seq(R)
        BY <2>1
      <4> HIDE DEF y
      <4>2. Mapped(g, u \o y) = Mapped(g, u) \o Mapped(g, y)
        BY <4>1, MappedConcat
      <4> QED BY <4>2 DEF y
    <3>2. Mapped(g, <<x>>) = <<g[x]>>
      BY MappedOne
    <3> QED BY <3>1, <3>2
  <2>4. Mapped(g, u) \in Seq(Q)
    BY <2>1, MappedType
  <2>5. Only(Mapped(g, u) \o <<g[x]>>, S) = Only(Mapped(g, u), S) \o Kept(g[x], S)
    BY <2>1, <2>4, OnlyAppend
  <2>6. Only(u \o <<x>>, P) = Only(u, P) \o Kept(x, P)
    BY <2>1, OnlyAppend
  <2>7. Only(u, P) \in Seq(R) /\ Kept(x, P) \in Seq(R)
    BY <2>1, OnlyType, KeptType
  <2>8. Mapped(g, Only(u, P) \o Kept(x, P)) = Mapped(g, Only(u, P)) \o Mapped(g, Kept(x, P))
    BY <2>7, MappedConcat
  <2>9. Mapped(g, Kept(x, P)) = Kept(g[x], S)
    BY <2>2, MappedOne, MappedEmpty DEF Kept
  <2>10. Only(Mapped(g, u \o <<x>>), S) = Mapped(g, Only(u \o <<x>>, P))
    BY <2>1, <2>3, <2>5, <2>6, <2>8, <2>9
  <2> QED BY <2>1, <2>10 DEF T
<1>3. T = Seq(R)
  <2>1. T \subseteq Seq(R)
    OBVIOUS
  <2> HIDE DEF T
  <2> QED BY <1>1, <1>2, <2>1, ListInduction
<1> QED BY <1>3

-----------------------------------------------------------------------------
(* Sorted lists.                                                           *)

(* Which elements go before another one.                                   *)
Rank(S, code, x) == Cardinality({y \in S : code[y] < code[x]})

Coded(S, code) ==
  /\ IsFiniteSet(S) /\ \A x \in S : code[x] \in Int
  /\ \A x, y \in S : code[x] = code[y] => x = y

LEMMA RankType ==
  ASSUME NEW S, NEW code, Coded(S, code), NEW x \in S
  PROVE  Rank(S, code, x) \in 0..Cardinality(S) - 1
<1> DEFINE below == {y \in S : code[y] < code[x]}
<1>1. below \in SUBSET (S \ {x})
  <2>1. code[x] \in Int
    BY DEF Coded
  <2> QED BY <2>1
<1>2. IsFiniteSet(S)
  BY DEF Coded
<1>3. IsFiniteSet(S \ {x}) /\ Cardinality(S \ {x}) = Cardinality(S) - 1
  BY <1>2, FS_RemoveElement
<1>4. IsFiniteSet(below) /\ Cardinality(below) <= Cardinality(S) - 1
  BY <1>1, <1>3, FS_Subset
<1>5. Cardinality(below) \in Nat /\ Cardinality(S) \in Nat
  BY <1>2, <1>4, FS_CardinalityType
<1> HIDE DEF below
<1>6. Cardinality(below) \in 0..Cardinality(S) - 1
  BY <1>4, <1>5
<1> QED BY <1>6 DEF Rank, below

LEMMA RankGrows ==
  ASSUME NEW S, NEW code, Coded(S, code), NEW x \in S, NEW y \in S, code[x] < code[y]
  PROVE  Rank(S, code, x) < Rank(S, code, y)
<1> DEFINE below(z) == {v \in S : code[v] < code[z]}
<1>1. \A v \in S : code[v] \in Int
  BY DEF Coded
<1>2. below(x) \cup {x} \subseteq below(y) /\ x \notin below(x)
  BY <1>1
<1>3. IsFiniteSet(S)
  BY DEF Coded
<1>4. IsFiniteSet(below(x)) /\ IsFiniteSet(below(y))
  <2>1. below(x) \in SUBSET S /\ below(y) \in SUBSET S
    OBVIOUS
  <2> HIDE DEF below
  <2> QED BY <1>3, <2>1, FS_Subset
<1> HIDE DEF below
<1>5. Cardinality(below(x) \cup {x}) = Cardinality(below(x)) + 1
  BY <1>2, <1>4, FS_AddElement
<1>6. Cardinality(below(x) \cup {x}) <= Cardinality(below(y))
  BY <1>2, <1>4, FS_Subset
<1>7. Cardinality(below(x)) \in Nat /\ Cardinality(below(y)) \in Nat
  BY <1>4, FS_CardinalityType
<1>8. Cardinality(below(x)) < Cardinality(below(y))
  BY <1>5, <1>6, <1>7
<1> QED BY <1>8 DEF Rank, below

LEMMA RankOnce ==
  ASSUME NEW S, NEW code, Coded(S, code), NEW x \in S, NEW y \in S,
         Rank(S, code, x) = Rank(S, code, y)
  PROVE  x = y
<1>1. code[x] \in Int /\ code[y] \in Int /\ (code[x] = code[y] => x = y)
  BY DEF Coded
<1>2. Rank(S, code, x) \in Int /\ Rank(S, code, y) \in Int
  <2>1. /\ Rank(S, code, x) \in 0..Cardinality(S) - 1 /\ Rank(S, code, y) \in 0..Cardinality(S) - 1
        /\ Cardinality(S) \in Nat
    BY RankType, FS_CardinalityType DEF Coded
  <2> QED BY <2>1
<1>3. ~ (code[x] < code[y])
  <2>1. code[x] < code[y] => Rank(S, code, x) < Rank(S, code, y)
    BY RankGrows
  <2> QED BY <1>2, <2>1
<1>4. ~ (code[y] < code[x])
  <2>1. code[y] < code[x] => Rank(S, code, y) < Rank(S, code, x)
    BY RankGrows
  <2> QED BY <1>2, <2>1
<1> QED BY <1>1, <1>3, <1>4

(* Every rank is some element's.                                           *)
LEMMA RankTaken ==
  ASSUME NEW S, NEW code, Coded(S, code), NEW n \in 1..Cardinality(S)
  PROVE  \E x \in S : Rank(S, code, x) = n - 1
<1> DEFINE m == Cardinality(S)
           place == [x \in S |-> Rank(S, code, x) + 1]
<1>1. IsFiniteSet(S) /\ m \in Nat
  BY FS_CardinalityType DEF Coded
<1> HIDE DEF m
<1>2. \A x \in S : Rank(S, code, x) \in 0..m - 1
  BY RankType DEF m
<1>3. place \in [S -> 1..m]
  BY <1>1, <1>2
<1>4. IsInjective(place)
  <2> SUFFICES ASSUME NEW x \in S, NEW y \in S, place[x] = place[y] PROVE x = y
    BY DEF IsInjective
  <2>1. Rank(S, code, x) = Rank(S, code, y)
    BY <1>1, <1>2
  <2> QED BY <2>1, RankOnce
<1>5. IsFiniteSet(1..m) /\ Cardinality(1..m) = m
  BY <1>1, FS_Interval
<1> HIDE DEF place
<1>6. place \in Injection(S, 1..m)
  BY <1>3, <1>4 DEF Injection
<1>7. place \in Surjection(S, 1..m)
  BY <1>5, <1>6, FS_Injection DEF m
<1>8. PICK x \in S : place[x] = n
  BY <1>7 DEF Surjection, m
<1>9. Rank(S, code, x) + 1 = n /\ Rank(S, code, x) \in Int
  BY <1>1, <1>2, <1>8 DEF place
<1> QED BY <1>9

(* A sorted list has each element of the set once, in the order of the     *)
(* numbers.                                                                *)
LEMMA SortedIs ==
  ASSUME NEW S, NEW code, Coded(S, code)
  PROVE  /\ SortedBy(S, code) \in Seq(S) /\ Len(SortedBy(S, code)) = Cardinality(S)
         /\ \A i, j \in 1..Cardinality(S) :
              i < j => code[SortedBy(S, code)[i]] < code[SortedBy(S, code)[j]]
         /\ \A x \in S : \E i \in 1..Cardinality(S) : SortedBy(S, code)[i] = x
<1> DEFINE s == SortedBy(S, code)
           m == Cardinality(S)
<1>1. m \in Nat
  BY FS_CardinalityType DEF Coded
<1>2. ASSUME NEW n \in 1..m PROVE s[n] \in S /\ Rank(S, code, s[n]) = n - 1
  <2>1. s[n] = CHOOSE x \in S : Rank(S, code, x) = n - 1
    BY DEF SortedBy, Rank
  <2>2. \E x \in S : Rank(S, code, x) = n - 1
    BY RankTaken
  <2> QED BY <2>1, <2>2
<1>3. s = [n \in 1..m |-> s[n]]
  BY DEF SortedBy
<1> HIDE DEF s, m
<1>4. s \in Seq(S) /\ Len(s) = m
  BY <1>1, <1>2, <1>3
<1>5. ASSUME NEW i \in 1..m, NEW j \in 1..m, i < j PROVE code[s[i]] < code[s[j]]
  <2>1. /\ s[i] \in S /\ s[j] \in S
        /\ Rank(S, code, s[i]) = i - 1 /\ Rank(S, code, s[j]) = j - 1
    BY <1>2
  <2>2. code[s[i]] \in Int /\ code[s[j]] \in Int
    BY <2>1 DEF Coded
  <2>3. ~ (code[s[j]] < code[s[i]])
    <3>1. code[s[j]] < code[s[i]] => j - 1 < i - 1
      BY <2>1, RankGrows
    <3> QED BY <1>5, <3>1
  <2>4. code[s[i]] # code[s[j]]
    <3>1. code[s[i]] = code[s[j]] => i - 1 = j - 1
      BY <2>1 DEF Coded
    <3> QED BY <1>5, <3>1
  <2> QED BY <2>2, <2>3, <2>4
<1>6. ASSUME NEW x \in S PROVE \E i \in 1..m : s[i] = x
  <2> DEFINE r == Rank(S, code, x)
  <2>1. r \in 0..m - 1
    BY RankType DEF m
  <2> HIDE DEF r
  <2>2. r + 1 \in 1..m /\ (r + 1) - 1 = r
    BY <1>1, <2>1
  <2>3. s[r + 1] \in S /\ Rank(S, code, s[r + 1]) = r
    BY <1>2, <2>2
  <2>4. s[r + 1] = x
    BY <2>3, RankOnce DEF r
  <2> QED BY <2>2, <2>4
<1> QED BY <1>4, <1>5, <1>6 DEF s, m

LEMMA SortedOnce ==
  ASSUME NEW S, NEW code, Coded(S, code), NEW i \in 1..Cardinality(S), NEW j \in 1..Cardinality(S),
         SortedBy(S, code)[i] = SortedBy(S, code)[j]
  PROVE  i = j
<1> DEFINE s == SortedBy(S, code)
<1>1. Cardinality(S) \in Nat
  BY FS_CardinalityType DEF Coded
<1>2. s \in Seq(S) /\ Len(s) = Cardinality(S)
  BY SortedIs
<1>3. code[s[i]] \in Int
  BY <1>2 DEF Coded
<1>4. ~ (i < j) /\ ~ (j < i)
  <2>1. i < j => code[s[i]] < code[s[j]]
    BY SortedIs
  <2>2. j < i => code[s[j]] < code[s[i]]
    BY SortedIs
  <2> HIDE DEF s
  <2>3. s[i] = s[j]
    BY DEF s
  <2> QED BY <1>3, <2>1, <2>2, <2>3
<1> QED BY <1>1, <1>4

-----------------------------------------------------------------------------
(* Divisions of integers have one rest.                                    *)
LEMMA Divided ==
  ASSUME NEW x \in Int, NEW d \in Nat \ {0}
  PROVE  /\ x \div d \in Int /\ x % d \in 0 .. d - 1
         /\ x = d * (x \div d) + (x % d)
OBVIOUS

LEMMA DividedOnce ==
  ASSUME NEW d \in Nat \ {0}, NEW q \in Int, NEW r \in 0 .. d - 1
  PROVE  (d * q + r) % d = r
<1> DEFINE x == d * q + r
           p == x \div d
           s == x % d
<1>1. x \in Int /\ p \in Int /\ s \in 0 .. d - 1 /\ x = d * p + s
  BY Divided, SMTT(30)
<1>2. d * (q - p) = s - r
  BY <1>1
<1> HIDE DEF x, p, s
<1>3. q - p \in Int /\ s - r < d /\ - d < s - r
  BY <1>1
<1>4. ASSUME q - p >= 1 PROVE FALSE
  <2>1. d * (q - p) >= d
    BY <1>3, <1>4
  <2> QED BY <2>1, <1>2, <1>3
<1>5. ASSUME q - p <= -1 PROVE FALSE
  <2>1. d * (q - p) <= - d
    BY <1>3, <1>5
  <2> QED BY <2>1, <1>2, <1>3
<1>6. q - p = 0
  BY <1>3, <1>4, <1>5
<1>7. s = r
  BY <1>1, <1>2, <1>6
<1> QED BY <1>7 DEF s, x
=============================================================================
