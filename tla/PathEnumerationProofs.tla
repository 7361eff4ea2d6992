------------------------ MODULE PathEnumerationProofs ------------------------
(***************************************************************************)
(* The enumeration by packet rate, for all programs, costs and numbers of  *)
(* paths: the size of every queue is what its paths add up to, and no      *)
(* null pointer is followed while paths are drawn.                         *)
(*                                                                         *)
(* Both rest on one hypothesis about the program, FewPaths: a sizet can    *)
(* count the paths to each of its nodes.  Without it the number of merged  *)
(* impossible paths wraps around (cfg.cpp:581), and a queue may say that   *)
(* it is empty while it is not.                                            *)
(*                                                                         *)
(* What a queue stands for is a sum over its paths (Weight), `none' aside; *)
(* the invariant says that all there is never exceeds what arrived, and    *)
(* that `none' stays ahead of what next_k() asks for.                      *)
(***************************************************************************)
EXTENDS PathEnumeration, ProofBasics

-----------------------------------------------------------------------------
(* Sums                                                                    *)

\* what the numbers of a sequence add up to
SumSeq(s) == FoldLeft(LAMBDA n, m : n + m, 0, s)

\* the sums of the first elements
Sums(s, G) ==
  /\ G \in [0..Len(s) -> Nat]
  /\ G[0] = 0
  /\ \A u \in 0..Len(s) - 1 : G[u + 1] = G[u] + s[u + 1]

\* Adding up a sequence goes through the sums of its first elements.
LEMMA SumSteps ==
  ASSUME NEW s \in Seq(Nat)
  PROVE  \E G : Sums(s, G) /\ SumSeq(s) = G[Len(s)]
<1> DEFINE n == Len(s)
           h == [x \in Nat \X Nat |-> x[1] + x[2]]
           Goes(F) == F = [S \in SUBSET DOMAIN s |->
                             IF S = {} THEN 0 ELSE F[S \ {Max(S)}] + s[Max(S)]]
           F == CHOOSE F : Goes(F)
<1>1. SumSeq(s) = F[DOMAIN s]
  BY DEF FoldLeft, MapThenFoldSet, SumSeq
<1>2. n \in Nat /\ DOMAIN s = 1..n /\ s \in [1..n -> Nat]
  BY SeqFunction
<1> HIDE DEF n
<1>3. h \in [Nat \X Nat -> Nat] /\ \A a, b \in Nat : h[<<a, b>>] = a + b
  OBVIOUS
<1> HIDE DEF h
<1>4. PICK G : /\ G \in [SUBSET (1..n) -> Nat]
               /\ \A S \in SUBSET (1..n) :
                    G[S] = IF S = {} THEN 0 ELSE h[<<G[S \ {Max(S)}], s[Max(S)]>>]
  <2>1. \E G : IsFold(G, Nat, h, 0, n, s)
    BY <1>2, <1>3, FoldExists
  <2>2. QED
    BY <2>1 DEF IsFold
<1>5. ASSUME NEW S \in SUBSET (1..n), S # {}
      PROVE  G[S] = G[S \ {Max(S)}] + s[Max(S)]
  <2>1. Max(S) \in 1..n
    BY <1>2, <1>5, MaxPlace
  <2>2. G[S \ {Max(S)}] \in Nat /\ s[Max(S)] \in Nat
    <3>1. S \ {Max(S)} \in SUBSET (1..n)
      OBVIOUS
    <3>2. QED
      BY <1>2, <1>4, <2>1, <3>1
  <2>3. QED
    BY <1>3, <1>4, <1>5, <2>2
<1>6. Goes(G)
  BY <1>2, <1>4, <1>5
<1>7. Goes(F)
  BY <1>6
<1> HIDE DEF F
<1>8. /\ F[{}] = 0
      /\ \A S \in SUBSET (1..n) : S # {} => F[S] = F[S \ {Max(S)}] + s[Max(S)]
  BY <1>2, <1>7
<1> HIDE DEF Goes
<1> DEFINE K == {u \in 0..n : F[1..u] \in Nat}
<1>9. ASSUME NEW u \in 0..n - 1 PROVE F[1..u + 1] = F[1..u] + s[u + 1] /\ u + 1 \in 0..n
  <2>1. 1..u + 1 \in SUBSET (1..n) /\ u + 1 \in 0..n
    BY <1>2
  <2>2. 1..u + 1 # {} /\ Max(1..u + 1) = u + 1 /\ (1..u + 1) \ {u + 1} = 1..u
    <3>1. u \in Nat
      BY <1>2
    <3>2. QED
      BY <3>1, MaxOfRange
  <2>3. QED
    BY <1>8, <2>1, <2>2
<1>10. F[1..0] = 0
  <2>1. 1..0 = {}
    OBVIOUS
  <2>2. QED
    BY <1>8, <2>1
<1>11. 0..n \subseteq K
  <2>1. 0 \in K
    BY <1>2, <1>10
  <2>2. ASSUME NEW u \in 0..n - 1, u \in K PROVE u + 1 \in K
    <3>1. s[u + 1] \in Nat
      BY <1>2
    <3>2. QED
      BY <1>9, <2>2, <3>1
  <2> HIDE DEF K
  <2>3. QED
    BY <1>2, <2>1, <2>2, InductionUpTo
<1> DEFINE H == [u \in 0..n |-> F[1..u]]
<1>12. Sums(s, H) /\ SumSeq(s) = H[Len(s)]
  <2>1. H \in [0..n -> Nat] /\ n \in 0..n
    BY <1>2, <1>11
  <2>2. H[0] = 0 /\ \A u \in 0..n - 1 : H[u + 1] = H[u] + s[u + 1]
    BY <1>2, <1>9, <1>10
  <2>3. SumSeq(s) = H[n]
    BY <1>1, <1>2, <2>1
  <2> HIDE DEF H
  <2>4. QED
    BY <2>1, <2>2, <2>3 DEF Sums, n
<1> HIDE DEF H
<1>13. QED
  BY <1>12

\* A sum of natural numbers is one.
LEMMA SumNat ==
  ASSUME NEW s \in Seq(Nat)
  PROVE  SumSeq(s) \in Nat
<1>1. PICK G : Sums(s, G) /\ SumSeq(s) = G[Len(s)]
  BY SumSteps, Zenon
<1>2. Len(s) \in 0..Len(s)
  OBVIOUS
<1>3. QED
  BY <1>1, <1>2 DEF Sums

\* The sum of what is appended
LEMMA SumConcat ==
  ASSUME NEW s \in Seq(Nat), NEW t \in Seq(Nat)
  PROVE  SumSeq(s \o t) = SumSeq(s) + SumSeq(t)
<1> DEFINE m == Len(s)
           n == Len(t)
<1>1. /\ s \o t \in Seq(Nat) /\ Len(s \o t) = m + n /\ m \in Nat /\ n \in Nat
      /\ \A i \in 1..m : (s \o t)[i] = s[i]
      /\ \A i \in 1..n : (s \o t)[m + i] = t[i]
  OBVIOUS
<1>2. PICK F : Sums(s, F) /\ SumSeq(s) = F[m]
  BY SumSteps, Zenon
<1>3. PICK G : Sums(t, G) /\ SumSeq(t) = G[n]
  BY SumSteps, Zenon
<1>4. PICK H : Sums(s \o t, H) /\ SumSeq(s \o t) = H[Len(s \o t)]
  BY <1>1, SumSteps, Zenon
<1>5. /\ F \in [0..m -> Nat] /\ F[0] = 0 /\ \A u \in 0..m - 1 : F[u + 1] = F[u] + s[u + 1]
  BY <1>2 DEF Sums
<1>6. /\ G \in [0..n -> Nat] /\ G[0] = 0 /\ \A u \in 0..n - 1 : G[u + 1] = G[u] + t[u + 1]
  BY <1>3 DEF Sums
<1>7. /\ H \in [0..m + n -> Nat] /\ H[0] = 0
      /\ \A u \in 0..m + n - 1 : H[u + 1] = H[u] + (s \o t)[u + 1]
  BY <1>1, <1>4 DEF Sums
<1> HIDE DEF m, n
<1> DEFINE K == {u \in 0..m : H[u] = F[u]}
           L == {u \in 0..n : H[m + u] = F[m] + G[u]}
<1>8. 0..m \subseteq K
  <2>1. 0 \in K
    BY <1>1, <1>5, <1>7
  <2>2. ASSUME NEW u \in 0..m - 1, u \in K PROVE u + 1 \in K
    <3>1. u + 1 \in 1..m /\ u + 1 \in 0..m /\ u \in 0..m + n - 1
      BY <1>1
    <3>2. QED
      BY <1>1, <1>5, <1>7, <2>2, <3>1
  <2> HIDE DEF K
  <2>3. QED
    BY <1>1, <2>1, <2>2, InductionUpTo
<1>9. 0..n \subseteq L
  <2>1. 0 \in L
    <3>1. m \in K /\ G[0] = 0 /\ F[m] \in Nat
      BY <1>1, <1>5, <1>6, <1>8
    <3>2. QED
      BY <1>1, <3>1
  <2>2. ASSUME NEW u \in 0..n - 1, u \in L PROVE u + 1 \in L
    <3>1. u + 1 \in 1..n /\ u + 1 \in 0..n /\ m + u \in 0..m + n - 1 /\ u \in 0..n
      BY <1>1
    <3> DEFINE j == m + u
    <3>a. j \in 0..m + n - 1
      BY <3>1
    <3>b. j + 1 = m + (u + 1)
      BY <1>1
    <3> HIDE DEF j
    <3>c. H[j + 1] = H[j] + (s \o t)[j + 1]
      BY <1>7, <3>a
    <3>2. H[m + (u + 1)] = H[m + u] + (s \o t)[m + (u + 1)]
      BY <3>b, <3>c DEF j
    <3>3. (s \o t)[m + (u + 1)] = t[u + 1] /\ G[u + 1] = G[u] + t[u + 1]
      BY <1>1, <1>6, <3>1
    <3>4. t[u + 1] \in Nat /\ G[u] \in Nat /\ F[m] \in Nat
      <4>1. t \in [1..n -> Nat]
        BY SeqFunction DEF n
      <4>2. t[u + 1] \in Nat
        BY <3>1, <4>1
      <4>3. G[u] \in Nat
        BY <1>6, <3>1
      <4>4. m \in 0..m
        BY <1>1
      <4>5. F[m] \in Nat
        BY <1>5, <4>4
      <4>6. QED
        BY <4>2, <4>3, <4>5
    <3>5. H[m + u] = F[m] + G[u]
      BY <2>2
    <3>6. H[m + (u + 1)] = F[m] + G[u + 1]
      <4>1. H[m + (u + 1)] = (F[m] + G[u]) + t[u + 1]
        BY <3>2, <3>3, <3>5
      <4>2. QED
        BY <3>3, <3>4, <4>1
    <3>7. QED
      BY <3>1, <3>6
  <2> HIDE DEF L
  <2>3. QED
    BY <1>1, <2>1, <2>2, InductionUpTo
<1>10. n \in L
  BY <1>1, <1>9
<1>11. QED
  BY <1>1, <1>2, <1>3, <1>4, <1>10

\* nothing, and one number
LEMMA SumShort ==
  /\ SumSeq(<<>>) = 0
  /\ \A x \in Nat : SumSeq(<<x>>) = x
<1>1. SumSeq(<<>>) = 0
  <2>1. <<>> \in Seq(Nat) /\ Len(<<>>) = 0
    OBVIOUS
  <2>2. PICK G : Sums(<<>>, G) /\ SumSeq(<<>>) = G[Len(<<>>)]
    BY <2>1, SumSteps, Zenon
  <2>3. QED
    BY <2>1, <2>2 DEF Sums
<1>2. ASSUME NEW x \in Nat PROVE SumSeq(<<x>>) = x
  <2>1. <<x>> \in Seq(Nat) /\ Len(<<x>>) = 1 /\ <<x>>[1] = x
    OBVIOUS
  <2>2. PICK G : Sums(<<x>>, G) /\ SumSeq(<<x>>) = G[Len(<<x>>)]
    BY <2>1, SumSteps, Zenon
  <2>3. G[0] = 0 /\ G[0 + 1] = G[0] + <<x>>[0 + 1]
    <3>1. 0 \in 0..Len(<<x>>) - 1
      BY <2>1
    <3>2. QED
      BY <2>2, <3>1 DEF Sums
  <2>4. QED
    BY <2>1, <2>2, <2>3
<1>3. QED
  BY <1>1, <1>2

\* Of two sequences, the one with the smaller numbers
LEMMA SumLess ==
  ASSUME NEW s \in Seq(Nat), NEW t \in Seq(Nat), Len(s) = Len(t),
         \A i \in 1..Len(s) : s[i] <= t[i]
  PROVE  SumSeq(s) <= SumSeq(t)
<1> DEFINE n == Len(s)
<1>1. PICK F : Sums(s, F) /\ SumSeq(s) = F[Len(s)]
  BY SumSteps, Zenon
<1>2. PICK G : Sums(t, G) /\ SumSeq(t) = G[Len(t)]
  BY SumSteps, Zenon
<1>3. /\ n \in Nat /\ F \in [0..n -> Nat] /\ G \in [0..n -> Nat] /\ F[0] = 0 /\ G[0] = 0
      /\ \A u \in 0..n - 1 : F[u + 1] = F[u] + s[u + 1] /\ G[u + 1] = G[u] + t[u + 1]
  BY <1>1, <1>2 DEF Sums
<1>4. \A u \in 0..n - 1 : u + 1 \in 1..n /\ s[u + 1] \in Nat /\ t[u + 1] \in Nat /\ s[u + 1] <= t[u + 1]
  BY <1>3
<1> HIDE DEF n
<1> DEFINE K == {u \in 0..n : F[u] <= G[u]}
<1>5. 0 \in K
  BY <1>3
<1>6. ASSUME NEW u \in 0..n - 1, u \in K PROVE u + 1 \in K
  <2>1. F[u] \in Nat /\ G[u] \in Nat /\ F[u] <= G[u] /\ u + 1 \in 0..n
    BY <1>3, <1>6
  <2>2. /\ F[u + 1] = F[u] + s[u + 1] /\ G[u + 1] = G[u] + t[u + 1]
        /\ s[u + 1] \in Nat /\ t[u + 1] \in Nat /\ s[u + 1] <= t[u + 1]
    BY <1>3, <1>4
  <2>3. \A a, b, c, d \in Nat : a <= b /\ c <= d => a + c <= b + d
    OBVIOUS
  <2>4. F[u] + s[u + 1] <= G[u] + t[u + 1]
    BY <2>1, <2>2, <2>3
  <2>5. F[u + 1] <= G[u + 1]
    BY <2>2, <2>4
  <2>6. QED
    BY <2>1, <2>5
<1> HIDE DEF K
<1>7. 0..n \subseteq K
  BY <1>3, <1>5, <1>6, InductionUpTo
<1>8. n \in K
  BY <1>3, <1>7
<1>9. QED
  BY <1>1, <1>2, <1>8 DEF K, n

\* One of the numbers has grown.
LEMMA SumGrows ==
  ASSUME NEW s \in Seq(Nat), NEW j \in 1..Len(s), NEW c \in Nat
  PROVE  SumSeq([s EXCEPT ![j] = @ + c]) = SumSeq(s) + c
<1> DEFINE n == Len(s)
           t == [s EXCEPT ![j] = @ + c]
<1>1. t \in Seq(Nat) /\ Len(t) = n /\ n \in Nat /\ j \in 1..n
      /\ \A i \in 1..n : s[i] \in Nat /\ t[i] = IF i = j THEN s[i] + c ELSE s[i]
  OBVIOUS
<1>2. PICK F : Sums(s, F) /\ SumSeq(s) = F[Len(s)]
  BY SumSteps, Zenon
<1> HIDE DEF t
<1>3. PICK G : Sums(t, G) /\ SumSeq(t) = G[Len(t)]
  BY <1>1, SumSteps, Zenon
<1>4. /\ n \in Nat /\ F \in [0..n -> Nat] /\ G \in [0..n -> Nat] /\ F[0] = 0 /\ G[0] = 0
      /\ \A u \in 0..n - 1 : F[u + 1] = F[u] + s[u + 1] /\ G[u + 1] = G[u] + t[u + 1]
  BY <1>1, <1>2, <1>3 DEF Sums
<1> HIDE DEF n
<1> DEFINE K == {u \in 0..n : G[u] = F[u] + (IF u < j THEN 0 ELSE c)}
<1>5. 0 \in K
  BY <1>1, <1>4
<1>6. ASSUME NEW u \in 0..n - 1, u \in K PROVE u + 1 \in K
  <2>a. u + 1 \in 0..n /\ u + 1 \in 1..n /\ u \in 0..n /\ u \in Nat
    <3>1. n \in Nat
      BY <1>4
    <3>2. QED
      BY <3>1
  <2>1. F[u] \in Nat /\ G[u] \in Nat /\ u + 1 \in 0..n /\ u + 1 \in 1..n /\ u \in Nat
    BY <1>4, <2>a
  <2>2. /\ F[u + 1] = F[u] + s[u + 1] /\ G[u + 1] = G[u] + t[u + 1]
        /\ G[u] = F[u] + (IF u < j THEN 0 ELSE c) /\ s[u + 1] \in Nat
        /\ t[u + 1] = IF u + 1 = j THEN s[u + 1] + c ELSE s[u + 1]
    BY <1>1, <1>4, <1>6, <2>1
  <2>3. CASE u + 1 = j
    <3>1. u < j /\ ~(u + 1 < j)
      BY <2>1, <2>3
    <3>2. G[u + 1] = F[u + 1] + c
      BY <2>1, <2>2, <2>3, <3>1, SMTT(30)
    <3>3. QED
      BY <2>1, <3>1, <3>2, SMTT(30)
  <2>4. CASE u + 1 # j
    <3>1. u < j <=> u + 1 < j
      BY <1>1, <2>1, <2>4
    <3>2. G[u + 1] = F[u + 1] + (IF u + 1 < j THEN 0 ELSE c)
      BY <2>1, <2>2, <2>4, <3>1
    <3>3. QED
      BY <2>1, <3>2
  <2>5. QED
    BY <2>3, <2>4
<1> HIDE DEF K
<1>7. 0..n \subseteq K
  BY <1>1, <1>5, <1>6, InductionUpTo
<1>8. n \in K
  BY <1>1, <1>7
<1>9. QED
  BY <1>1, <1>2, <1>3, <1>8 DEF K, n, t

-----------------------------------------------------------------------------
(* Paths and how many they stand for                                       *)

\* the records Start, None and Extend() make, with a count a sizet can hold
PathType ==
  [kind : {"none", "impossible", "possible"}, at : Edges \cup {Entry}, cost : Nat,
   count : 1..SizeMax, via : Seq(Edges \cup {Entry}), min : Nat]

\* the queue holds `none'
HasNone(s) == \E i \in 1..Len(s) : s[i].kind = "none"

\* `none' stands for no path of the program.
Stands(p)  == IF p.kind = "none" THEN 0 ELSE p.count
\* how many paths the elements of a queue stand for, one by one and in all
Standing(s) == [i \in 1..Len(s) |-> Stands(s[i])]
Weight(s)  == SumSeq(Standing(s))

\* `none' counts for as much as there can be.
Paths == {p \in PathType : p.kind = "none" => p.count = SizeMax}

\* A path stands for a number of paths a sizet can hold.
LEMMA StandsNat ==
  ASSUME NEW p \in Paths
  PROVE  Stands(p) \in 0..SizeMax /\ Stands(p) \in Nat
BY ParallelismAssumption DEF Stands, Paths, PathType

\* A queue has as many numbers to add up as it has paths.
LEMMA StandingIs ==
  ASSUME NEW s \in Seq(Paths)
  PROVE  Standing(s) \in Seq(Nat) /\ Len(Standing(s)) = Len(s)
<1>1. \A i \in 1..Len(s) : s[i] \in Paths
  OBVIOUS
<1>2. \A i \in 1..Len(s) : Stands(s[i]) \in Nat
  BY <1>1, StandsNat
<1>3. QED
  BY <1>2 DEF Standing

\* A queue stands for a number of paths.
LEMMA WeightNat ==
  ASSUME NEW s \in Seq(Paths)
  PROVE  Weight(s) \in Nat
BY StandingIs, SumNat DEF Weight

\* Where the elements of a concatenation come from
LEMMA ConcatIs ==
  ASSUME NEW S, NEW s \in Seq(S), NEW t \in Seq(S)
  PROVE  s \o t = [i \in 1..Len(s) + Len(t) |-> IF i <= Len(s) THEN s[i] ELSE t[i - Len(s)]]
<1> DEFINE u == s \o t
<1>1. /\ u \in Seq(S) /\ Len(u) = Len(s) + Len(t) /\ Len(s) \in Nat /\ Len(t) \in Nat
      /\ \A i \in 1..Len(s) : u[i] = s[i]
      /\ \A i \in 1..Len(t) : u[Len(s) + i] = t[i]
  OBVIOUS
<1> HIDE DEF u
<1>2. u = [i \in 1..Len(s) + Len(t) |-> u[i]]
  BY <1>1
<1>3. ASSUME NEW i \in 1..Len(s) + Len(t)
      PROVE  u[i] = IF i <= Len(s) THEN s[i] ELSE t[i - Len(s)]
  <2>1. CASE i <= Len(s)
    BY <1>1, <2>1
  <2>2. CASE ~(i <= Len(s))
    <3>1. i - Len(s) \in 1..Len(t) /\ i = Len(s) + (i - Len(s))
      BY <1>1, <2>2
    <3>2. QED
      BY <1>1, <2>2, <3>1
  <2>3. QED
    BY <2>1, <2>2
<1>4. QED
  BY <1>2, <1>3 DEF u

\* Two queues, one after the other, stand for what each stands for.
LEMMA WeightConcat ==
  ASSUME NEW s \in Seq(Paths), NEW t \in Seq(Paths)
  PROVE  Weight(s \o t) = Weight(s) + Weight(t)
<1>1. /\ Standing(s) \in Seq(Nat) /\ Len(Standing(s)) = Len(s)
      /\ Standing(t) \in Seq(Nat) /\ Len(Standing(t)) = Len(t)
  BY StandingIs
<1>2. Standing(s \o t) = Standing(s) \o Standing(t)
  <2> DEFINE a == Standing(s)
             b == Standing(t)
  <2>0. a \o b = [i \in 1..Len(a) + Len(b) |-> IF i <= Len(a) THEN a[i] ELSE b[i - Len(a)]]
    <3> HIDE DEF a, b
    <3>1. a \in Seq(Nat) /\ b \in Seq(Nat)
      BY <1>1 DEF a, b
    <3>2. QED
      BY <3>1, ConcatIs
  <2>1. /\ s \o t \in Seq(Paths) /\ Len(s \o t) = Len(s) + Len(t)
        /\ Len(s) \in Nat /\ Len(t) \in Nat
        /\ \A i \in 1..Len(s) + Len(t) :
             (s \o t)[i] = IF i <= Len(s) THEN s[i] ELSE t[i - Len(s)]
    OBVIOUS
  <2>2. \A i \in 1..Len(s) + Len(t) :
          Standing(s \o t)[i] = IF i <= Len(s) THEN Stands(s[i]) ELSE Stands(t[i - Len(s)])
    BY <2>1 DEF Standing
  <2>3. Standing(s) \o Standing(t) =
          [i \in 1..Len(s) + Len(t) |->
             IF i <= Len(s) THEN Standing(s)[i] ELSE Standing(t)[i - Len(s)]]
    BY <1>1, <2>0
  <2>4. Standing(s \o t) = [i \in 1..Len(s) + Len(t) |-> Standing(s \o t)[i]]
    BY <2>1 DEF Standing
  <2>5. \A i \in 1..Len(s) + Len(t) :
          /\ i <= Len(s) => Standing(s)[i] = Stands(s[i])
          /\ ~(i <= Len(s)) => Standing(t)[i - Len(s)] = Stands(t[i - Len(s)])
    BY <2>1 DEF Standing
  <2>6. QED
    BY <2>2, <2>3, <2>4, <2>5
<1>3. QED
  BY <1>1, <1>2, SumConcat DEF Weight

\* The empty queue stands for no path, a queue of one for what that one does.
LEMMA WeightShort ==
  /\ Weight(<<>>) = 0
  /\ \A p \in Paths : Weight(<<p>>) = Stands(p)
<1>1. Weight(<<>>) = 0
  <2>1. Standing(<<>>) = <<>>
    BY DEF Standing
  <2>2. QED
    BY <2>1, SumShort DEF Weight
<1>2. ASSUME NEW p \in Paths PROVE Weight(<<p>>) = Stands(p)
  <2>1. Standing(<<p>>) = <<Stands(p)>>
    BY DEF Standing
  <2>2. QED
    BY <2>1, StandsNat, SumShort DEF Weight
<1>3. QED
  BY <1>1, <1>2

\* `none' is in a concatenation if it is in one of its parts.
LEMMA NoneConcat ==
  ASSUME NEW s \in Seq(Paths), NEW t \in Seq(Paths)
  PROVE  HasNone(s \o t) <=> HasNone(s) \/ HasNone(t)
<1>1. /\ s \o t \in Seq(Paths) /\ Len(s \o t) = Len(s) + Len(t)
      /\ Len(s) \in Nat /\ Len(t) \in Nat
      /\ \A i \in 1..Len(s) : (s \o t)[i] = s[i]
      /\ \A i \in 1..Len(t) : (s \o t)[Len(s) + i] = t[i]
  OBVIOUS
<1>2. ASSUME NEW i \in 1..Len(s \o t), (s \o t)[i].kind = "none" PROVE HasNone(s) \/ HasNone(t)
  <2>1. CASE i \in 1..Len(s)
    BY <1>1, <1>2, <2>1 DEF HasNone
  <2>2. CASE i \notin 1..Len(s)
    <3>1. i - Len(s) \in 1..Len(t) /\ i = Len(s) + (i - Len(s))
      BY <1>1, <2>2
    <3>2. (s \o t)[i] = t[i - Len(s)]
      BY <1>1, <3>1
    <3>3. QED
      BY <1>2, <3>1, <3>2 DEF HasNone
  <2>3. QED
    BY <2>1, <2>2
<1>3. ASSUME NEW i \in 1..Len(s), s[i].kind = "none" PROVE HasNone(s \o t)
  <2>1. i \in 1..Len(s \o t)
    BY <1>1
  <2>2. QED
    BY <1>1, <1>3, <2>1 DEF HasNone
<1>4. ASSUME NEW i \in 1..Len(t), t[i].kind = "none" PROVE HasNone(s \o t)
  <2>1. Len(s) + i \in 1..Len(s \o t)
    BY <1>1
  <2>2. QED
    BY <1>1, <1>4, <2>1 DEF HasNone
<1>5. QED
  BY <1>2, <1>3, <1>4 DEF HasNone

\* `none' is not in the empty queue, and in a queue of one if it is that one.
LEMMA NoneShort ==
  /\ ~HasNone(<<>>)
  /\ \A p \in Paths : HasNone(<<p>>) <=> p.kind = "none"
BY DEF HasNone

\* The first or the last path, and the others
LEMMA Beheaded ==
  ASSUME NEW s \in Seq(Paths), s # <<>>
  PROVE  /\ Head(s) \in Paths /\ Tail(s) \in Seq(Paths)
         /\ Weight(s) = Stands(Head(s)) + Weight(Tail(s))
         /\ HasNone(s) <=> Head(s).kind = "none" \/ HasNone(Tail(s))
<1>1. Head(s) \in Paths /\ Tail(s) \in Seq(Paths) /\ s = <<Head(s)>> \o Tail(s)
  OBVIOUS
<1>2. <<Head(s)>> \in Seq(Paths)
  BY <1>1
<1> DEFINE h == Head(s)
           t == Tail(s)
<1> HIDE DEF h, t
<1>3. h \in Paths /\ t \in Seq(Paths) /\ <<h>> \in Seq(Paths) /\ s = <<h>> \o t
  BY <1>1, <1>2 DEF h, t
<1>4. Weight(<<h>> \o t) = Stands(h) + Weight(t)
  BY <1>3, WeightConcat, WeightShort
<1>5. HasNone(<<h>> \o t) <=> h.kind = "none" \/ HasNone(t)
  BY <1>3, NoneConcat, NoneShort
<1>6. QED
  BY <1>1, <1>3, <1>4, <1>5 DEF h, t

LEMMA Betailed ==
  ASSUME NEW s \in Seq(Paths), s # <<>>
  PROVE  /\ Last(s) \in Paths /\ Front(s) \in Seq(Paths)
         /\ Weight(s) = Weight(Front(s)) + Stands(Last(s))
         /\ HasNone(s) <=> Last(s).kind = "none" \/ HasNone(Front(s))
<1> DEFINE f == Front(s)
           l == Last(s)
<1>1. /\ f \in Seq(Paths) /\ Len(f) = Len(s) - 1
      /\ \A n \in 1..Len(s) - 1 : f[n] = s[n]
      /\ l = s[Len(s)] /\ Len(s) \in Nat \ {0} /\ l \in Paths
  BY Shorter
<1> HIDE DEF f, l
<1>2. s = f \o <<l>>
  BY <1>1
<1>3. <<l>> \in Seq(Paths)
  BY <1>1
<1>4. Weight(f \o <<l>>) = Weight(f) + Stands(l)
  BY <1>1, <1>3, WeightConcat, WeightShort
<1>5. HasNone(f \o <<l>>) <=> l.kind = "none" \/ HasNone(f)
  BY <1>1, <1>3, NoneConcat, NoneShort
<1>6. QED
  BY <1>1, <1>2, <1>4, <1>5 DEF f, l

-----------------------------------------------------------------------------
(* What a queue says it holds                                              *)

\* a number as a sizet saturates it, and what a queue of these paths must say
Least(n) == IF n <= SizeMax THEN n ELSE SizeMax
Held(s)  == IF HasNone(s) THEN SizeMax ELSE Least(Weight(s))

\* The greatest sizet is a positive number.
LEMMA SizeMaxIs == SizeMax \in Nat /\ SizeMax > 0 /\ 0 \in 0..SizeMax /\ SizeMax \in 0..SizeMax
BY ParallelismAssumption

\* sizet's + (cfg.hpp:171) adds, and saturates.
LEMMA PlusIs ==
  ASSUME NEW a \in 0..SizeMax, NEW b \in Nat
  PROVE  Plus(a, b) = Least(a + b) /\ Plus(a, b) \in 0..SizeMax
BY ParallelismAssumption DEF Plus, Least

\* Counting the paths of a queue again adds one count after the other.
LEMMA TotalSteps ==
  ASSUME NEW s \in Seq(Paths)
  PROVE  \E G : /\ G \in [0..Len(s) -> 0..SizeMax] /\ G[0] = 0
                /\ \A u \in 0..Len(s) - 1 : G[u + 1] = Plus(G[u], s[u + 1].count)
                /\ Total(s) = G[Len(s)]
<1> DEFINE n == Len(s)
           A == 0..SizeMax
           h == [x \in A \X Paths |-> Plus(x[1], x[2].count)]
           Goes(F) == F = [S \in SUBSET DOMAIN s |->
                             IF S = {} THEN 0 ELSE Plus(F[S \ {Max(S)}], s[Max(S)].count)]
           F == CHOOSE F : Goes(F)
<1>1. Total(s) = F[DOMAIN s]
  BY DEF FoldLeft, MapThenFoldSet, Total
<1>2. n \in Nat /\ DOMAIN s = 1..n /\ s \in [1..n -> Paths]
  BY SeqFunction
<1>3. 0 \in A /\ \A a \in A, p \in Paths : Plus(a, p.count) \in A
  <2>1. \A p \in Paths : p.count \in Nat
    BY SizeMaxIs DEF Paths, PathType
  <2>2. \A a \in A, p \in Paths : Plus(a, p.count) \in A
    BY <2>1, PlusIs
  <2>3. QED
    BY <2>2, SizeMaxIs
<1> HIDE DEF n, A
<1>4. h \in [A \X Paths -> A] /\ \A a \in A, p \in Paths : h[<<a, p>>] = Plus(a, p.count)
  BY <1>3
<1> HIDE DEF h
<1>5. PICK G : /\ G \in [SUBSET (1..n) -> A]
               /\ \A S \in SUBSET (1..n) :
                    G[S] = IF S = {} THEN 0 ELSE h[<<G[S \ {Max(S)}], s[Max(S)]>>]
  <2>1. \E G : IsFold(G, A, h, 0, n, s)
    BY <1>2, <1>3, <1>4, FoldExists
  <2>2. QED
    BY <2>1 DEF IsFold
<1>6. ASSUME NEW S \in SUBSET (1..n), S # {}
      PROVE  G[S] = Plus(G[S \ {Max(S)}], s[Max(S)].count)
  <2>1. Max(S) \in 1..n
    BY <1>2, <1>6, MaxPlace
  <2>2. G[S \ {Max(S)}] \in A /\ s[Max(S)] \in Paths
    <3>1. S \ {Max(S)} \in SUBSET (1..n)
      OBVIOUS
    <3>2. QED
      BY <1>2, <1>5, <2>1, <3>1
  <2>3. QED
    BY <1>4, <1>5, <1>6, <2>2
<1>7. Goes(G)
  BY <1>2, <1>5, <1>6
<1>8. Goes(F)
  BY <1>7
<1> HIDE DEF F
<1>9. /\ F[{}] = 0
      /\ \A S \in SUBSET (1..n) : S # {} => F[S] = Plus(F[S \ {Max(S)}], s[Max(S)].count)
  BY <1>2, <1>8
<1> HIDE DEF Goes
<1> DEFINE K == {u \in 0..n : F[1..u] \in A}
<1>10. ASSUME NEW u \in 0..n - 1
       PROVE  F[1..u + 1] = Plus(F[1..u], s[u + 1].count) /\ u + 1 \in 0..n /\ u + 1 \in 1..n
  <2>1. 1..u + 1 \in SUBSET (1..n) /\ u + 1 \in 0..n /\ u + 1 \in 1..n /\ u \in Nat
    BY <1>2
  <2>2. 1..u + 1 # {} /\ Max(1..u + 1) = u + 1 /\ (1..u + 1) \ {u + 1} = 1..u
    BY <2>1, MaxOfRange
  <2>3. QED
    BY <1>9, <2>1, <2>2
<1>11. F[1..0] = 0
  <2>1. 1..0 = {}
    OBVIOUS
  <2>2. QED
    BY <1>9, <2>1
<1>12. 0..n \subseteq K
  <2>1. 0 \in K
    BY <1>2, <1>3, <1>11
  <2>2. ASSUME NEW u \in 0..n - 1, u \in K PROVE u + 1 \in K
    <3>1. u + 1 \in 1..n
      BY <1>10
    <3>2. s[u + 1] \in Paths
      BY <1>2, <3>1
    <3>3. QED
      BY <1>3, <1>10, <2>2, <3>2
  <2> HIDE DEF K
  <2>3. QED
    BY <1>2, <2>1, <2>2, InductionUpTo
<1> DEFINE H == [u \in 0..n |-> F[1..u]]
<1>13. /\ H \in [0..n -> A] /\ H[0] = 0
       /\ \A u \in 0..n - 1 : H[u + 1] = Plus(H[u], s[u + 1].count)
       /\ Total(s) = H[n]
  <2>1. H \in [0..n -> A] /\ n \in 0..n
    BY <1>2, <1>12
  <2>2. H[0] = 0 /\ \A u \in 0..n - 1 : H[u + 1] = Plus(H[u], s[u + 1].count)
    BY <1>2, <1>10, <1>11
  <2>3. Total(s) = H[n]
    BY <1>1, <1>2, <2>1
  <2> HIDE DEF H
  <2>4. QED
    BY <2>1, <2>2, <2>3
<1> HIDE DEF H
<1>14. QED
  BY <1>13, Zenon DEF n, A

\* Counting a queue again gives what it must say: `none' saturates the size,
\* and the others add up until they do.
LEMMA TotalIs ==
  ASSUME NEW s \in Seq(Paths)
  PROVE  Total(s) = Held(s) /\ Held(s) \in 0..SizeMax
<1> DEFINE n == Len(s)
           None_(u) == \E i \in 1..u : s[i].kind = "none"
<1>1. PICK G : /\ G \in [0..Len(s) -> 0..SizeMax] /\ G[0] = 0
               /\ \A u \in 0..Len(s) - 1 : G[u + 1] = Plus(G[u], s[u + 1].count)
               /\ Total(s) = G[Len(s)]
  BY TotalSteps, Zenon
<1>2. Standing(s) \in Seq(Nat) /\ Len(Standing(s)) = n
  BY StandingIs
<1>3. PICK F : Sums(Standing(s), F) /\ Weight(s) = F[Len(Standing(s))]
  BY <1>2, SumSteps, Zenon DEF Weight
<1>4. /\ n \in Nat /\ F \in [0..n -> Nat] /\ F[0] = 0
      /\ \A u \in 0..n - 1 : F[u + 1] = F[u] + Stands(s[u + 1])
      /\ Weight(s) = F[n]
  <2>1. n \in Nat
    OBVIOUS
  <2>2. \A u \in 0..n - 1 : Standing(s)[u + 1] = Stands(s[u + 1])
    BY <2>1 DEF Standing
  <2>3. QED
    BY <1>2, <1>3, <2>1, <2>2 DEF Sums
<1>5. \A u \in 0..n - 1 : s[u + 1] \in Paths /\ u + 1 \in 0..n
  BY <1>4
<1> DEFINE K == {u \in 0..n : G[u] = IF None_(u) THEN SizeMax ELSE Least(F[u])}
<1> HIDE DEF n
<1>6. 0 \in K
  <2>1. ~None_(0)
    OBVIOUS
  <2>2. Least(0) = 0
    BY ParallelismAssumption DEF Least
  <2>3. QED
    BY <1>1, <1>4, <2>1, <2>2
<1>7. ASSUME NEW u \in 0..n - 1, u \in K PROVE u + 1 \in K
  <2>1. /\ u + 1 \in 0..n /\ u \in 0..n /\ u \in Nat
        /\ G[u] \in 0..SizeMax /\ F[u] \in Nat /\ s[u + 1] \in Paths
        /\ G[u + 1] = Plus(G[u], s[u + 1].count)
        /\ F[u + 1] = F[u] + Stands(s[u + 1])
        /\ G[u] = IF None_(u) THEN SizeMax ELSE Least(F[u])
    BY <1>1, <1>4, <1>5, <1>7 DEF n
  <2>2. None_(u + 1) <=> None_(u) \/ s[u + 1].kind = "none"
    <3>1. \A i \in 1..u + 1 : i \in 1..u \/ i = u + 1
      BY <2>1
    <3>2. u + 1 \in 1..u + 1 /\ \A i \in 1..u : i \in 1..u + 1
      BY <2>1
    <3>3. QED
      BY <3>1, <3>2
  <2> HIDE DEF None_
  <2> DEFINE c == s[u + 1].count
  <2>3. c \in Nat /\ c \in 0..SizeMax /\ SizeMax \in Nat
        /\ (s[u + 1].kind = "none" => c = SizeMax)
        /\ Stands(s[u + 1]) = IF s[u + 1].kind = "none" THEN 0 ELSE c
    BY <2>1, SizeMaxIs DEF Paths, PathType, Stands
  <2> HIDE DEF c
  <2>4. G[u + 1] = Least(G[u] + c)
    BY <2>1, <2>3, PlusIs DEF c
  <2>5. CASE s[u + 1].kind = "none"
    <3>1. G[u + 1] = SizeMax
      BY <2>1, <2>3, <2>4, <2>5 DEF Least
    <3>2. QED
      BY <2>1, <2>2, <2>5, <3>1
  <2>6. CASE s[u + 1].kind # "none" /\ None_(u)
    <3>1. G[u + 1] = SizeMax
      BY <2>1, <2>3, <2>4, <2>6 DEF Least
    <3>2. QED
      BY <2>1, <2>2, <2>6, <3>1
  <2>7. CASE s[u + 1].kind # "none" /\ ~None_(u)
    <3>1. F[u + 1] = F[u] + c /\ G[u] = Least(F[u])
      BY <2>1, <2>3, <2>7
    <3>2. Least(Least(F[u]) + c) = Least(F[u] + c)
      BY <2>1, <2>3 DEF Least
    <3>3. QED
      BY <2>1, <2>2, <2>4, <2>7, <3>1, <3>2
  <2>8. QED
    BY <2>5, <2>6, <2>7
<1> HIDE DEF K
<1>8. 0..n \subseteq K
  BY <1>4, <1>6, <1>7, InductionUpTo
<1>9. n \in K
  BY <1>4, <1>8
<1>10. None_(n) <=> HasNone(s)
  BY DEF HasNone, n
<1>11. Total(s) = Held(s)
  BY <1>1, <1>4, <1>9, <1>10 DEF K, Held, n
<1>12. QED
  BY <1>11, WeightNat, ParallelismAssumption DEF Held, Least

-----------------------------------------------------------------------------
(* The graph                                                               *)

\* What the assumption on the graph says of one edge
LEMMA EdgeIs ==
  ASSUME NEW x \in Edges
  PROVE  /\ x \in [src : 1..FinNd - 1, dst : 2..FinNd, taken : BOOLEAN] /\ x.src < x.dst
         /\ x.src \in Nodes /\ x.dst \in Nodes /\ x.src \in Nat /\ x.dst \in Nat
         /\ x.src < FinNd /\ x.dst # 1 /\ x # Out /\ x # Entry
<1>1. PICK i \in DOMAIN Links : Links[i] = x
  BY DEF Edges, ToSet
<1> DEFINE E == [src : 1..FinNd - 1, dst : 2..FinNd, taken : BOOLEAN]
<1>a. Links \in Seq(E) /\ \A j \in DOMAIN Links : Links[j].src < Links[j].dst
  BY GraphAssumption
<1>b. Links[i] \in E
  <2> HIDE DEF E
  <2>1. QED
    BY <1>a
<1>2. Links[i] \in [src : 1..FinNd - 1, dst : 2..FinNd, taken : BOOLEAN] /\ Links[i].src < Links[i].dst
  BY <1>a, <1>b
<1>3. x.src \in 1..FinNd - 1 /\ x.dst \in 2..FinNd /\ x.src < x.dst /\ FinNd \in Nat
  BY <1>1, <1>2, GraphAssumption
<1>4. QED
  BY <1>1, <1>2, <1>3 DEF Nodes, Out, Entry

\* link() appends to a node's predecessors each edge that leads to it, in the
\* order of the edges.
LEMMA PredSteps ==
  ASSUME NEW nd \in Nodes
  PROVE  \E G : /\ G \in [0..Len(Links) -> Seq(Edges)] /\ G[0] = <<>>
                /\ \A u \in 0..Len(Links) - 1 :
                     G[u + 1] = IF Links[u + 1].dst = nd THEN Append(G[u], Links[u + 1]) ELSE G[u]
                /\ Pred(nd) = G[Len(Links)]
<1> DEFINE n == Len(Links)
           A == Seq(Edges)
           Op(a, x) == IF x.dst = nd THEN Append(a, x) ELSE a
           h == [x \in A \X Edges |-> Op(x[1], x[2])]
           Goes(F) == F = [S \in SUBSET DOMAIN Links |->
                             IF S = {} THEN <<>> ELSE Op(F[S \ {Max(S)}], Links[Max(S)])]
           F == CHOOSE F : Goes(F)
<1>1. Pred(nd) = F[DOMAIN Links]
  BY DEF FoldLeft, MapThenFoldSet, Pred, Predecessors
<1>2. n \in Nat /\ DOMAIN Links = 1..n /\ Links \in [1..n -> Edges]
  <2>1. Links \in Seq([src : 1..FinNd - 1, dst : 2..FinNd, taken : BOOLEAN])
    BY GraphAssumption
  <2>2. n \in Nat /\ DOMAIN Links = 1..n /\ Links = [i \in 1..n |-> Links[i]]
    BY <2>1
  <2>3. \A i \in 1..n : Links[i] \in Edges
    BY <2>2 DEF Edges, ToSet
  <2> HIDE DEF n
  <2>4. QED
    BY <2>2, <2>3
<1>3. <<>> \in A /\ \A a \in A, x \in Edges : Op(a, x) \in A
  OBVIOUS
<1> HIDE DEF n, A, Op
<1>4. h \in [A \X Edges -> A] /\ \A a \in A, x \in Edges : h[<<a, x>>] = Op(a, x)
  BY <1>3
<1> HIDE DEF h
<1>5. PICK G : /\ G \in [SUBSET (1..n) -> A]
               /\ \A S \in SUBSET (1..n) :
                    G[S] = IF S = {} THEN <<>> ELSE h[<<G[S \ {Max(S)}], Links[Max(S)]>>]
  <2>1. \E G : IsFold(G, A, h, <<>>, n, Links)
    BY <1>2, <1>3, <1>4, FoldExists
  <2>2. QED
    BY <2>1 DEF IsFold
<1>6. ASSUME NEW S \in SUBSET (1..n), S # {}
      PROVE  G[S] = Op(G[S \ {Max(S)}], Links[Max(S)])
  <2>1. Max(S) \in 1..n
    BY <1>2, <1>6, MaxPlace
  <2>2. G[S \ {Max(S)}] \in A /\ Links[Max(S)] \in Edges
    <3>1. S \ {Max(S)} \in SUBSET (1..n)
      OBVIOUS
    <3>2. QED
      BY <1>2, <1>5, <2>1, <3>1
  <2>3. QED
    BY <1>4, <1>5, <1>6, <2>2
<1>7. Goes(G)
  BY <1>2, <1>5, <1>6
<1>8. Goes(F)
  BY <1>7
<1> HIDE DEF F
<1>9. /\ F[{}] = <<>>
      /\ \A S \in SUBSET (1..n) : S # {} => F[S] = Op(F[S \ {Max(S)}], Links[Max(S)])
  BY <1>2, <1>8
<1> HIDE DEF Goes
<1> DEFINE K == {u \in 0..n : F[1..u] \in A}
<1>10. ASSUME NEW u \in 0..n - 1
       PROVE  F[1..u + 1] = Op(F[1..u], Links[u + 1]) /\ u + 1 \in 0..n /\ u + 1 \in 1..n
  <2>1. 1..u + 1 \in SUBSET (1..n) /\ u + 1 \in 0..n /\ u + 1 \in 1..n /\ u \in Nat
    BY <1>2
  <2>2. 1..u + 1 # {} /\ Max(1..u + 1) = u + 1 /\ (1..u + 1) \ {u + 1} = 1..u
    BY <2>1, MaxOfRange
  <2>3. QED
    BY <1>9, <2>1, <2>2
<1>11. F[1..0] = <<>>
  <2>1. 1..0 = {}
    OBVIOUS
  <2>2. QED
    BY <1>9, <2>1
<1>12. 0..n \subseteq K
  <2>1. 0 \in K
    BY <1>2, <1>3, <1>11
  <2>2. ASSUME NEW u \in 0..n - 1, u \in K PROVE u + 1 \in K
    <3>1. u + 1 \in 1..n
      BY <1>10
    <3>2. Links[u + 1] \in Edges
      BY <1>2, <3>1
    <3>3. QED
      BY <1>3, <1>10, <2>2, <3>2
  <2> HIDE DEF K
  <2>3. QED
    BY <1>2, <2>1, <2>2, InductionUpTo
<1> DEFINE H == [u \in 0..n |-> F[1..u]]
<1>13. /\ H \in [0..n -> A] /\ H[0] = <<>>
       /\ \A u \in 0..n - 1 : H[u + 1] = Op(H[u], Links[u + 1])
       /\ Pred(nd) = H[n]
  <2>1. H \in [0..n -> A] /\ n \in 0..n
    BY <1>2, <1>12
  <2>2. H[0] = <<>> /\ \A u \in 0..n - 1 : H[u + 1] = Op(H[u], Links[u + 1])
    BY <1>2, <1>10, <1>11
  <2>3. Pred(nd) = H[n]
    BY <1>1, <1>2, <2>1
  <2> HIDE DEF H
  <2>4. QED
    BY <2>1, <2>2, <2>3
<1> HIDE DEF H
<1>14. QED
  BY <1>13, Zenon DEF n, A, Op

\* In front of a node are the edges that lead to it.
LEMMA PredIs ==
  ASSUME NEW nd \in Nodes
  PROVE  /\ Pred(nd) \in Seq(Edges)
         /\ ToSet(Pred(nd)) = {x \in Edges : x.dst = nd}
<1> DEFINE n == Len(Links)
<1>1. PICK G : /\ G \in [0..Len(Links) -> Seq(Edges)] /\ G[0] = <<>>
               /\ \A u \in 0..Len(Links) - 1 :
                    G[u + 1] = IF Links[u + 1].dst = nd THEN Append(G[u], Links[u + 1]) ELSE G[u]
               /\ Pred(nd) = G[Len(Links)]
  BY PredSteps, Zenon
<1>2. n \in Nat /\ DOMAIN Links = 1..n /\ \A i \in 1..n : Links[i] \in Edges
  <2>1. Links \in Seq([src : 1..FinNd - 1, dst : 2..FinNd, taken : BOOLEAN])
    BY GraphAssumption
  <2>2. n \in Nat /\ DOMAIN Links = 1..n
    BY <2>1
  <2> HIDE DEF n
  <2>3. QED
    BY <2>2 DEF Edges, ToSet
<1> HIDE DEF n
<1> DEFINE Into(u) == {Links[i] : i \in {i \in 1..u : Links[i].dst = nd}}
           K == {u \in 0..n : ToSet(G[u]) = Into(u)}
<1>3. 0 \in K
  BY <1>1, <1>2 DEF ToSet
<1>4. ASSUME NEW u \in 0..n - 1, u \in K PROVE u + 1 \in K
  <2>1. /\ u + 1 \in 0..n /\ u \in 0..n /\ u \in Nat /\ u + 1 \in 1..n /\ Links[u + 1] \in Edges
        /\ G[u] \in Seq(Edges)
        /\ G[u + 1] = IF Links[u + 1].dst = nd THEN Append(G[u], Links[u + 1]) ELSE G[u]
    BY <1>1, <1>2 DEF n
  <2>2. \A i : i \in 1..u + 1 <=> i \in 1..u \/ i = u + 1
    BY <2>1
  <2>3. CASE Links[u + 1].dst = nd
    <3>1. ToSet(G[u + 1]) = ToSet(G[u]) \cup {Links[u + 1]}
      BY <2>1, <2>3, ElementsAppend
    <3>2. Into(u + 1) = Into(u) \cup {Links[u + 1]}
      BY <2>2, <2>3
    <3>3. QED
      BY <1>4, <2>1, <3>1, <3>2
  <2>4. CASE Links[u + 1].dst # nd
    <3>1. Into(u + 1) = Into(u)
      BY <2>2, <2>4
    <3>2. QED
      BY <1>4, <2>1, <2>4, <3>1
  <2>5. QED
    BY <2>3, <2>4
<1> HIDE DEF K
<1>5. 0..n \subseteq K
  BY <1>2, <1>3, <1>4, InductionUpTo
<1>6. n \in K /\ n \in 0..n
  BY <1>2, <1>5
<1>7. Pred(nd) \in Seq(Edges) /\ ToSet(Pred(nd)) = Into(n)
  BY <1>1, <1>6 DEF K, n
<1>8. Into(n) = {x \in Edges : x.dst = nd}
  BY <1>2 DEF Edges, ToSet
<1>9. QED
  BY <1>7, <1>8

-----------------------------------------------------------------------------
(* Queues                                                                  *)

\* A queue, and one that says what it holds
Queues   == [paths : Seq(Paths), count : 0..SizeMax]
Sound(q) == q \in Queues /\ q.count = Held(q.paths)

\* q holds what a and b hold together.
Together(q, a, b) ==
  /\ Sound(q)
  /\ Weight(q.paths) = Weight(a.paths) + Weight(b.paths)
  /\ HasNone(q.paths) <=> HasNone(a.paths) \/ HasNone(b.paths)

\* What a queue says: as much as a sizet can if `none' is in it, no more than
\* there is, and nothing only if nothing is in it.
LEMMA HeldIs ==
  ASSUME NEW s \in Seq(Paths)
  PROVE  /\ Held(s) \in 0..SizeMax /\ Held(s) \in Nat
         /\ HasNone(s) => Held(s) = SizeMax
         /\ Held(s) > 0 => s # <<>>
         /\ Held(s) = 0 => Weight(s) = 0 /\ ~HasNone(s) /\ s = <<>>
<1>1. Held(s) \in 0..SizeMax /\ Weight(s) \in Nat
  BY TotalIs, WeightNat
<1>2. s = <<>> => Held(s) = 0
  BY NoneShort, WeightShort, SizeMaxIs DEF Held, Least
<1>3. ASSUME s # <<>>, ~HasNone(s) PROVE Weight(s) > 0
  <2>1. /\ Head(s) \in Paths /\ Tail(s) \in Seq(Paths) /\ Weight(s) = Stands(Head(s)) + Weight(Tail(s))
        /\ Head(s).kind # "none"
    BY <1>3, Beheaded
  <2>2. Stands(Head(s)) \in Nat /\ Stands(Head(s)) > 0
    BY <2>1, SizeMaxIs DEF Stands, Paths, PathType
  <2>3. Weight(Tail(s)) \in Nat
    BY <2>1, WeightNat
  <2>4. QED
    BY <2>1, <2>2, <2>3
<1>4. QED
  BY <1>1, <1>2, <1>3, SizeMaxIs DEF Held, Least

\* The empty queue says 0.
LEMMA EmptyIs == Sound(Empty) /\ Weight(Empty.paths) = 0 /\ ~HasNone(Empty.paths) /\ Empty.count = 0
<1>1. Empty \in Queues /\ Empty.paths = <<>> /\ Empty.count = 0
  BY SizeMaxIs DEF Empty, Queues
<1>2. Held(<<>>) = 0
  BY NoneShort, WeightShort, SizeMaxIs DEF Held, Least
<1>3. QED
  BY <1>1, <1>2, NoneShort, WeightShort DEF Sound

\* A queue of one path says what that path counts for.
LEMMA QueueIs ==
  ASSUME NEW p \in Paths
  PROVE  /\ Sound(Queue(p)) /\ Weight(Queue(p).paths) = Stands(p)
         /\ HasNone(Queue(p).paths) <=> p.kind = "none"
<1>1. p.count \in 0..SizeMax /\ (p.kind = "none" => p.count = SizeMax)
  BY DEF Paths, PathType
<1>2. Queue(p) \in Queues /\ Queue(p).paths = <<p>> /\ Queue(p).count = p.count
  BY <1>1 DEF Queue, Queues
<1>3. Weight(<<p>>) = Stands(p) /\ (HasNone(<<p>>) <=> p.kind = "none")
  BY NoneShort, WeightShort
<1>4. Held(<<p>>) = p.count
  BY <1>1, <1>3, SizeMaxIs DEF Held, Least, Stands
<1>5. QED
  BY <1>2, <1>3, <1>4 DEF Sound

\* As long as they are not too many, two impossible paths stand for as many
\* as both do.
LEMMA MergeIs ==
  ASSUME NEW p \in Paths, NEW o \in Paths, Mergeable(p, o), Stands(p) + Stands(o) <= SizeMax
  PROVE  /\ MergePaths(p, o) \in Paths /\ MergePaths(p, o).kind = p.kind /\ o.kind = p.kind
         /\ Stands(MergePaths(p, o)) = Stands(p) + Stands(o)
<1>1. p \in PathType /\ o \in PathType /\ o.kind = p.kind
  BY DEF Paths, Mergeable
<1>2. CASE p.kind = "none"
  <2>1. MergePaths(p, o) = p
    BY <1>2 DEF MergePaths
  <2>2. QED
    BY <1>1, <1>2, <2>1 DEF Stands
<1>3. CASE p.kind # "none"
  <2>1. p.count \in Nat /\ o.count \in Nat /\ p.count + o.count <= SizeMax
    BY <1>1, <1>3, SizeMaxIs DEF Stands, PathType
  <2>2. (p.count + o.count) % (SizeMax + 1) = p.count + o.count
    BY <2>1, SizeMaxIs
  <2>3. MergePaths(p, o) = [p EXCEPT !.count = p.count + o.count]
    BY <1>3, <2>2 DEF MergePaths
  <2>4. p.count + o.count \in 1..SizeMax
    <3>1. p.count > 0
      BY <1>1, SizeMaxIs DEF PathType
    <3>2. QED
      BY <2>1, <3>1, SizeMaxIs
  <2>5. /\ MergePaths(p, o) \in PathType /\ MergePaths(p, o).kind = p.kind
        /\ MergePaths(p, o).count = p.count + o.count
    BY <1>1, <2>3, <2>4 DEF PathType
  <2>6. QED
    BY <1>1, <1>3, <2>5 DEF Paths, Stands
<1>4. QED
  BY <1>2, <1>3

\* push() leaves what both queues held, if a sizet can count it: merging two
\* impossible paths loses none then.
LEMMA PushIs ==
  ASSUME NEW q, Sound(q), NEW r, Sound(r), Weight(q.paths) + Weight(r.paths) <= SizeMax
  PROVE  Together(Push(q, r), q, r)
<1> DEFINE qs == q.paths
           rs == r.paths
           merge == qs # <<>> /\ rs # <<>> /\ Mergeable(Head(rs), Last(qs))
           m == MergePaths(Head(rs), Last(qs))
           s == Push(q, r).paths
<1>1. /\ qs \in Seq(Paths) /\ rs \in Seq(Paths)
      /\ Weight(qs) \in Nat /\ Weight(rs) \in Nat
      /\ q.count = Held(qs) /\ r.count = Held(rs) /\ SizeMax \in Nat
  BY WeightNat, SizeMaxIs DEF Sound, Queues
<1>2. /\ s = IF merge THEN Front(qs) \o <<m>> \o Tail(rs) ELSE qs \o rs
      /\ Push(q, r).count = Plus(q.count, r.count)
      /\ Push(q, r) = [paths |-> s, count |-> Plus(q.count, r.count)]
  BY DEF Push
<1> HIDE DEF s
<1>3. s \in Seq(Paths) /\ Weight(s) = Weight(qs) + Weight(rs) /\ (HasNone(s) <=> HasNone(qs) \/ HasNone(rs))
  <2>1. CASE ~merge
    BY <1>1, <1>2, <2>1, WeightConcat, NoneConcat
  <2>2. CASE merge
    <3> DEFINE f == Front(qs)
               l == Last(qs)
               h == Head(rs)
               t == Tail(rs)
    <3>1. /\ l \in Paths /\ f \in Seq(Paths) /\ Weight(qs) = Weight(f) + Stands(l)
          /\ HasNone(qs) <=> l.kind = "none" \/ HasNone(f)
      BY <1>1, <2>2, Betailed
    <3>2. /\ h \in Paths /\ t \in Seq(Paths) /\ Weight(rs) = Stands(h) + Weight(t)
          /\ HasNone(rs) <=> h.kind = "none" \/ HasNone(t)
      BY <1>1, <2>2, Beheaded
    <3>3. Mergeable(h, l) /\ s = f \o <<m>> \o t /\ m = MergePaths(h, l)
      BY <1>2, <2>2
    <3> HIDE DEF f, l, h, t, m
    <3>4. Weight(f) \in Nat /\ Weight(t) \in Nat /\ Stands(l) \in Nat /\ Stands(h) \in Nat
      BY <3>1, <3>2, WeightNat, StandsNat
    <3>5. Stands(h) + Stands(l) <= SizeMax
      <4>1. (Weight(f) + Stands(l)) + (Stands(h) + Weight(t)) <= SizeMax
        BY <3>1, <3>2
      <4>2. \A a, b, c, d, n \in Nat : (a + b) + (c + d) <= n => c + b <= n
        OBVIOUS
      <4>3. QED
        BY <1>1, <3>4, <4>1, <4>2
    <3>6. m \in Paths /\ m.kind = h.kind /\ l.kind = h.kind /\ Stands(m) = Stands(h) + Stands(l)
      BY <3>1, <3>2, <3>3, <3>5, MergeIs
    <3>7. f \o <<m>> \in Seq(Paths) /\ <<m>> \in Seq(Paths)
      BY <3>1, <3>6
    <3>8. /\ Weight(f \o <<m>>) = Weight(f) + Stands(m)
          /\ HasNone(f \o <<m>>) <=> HasNone(f) \/ m.kind = "none"
      <4>1. Weight(<<m>>) = Stands(m) /\ (HasNone(<<m>>) <=> m.kind = "none")
        BY <3>6, WeightShort, NoneShort
      <4>2. /\ Weight(f \o <<m>>) = Weight(f) + Weight(<<m>>)
            /\ HasNone(f \o <<m>>) <=> HasNone(f) \/ HasNone(<<m>>)
        BY <3>1, <3>7, WeightConcat, NoneConcat
      <4>3. QED
        BY <4>1, <4>2
    <3> DEFINE g == f \o <<m>>
    <3> HIDE DEF g
    <3>9. g \in Seq(Paths) /\ s = g \o t
      BY <3>3, <3>7 DEF g
    <3>10. /\ s \in Seq(Paths) /\ Weight(s) = Weight(g) + Weight(t)
           /\ HasNone(s) <=> HasNone(g) \/ HasNone(t)
      BY <3>2, <3>9, WeightConcat, NoneConcat
    <3>11. Weight(s) = Weight(qs) + Weight(rs)
      <4>1. Weight(s) = (Weight(f) + (Stands(h) + Stands(l))) + Weight(t)
        BY <3>6, <3>8, <3>10 DEF g
      <4>2. \A a, b, c, d \in Nat : (a + (c + b)) + d = (a + b) + (c + d)
        OBVIOUS
      <4>3. QED
        BY <3>1, <3>2, <3>4, <4>1, <4>2
    <3>12. QED
      BY <3>1, <3>2, <3>6, <3>8, <3>10, <3>11 DEF g
  <2>3. QED
    BY <2>1, <2>2
<1>4. /\ Held(qs) \in 0..SizeMax /\ Held(rs) \in Nat
      /\ HasNone(qs) => Held(qs) = SizeMax
      /\ HasNone(rs) => Held(rs) = SizeMax
  BY <1>1, HeldIs
<1>5. Plus(q.count, r.count) = Least(Held(qs) + Held(rs)) /\ Plus(q.count, r.count) \in 0..SizeMax
  BY <1>1, <1>4, PlusIs
<1>6. Least(Held(qs) + Held(rs)) = Held(s)
  <2>1. CASE HasNone(qs) \/ HasNone(rs)
    BY <1>1, <1>3, <1>4, <2>1 DEF Held, Least
  <2>2. CASE ~HasNone(qs) /\ ~HasNone(rs)
    BY <1>1, <1>3, <2>2 DEF Held, Least
  <2>3. QED
    BY <2>1, <2>2
<1>7. Push(q, r).paths = s
  BY DEF s
<1> HIDE DEF qs, rs
<1>8. Sound(Push(q, r))
  BY <1>2, <1>3, <1>5, <1>6 DEF Sound, Queues
<1>9. QED
  BY <1>3, <1>7, <1>8 DEF Together, qs, rs

\* A queue without paths is replaced.
LEMMA MoveIs ==
  ASSUME NEW q, Sound(q), NEW r, Sound(r), Weight(q.paths) + Weight(r.paths) <= SizeMax
  PROVE  Together(Move(q, r), q, r)
<1>1. CASE q.count = 0
  <2>1. q.paths \in Seq(Paths) /\ r.paths \in Seq(Paths) /\ Held(q.paths) = 0
    BY <1>1 DEF Sound, Queues
  <2>2. Weight(q.paths) = 0 /\ ~HasNone(q.paths) /\ Weight(r.paths) \in Nat
    BY <2>1, HeldIs, WeightNat
  <2>3. Move(q, r) = r
    BY <1>1 DEF Move
  <2>4. QED
    BY <2>2, <2>3 DEF Together
<1>2. CASE q.count # 0
  BY <1>2, PushIs DEF Move
<1>3. QED
  BY <1>1, <1>2

\* The first path is taken.
LEMMA TakeIs ==
  ASSUME NEW q, Sound(q), q.paths # <<>>
  PROVE  /\ Head(q.paths) \in Paths /\ Sound(Take(q))
         /\ Weight(q.paths) = Stands(Head(q.paths)) + Weight(Take(q).paths)
         /\ HasNone(q.paths) <=> Head(q.paths).kind = "none" \/ HasNone(Take(q).paths)
         /\ q.count = Plus(Take(q).count, Head(q.paths).count)
<1> DEFINE h == Head(q.paths)
           t == Tail(q.paths)
           left == Minus(q.count, h.count)
<1>1. q.paths \in Seq(Paths) /\ q.count = Held(q.paths)
  BY DEF Sound, Queues
<1>2. /\ h \in Paths /\ t \in Seq(Paths) /\ Weight(q.paths) = Stands(h) + Weight(t)
      /\ HasNone(q.paths) <=> h.kind = "none" \/ HasNone(t)
  BY <1>1, Beheaded
<1>3. /\ Take(q).paths = t
      /\ Take(q).count = IF left = SizeMax THEN Total(t) ELSE left
      /\ Take(q) = [paths |-> t, count |-> IF left = SizeMax THEN Total(t) ELSE left]
  BY DEF Take
<1> HIDE DEF h, t, left
<1>4. /\ h.count \in 0..SizeMax /\ h.count \in Nat /\ (h.kind = "none" => h.count = SizeMax)
      /\ Stands(h) = (IF h.kind = "none" THEN 0 ELSE h.count)
      /\ Weight(t) \in Nat /\ SizeMax \in Nat
  <2>1. h.count \in 1..SizeMax /\ (h.kind = "none" => h.count = SizeMax)
    BY <1>2 DEF Paths, PathType
  <2>2. Weight(t) \in Nat /\ SizeMax \in Nat
    BY <1>2, WeightNat, SizeMaxIs
  <2>3. QED
    BY <2>1, <2>2 DEF Stands
<1>5. Total(t) = Held(t) /\ Held(t) \in 0..SizeMax
  BY <1>2, TotalIs
<1>6. Held(q.paths) = IF HasNone(t) \/ h.kind = "none" THEN SizeMax ELSE Least(Stands(h) + Weight(t))
  BY <1>2 DEF Held
<1>7. left # SizeMax => left = Held(t)
  <2>1. SUFFICES ASSUME left # SizeMax PROVE left = Held(t)
    OBVIOUS
  <2>2. q.count # SizeMax /\ left = IF q.count < h.count THEN 0 ELSE q.count - h.count
    BY <2>1 DEF left, Minus
  <2>3. ~HasNone(t) /\ h.kind # "none" /\ q.count = Least(Stands(h) + Weight(t))
    BY <1>1, <1>6, <2>2
  <2>4. q.count = h.count + Weight(t) /\ h.count + Weight(t) <= SizeMax
    BY <1>4, <2>2, <2>3 DEF Least
  <2>5. left = Weight(t)
    BY <1>4, <2>2, <2>4
  <2>6. Held(t) = Weight(t)
    BY <1>4, <2>3, <2>4 DEF Held, Least
  <2>7. QED
    BY <2>5, <2>6
<1>8. Take(q).count = Held(t)
  BY <1>3, <1>5, <1>7
<1>9. Sound(Take(q))
  BY <1>2, <1>3, <1>5, <1>8 DEF Sound, Queues
<1>10. q.count = Plus(Take(q).count, h.count)
  <2>1. Plus(Held(t), h.count) = Least(Held(t) + h.count)
    BY <1>4, <1>5, PlusIs
  <2>2. CASE HasNone(t) \/ h.kind = "none"
    BY <1>1, <1>4, <1>5, <1>6, <1>8, <2>1, <2>2 DEF Held, Least
  <2>3. CASE ~HasNone(t) /\ h.kind # "none"
    BY <1>1, <1>4, <1>5, <1>6, <1>8, <2>1, <2>3 DEF Held, Least
  <2>4. QED
    BY <2>2, <2>3
<1>11. QED
  BY <1>2, <1>3, <1>9, <1>10 DEF h

-----------------------------------------------------------------------------
(* Extending a path, and what is in front of a node                        *)

\* The larger of two numbers, as Max takes it
LEMMA LargerIs ==
  ASSUME NEW a \in Nat, NEW b \in Nat
  PROVE  Max({a, b}) \in Nat
<1>1. \E m \in {a, b} : \A u \in {a, b} : m >= u
  OBVIOUS
<1>2. Max({a, b}) \in {a, b}
  BY <1>1 DEF Max
<1>3. QED
  BY <1>2

\* The cost of a path, extended by an edge, is a number.
LEMMA CostIs ==
  ASSUME NEW p \in Paths, NEW x \in Edges
  PROVE  CostVia(p, x) \in Nat
<1>1. p.at \in Edges \cup {Entry} /\ p.cost \in Nat
  BY DEF Paths, PathType
<1>2. Leave[p.at][x.taken] \in Nat
  <2>1. x.taken \in BOOLEAN
    BY EdgeIs
  <2>2. Leave[p.at] \in [BOOLEAN -> Nat]
    BY <1>1, CostAssumption
  <2>3. QED
    BY <2>1, <2>2
<1>3. Enter[x] \in Nat
  BY CostAssumption
<1>4. QED
  BY <1>1, <1>2, <1>3 DEF CostVia

\* However a path goes on, it stands for as many as before.
LEMMA ExtendIs ==
  ASSUME NEW p \in Paths, NEW x \in Edges, NEW marked
  PROVE  /\ Extend(p, x, marked) \in Paths /\ Stands(Extend(p, x, marked)) = Stands(p)
         /\ Extend(p, x, marked).kind = "none" <=> p.kind = "none"
<1> DEFINE longer == [p EXCEPT !.at = x, !.cost = CostVia(p, x), !.via = Append(@, x),
                               !.min = Max({@, MinSize[x]})]
<1>1. p \in PathType
  BY DEF Paths
<1>2. CASE p.kind = "none"
  BY <1>2 DEF Extend
<1>3. CASE p.kind # "none"
  <2>1. CostVia(p, x) \in Nat
    BY CostIs
  <2>2. Max({p.min, MinSize[x]}) \in Nat
    <3>1. p.min \in Nat /\ MinSize[x] \in Nat
      BY <1>1, SizeAssumption DEF PathType
    <3>2. QED
      BY <3>1, LargerIs
  <2>3. Append(p.via, x) \in Seq(Edges \cup {Entry})
    BY <1>1 DEF PathType
  <2>4. longer \in PathType /\ longer.kind = p.kind /\ longer.count = p.count
    BY <1>1, <2>1, <2>2, <2>3 DEF PathType
  <2> HIDE DEF longer
  <2>5. /\ ToImpossible(longer) \in PathType /\ ToImpossible(longer).kind = "impossible"
        /\ ToImpossible(longer).count = p.count
    <3>1. <<>> \in Seq(Edges \cup {Entry})
      OBVIOUS
    <3>2. QED
      BY <2>4, <3>1 DEF ToImpossible, PathType
  <2>6. Extend(p, x, marked) = longer \/ Extend(p, x, marked) = ToImpossible(longer)
    BY <1>3 DEF Extend, longer
  <2>7. QED
    BY <1>3, <2>4, <2>5, <2>6 DEF Paths, Stands
<1>4. QED
  BY <1>2, <1>3

\* The search begins with a path and with `none'.
LEMMA StartIs ==
  /\ Start \in Paths /\ Stands(Start) = 1 /\ Start.kind # "none"
  /\ None \in Paths /\ Stands(None) = 0 /\ None.kind = "none"
<1>1. Entry \in Edges \cup {Entry} /\ MinSize[Entry] \in Nat /\ Enter[Entry] \in Nat
  BY SizeAssumption, CostAssumption
<1>2. <<Entry>> \in Seq(Edges \cup {Entry}) /\ <<>> \in Seq(Edges \cup {Entry})
  OBVIOUS
<1>3. CostFirmware + Enter[Entry] \in Nat /\ 1 \in 1..SizeMax /\ SizeMax \in 1..SizeMax
  BY <1>1, CostAssumption, SizeMaxIs
<1>4. Start \in PathType /\ None \in PathType
  BY <1>1, <1>2, <1>3 DEF Start, None, PathType
<1>5. QED
  BY <1>4 DEF Start, None, Paths, Stands

\* The least and the greatest of the numbers along a sequence
LEMMA LeastPlace ==
  ASSUME NEW n \in Nat \ {0}, NEW f \in [1..n -> Nat]
  PROVE  \E i \in 1..n : \A j \in 1..n : f[i] <= f[j]
<1> DEFINE T == {f[j] : j \in 1..n}
<1>1. T \in SUBSET Nat /\ T # {}
  <2>1. 1 \in 1..n
    OBVIOUS
  <2>2. QED
    BY <2>1
<1>2. PICK x \in T : \A y \in T : x <= y
  BY <1>1, LeastNat
<1>3. PICK i \in 1..n : x = f[i]
  BY <1>2
<1>4. QED
  BY <1>2, <1>3

\* One of finitely many numbers is the greatest.
LEMMA GreatestPlace ==
  ASSUME NEW n \in Nat \ {0}, NEW f \in [1..n -> Nat]
  PROVE  \E i \in 1..n : \A j \in 1..n : f[j] <= f[i]
<1> DEFINE K == {m \in 0..n : m = 0 \/ \E i \in 1..m : \A j \in 1..m : f[j] <= f[i]}
<1>1. 0 \in K
  OBVIOUS
<1>2. ASSUME NEW m \in 0..n - 1, m \in K PROVE m + 1 \in K
  <2>1. m + 1 \in 0..n /\ m + 1 \in 1..n /\ \A j \in 1..m + 1 : j \in 1..m \/ j = m + 1
    OBVIOUS
  <2>2. \A j \in 1..n : f[j] \in Nat
    OBVIOUS
  <2>3. CASE \A j \in 1..m : f[j] <= f[m + 1]
    <3>1. \A j \in 1..m + 1 : f[j] <= f[m + 1]
      BY <2>1, <2>2, <2>3
    <3>2. QED
      BY <2>1, <3>1
  <2>4. CASE \E j \in 1..m : ~(f[j] <= f[m + 1])
    <3>1. PICK j \in 1..m : ~(f[j] <= f[m + 1])
      BY <2>4
    <3>2. m # 0
      BY <3>1
    <3>3. PICK i \in 1..m : \A l \in 1..m : f[l] <= f[i]
      BY <1>2, <3>2
    <3>4. f[m + 1] <= f[i] /\ i \in 1..m + 1
      <4>1. f[j] <= f[i] /\ f[j] \in Nat /\ f[i] \in Nat /\ f[m + 1] \in Nat
        BY <2>1, <2>2, <3>1, <3>3
      <4>2. QED
        BY <3>1, <4>1
    <3>5. \A l \in 1..m + 1 : f[l] <= f[i]
      BY <2>1, <3>3, <3>4
    <3>6. QED
      BY <2>1, <3>4, <3>5
  <2>5. QED
    BY <2>3, <2>4
<1> HIDE DEF K
<1>3. n \in K
  <2>1. 0..n \subseteq K
    BY <1>1, <1>2, InductionUpTo
  <2>2. QED
    BY <2>1
<1>4. QED
  BY <1>3 DEF K

\* The queues in front of a node are as long as the shortest of them.
LEMMA ShortestIs ==
  ASSUME NEW nd \in Nodes, NEW q \in [Edges \cup {Out} -> Queues], Pred(nd) # <<>>
  PROVE  /\ Shortest(q, nd) \in ToSet(Pred(nd)) /\ Shortest(q, nd) \in Edges
         /\ Shortest(q, nd).dst = nd
         /\ \A y \in ToSet(Pred(nd)) : q[Shortest(q, nd)].count <= q[y].count
<1> DEFINE s == Pred(nd)
           n == Len(s)
           Test(x) == \A y \in ToSet(s) : q[x].count <= q[y].count
           I == {i \in 1..n : Test(s[i])}
<1>1. s \in Seq(Edges) /\ ToSet(s) = {x \in Edges : x.dst = nd}
  BY PredIs
<1>2. n \in Nat \ {0} /\ DOMAIN s = 1..n /\ \A i \in 1..n : s[i] \in Edges
  BY <1>1
<1>3. Shortest(q, nd) = s[IF I # {} THEN Min(I) ELSE 0]
  BY DEF Shortest, SelectInSeq
<1> HIDE DEF s, n
<1>4. I # {}
  <2> DEFINE f == [i \in 1..n |-> q[s[i]].count]
  <2>1. \A i \in 1..n : q[s[i]].count \in Nat
    BY <1>2 DEF Queues
  <2>2. f \in [1..n -> Nat] /\ \A i \in 1..n : f[i] = q[s[i]].count
    BY <2>1
  <2> HIDE DEF f
  <2>3. PICK i \in 1..n : \A j \in 1..n : f[i] <= f[j]
    BY <1>2, <2>2, LeastPlace
  <2>4. \A y \in ToSet(s) : \E j \in 1..n : y = s[j]
    BY <1>2 DEF ToSet
  <2>5. Test(s[i])
    BY <2>2, <2>3, <2>4
  <2>6. QED
    BY <2>5
<1>5. Min(I) \in I
  <2>1. I \in SUBSET Nat
    OBVIOUS
  <2> HIDE DEF I
  <2>2. QED
    BY <1>4, <2>1, MinNat
<1>6. Min(I) \in 1..n /\ Test(s[Min(I)]) /\ Shortest(q, nd) = s[Min(I)]
  BY <1>3, <1>4, <1>5
<1>7. s[Min(I)] \in ToSet(s)
  BY <1>2, <1>6 DEF ToSet
<1>8. QED
  BY <1>1, <1>6, <1>7 DEF s

\* The size next_k() compares with is that of the smallest queue in front.
LEMMA ShortestSizeIs ==
  ASSUME NEW nd \in Nodes, NEW q \in [Edges \cup {Out} -> Queues]
  PROVE  /\ ShortestSize(q, nd) \in 0..SizeMax
         /\ ShortestSize(q, nd) > 0 => Pred(nd) # <<>>
         /\ \A y \in ToSet(Pred(nd)) : ShortestSize(q, nd) <= q[y].count
         /\ Pred(nd) # <<>> => \E y \in ToSet(Pred(nd)) : ShortestSize(q, nd) = q[y].count
<1>1. CASE Pred(nd) = <<>>
  <2>1. ShortestSize(q, nd) = 0
    BY <1>1 DEF ShortestSize
  <2>2. ToSet(Pred(nd)) = {}
    BY <1>1 DEF ToSet
  <2>3. QED
    BY <1>1, <2>1, <2>2, SizeMaxIs
<1>2. CASE Pred(nd) # <<>>
  <2>1. ShortestSize(q, nd) = q[Shortest(q, nd)].count
    BY <1>2 DEF ShortestSize
  <2>2. /\ Shortest(q, nd) \in ToSet(Pred(nd)) /\ Shortest(q, nd) \in Edges
        /\ \A y \in ToSet(Pred(nd)) : q[Shortest(q, nd)].count <= q[y].count
    BY <1>2, ShortestIs
  <2>3. q[Shortest(q, nd)].count \in 0..SizeMax
    BY <2>2 DEF Queues
  <2>4. QED
    BY <1>2, <2>1, <2>2, <2>3
<1>3. QED
  BY <1>1, <1>2

\* Where a queue is scanned from, every edge in front of the node has its turn.
LEMMA TurnIs ==
  ASSUME NEW s \in Seq(Edges), NEW r \in 1..Len(s)
  PROVE  /\ SubSeq(s, r, Len(s)) \o SubSeq(s, 1, r - 1) \in Seq(Edges)
         /\ SubSeq(s, r, Len(s)) \o SubSeq(s, 1, r - 1) # <<>>
         /\ ToSet(SubSeq(s, r, Len(s)) \o SubSeq(s, 1, r - 1)) = ToSet(s)
<1> DEFINE a == SubSeq(s, r, Len(s))
           b == SubSeq(s, 1, r - 1)
<1>1. /\ a \in Seq(Edges) /\ Len(a) = Len(s) - r + 1 /\ Len(s) \in Nat /\ r \in Nat
      /\ \A i \in 1..Len(a) : a[i] = s[r + i - 1] /\ r + i - 1 \in 1..Len(s)
  OBVIOUS
<1>2. b \in Seq(Edges) /\ Len(b) = r - 1 /\ \A i \in 1..Len(b) : b[i] = s[i] /\ i \in 1..Len(s)
  OBVIOUS
<1>3. DOMAIN s = 1..Len(s)
  OBVIOUS
<1> HIDE DEF a, b
<1>4. DOMAIN a = 1..Len(a) /\ DOMAIN b = 1..Len(b)
  BY <1>1, <1>2
<1>5. ToSet(a) \subseteq ToSet(s)
  BY <1>1, <1>3, <1>4 DEF ToSet
<1>6. ToSet(b) \subseteq ToSet(s)
  BY <1>2, <1>3, <1>4 DEF ToSet
<1>7. a \o b \in Seq(Edges) /\ ToSet(a \o b) = ToSet(a) \cup ToSet(b)
  BY <1>1, <1>2, ElementsConcat
<1>8. a \o b # <<>>
  <2>1. Len(a) >= 1 /\ Len(b) \in Nat /\ Len(a \o b) = Len(a) + Len(b)
    BY <1>1, <1>2
  <2>2. QED
    BY <2>1
<1>9. ASSUME NEW x \in ToSet(s) PROVE x \in ToSet(a) \cup ToSet(b)
  <2>1. PICK i \in 1..Len(s) : x = s[i]
    BY <1>3 DEF ToSet
  <2>2. CASE i < r
    <3>1. i \in 1..Len(b)
      BY <1>1, <1>2, <2>2
    <3>2. b[i] = x
      BY <1>2, <2>1, <3>1
    <3>3. QED
      BY <1>4, <3>1, <3>2 DEF ToSet
  <2>3. CASE ~(i < r)
    <3>1. i - r + 1 \in 1..Len(a) /\ r + (i - r + 1) - 1 = i
      BY <1>1, <2>3
    <3>2. a[i - r + 1] = x
      BY <1>1, <2>1, <3>1
    <3>3. QED
      BY <1>4, <3>1, <3>2 DEF ToSet
  <2>4. QED
    BY <2>2, <2>3
<1>10. QED
  BY <1>5, <1>6, <1>7, <1>8, <1>9 DEF a, b

\* The slowest path in front of a node arrives by an edge into it, and none in
\* front of the node would be slower.
LEMMA LongestIs ==
  ASSUME NEW nd \in Nodes, Pred(nd) # <<>>, pq \in [Edges \cup {Out} -> Queues],
         rr[nd] \in 1..Len(Pred(nd))
  PROVE  /\ Longest(nd) \in ToSet(Pred(nd)) /\ Longest(nd) \in Edges /\ Longest(nd).dst = nd
         /\ \A y \in ToSet(Pred(nd)) : FrontCost(y) <= FrontCost(Longest(nd))
<1> DEFINE s == Pred(nd)
           turn == SubSeq(s, rr[nd], Len(s)) \o SubSeq(s, 1, rr[nd] - 1)
           Test(x) == \A y \in ToSet(turn) : FrontCost(y) <= FrontCost(x)
           n == Len(turn)
           I == {i \in 1..n : Test(turn[i])}
<1>1. s \in Seq(Edges) /\ ToSet(s) = {x \in Edges : x.dst = nd}
  BY PredIs
<1>2. Longest(nd) = turn[IF I # {} THEN Min(I) ELSE 0]
  BY DEF Longest, SelectInSeq
<1>3. turn \in Seq(Edges) /\ turn # <<>> /\ ToSet(turn) = ToSet(s)
  <2> HIDE DEF s
  <2>1. QED
    BY <1>1, TurnIs DEF s
<1> HIDE DEF s, turn
<1>4. n \in Nat \ {0} /\ DOMAIN turn = 1..n /\ \A i \in 1..n : turn[i] \in Edges
  BY <1>3
<1> HIDE DEF n
<1>5. \A x \in Edges : FrontCost(x) \in Nat
  <2>1. SUFFICES ASSUME NEW x \in Edges, pq[x].paths # <<>> PROVE FrontCost(x) \in Nat
    BY DEF FrontCost
  <2>2. pq[x].paths \in Seq(Paths)
    BY DEF Queues
  <2>3. Head(pq[x].paths) \in Paths
    BY <2>1, <2>2
  <2>4. QED
    BY <2>1, <2>3, CostIs DEF FrontCost
<1>6. I # {}
  <2> DEFINE f == [i \in 1..n |-> FrontCost(turn[i])]
  <2>1. f \in [1..n -> Nat] /\ \A i \in 1..n : f[i] = FrontCost(turn[i])
    BY <1>4, <1>5
  <2> HIDE DEF f
  <2>2. PICK i \in 1..n : \A j \in 1..n : f[j] <= f[i]
    BY <1>4, <2>1, GreatestPlace
  <2>3. \A y \in ToSet(turn) : \E j \in 1..n : y = turn[j]
    BY <1>4 DEF ToSet
  <2>4. Test(turn[i])
    BY <2>1, <2>2, <2>3
  <2>5. QED
    BY <2>4
<1>7. Min(I) \in I
  <2>1. I \in SUBSET Nat
    OBVIOUS
  <2> HIDE DEF I
  <2>2. QED
    BY <1>6, <2>1, MinNat
<1>8. Min(I) \in 1..n /\ Longest(nd) = turn[Min(I)] /\ Test(turn[Min(I)])
  BY <1>2, <1>6, <1>7
<1>9. turn[Min(I)] \in ToSet(turn)
  BY <1>4, <1>8 DEF ToSet
<1>10. QED
  BY <1>1, <1>3, <1>8, <1>9 DEF s

\* pred_begin stays a place among the predecessors.
LEMMA NextTurn ==
  ASSUME NEW I \in SUBSET Nat, NEW n \in Nat \ {0}
  PROVE  ((IF I # {} THEN Min(I) ELSE 0) % n) + 1 \in 1..n
<1>1. I # {} => Min(I) \in Nat
  BY MinNat
<1>2. \A a \in Nat : a % n \in 0..n - 1
  OBVIOUS
<1>3. QED
  BY <1>1, <1>2

-----------------------------------------------------------------------------
(* How many paths there are                                                *)

\* what f is, added up over the edges into a node
Onto(f, nd) == [i \in 1..Len(Links) |-> IF Links[i].dst = nd THEN f[Links[i]] ELSE 0]
Into(f, nd) == SumSeq(Onto(f, nd))

\* No node is reached by more paths than a sizet can count.
FewPaths ==
  \E ways \in [Nodes -> 0..SizeMax] :
    ways[1] = 1 /\ \A nd \in Nodes \ {1} : ways[nd] = Into([x \in Edges |-> ways[x.src]], nd)

\* one path arrives at the first node, and at another one what was drawn from
\* the queues in front of it
Arrived(drawn, nd) == IF nd = 1 THEN 1 ELSE Into(drawn, nd)

\* The links are the edges, each once.
LEMMA LinksAre ==
  /\ Len(Links) \in Nat /\ DOMAIN Links = 1..Len(Links)
  /\ \A i \in 1..Len(Links) : Links[i] \in Edges
  /\ \A i, j \in 1..Len(Links) : Links[i] = Links[j] => i = j
  /\ \A x \in Edges : \E i \in 1..Len(Links) : Links[i] = x
<1> DEFINE n == Len(Links)
<1>1. n \in Nat /\ DOMAIN Links = 1..n
  BY GraphAssumption
<1> HIDE DEF n
<1>2. \A i, j \in 1..n : Links[i] = Links[j] => i = j
  BY <1>1, GraphAssumption
<1>3. /\ \A i \in 1..n : Links[i] \in Edges
      /\ \A x \in Edges : \E i \in 1..n : Links[i] = x
  BY <1>1 DEF Edges, ToSet
<1>4. QED
  BY <1>1, <1>2, <1>3 DEF n

\* There is one number to add up for each link.
LEMMA OntoIs ==
  ASSUME NEW f, \A x \in Edges : f[x] \in Nat, NEW nd
  PROVE  Onto(f, nd) \in Seq(Nat) /\ Len(Onto(f, nd)) = Len(Links)
<1>1. \A i \in 1..Len(Links) : f[Links[i]] \in Nat
  BY LinksAre
<1>2. QED
  BY <1>1, LinksAre DEF Onto

\* What arrives at a node over its edges is a number.
LEMMA IntoNat ==
  ASSUME NEW f, \A x \in Edges : f[x] \in Nat, NEW nd
  PROVE  Into(f, nd) \in Nat
BY OntoIs, SumNat DEF Into

\* More on each edge into a node is more in all.
LEMMA IntoLess ==
  ASSUME NEW f, \A x \in Edges : f[x] \in Nat, NEW g, \A x \in Edges : g[x] \in Nat,
         NEW nd, \A x \in Edges : x.dst = nd => f[x] <= g[x]
  PROVE  Into(f, nd) <= Into(g, nd)
<1> DEFINE s == Onto(f, nd)
           t == Onto(g, nd)
<1>1. /\ s \in Seq(Nat) /\ Len(s) = Len(Links)
      /\ t \in Seq(Nat) /\ Len(t) = Len(Links)
  BY OntoIs
<1>2. \A i \in 1..Len(s) : s[i] <= t[i]
  <2>1. SUFFICES ASSUME NEW i \in 1..Len(Links) PROVE s[i] <= t[i]
    BY <1>1
  <2>2. Links[i] \in Edges /\ f[Links[i]] \in Nat /\ g[Links[i]] \in Nat
    BY LinksAre
  <2>3. CASE Links[i].dst = nd
    BY <2>2, <2>3 DEF Onto
  <2>4. CASE Links[i].dst # nd
    BY <2>4 DEF Onto
  <2>5. QED
    BY <2>3, <2>4
<1> HIDE DEF s, t
<1>3. SumSeq(s) <= SumSeq(t)
  BY <1>1, <1>2, SumLess
<1>4. QED
  BY <1>3 DEF Into, s, t

\* More is drawn from the queue of one edge.
LEMMA IntoGrows ==
  ASSUME NEW f \in [Edges \cup {Out} -> Nat], NEW x \in Edges, NEW c \in Nat, NEW nd
  PROVE  Into([f EXCEPT ![x] = @ + c], nd) = Into(f, nd) + (IF x.dst = nd THEN c ELSE 0)
<1> DEFINE g == [f EXCEPT ![x] = @ + c]
           s == Onto(f, nd)
           d == IF x.dst = nd THEN c ELSE 0
<1>1. /\ \A y \in Edges : f[y] \in Nat
      /\ \A y \in Edges : g[y] = IF y = x THEN f[x] + c ELSE f[y]
  OBVIOUS
<1>2. s \in Seq(Nat) /\ Len(s) = Len(Links) /\ d \in Nat
  BY <1>1, OntoIs
<1>3. PICK j \in 1..Len(Links) : Links[j] = x
  BY LinksAre
<1>4. \A i \in 1..Len(Links) : Links[i] = x <=> i = j
  BY <1>3, LinksAre
<1> HIDE DEF g
<1>5. Onto(g, nd) = [s EXCEPT ![j] = @ + d]
  <2>1. [s EXCEPT ![j] = @ + d] = [i \in 1..Len(Links) |-> IF i = j THEN s[j] + d ELSE s[i]]
    BY <1>2, <1>3 DEF Onto
  <2>2. ASSUME NEW i \in 1..Len(Links)
        PROVE  (IF Links[i].dst = nd THEN g[Links[i]] ELSE 0) = IF i = j THEN s[j] + d ELSE s[i]
    <3>1. /\ Links[i] \in Edges /\ s[i] = (IF Links[i].dst = nd THEN f[Links[i]] ELSE 0)
          /\ f[Links[i]] \in Nat
      BY <1>1, LinksAre DEF Onto
    <3>2. CASE i = j
      BY <1>1, <1>3, <1>4, <3>1, <3>2
    <3>3. CASE i # j
      BY <1>1, <1>4, <3>1, <3>3
    <3>4. QED
      BY <3>2, <3>3
  <2> HIDE DEF s, d
  <2>3. QED
    BY <2>1, <2>2 DEF Onto
<1> HIDE DEF s, d
<1>6. SumSeq([s EXCEPT ![j] = @ + d]) = SumSeq(s) + d
  BY <1>2, <1>3, SumGrows
<1>7. QED
  BY <1>5, <1>6 DEF Into, g, s, d

\* If from no queue more was drawn than arrived, no more than there are paths
\* have arrived.
LEMMA FewArrive ==
  ASSUME FewPaths, NEW drawn \in [Edges \cup {Out} -> Nat],
         \A x \in Edges : drawn[x] <= Arrived(drawn, x.src)
  PROVE  \A nd \in Nodes : Arrived(drawn, nd) \in 0..SizeMax
<1>1. PICK ways \in [Nodes -> 0..SizeMax] :
        ways[1] = 1 /\ \A nd \in Nodes \ {1} : ways[nd] = Into([x \in Edges |-> ways[x.src]], nd)
  BY Zenon DEF FewPaths
<1> DEFINE g == [x \in Edges |-> ways[x.src]]
           K == {m \in 0..FinNd : \A nd \in 1..m : Arrived(drawn, nd) <= ways[nd]}
<1>2. FinNd \in Nat /\ Nodes = 1..FinNd /\ SizeMax \in Nat
  BY GraphAssumption, SizeMaxIs DEF Nodes
<1>3. \A x \in Edges : drawn[x] \in Nat /\ g[x] = ways[x.src] /\ g[x] \in Nat /\ ways[x.src] \in Nat
  BY EdgeIs, SizeMaxIs
<1>4. \A nd \in Nodes : Arrived(drawn, nd) \in Nat
  BY <1>3, IntoNat DEF Arrived
<1> HIDE DEF g
<1>5. 0 \in K
  BY <1>2
<1>6. ASSUME NEW m \in 0..FinNd - 1, m \in K PROVE m + 1 \in K
  <2>1. m + 1 \in 0..FinNd /\ m + 1 \in Nodes /\ \A nd \in 1..m + 1 : nd \in 1..m \/ nd = m + 1
    BY <1>2
  <2>2. Arrived(drawn, m + 1) <= ways[m + 1]
    <3>1. CASE m + 1 = 1
      BY <1>1, <3>1 DEF Arrived
    <3>2. CASE m + 1 # 1
      <4>1. \A x \in Edges : x.dst = m + 1 => drawn[x] <= g[x]
        <5>1. SUFFICES ASSUME NEW x \in Edges, x.dst = m + 1 PROVE drawn[x] <= g[x]
          OBVIOUS
        <5>2. x.src \in 1..m /\ x.src \in Nodes
          BY <1>2, <5>1, EdgeIs
        <5>3. drawn[x] <= Arrived(drawn, x.src) /\ Arrived(drawn, x.src) <= ways[x.src]
          BY <1>6, <5>2
        <5>4. QED
          BY <1>3, <1>4, <5>2, <5>3
      <4>2. Into(drawn, m + 1) <= Into(g, m + 1)
        BY <1>3, <4>1, IntoLess
      <4>3. QED
        BY <1>1, <2>1, <3>2, <4>2 DEF Arrived, g
    <3>3. QED
      BY <3>1, <3>2
  <2>3. QED
    BY <1>6, <2>1, <2>2
<1> HIDE DEF K
<1>7. FinNd \in K
  <2>1. 0..FinNd \subseteq K
    BY <1>2, <1>5, <1>6, InductionUpTo
  <2>2. QED
    BY <1>2, <2>1
<1>8. SUFFICES ASSUME NEW nd \in Nodes PROVE Arrived(drawn, nd) \in 0..SizeMax
  OBVIOUS
<1>9. Arrived(drawn, nd) <= ways[nd] /\ ways[nd] \in 0..SizeMax
  BY <1>2, <1>7 DEF K
<1>10. QED
  BY <1>2, <1>4, <1>9

-----------------------------------------------------------------------------
(* The inductive invariant                                                 *)

\* the arguments of a next_k() that is under way
Requests == [to : Edges \cup {Out}, k : 0..SizeMax]

\* Every queue holds what it says.
TypeInv ==
  /\ pq \in [Edges \cup {Out} -> Queues] /\ \A y \in Edges \cup {Out} : Sound(pq[y])
  /\ sq \in [Edges -> Queues] /\ \A x \in Edges : Sound(sq[x])
  /\ Sound(got)
  /\ rr \in [Nodes -> Nat]
  /\ \A nd \in Nodes : Pred(nd) # <<>> => rr[nd] \in 1..Len(Pred(nd))
  /\ pc \in {"pull", "descend", "draw", "check", "prune", "sweep", "over"}
  /\ e \in Requests /\ stack \in Seq(Requests) /\ size \in 0..SizeMax
  /\ k \in Nat /\ k <= 30 * Parallelism
  /\ batch \in Seq(Paths) /\ next \in Nat /\ prune \in Nat \ {0} /\ done \in BOOLEAN

\* What arrived at the source of an edge, was offered to the edge and was not
\* drawn yet: in succ_data.q, or drawn for e but not pushed yet.
Offered(y) == IF y \in Edges THEN Weight(sq[y].paths) ELSE 0
Pending(y) == IF pc \in {"draw", "sweep"} /\ y.src = e.to.src THEN Weight(got.paths) ELSE 0

\* Counting what was drawn from each queue so far, no edge has got more than
\* has arrived at its source.
Covered(drawn) ==
  /\ drawn \in [Edges \cup {Out} -> Nat]
  /\ \A y \in Edges \cup {Out} :
       Weight(pq[y].paths) + Offered(y) + Pending(y) + drawn[y] <= Arrived(drawn, y.src)

\* A queue holds no more than the paths that arrived.
BudgetInv == \E drawn \in [Edges \cup {Out} -> Nat] : Covered(drawn)

\* next_k() asks nodes further and further in front, for what is there;
\* push_impossible() never takes `none'.
AskInv ==
  /\ pc = "descend" => pq[e.to].count <= e.k
  /\ pc = "draw" => size >= e.k \/ Plus(ShortestSize(pq, e.to.src), size) >= e.k
  /\ pc = "sweep" => ~HasNone(got.paths)
  /\ pc \notin {"descend", "draw"} => stack = <<>>
  /\ \A i \in 1..Len(stack) : stack[i].to.src > e.to.src
  /\ \A i \in 1..Len(stack), j \in 1..Len(stack) : j < i => stack[j].to.src > stack[i].to.src

\* `none' has reached the nodes N: it waits on every edge behind them that it
\* has not taken yet, and those nodes are not asked for anything any more.
Reached(N) ==
  /\ 1 \in N
  /\ pc # "over" => \A x \in Edges : x.src \in N =>
       \/ HasNone(pq[x].paths) \/ HasNone(sq[x].paths) \/ x.dst \in N
       \/ pc = "draw" /\ x.dst = e.to.src /\ HasNone(got.paths)
  /\ FinNd \in N =>
       \/ done = TRUE
       \/ pc = "check" /\ \E i \in 1..Len(batch) : next <= i /\ batch[i].kind = "none"
  /\ pc \in {"pull", "descend", "draw"} => FinNd \notin N /\ done = FALSE
  /\ pc = "descend" => e.to.src \notin N
  /\ pc = "draw" => e.to.src \notin N \/ size >= e.k
  /\ \A i \in 1..Len(stack) : stack[i].to.src \notin N

\* There are such nodes; the invariant is all of these together.
NoneInv == \E N \in SUBSET Nodes : Reached(N)

Inv == TypeInv /\ BudgetInv /\ AskInv /\ NoneInv

-----------------------------------------------------------------------------
(* The initial state                                                       *)

\* The last node's own queue is no edge's; an edge leads on to a later node.
LEMMA SideIs ==
  /\ Out \in Edges \cup {Out} /\ Out.src = FinNd /\ Out \notin Edges
  /\ \A y \in Edges \cup {Out} : y.src \in Nodes /\ y.src \in Nat /\ (y = Out \/ y.src < FinNd)
  /\ FinNd \in Nodes /\ 1 \in Nodes /\ FinNd # 1 /\ FinNd \in Nat
<1>1. FinNd \in Nat /\ FinNd > 1 /\ Nodes = 1..FinNd /\ Out.src = FinNd
  BY GraphAssumption DEF Nodes, Out
<1>2. Out \notin Edges
  BY EdgeIs
<1>3. \A x \in Edges : x.src \in Nodes /\ x.src \in Nat /\ x.src < FinNd
  BY EdgeIs
<1>4. QED
  BY <1>1, <1>2, <1>3

\* What the constructor pushes: the start, and `none' behind it
LEMMA FirstQueue ==
  LET q == Push(Queue(Start), Queue(None))
  IN  Sound(q) /\ Weight(q.paths) = 1 /\ HasNone(q.paths)
<1>1. /\ Sound(Queue(Start)) /\ Weight(Queue(Start).paths) = 1
      /\ Sound(Queue(None)) /\ Weight(Queue(None).paths) = 0 /\ HasNone(Queue(None).paths)
  BY StartIs, QueueIs
<1>2. Weight(Queue(Start).paths) + Weight(Queue(None).paths) <= SizeMax
  BY <1>1, SizeMaxIs
<1>3. Together(Push(Queue(Start), Queue(None)), Queue(Start), Queue(None))
  BY <1>1, <1>2, PushIs
<1>4. QED
  BY <1>1, <1>3 DEF Together

\* The invariant holds when the search begins.
LEMMA InitInv == Init => Inv
<1> SUFFICES ASSUME Init PROVE Inv
  OBVIOUS
<1> DEFINE first == Push(Queue(Start), Queue(None))
<1>1. /\ Sound(first) /\ Weight(first.paths) = 1 /\ HasNone(first.paths)
      /\ Sound(Empty) /\ Weight(Empty.paths) = 0 /\ ~HasNone(Empty.paths) /\ Empty.count = 0
  BY FirstQueue, EmptyIs
<1>2. first \in Queues /\ Empty \in Queues
  BY <1>1 DEF Sound
<1> HIDE DEF first
<1>3. /\ pq = [x \in Edges \cup {Out} |-> Empty]
      /\ sq = [x \in Edges |-> IF x.src = 1 THEN first ELSE Empty]
      /\ rr = [nd \in Nodes |-> 1] /\ got = Empty /\ size = 0
      /\ pc \in {"pull", "over"} /\ e = [to |-> Out, k |-> 0] /\ stack = <<>>
      /\ k = Parallelism /\ batch = <<>> /\ next = 1 /\ prune = 1 /\ done = FALSE
  BY DEF Init, first
<1>4. TypeInv
  <2>1. pq \in [Edges \cup {Out} -> Queues] /\ \A y \in Edges \cup {Out} : Sound(pq[y])
    BY <1>1, <1>2, <1>3
  <2>2. sq \in [Edges -> Queues] /\ \A x \in Edges : Sound(sq[x])
    BY <1>1, <1>2, <1>3
  <2>3. \A nd \in Nodes : Pred(nd) # <<>> => rr[nd] \in 1..Len(Pred(nd))
    <3>1. SUFFICES ASSUME NEW nd \in Nodes, Pred(nd) # <<>> PROVE 1 \in 1..Len(Pred(nd))
      BY <1>3
    <3>2. Pred(nd) \in Seq(Edges)
      BY PredIs
    <3>3. QED
      BY <3>1, <3>2
  <2>4. e \in Requests /\ stack \in Seq(Requests) /\ size \in 0..SizeMax
    BY <1>3, SideIs, SizeMaxIs DEF Requests
  <2>5. k \in Nat /\ k <= 30 * Parallelism
    BY <1>3, ParallelismAssumption
  <2>6. batch \in Seq(Paths) /\ done \in BOOLEAN /\ rr \in [Nodes -> Nat]
    <3>1. <<>> \in Seq(Paths)
      OBVIOUS
    <3>2. done \in BOOLEAN
      BY <1>3
    <3>3. QED
      BY <1>3, <3>1, <3>2
  <2>7. QED
    BY <1>1, <1>3, <2>1, <2>2, <2>3, <2>4, <2>5, <2>6 DEF TypeInv
<1>5. BudgetInv
  <2> DEFINE drawn == [y \in Edges \cup {Out} |-> 0]
  <2>1. drawn \in [Edges \cup {Out} -> Nat] /\ \A y \in Edges \cup {Out} : drawn[y] = 0
    OBVIOUS
  <2> HIDE DEF drawn
  <2>2. ASSUME NEW y \in Edges \cup {Out}
        PROVE  Weight(pq[y].paths) + Offered(y) + Pending(y) + drawn[y] <= Arrived(drawn, y.src)
    <3>1. Weight(pq[y].paths) = 0 /\ Pending(y) = 0 /\ drawn[y] = 0
      BY <1>1, <1>3, <2>1 DEF Pending
    <3>2. Offered(y) = IF y \in Edges /\ y.src = 1 THEN 1 ELSE 0
      BY <1>1, <1>3 DEF Offered
    <3>3. Into(drawn, y.src) \in Nat
      BY <2>1, IntoNat
    <3>4. QED
      BY <3>1, <3>2, <3>3 DEF Arrived
  <2>3. QED
    BY <2>1, <2>2 DEF BudgetInv, Covered
<1>6. AskInv
  BY <1>3 DEF AskInv
<1>7. NoneInv
  <2>1. Reached({1})
    <3>1. \A x \in Edges : x.src \in {1} => HasNone(sq[x].paths)
      BY <1>1, <1>3
    <3>2. QED
      BY <1>3, <3>1, SideIs DEF Reached
  <2>2. {1} \in SUBSET Nodes
    BY SideIs
  <2>3. QED
    BY <2>1, <2>2 DEF NoneInv
<1>8. QED
  BY <1>4, <1>5, <1>6, <1>7 DEF Inv

-----------------------------------------------------------------------------
(* What the steps have in common                                           *)

\* The types of what the steps below add up
LEMMA LoadIs ==
  ASSUME TypeInv
  PROVE  /\ \A y \in Edges \cup {Out} :
              /\ Weight(pq[y].paths) \in Nat /\ Offered(y) \in Nat /\ Pending(y) \in Nat
              /\ pq[y] \in Queues /\ pq[y].count \in 0..SizeMax
         /\ \A x \in Edges : sq[x] \in Queues /\ Offered(x) = Weight(sq[x].paths)
         /\ Weight(got.paths) \in Nat
         /\ e.to \in Edges \cup {Out} /\ e.to.src \in Nodes /\ e.k \in 0..SizeMax
<1>1. ASSUME NEW q, Sound(q) PROVE Weight(q.paths) \in Nat
  BY <1>1, WeightNat DEF Sound, Queues
<1>2. Weight(got.paths) \in Nat
  BY <1>1 DEF TypeInv
<1>3. \A y \in Edges \cup {Out} : Weight(pq[y].paths) \in Nat
  BY <1>1 DEF TypeInv
<1>4. \A x \in Edges : Weight(sq[x].paths) \in Nat
  BY <1>1 DEF TypeInv
<1>5. \A y \in Edges \cup {Out} : pq[y] \in Queues /\ pq[y].count \in 0..SizeMax
  BY DEF TypeInv, Queues
<1>6. e \in Requests /\ \A x \in Edges : sq[x] \in Queues
  BY DEF TypeInv
<1>7. e.to \in Edges \cup {Out} /\ e.to.src \in Nodes /\ e.k \in 0..SizeMax
  BY <1>6, SideIs DEF Requests
<1>8. QED
  BY <1>2, <1>3, <1>4, <1>5, <1>6, <1>7 DEF Offered, Pending

\* There is room in every queue for what was offered to it.
LEMMA RoomIs ==
  ASSUME FewPaths, TypeInv, NEW drawn, Covered(drawn)
  PROVE  /\ \A nd \in Nodes : Arrived(drawn, nd) \in 0..SizeMax
         /\ \A y \in Edges \cup {Out} :
              /\ Weight(pq[y].paths) + Offered(y) <= SizeMax
              /\ Weight(pq[y].paths) + Pending(y) <= SizeMax
              /\ Offered(y) + Pending(y) <= SizeMax
              /\ Weight(pq[y].paths) + drawn[y] <= Arrived(drawn, y.src)
<1>1. /\ drawn \in [Edges \cup {Out} -> Nat]
      /\ \A y \in Edges \cup {Out} :
           /\ Weight(pq[y].paths) \in Nat /\ Offered(y) \in Nat /\ Pending(y) \in Nat
           /\ drawn[y] \in Nat /\ y.src \in Nodes
           /\ Weight(pq[y].paths) + Offered(y) + Pending(y) + drawn[y] <= Arrived(drawn, y.src)
  BY LoadIs, SideIs DEF Covered
<1>2. \A nd \in Nodes : Arrived(drawn, nd) \in Nat
  BY <1>1, IntoNat DEF Arrived
<1>3. \A a, b, c, d, n \in Nat : a + b + c + d <= n => d <= n /\ a + d <= n
  OBVIOUS
<1>4. \A y \in Edges \cup {Out} : drawn[y] <= Arrived(drawn, y.src)
                                  /\ Weight(pq[y].paths) + drawn[y] <= Arrived(drawn, y.src)
  BY <1>1, <1>2, <1>3
<1>5. \A nd \in Nodes : Arrived(drawn, nd) \in 0..SizeMax
  BY <1>1, <1>4, FewArrive
<1>6. \A a, b, c, d, n, m \in Nat : a + b + c + d <= n /\ n <= m =>
        a + b <= m /\ a + c <= m /\ b + c <= m
  OBVIOUS
<1>7. ASSUME NEW y \in Edges \cup {Out}
      PROVE  /\ Weight(pq[y].paths) + Offered(y) <= SizeMax
             /\ Weight(pq[y].paths) + Pending(y) <= SizeMax
             /\ Offered(y) + Pending(y) <= SizeMax
  <2>1. Arrived(drawn, y.src) \in Nat /\ Arrived(drawn, y.src) <= SizeMax /\ SizeMax \in Nat
    BY <1>1, <1>2, <1>5, SizeMaxIs
  <2>2. QED
    BY <1>1, <1>6, <2>1
<1>8. QED
  BY <1>4, <1>5, <1>7

\* What was offered to an edge is moved into its queue.
LEMMA CollectIs ==
  ASSUME FewPaths, TypeInv, NEW drawn, Covered(drawn), NEW x \in Edges,
         pq' = [pq EXCEPT ![x] = Move(@, sq[x])], sq' = [sq EXCEPT ![x] = Empty],
         got' = Empty
  PROVE  /\ pq' \in [Edges \cup {Out} -> Queues] /\ \A y \in Edges \cup {Out} : Sound(pq'[y])
         /\ sq' \in [Edges -> Queues] /\ \A y \in Edges : Sound(sq'[y])
         /\ Sound(got') /\ Covered(drawn)'
         /\ HasNone(pq'[x].paths) <=> HasNone(pq[x].paths) \/ HasNone(sq[x].paths)
         /\ \A y \in Edges \cup {Out} : y # x => pq'[y] = pq[y]
         /\ \A y \in Edges : y # x => sq'[y] = sq[y]
<1>1. /\ pq \in [Edges \cup {Out} -> Queues] /\ \A y \in Edges \cup {Out} : Sound(pq[y])
      /\ sq \in [Edges -> Queues] /\ \A y \in Edges : Sound(sq[y])
  BY DEF TypeInv
<1>2. Together(Move(pq[x], sq[x]), pq[x], sq[x])
  <2>1. Weight(pq[x].paths) + Weight(sq[x].paths) <= SizeMax
    BY RoomIs DEF Offered
  <2>2. QED
    BY <1>1, <2>1, MoveIs
<1>3. /\ Sound(pq'[x]) /\ Weight(pq'[x].paths) = Weight(pq[x].paths) + Weight(sq[x].paths)
      /\ HasNone(pq'[x].paths) <=> HasNone(pq[x].paths) \/ HasNone(sq[x].paths)
  <2>1. pq'[x] = Move(pq[x], sq[x])
    BY <1>1
  <2>2. QED
    BY <1>2, <2>1 DEF Together
<1>4. /\ \A y \in Edges \cup {Out} : y # x => pq'[y] = pq[y]
      /\ \A y \in Edges : y # x => sq'[y] = sq[y]
      /\ sq'[x] = Empty /\ DOMAIN pq' = Edges \cup {Out} /\ DOMAIN sq' = Edges
      /\ pq' = [y \in Edges \cup {Out} |-> pq'[y]] /\ sq' = [y \in Edges |-> sq'[y]]
  BY <1>1
<1>5. \A y \in Edges \cup {Out} : Sound(pq'[y])
  BY <1>1, <1>3, <1>4
<1>6. \A y \in Edges : Sound(sq'[y])
  BY <1>1, <1>4, EmptyIs
<1>7. pq' \in [Edges \cup {Out} -> Queues] /\ sq' \in [Edges -> Queues]
  <2>1. \A y \in Edges \cup {Out} : pq'[y] \in Queues
    BY <1>5 DEF Sound
  <2>2. \A y \in Edges : sq'[y] \in Queues
    BY <1>6 DEF Sound
  <2>3. QED
    BY <1>4, <2>1, <2>2
<1>8. Covered(drawn)'
  <2>1. ASSUME NEW y \in Edges \cup {Out}
        PROVE  Weight(pq'[y].paths) + Offered(y)' + Pending(y)' + drawn[y] <= Arrived(drawn, y.src)
    <3>1. /\ Weight(pq[y].paths) \in Nat /\ Offered(y) \in Nat /\ Pending(y) \in Nat
          /\ drawn[y] \in Nat /\ Arrived(drawn, y.src) \in 0..SizeMax
          /\ Weight(pq[y].paths) + Offered(y) + Pending(y) + drawn[y] <= Arrived(drawn, y.src)
      BY LoadIs, SideIs, RoomIs DEF Covered
    <3>2. Pending(y)' = 0
      BY EmptyIs DEF Pending
    <3>3. Weight(pq'[y].paths) + Offered(y)' = Weight(pq[y].paths) + Offered(y)
      <4>1. CASE y = x
        <5>1. Offered(y)' = 0 /\ Offered(y) = Weight(sq[x].paths)
          BY <1>4, <4>1, EmptyIs DEF Offered
        <5>2. Weight(pq'[y].paths) = Weight(pq[y].paths) + Offered(y)
          BY <1>3, <4>1, <5>1
        <5>3. QED
          BY <3>1, <5>1, <5>2
      <4>2. CASE y # x
        BY <1>4, <4>2 DEF Offered
      <4>3. QED
        BY <4>1, <4>2
    <3>4. \A a, b, c, d, n \in Nat : a + b + c + d <= n => a + b + 0 + d <= n
      OBVIOUS
    <3>5. Weight(pq[y].paths) + Offered(y) + 0 + drawn[y] <= Arrived(drawn, y.src)
      BY <3>1, <3>4, SizeMaxIs
    <3>6. QED
      BY <3>2, <3>3, <3>5
  <2>2. QED
    BY <2>1 DEF Covered
<1>9. QED
  BY <1>3, <1>4, <1>5, <1>6, <1>7, <1>8, EmptyIs

\* A path is drawn for e: what was taken from the queue of x arrives at its
\* destination, from where e starts.
LEMMA DrawnIs ==
  ASSUME FewPaths, TypeInv, NEW drawn, Covered(drawn), pc \in {"draw", "sweep"},
         NEW x \in ToSet(Pred(e.to.src)), pq[x].paths # <<>>,
         pc' = pc, e' = e, sq' = sq, pq' = [pq EXCEPT ![x] = Take(@)],
         got' = Move(got, Queue(Extend(Head(pq[x].paths), x, dead)))
  PROVE  /\ x \in Edges /\ x.dst = e.to.src
         /\ pq' \in [Edges \cup {Out} -> Queues] /\ \A y \in Edges \cup {Out} : Sound(pq'[y])
         /\ Sound(got') /\ \E more \in [Edges \cup {Out} -> Nat] : Covered(more)'
         /\ HasNone(pq[x].paths) <=> Head(pq[x].paths).kind = "none" \/ HasNone(pq'[x].paths)
         /\ HasNone(got'.paths) <=> HasNone(got.paths) \/ Head(pq[x].paths).kind = "none"
         /\ \A y \in Edges \cup {Out} : y # x => pq'[y] = pq[y]
         /\ Head(pq[x].paths) \in Paths
         /\ pq[x].count = Plus(pq'[x].count, Head(pq[x].paths).count)
         /\ Weight(got.paths) + Stands(Head(pq[x].paths)) <= SizeMax
<1> DEFINE h == Head(pq[x].paths)
           c == Stands(h)
           nd == e.to.src
           g == Queue(Extend(h, x, dead))
<1>1. /\ pq \in [Edges \cup {Out} -> Queues] /\ \A y \in Edges \cup {Out} : Sound(pq[y])
      /\ Sound(got)
  BY DEF TypeInv
<1>2. /\ x \in Edges /\ x.dst = nd /\ nd \in Nodes /\ x.src \in Nodes /\ x.src < nd /\ nd # 1
      /\ x.src \in Nat /\ x.src # nd /\ e.to \in Edges \cup {Out}
  <2>1. nd \in Nodes /\ e.to \in Edges \cup {Out}
    BY LoadIs
  <2>2. x \in Edges /\ x.dst = nd
    BY <2>1, PredIs
  <2>3. x.src \in Nodes /\ x.src < x.dst /\ x.dst # 1 /\ x.src \in Nat /\ x.dst \in Nat
    BY <2>2, EdgeIs
  <2>4. QED
    BY <2>1, <2>2, <2>3
<1>3. /\ h \in Paths /\ Sound(Take(pq[x])) /\ Weight(pq[x].paths) = c + Weight(Take(pq[x]).paths)
      /\ HasNone(pq[x].paths) <=> h.kind = "none" \/ HasNone(Take(pq[x]).paths)
      /\ pq[x].count = Plus(Take(pq[x]).count, h.count)
  BY <1>1, <1>2, TakeIs
<1>4. c \in Nat
  BY <1>3, StandsNat
<1>5. Sound(g) /\ Weight(g.paths) = c /\ (HasNone(g.paths) <=> h.kind = "none")
  <2>1. /\ Extend(h, x, dead) \in Paths /\ Stands(Extend(h, x, dead)) = c
        /\ Extend(h, x, dead).kind = "none" <=> h.kind = "none"
    BY <1>2, <1>3, ExtendIs
  <2>2. QED
    BY <2>1, QueueIs
<1>6. pq'[x] = Take(pq[x]) /\ (\A y \in Edges \cup {Out} : y # x => pq'[y] = pq[y])
      /\ pq' = [y \in Edges \cup {Out} |-> pq'[y]]
  BY <1>1, <1>2
<1>7. \A y \in Edges \cup {Out} : Sound(pq'[y])
  BY <1>1, <1>3, <1>6
<1>8. pq' \in [Edges \cup {Out} -> Queues]
  <2>1. \A y \in Edges \cup {Out} : pq'[y] \in Queues
    BY <1>7 DEF Sound
  <2>2. QED
    BY <1>6, <2>1
<1>9. got' = Move(got, g)
  OBVIOUS
<1> HIDE DEF h, c, g, nd
<1>10. /\ drawn \in [Edges \cup {Out} -> Nat]
       /\ \A n \in Nodes : Arrived(drawn, n) \in 0..SizeMax
       /\ \A y \in Edges \cup {Out} :
            /\ Weight(pq[y].paths) \in Nat /\ Offered(y) \in Nat /\ Pending(y) \in Nat
            /\ drawn[y] \in Nat /\ y.src \in Nodes /\ Arrived(drawn, y.src) \in Nat
            /\ Weight(pq[y].paths) + drawn[y] <= Arrived(drawn, y.src)
            /\ Weight(pq[y].paths) + Offered(y) + Pending(y) + drawn[y] <= Arrived(drawn, y.src)
  <2>1. /\ drawn \in [Edges \cup {Out} -> Nat]
        /\ \A y \in Edges \cup {Out} :
             Weight(pq[y].paths) + Offered(y) + Pending(y) + drawn[y] <= Arrived(drawn, y.src)
    BY DEF Covered
  <2>2. /\ \A n \in Nodes : Arrived(drawn, n) \in 0..SizeMax
        /\ \A y \in Edges \cup {Out} : Weight(pq[y].paths) + drawn[y] <= Arrived(drawn, y.src)
    BY RoomIs
  <2>3. \A y \in Edges \cup {Out} :
          Weight(pq[y].paths) \in Nat /\ Offered(y) \in Nat /\ Pending(y) \in Nat
    BY LoadIs
  <2>4. \A y \in Edges \cup {Out} :
          drawn[y] \in Nat /\ y.src \in Nodes /\ Arrived(drawn, y.src) \in Nat
    BY <2>1, <2>2, SideIs, SizeMaxIs
  <2>5. QED
    BY <2>1, <2>2, <2>3, <2>4
<1>0. drawn \in [Edges \cup {Out} -> Nat]
  BY <1>10
<1>a. PICK more \in [Edges \cup {Out} -> Nat] : more = [drawn EXCEPT ![x] = @ + c]
  <2>1. [drawn EXCEPT ![x] = @ + c] \in [Edges \cup {Out} -> Nat]
    BY <1>0, <1>2, <1>4
  <2>2. QED
    BY <2>1
<1>11. \A y \in Edges \cup {Out} : more[y] = IF y = x THEN drawn[x] + c ELSE drawn[y]
  BY <1>0, <1>2, <1>4, <1>a
<1>12. \A n \in Nodes : Arrived(more, n) = Arrived(drawn, n) + (IF n = nd THEN c ELSE 0)
  <2>1. \A n \in Nodes : Into(more, n) = Into(drawn, n) + (IF x.dst = n THEN c ELSE 0)
    <3>1. \A n : Into([drawn EXCEPT ![x] = @ + c], n) = Into(drawn, n) + (IF x.dst = n THEN c ELSE 0)
      BY <1>0, <1>2, <1>4, IntoGrows
    <3>2. QED
      BY <1>a, <3>1
  <2>2. \A n \in Nodes : n = 1 => n # nd
    BY <1>2
  <2>3. Arrived(more, 1) = Arrived(drawn, 1) + 0
    BY DEF Arrived
  <2>4. QED
    BY <1>2, <2>1, <2>2, <2>3 DEF Arrived
<1>13. Weight(pq[x].paths) = c + Weight(pq'[x].paths) /\ Weight(pq'[x].paths) \in Nat
  <2>1. pq'[x].paths \in Seq(Paths)
    BY <1>2, <1>7 DEF Sound, Queues
  <2>2. QED
    BY <1>3, <1>6, <2>1, WeightNat
<1>14. \A n \in Nodes : Arrived(more, n) \in 0..SizeMax
  <2>1. ASSUME NEW y \in Edges PROVE more[y] <= Arrived(more, y.src)
    <3>1. CASE y = x
      <4>1. more[y] = drawn[x] + c /\ Arrived(more, y.src) = Arrived(drawn, x.src) + 0
        BY <1>2, <1>11, <1>12, <3>1
      <4>2. /\ (c + Weight(pq'[x].paths)) + drawn[x] <= Arrived(drawn, x.src)
            /\ drawn[x] \in Nat /\ Arrived(drawn, x.src) \in Nat
        BY <1>2, <1>10, <1>13
      <4>3. \A a, b, d, n \in Nat : (a + b) + d <= n => d + a <= n + 0
        OBVIOUS
      <4>4. QED
        BY <1>4, <1>13, <4>1, <4>2, <4>3
    <3>2. CASE y # x
      <4>1. /\ more[y] = drawn[y] /\ y.src \in Nodes
            /\ Arrived(more, y.src) = Arrived(drawn, y.src) + (IF y.src = nd THEN c ELSE 0)
            /\ Weight(pq[y].paths) + drawn[y] <= Arrived(drawn, y.src)
            /\ Weight(pq[y].paths) \in Nat /\ drawn[y] \in Nat /\ Arrived(drawn, y.src) \in Nat
        BY <1>10, <1>11, <1>12, <3>2
      <4>2. \A a, b, n, m \in Nat : a + b <= n => b <= n + m
        OBVIOUS
      <4> DEFINE m == IF y.src = nd THEN c ELSE 0
      <4>3. m \in Nat
        BY <1>4
      <4> HIDE DEF m
      <4>4. QED
        BY <4>1, <4>2, <4>3 DEF m
    <3>3. QED
      BY <3>1, <3>2
  <2>2. QED
    BY <1>11, <2>1, FewArrive
<1>b. Weight(got.paths) + c <= SizeMax
  <2>1. e.to.src = nd /\ Pending(e.to) = Weight(got.paths)
    BY DEF Pending, nd
  <2>2. /\ Weight(got.paths) <= Arrived(drawn, nd) /\ Weight(got.paths) \in Nat
        /\ Arrived(drawn, nd) \in Nat
    <3>1. /\ Weight(pq[e.to].paths) \in Nat /\ Offered(e.to) \in Nat /\ Pending(e.to) \in Nat
          /\ drawn[e.to] \in Nat /\ Arrived(drawn, nd) \in Nat
          /\ Weight(pq[e.to].paths) + Offered(e.to) + Pending(e.to) + drawn[e.to] <= Arrived(drawn, nd)
      BY <1>2, <1>10, <2>1
    <3>2. \A a, b, d, f, n \in Nat : a + b + d + f <= n => d <= n
      OBVIOUS
    <3>3. QED
      BY <2>1, <3>1, <3>2
  <2>3. Arrived(drawn, nd) + c <= SizeMax
    <3>1. Arrived(more, nd) = Arrived(drawn, nd) + c /\ Arrived(more, nd) \in 0..SizeMax
      BY <1>2, <1>12, <1>14
    <3>2. QED
      BY <3>1
  <2>4. QED
    BY <1>4, <2>2, <2>3, SizeMaxIs
<1>15. Together(got', got, g)
  BY <1>1, <1>5, <1>9, <1>b, MoveIs
<1>16. /\ Sound(got') /\ Weight(got'.paths) = Weight(got.paths) + c
       /\ HasNone(got'.paths) <=> HasNone(got.paths) \/ h.kind = "none"
  BY <1>5, <1>15 DEF Together
<1>17. Covered(more)'
  <2>1. ASSUME NEW y \in Edges \cup {Out}
        PROVE  Weight(pq'[y].paths) + Offered(y)' + Pending(y)' + more[y] <= Arrived(more, y.src)
    <3>1. /\ Weight(pq[y].paths) \in Nat /\ Offered(y) \in Nat /\ Pending(y) \in Nat
          /\ drawn[y] \in Nat /\ Arrived(drawn, y.src) \in Nat /\ y.src \in Nodes
          /\ Weight(pq[y].paths) + Offered(y) + Pending(y) + drawn[y] <= Arrived(drawn, y.src)
      BY <1>10
    <3>2. Offered(y)' = Offered(y)
      BY DEF Offered
    <3>3. Arrived(more, y.src) = Arrived(drawn, y.src) + (IF y.src = nd THEN c ELSE 0)
      BY <1>12, <3>1
    <3>4. Pending(y)' = Pending(y) + (IF y.src = nd THEN c ELSE 0)
      <4>1. CASE y.src = nd
        BY <1>16, <4>1 DEF Pending, nd
      <4>2. CASE y.src # nd
        BY <4>2 DEF Pending, nd
      <4>3. QED
        BY <4>1, <4>2
    <3>5. Weight(pq'[y].paths) + more[y] = Weight(pq[y].paths) + drawn[y] /\ Weight(pq'[y].paths) \in Nat
          /\ more[y] \in Nat
      <4>1. CASE y = x
        <5>1. more[y] = drawn[y] + c /\ Weight(pq[y].paths) = c + Weight(pq'[y].paths)
              /\ Weight(pq'[y].paths) \in Nat
          BY <1>11, <1>13, <4>1
        <5>2. \A a, b, d \in Nat : b + (d + a) = (a + b) + d /\ d + a \in Nat
          OBVIOUS
        <5>3. c \in Nat
          BY <1>4
        <5>4. Weight(pq'[y].paths) + (drawn[y] + c) = (c + Weight(pq'[y].paths)) + drawn[y]
              /\ drawn[y] + c \in Nat
          <6>1. drawn[y] \in Nat
            BY <3>1
          <6>2. Weight(pq'[y].paths) \in Nat
            BY <5>1
          <6>3. QED
            BY <5>2, <5>3, <6>1, <6>2
        <5>5. QED
          BY <5>1, <5>4
      <4>2. CASE y # x
        BY <1>6, <1>11, <3>1, <4>2
      <4>3. QED
        BY <4>1, <4>2
    <3> DEFINE m == IF y.src = nd THEN c ELSE 0
    <3>6. m \in Nat
      BY <1>4
    <3> HIDE DEF m
    <3>7. \A a, b, d, f, s, t, n, w \in Nat :
            a + b + d + f <= n /\ s + t = a + f => s + b + (d + w) + t <= n + w
      OBVIOUS
    <3>8. Weight(pq'[y].paths) + Offered(y) + (Pending(y) + m) + more[y] <= Arrived(drawn, y.src) + m
      BY <3>1, <3>5, <3>6, <3>7
    <3>9. QED
      BY <3>2, <3>3, <3>4, <3>8 DEF m
  <2>2. QED
    BY <2>1 DEF Covered
<1>18. QED
  BY <1>2, <1>3, <1>6, <1>7, <1>8, <1>b, <1>16, <1>17 DEF c, h, nd

\* A node has one other way to go on, if any.
LEMMA SiblingIs ==
  ASSUME NEW to \in Edges \cup {Out}
  PROVE  /\ \A x \in Sibling(to) : x \in Edges /\ x # to /\ x.src = to.src
         /\ \A x \in Edges : x.src = to.src => x = to \/ x \in Sibling(to)
<1>1. \A x \in Sibling(to) : x \in Edges /\ x # to /\ x.src = to.src
  BY DEF Sibling
<1>2. ASSUME NEW x \in Edges, x.src = to.src PROVE x = to \/ x \in Sibling(to)
  <2>1. to \in Edges
    <3>1. x.src < FinNd /\ FinNd \in Nat
      BY EdgeIs, SideIs
    <3>2. QED
      BY <1>2, <3>1, SideIs
  <2>2. PICK i \in 1..Len(Links), j \in 1..Len(Links) : Links[i] = x /\ Links[j] = to
    BY <2>1, LinksAre
  <2>3. DOMAIN Links = 1..Len(Links)
    BY LinksAre
  <2>4. x.taken = to.taken => i = j
    <3>1. \A m, n \in DOMAIN Links :
            Links[m].src = Links[n].src /\ Links[m].taken = Links[n].taken => m = n
      BY GraphAssumption
    <3>2. QED
      BY <1>2, <2>2, <2>3, <3>1
  <2>5. QED
    BY <1>2, <2>2, <2>4 DEF Sibling
<1>3. QED
  BY <1>1, <1>2

\* What was drawn for e is offered to the edges that begin where e does.
LEMMA OfferIs ==
  ASSUME FewPaths, TypeInv, NEW drawn, Covered(drawn), pc \in {"draw", "sweep"},
         Offer(e.to), got' = Empty \/ pc' \notin {"draw", "sweep"}
  PROVE  /\ pq' \in [Edges \cup {Out} -> Queues] /\ \A y \in Edges \cup {Out} : Sound(pq'[y])
         /\ sq' \in [Edges -> Queues] /\ \A y \in Edges : Sound(sq'[y])
         /\ Covered(drawn)'
         /\ \A y \in Edges \cup {Out} : y # e.to => pq'[y] = pq[y]
         /\ HasNone(pq'[e.to].paths) <=> HasNone(pq[e.to].paths) \/ HasNone(got.paths)
         /\ \A y \in Edges : HasNone(sq[y].paths) => HasNone(sq'[y].paths)
         /\ \A y \in Edges : y.src = e.to.src /\ HasNone(got.paths) =>
              HasNone(pq'[y].paths) \/ HasNone(sq'[y].paths)
<1> DEFINE to == e.to
<1>1. /\ pq \in [Edges \cup {Out} -> Queues] /\ \A y \in Edges \cup {Out} : Sound(pq[y])
      /\ sq \in [Edges -> Queues] /\ \A y \in Edges : Sound(sq[y])
      /\ Sound(got) /\ to \in Edges \cup {Out}
  BY LoadIs DEF TypeInv
<1>2. \A y \in Edges \cup {Out} : y.src = to.src => Pending(y) = Weight(got.paths)
  BY DEF Pending
<1>3. /\ \A x \in Sibling(to) : x \in Edges /\ x # to /\ x.src = to.src
      /\ \A x \in Edges : x.src = to.src => x = to \/ x \in Sibling(to)
  BY <1>1, SiblingIs
<1>4. /\ pq' = [pq EXCEPT ![to] = Move(@, got)]
      /\ sq' = [x \in Edges |-> IF x \in Sibling(to) THEN Push(sq[x], got) ELSE sq[x]]
  BY DEF Offer
<1> HIDE DEF to
<1>5. Together(Move(pq[to], got), pq[to], got)
  <2>1. Weight(pq[to].paths) + Weight(got.paths) <= SizeMax
    BY <1>1, <1>2, RoomIs
  <2>2. QED
    BY <1>1, <2>1, MoveIs
<1>6. ASSUME NEW x \in Sibling(to)
      PROVE  Together(Push(sq[x], got), sq[x], got)
  <2>1. x \in Edges /\ Pending(x) = Weight(got.paths) /\ Offered(x) = Weight(sq[x].paths)
    BY <1>2, <1>3 DEF Offered
  <2>2. Weight(sq[x].paths) + Weight(got.paths) <= SizeMax
    <3>1. Offered(x) + Pending(x) <= SizeMax
      BY <2>1, RoomIs
    <3>2. QED
      BY <2>1, <3>1
  <2>3. QED
    BY <1>1, <2>1, <2>2, PushIs
<1>7. /\ pq'[to] = Move(pq[to], got) /\ \A y \in Edges \cup {Out} : y # to => pq'[y] = pq[y]
      /\ pq' = [y \in Edges \cup {Out} |-> pq'[y]]
  BY <1>1, <1>4
<1>8. /\ \A x \in Edges : sq'[x] = IF x \in Sibling(to) THEN Push(sq[x], got) ELSE sq[x]
      /\ sq' = [y \in Edges |-> sq'[y]]
  BY <1>4
<1>9. /\ \A y \in Edges \cup {Out} : Sound(pq'[y])
      /\ HasNone(pq'[to].paths) <=> HasNone(pq[to].paths) \/ HasNone(got.paths)
      /\ Weight(pq'[to].paths) = Weight(pq[to].paths) + Weight(got.paths)
  BY <1>1, <1>5, <1>7 DEF Together
<1>10. \A y \in Edges :
         /\ Sound(sq'[y])
         /\ y \in Sibling(to) => /\ HasNone(sq'[y].paths) <=> HasNone(sq[y].paths) \/ HasNone(got.paths)
                                 /\ Weight(sq'[y].paths) = Weight(sq[y].paths) + Weight(got.paths)
         /\ y \notin Sibling(to) => sq'[y] = sq[y]
  BY <1>1, <1>6, <1>8 DEF Together
<1>11. pq' \in [Edges \cup {Out} -> Queues] /\ sq' \in [Edges -> Queues]
  <2>1. \A y \in Edges \cup {Out} : pq'[y] \in Queues
    BY <1>9 DEF Sound
  <2>2. \A y \in Edges : sq'[y] \in Queues
    BY <1>10 DEF Sound
  <2>3. QED
    BY <1>7, <1>8, <2>1, <2>2
<1>12. Covered(drawn)'
  <2>1. ASSUME NEW y \in Edges \cup {Out}
        PROVE  Weight(pq'[y].paths) + Offered(y)' + Pending(y)' + drawn[y] <= Arrived(drawn, y.src)
    <3>1. /\ Weight(pq[y].paths) \in Nat /\ Offered(y) \in Nat /\ Pending(y) \in Nat
          /\ drawn[y] \in Nat /\ Arrived(drawn, y.src) \in Nat
          /\ Weight(pq[y].paths) + Offered(y) + Pending(y) + drawn[y] <= Arrived(drawn, y.src)
      <4>1. Arrived(drawn, y.src) \in Nat
        <5>1. Arrived(drawn, y.src) \in 0..SizeMax
          BY SideIs, RoomIs
        <5>2. QED
          BY <5>1, SizeMaxIs
      <4>2. QED
        BY <4>1, LoadIs DEF Covered
    <3>2. Pending(y)' = 0
      BY EmptyIs DEF Pending
    <3>3. Weight(pq'[y].paths) + Offered(y)' <= Weight(pq[y].paths) + Offered(y) + Pending(y)
          /\ Weight(pq'[y].paths) \in Nat /\ Offered(y)' \in Nat
      <4>1. CASE y = to
        <5>1. /\ Weight(pq'[y].paths) = Weight(pq[y].paths) + Pending(y)
              /\ Pending(y) = Weight(got.paths)
          BY <1>2, <1>9, <4>1
        <5>2. Offered(y)' = Offered(y)
          BY <1>3, <1>10, <4>1 DEF Offered
        <5>3. \A a, b, c \in Nat : a + c + b <= a + b + c /\ a + c \in Nat
          OBVIOUS
        <5>4. QED
          BY <3>1, <5>1, <5>2, <5>3
      <4>2. CASE y \in Sibling(to)
        <5>1. y \in Edges /\ y # to /\ Pending(y) = Weight(got.paths)
          BY <1>2, <1>3, <4>2
        <5>2. pq'[y] = pq[y] /\ Offered(y)' = Offered(y) + Pending(y)
          BY <1>7, <1>10, <4>2, <5>1 DEF Offered
        <5>3. \A a, b, c \in Nat : a + (b + c) <= a + b + c /\ b + c \in Nat
          OBVIOUS
        <5>4. QED
          BY <3>1, <5>2, <5>3
      <4>3. CASE y # to /\ y \notin Sibling(to)
        <5>1. pq'[y] = pq[y] /\ Offered(y)' = Offered(y)
          BY <1>7, <1>10, <4>3 DEF Offered
        <5>2. \A a, b, c \in Nat : a + b <= a + b + c
          OBVIOUS
        <5>3. QED
          BY <3>1, <5>1, <5>2
      <4>4. QED
        BY <4>1, <4>2, <4>3
    <3>4. \A a, b, c, d, s, t, n \in Nat :
            s + t <= a + b + c /\ a + b + c + d <= n => s + t + 0 + d <= n
      OBVIOUS
    <3>5. Weight(pq'[y].paths) + Offered(y)' + 0 + drawn[y] <= Arrived(drawn, y.src)
      BY <3>1, <3>3, <3>4
    <3>6. QED
      BY <3>2, <3>5
  <2>2. QED
    BY <2>1 DEF Covered
<1>13. ASSUME NEW y \in Edges, y.src = to.src, HasNone(got.paths)
       PROVE  HasNone(pq'[y].paths) \/ HasNone(sq'[y].paths)
  BY <1>3, <1>9, <1>10, <1>13
<1>14. QED
  BY <1>7, <1>9, <1>10, <1>11, <1>12, <1>13 DEF to

\* A queue with `none' in it says it holds as much as can be.
LEMMA NoneHeld ==
  ASSUME NEW q, Sound(q)
  PROVE  HasNone(q.paths) => q.count = SizeMax
BY HeldIs DEF Sound, Queues

\* next_k() goes on with a request.
LEMMA GoOnIs ==
  ASSUME NEW r \in Requests, pq' \in [Edges \cup {Out} -> Queues], GoOn(r, pq')
  PROVE  /\ e' = r /\ got' = Empty /\ Sound(got') /\ ~HasNone(got'.paths)
         /\ size' \in 0..SizeMax /\ size' = pq'[r.to].count
         /\ pc' \in {"descend", "draw"}
         /\ pc' = "descend" => size' <= r.k /\ size' # SizeMax
         /\ pc' = "draw" => Plus(ShortestSize(pq', r.to.src), size') >= r.k
<1>1. r.to \in Edges \cup {Out} /\ r.to.src \in Nodes /\ r.k \in 0..SizeMax
  BY SideIs DEF Requests
<1>2. pq'[r.to].count \in 0..SizeMax
  BY <1>1 DEF Queues
<1>3. /\ e' = r /\ got' = Empty /\ size' = pq'[r.to].count
      /\ pc' = IF Plus(ShortestSize(pq', r.to.src), pq'[r.to].count) < r.k THEN "descend" ELSE "draw"
  BY DEF GoOn
<1> DEFINE a == ShortestSize(pq', r.to.src)
<1>4. a \in 0..SizeMax
  BY <1>1, ShortestSizeIs
<1> HIDE DEF a
<1>5. /\ Plus(a, size') \in Nat /\ size' <= Plus(a, size')
      /\ size' = SizeMax => Plus(a, size') = SizeMax
  BY <1>2, <1>3, <1>4, SizeMaxIs DEF Plus
<1>6. Plus(a, size') < r.k => size' <= r.k /\ size' # SizeMax
  BY <1>1, <1>2, <1>3, <1>5, SizeMaxIs
<1>7. ~(Plus(a, size') < r.k) => Plus(a, size') >= r.k
  BY <1>1, <1>5, SizeMaxIs
<1>8. QED
  BY <1>2, <1>3, <1>6, <1>7, EmptyIs DEF a

\* Descend: a node `none' has reached is never asked for more.
LEMMA DescendStep ==
  ASSUME FewPaths, Inv, NEW x \in ToSet(Pred(e.to.src)), Descend(x)
  PROVE  Inv'
<1> DEFINE r == [to |-> x, k |-> e.k - pq[e.to].count]
<1>1. /\ pc = "descend"
      /\ pq' = [pq EXCEPT ![x] = Move(@, sq[x])] /\ sq' = [sq EXCEPT ![x] = Empty]
      /\ stack' = Append(stack, e) /\ GoOn(r, pq')
      /\ k' = k /\ prune' = prune /\ rr' = rr /\ batch' = batch /\ next' = next /\ done' = done
  BY DEF Descend, round
<1>2. got' = Empty
  BY <1>1 DEF GoOn
<1>3. x \in Edges /\ x.dst = e.to.src /\ x.src < e.to.src /\ x.src \in Nat /\ e.to.src \in Nat
  <2>1. e.to.src \in Nodes
    BY LoadIs DEF Inv
  <2>2. x \in Edges /\ x.dst = e.to.src
    BY <2>1, PredIs
  <2>3. QED
    BY <2>2, EdgeIs
<1>4. PICK drawn \in [Edges \cup {Out} -> Nat] : Covered(drawn)
  BY DEF Inv, BudgetInv
<1>5. /\ pq' \in [Edges \cup {Out} -> Queues] /\ \A y \in Edges \cup {Out} : Sound(pq'[y])
      /\ sq' \in [Edges -> Queues] /\ \A y \in Edges : Sound(sq'[y])
      /\ Sound(got') /\ Covered(drawn)'
      /\ HasNone(pq'[x].paths) <=> HasNone(pq[x].paths) \/ HasNone(sq[x].paths)
      /\ \A y \in Edges \cup {Out} : y # x => pq'[y] = pq[y]
      /\ \A y \in Edges : y # x => sq'[y] = sq[y]
  BY <1>1, <1>2, <1>3, <1>4, CollectIs DEF Inv
<1>6. r \in Requests /\ r.to = x /\ r.k \in 0..SizeMax
  <2>1. e.k \in 0..SizeMax /\ pq[e.to].count \in 0..SizeMax
    BY LoadIs DEF Inv
  <2>2. pq[e.to].count <= e.k
    BY <1>1 DEF Inv, AskInv
  <2>3. e.k - pq[e.to].count \in 0..SizeMax
    BY <2>1, <2>2, SizeMaxIs
  <2>4. QED
    BY <1>3, <2>3 DEF Requests
<1> HIDE DEF r
<1>7. /\ e' = r /\ ~HasNone(got'.paths) /\ size' \in 0..SizeMax /\ size' = pq'[x].count
      /\ pc' \in {"descend", "draw"}
      /\ pc' = "descend" => size' <= r.k /\ size' # SizeMax
      /\ pc' = "draw" => Plus(ShortestSize(pq', x.src), size') >= r.k
  BY <1>1, <1>5, <1>6, GoOnIs
<1>8. /\ stack \in Seq(Requests) /\ e \in Requests
      /\ stack' \in Seq(Requests) /\ Len(stack') = Len(stack) + 1 /\ Len(stack) \in Nat
      /\ \A n \in 1..Len(stack) : stack'[n] = stack[n]
      /\ stack'[Len(stack) + 1] = e
  <2>1. stack \in Seq(Requests) /\ e \in Requests
    BY DEF Inv, TypeInv
  <2>2. QED
    BY <1>1, <2>1, Longer
<1>9. TypeInv'
  BY <1>1, <1>5, <1>6, <1>7, <1>8 DEF TypeInv, Inv
<1>10. BudgetInv'
  BY <1>5 DEF BudgetInv
<1>11. \A i \in 1..Len(stack') : i \in 1..Len(stack) \/ (i = Len(stack) + 1 /\ stack'[i] = e)
  BY <1>8
<1>12. /\ \A i \in 1..Len(stack) : stack[i].to.src > e.to.src
       /\ \A i \in 1..Len(stack), j \in 1..Len(stack) : j < i => stack[j].to.src > stack[i].to.src
       /\ \A i \in 1..Len(stack) : stack[i].to.src \in Nat
  <2>1. \A i \in 1..Len(stack) : stack[i] \in Requests
    BY <1>8
  <2>2. QED
    BY <2>1, SideIs DEF Inv, AskInv, Requests
<1>13. AskInv'
  <2>1. \A i \in 1..Len(stack') : stack'[i].to.src > x.src
    BY <1>3, <1>8, <1>11, <1>12
  <2>2. ASSUME NEW i \in 1..Len(stack'), NEW j \in 1..Len(stack'), j < i
        PROVE  stack'[j].to.src > stack'[i].to.src
    <3>1. j \in 1..Len(stack)
      BY <1>8, <2>2
    <3>2. QED
      BY <1>8, <1>11, <1>12, <2>2, <3>1
  <2>3. QED
    BY <1>6, <1>7, <2>1, <2>2 DEF AskInv
<1>14. PICK N \in SUBSET Nodes : Reached(N)
  BY DEF Inv, NoneInv
<1>15. /\ 1 \in N /\ e.to.src \notin N /\ FinNd \notin N /\ done = FALSE
       /\ \A y \in Edges : y.src \in N => HasNone(pq[y].paths) \/ HasNone(sq[y].paths) \/ y.dst \in N
       /\ \A i \in 1..Len(stack) : stack[i].to.src \notin N
  BY <1>1, <1>14 DEF Reached
<1>16. x.src \in N => size' = SizeMax
  BY <1>3, <1>5, <1>7, <1>15, NoneHeld
<1>17. Reached(N)'
  <2>1. \A y \in Edges : y.src \in N => HasNone(pq'[y].paths) \/ HasNone(sq'[y].paths) \/ y.dst \in N
    BY <1>5, <1>15
  <2>2. pc' = "descend" => e'.to.src \notin N
    BY <1>6, <1>7, <1>16
  <2>3. pc' = "draw" => e'.to.src \notin N \/ size' >= e'.k
    BY <1>6, <1>7, <1>16, SizeMaxIs
  <2>4. \A i \in 1..Len(stack') : stack'[i].to.src \notin N
    BY <1>8, <1>11, <1>15
  <2>5. QED
    BY <1>1, <1>15, <2>1, <2>2, <2>3, <2>4 DEF Reached
<1>18. QED
  BY <1>9, <1>10, <1>13, <1>14, <1>17 DEF Inv, NoneInv

\* sizet addition is commutative as next_k() uses it, and monotonic.
LEMMA PlusOrder ==
  ASSUME NEW a \in 0..SizeMax, NEW b \in 0..SizeMax, NEW c \in 0..SizeMax
  PROVE  /\ Plus(a, Plus(b, c)) = Plus(Plus(a, c), b)
         /\ Plus(a, b) \in 0..SizeMax /\ b <= Plus(b, c)
         /\ a <= c => Plus(a, b) <= Plus(c, b)
         /\ b <= c => Plus(a, b) <= Plus(a, c)
         /\ Plus(b, SizeMax) = SizeMax
BY SizeMaxIs DEF Plus

\* The next scan begins at an edge into the node.
LEMMA AdvanceIs ==
  ASSUME TypeInv, NEW nd \in Nodes, Pred(nd) # <<>>, NEW x, Advance(nd, x)
  PROVE  /\ rr' \in [Nodes -> Nat]
         /\ \A n \in Nodes : Pred(n) # <<>> => rr'[n] \in 1..Len(Pred(n))
<1> DEFINE s == Pred(nd)
           n == Len(s)
           I == {i \in 1..n : s[i] = x}
           b == (SelectInSeq(s, LAMBDA y : y = x) % n) + 1
<1>1. n \in Nat \ {0}
  <2>1. Pred(nd) \in Seq(Edges)
    BY PredIs
  <2>2. QED
    BY <2>1
<1>2. b = ((IF I # {} THEN Min(I) ELSE 0) % n) + 1
  BY DEF SelectInSeq
<1>3. rr' = [rr EXCEPT ![nd] = b]
  BY DEF Advance
<1> HIDE DEF s, n, b
<1>4. I \in SUBSET Nat
  OBVIOUS
<1> HIDE DEF I
<1>5. b \in 1..n /\ b \in Nat
  <2>1. ((IF I # {} THEN Min(I) ELSE 0) % n) + 1 \in 1..n
    BY <1>1, <1>4, NextTurn
  <2>2. b \in 1..n
    BY <1>2, <2>1
  <2>3. 1..n \subseteq Nat
    BY <1>1
  <2>4. QED
    BY <2>2, <2>3
<1>6. b \in 1..Len(Pred(nd))
  BY <1>5 DEF s, n
<1>7. QED
  BY <1>3, <1>5, <1>6 DEF TypeInv

\* There is a path in a queue that says it holds some.
LEMMA FrontIs ==
  ASSUME NEW q, Sound(q), q.count > 0
  PROVE  q.paths # <<>>
BY HeldIs DEF Sound, Queues

\* next_k() draws only where there is enough to draw from.
LEMMA ReadyIs ==
  ASSUME TypeInv, AskInv, pc = "draw", size < e.k
  PROVE  /\ Pred(e.to.src) # <<>>
         /\ \A y \in ToSet(Pred(e.to.src)) : pq[y].paths # <<>>
         /\ Plus(ShortestSize(pq, e.to.src), size) >= e.k
<1> DEFINE a == ShortestSize(pq, e.to.src)
<1>1. /\ e.to.src \in Nodes /\ e.k \in 0..SizeMax /\ size \in 0..SizeMax
      /\ pq \in [Edges \cup {Out} -> Queues] /\ \A y \in Edges \cup {Out} : Sound(pq[y])
  BY LoadIs DEF TypeInv
<1>2. Plus(a, size) >= e.k
  <2>1. size >= e.k \/ Plus(a, size) >= e.k
    BY DEF AskInv
  <2>2. ~(size >= e.k)
    BY <1>1, SizeMaxIs
  <2>3. QED
    BY <2>1, <2>2
<1>3. /\ a \in 0..SizeMax /\ (a > 0 => Pred(e.to.src) # <<>>)
      /\ \A y \in ToSet(Pred(e.to.src)) : a <= pq[y].count
  BY <1>1, ShortestSizeIs
<1> HIDE DEF a
<1>4. a > 0
  BY <1>1, <1>2, <1>3, SizeMaxIs DEF Plus
<1>5. ASSUME NEW y \in ToSet(Pred(e.to.src)) PROVE pq[y].paths # <<>>
  <2>1. y \in Edges
    BY <1>1, PredIs
  <2>2. Sound(pq[y]) /\ pq[y].count \in 0..SizeMax
    BY <1>1, <2>1 DEF Queues
  <2>3. pq[y].count > 0
    BY <1>3, <1>4, <2>2
  <2>4. QED
    BY <2>2, <2>3, FrontIs
<1>6. QED
  BY <1>2, <1>3, <1>4, <1>5 DEF a

\* Draw: what is left still makes up for what is missing.
LEMMA DrawStep ==
  ASSUME FewPaths, Inv, NEW x \in ToSet(Pred(e.to.src)), Draw(x)
  PROVE  Inv'
<1> DEFINE h == Head(pq[x].paths)
           c == h.count
           nd == e.to.src
<1>1. /\ pc = "draw" /\ size < e.k /\ pq' = [pq EXCEPT ![x] = Take(@)]
      /\ Advance(nd, x) /\ got' = Move(got, Queue(Extend(h, x, dead))) /\ size' = Plus(size, c)
      /\ pc' = pc /\ k' = k /\ prune' = prune /\ sq' = sq /\ e' = e /\ stack' = stack
      /\ batch' = batch /\ next' = next /\ done' = done
  BY DEF Draw, round
<1>2. TypeInv /\ AskInv
  BY DEF Inv
<1>3. /\ Pred(nd) # <<>> /\ pq[x].paths # <<>> /\ Plus(ShortestSize(pq, nd), size) >= e.k
  BY <1>1, <1>2, ReadyIs
<1>4. nd \in Nodes /\ Pred(nd) \in Seq(Edges) /\ e.k \in 0..SizeMax
  <2>1. nd \in Nodes /\ e.k \in 0..SizeMax
    BY <1>2, LoadIs
  <2>2. QED
    BY <2>1, PredIs
<1>5. PICK drawn \in [Edges \cup {Out} -> Nat] : Covered(drawn)
  BY DEF Inv, BudgetInv
<1>6. /\ x \in Edges /\ x.dst = nd
      /\ pq' \in [Edges \cup {Out} -> Queues] /\ \A y \in Edges \cup {Out} : Sound(pq'[y])
      /\ Sound(got') /\ \E more \in [Edges \cup {Out} -> Nat] : Covered(more)'
      /\ HasNone(pq[x].paths) <=> h.kind = "none" \/ HasNone(pq'[x].paths)
      /\ HasNone(got'.paths) <=> HasNone(got.paths) \/ h.kind = "none"
      /\ \A y \in Edges \cup {Out} : y # x => pq'[y] = pq[y]
      /\ h \in Paths /\ pq[x].count = Plus(pq'[x].count, c)
  <2>1. pc \in {"draw", "sweep"}
    BY <1>1
  <2>2. QED
    BY <1>1, <1>2, <1>3, <1>5, <2>1, DrawnIs
<1>7. c \in 0..SizeMax /\ size \in 0..SizeMax /\ \A y \in Edges : pq[y].count \in 0..SizeMax /\ pq'[y].count \in 0..SizeMax
  <2>1. c \in 0..SizeMax
    BY <1>6 DEF Paths, PathType
  <2>2. \A y \in Edges : pq[y].count \in 0..SizeMax /\ pq'[y].count \in 0..SizeMax
    BY <1>2, <1>6 DEF TypeInv, Queues
  <2>3. QED
    BY <1>2, <2>1, <2>2 DEF TypeInv
<1>8. rr' \in [Nodes -> Nat] /\ \A n \in Nodes : Pred(n) # <<>> => rr'[n] \in 1..Len(Pred(n))
  BY <1>1, <1>2, <1>3, <1>4, AdvanceIs
<1> HIDE DEF h, c, nd
<1>9. size' \in 0..SizeMax /\ size <= size'
  BY <1>1, <1>7, PlusOrder
<1>10. TypeInv'
  BY <1>1, <1>2, <1>6, <1>8, <1>9 DEF TypeInv
<1>11. BudgetInv'
  BY <1>6 DEF BudgetInv
<1>12. Plus(ShortestSize(pq', nd), size') >= e.k
  <2> DEFINE a == ShortestSize(pq, nd)
             b == ShortestSize(pq', nd)
  <2>1. pq \in [Edges \cup {Out} -> Queues] /\ ToSet(Pred(nd)) = {y \in Edges : y.dst = nd}
    BY <1>2, <1>4, PredIs DEF TypeInv
  <2>2. a \in 0..SizeMax /\ \A y \in ToSet(Pred(nd)) : a <= pq[y].count
    BY <1>4, <2>1, ShortestSizeIs
  <2>3. b \in 0..SizeMax /\ \E y \in ToSet(Pred(nd)) : b = pq'[y].count
    BY <1>3, <1>4, <1>6, ShortestSizeIs
  <2> HIDE DEF a, b
  <2>4. PICK y \in ToSet(Pred(nd)) : b = pq'[y].count
    BY <2>3
  <2>5. y \in Edges /\ x \in ToSet(Pred(nd)) /\ Plus(a, size) >= e.k
    BY <1>3, <1>6, <2>1 DEF a
  <2>6. CASE y = x
    <3>1. Plus(b, Plus(size, c)) = Plus(Plus(b, c), size)
      BY <1>7, <2>3, PlusOrder
    <3>2. Plus(b, size') = Plus(pq[x].count, size)
      BY <1>1, <1>6, <2>4, <2>6, <3>1
    <3>3. Plus(a, size) <= Plus(pq[x].count, size)
      BY <1>6, <1>7, <2>2, <2>5, PlusOrder
    <3>4. Plus(a, size) \in 0..SizeMax /\ Plus(pq[x].count, size) \in 0..SizeMax
      BY <1>6, <1>7, <2>2, PlusOrder
    <3>5. Plus(b, size') >= e.k
      BY <1>4, <2>5, <3>2, <3>3, <3>4, SizeMaxIs
    <3>6. QED
      BY <3>5 DEF b
  <2>7. CASE y # x
    <3>1. b = pq[y].count /\ a <= b
      BY <1>6, <2>2, <2>4, <2>5, <2>7
    <3>2. Plus(a, size) <= Plus(b, size) /\ Plus(b, size) <= Plus(b, size')
      BY <1>7, <1>9, <2>2, <2>3, <3>1, PlusOrder
    <3>3. Plus(a, size) \in 0..SizeMax /\ Plus(b, size) \in 0..SizeMax /\ Plus(b, size') \in 0..SizeMax
      BY <1>7, <1>9, <2>2, <2>3, PlusOrder
    <3>4. Plus(b, size') >= e.k
      BY <1>4, <2>5, <3>2, <3>3, SizeMaxIs
    <3>5. QED
      BY <3>4 DEF b
  <2>8. QED
    BY <2>6, <2>7
<1>13. AskInv'
  BY <1>1, <1>2, <1>12 DEF AskInv, nd
<1>14. PICK N \in SUBSET Nodes : Reached(N)
  BY DEF Inv, NoneInv
<1>15. /\ 1 \in N /\ nd \notin N /\ FinNd \notin N /\ done = FALSE
       /\ \A y \in Edges : y.src \in N =>
            HasNone(pq[y].paths) \/ HasNone(sq[y].paths) \/ y.dst \in N \/ (y.dst = nd /\ HasNone(got.paths))
       /\ \A i \in 1..Len(stack) : stack[i].to.src \notin N
  <2>1. ~(size >= e.k)
    BY <1>1, <1>4, <1>7, SizeMaxIs
  <2>2. QED
    BY <1>1, <1>14, <2>1 DEF Reached, nd
<1>16. Reached(N)'
  <2>1. \A y \in Edges : y.src \in N =>
          HasNone(pq'[y].paths) \/ HasNone(sq'[y].paths) \/ y.dst \in N \/ (y.dst = nd /\ HasNone(got'.paths))
    BY <1>1, <1>6, <1>15
  <2>2. QED
    BY <1>1, <1>15, <2>1 DEF Reached, nd
<1>17. QED
  BY <1>10, <1>11, <1>13, <1>14, <1>16 DEF Inv, NoneInv

\* Where `none' waits once what was drawn for e has been offered: if it was
\* among that, it has reached the node where e begins.
LEMMA CarriedIs ==
  ASSUME FewPaths, TypeInv, NEW drawn, Covered(drawn), pc \in {"draw", "sweep"}, Offer(e.to),
         got' = Empty \/ pc' \notin {"draw", "sweep"},
         NEW N \in SUBSET Nodes, Reached(N)
  PROVE  LET M == IF HasNone(got.paths) THEN N \cup {e.to.src} ELSE N
         IN  /\ M \in SUBSET Nodes /\ 1 \in M
             /\ \A y \in Edges : y.src \in M =>
                  HasNone(pq'[y].paths) \/ HasNone(sq'[y].paths) \/ y.dst \in M
<1> DEFINE M == IF HasNone(got.paths) THEN N \cup {e.to.src} ELSE N
<1>1. /\ \A y \in Edges \cup {Out} : y # e.to => pq'[y] = pq[y]
      /\ HasNone(pq'[e.to].paths) <=> HasNone(pq[e.to].paths) \/ HasNone(got.paths)
      /\ \A y \in Edges : HasNone(sq[y].paths) => HasNone(sq'[y].paths)
      /\ \A y \in Edges : y.src = e.to.src /\ HasNone(got.paths) =>
           HasNone(pq'[y].paths) \/ HasNone(sq'[y].paths)
  BY OfferIs
<1>2. e.to.src \in Nodes
  BY LoadIs
<1>3. /\ 1 \in N
      /\ \A y \in Edges : y.src \in N =>
           \/ HasNone(pq[y].paths) \/ HasNone(sq[y].paths) \/ y.dst \in N
           \/ y.dst = e.to.src /\ HasNone(got.paths)
  BY DEF Reached
<1>4. ASSUME NEW y \in Edges, y.src \in M
      PROVE  HasNone(pq'[y].paths) \/ HasNone(sq'[y].paths) \/ y.dst \in M
  <2>1. CASE y.src \in N
    <3>1. HasNone(pq[y].paths) => HasNone(pq'[y].paths)
      BY <1>1
    <3>2. QED
      BY <1>1, <1>3, <2>1, <3>1
  <2>2. CASE y.src \notin N
    BY <1>1, <1>4, <2>2
  <2>3. QED
    BY <2>1, <2>2
<1>5. M \in SUBSET Nodes /\ 1 \in M
  BY <1>2, <1>3
<1>6. QED
  BY <1>4, <1>5

\* The calls of next_k() that are under way, each for a node behind the next
LEMMA StackIs ==
  ASSUME TypeInv, AskInv
  PROVE  /\ stack \in Seq(Requests) /\ Len(stack) \in Nat /\ e \in Requests
         /\ \A i \in 1..Len(stack) :
              /\ stack[i] \in Requests /\ stack[i].to.src \in Nodes /\ stack[i].to.src \in Nat
              /\ stack[i].to.src > e.to.src
         /\ \A i \in 1..Len(stack), j \in 1..Len(stack) :
              j < i => stack[j].to.src > stack[i].to.src
<1>1. stack \in Seq(Requests) /\ Len(stack) \in Nat /\ e \in Requests
  BY DEF TypeInv
<1>2. \A i \in 1..Len(stack) : stack[i] \in Requests
  BY <1>1
<1>3. QED
  BY <1>1, <1>2, SideIs DEF AskInv, Requests

\* Ascend: the requests that wait are all of nodes further behind.
LEMMA AscendStep ==
  ASSUME FewPaths, Inv, Ascend
  PROVE  Inv'
<1> DEFINE r == Last(stack)
           n == Len(stack)
<1>1. /\ pc = "draw" /\ stack # <<>> /\ Offer(e.to) /\ stack' = Front(stack) /\ GoOn(r, pq')
      /\ k' = k /\ prune' = prune /\ rr' = rr /\ batch' = batch /\ next' = next /\ done' = done
  BY DEF Ascend, round
<1>2. TypeInv /\ AskInv
  BY DEF Inv
<1>3. got' = Empty
  BY <1>1 DEF GoOn
<1>4. PICK drawn \in [Edges \cup {Out} -> Nat] : Covered(drawn)
  BY DEF Inv, BudgetInv
<1>5. PICK N \in SUBSET Nodes : Reached(N)
  BY DEF Inv, NoneInv
<1>6. /\ pq' \in [Edges \cup {Out} -> Queues] /\ \A y \in Edges \cup {Out} : Sound(pq'[y])
      /\ sq' \in [Edges -> Queues] /\ \A y \in Edges : Sound(sq'[y])
      /\ Covered(drawn)'
  BY <1>1, <1>2, <1>3, <1>4, OfferIs
<1>7. /\ stack \in Seq(Requests) /\ n \in Nat \ {0} /\ r = stack[n] /\ r \in Requests
      /\ stack' \in Seq(Requests) /\ Len(stack') = n - 1
      /\ \A i \in 1..n - 1 : stack'[i] = stack[i]
  <2>1. stack \in Seq(Requests)
    BY <1>2, StackIs
  <2>2. QED
    BY <1>1, <2>1, Shorter
<1> HIDE DEF r
<1>8. /\ e' = r /\ Sound(got') /\ size' \in 0..SizeMax /\ size' = pq'[r.to].count
      /\ pc' \in {"descend", "draw"}
      /\ pc' = "descend" => size' <= r.k
      /\ pc' = "draw" => Plus(ShortestSize(pq', r.to.src), size') >= r.k
  BY <1>1, <1>6, <1>7, GoOnIs
<1>9. TypeInv'
  BY <1>1, <1>2, <1>6, <1>7, <1>8 DEF TypeInv
<1>10. BudgetInv'
  BY <1>6 DEF BudgetInv
<1>11. /\ \A i \in 1..n : stack[i].to.src \in Nat /\ stack[i].to.src > e.to.src /\ stack[i].to.src \in Nodes
       /\ \A i \in 1..n, j \in 1..n : j < i => stack[j].to.src > stack[i].to.src
  BY <1>2, StackIs
<1> HIDE DEF n
<1>12. /\ n \in 1..n /\ \A i \in 1..n - 1 : i \in 1..n /\ i < n
       /\ \A i \in 1..Len(stack') : i \in 1..n - 1
  BY <1>7
<1>13. AskInv'
  <2>1. \A i \in 1..Len(stack') : stack'[i].to.src > r.to.src
    BY <1>7, <1>11, <1>12
  <2>2. \A i \in 1..Len(stack'), j \in 1..Len(stack') : j < i => stack'[j].to.src > stack'[i].to.src
    BY <1>7, <1>11, <1>12
  <2>3. QED
    BY <1>8, <2>1, <2>2 DEF AskInv
<1>14. PICK M \in SUBSET Nodes : M = IF HasNone(got.paths) THEN N \cup {e.to.src} ELSE N
  <2>1. e.to.src \in Nodes
    BY <1>2, LoadIs
  <2>2. QED
    BY <2>1
<1>15. /\ 1 \in M
       /\ \A y \in Edges : y.src \in M =>
            HasNone(pq'[y].paths) \/ HasNone(sq'[y].paths) \/ y.dst \in M
  BY <1>1, <1>2, <1>3, <1>4, <1>5, <1>14, CarriedIs
<1>16. \A i \in 1..n : stack[i].to.src \notin M
  <2>1. \A i \in 1..n : stack[i].to.src \notin N
    BY <1>5 DEF Reached, n
  <2>2. \A i \in 1..n : stack[i].to.src # e.to.src
    <3>1. e.to.src \in Nat
      BY <1>2, SideIs, LoadIs
    <3>2. QED
      BY <1>11, <3>1
  <2>3. QED
    BY <1>14, <2>1, <2>2
<1>17. FinNd \notin M /\ done' = FALSE
  <2>1. FinNd \notin N /\ done = FALSE
    BY <1>1, <1>5 DEF Reached
  <2>2. FinNd # e.to.src
    <3>1. FinNd \in Nat /\ stack[n].to.src <= FinNd /\ stack[n].to.src > e.to.src /\ e.to.src \in Nat
          /\ stack[n].to.src \in Nat
      <4>1. Nodes = 1..FinNd /\ FinNd \in Nat
        BY GraphAssumption DEF Nodes
      <4>2. e.to.src \in Nat
        BY <1>2, SideIs, LoadIs
      <4>3. stack[n].to.src \in 1..FinNd /\ stack[n].to.src > e.to.src
        BY <1>11, <1>12, <4>1
      <4>4. QED
        BY <4>1, <4>2, <4>3
    <3>2. QED
      BY <3>1
  <2>3. QED
    BY <1>1, <1>14, <2>1, <2>2
<1>18. Reached(M)'
  <2>1. e'.to.src \notin M
    BY <1>7, <1>8, <1>12, <1>16
  <2>2. \A i \in 1..Len(stack') : stack'[i].to.src \notin M
    BY <1>7, <1>12, <1>16
  <2>3. QED
    BY <1>8, <1>15, <1>17, <2>1, <2>2 DEF Reached
<1>19. QED
  BY <1>9, <1>10, <1>13, <1>14, <1>18 DEF Inv, NoneInv

\* Delegate: `none' arrives at fin_nd in a batch.
LEMMA DelegateStep ==
  ASSUME FewPaths, Inv, Delegate
  PROVE  Inv'
<1>1. /\ pc = "draw" /\ stack = <<>> /\ Offer(e.to) /\ batch' = pq'[Out].paths /\ next' = 1
      /\ pc' = "check" /\ e' = e /\ got' = got /\ size' = size /\ stack' = stack
      /\ k' = k /\ prune' = prune /\ rr' = rr /\ done' = done
  BY DEF Delegate
<1>2. TypeInv /\ AskInv
  BY DEF Inv
<1>3. PICK drawn \in [Edges \cup {Out} -> Nat] : Covered(drawn)
  BY DEF Inv, BudgetInv
<1>4. PICK N \in SUBSET Nodes : Reached(N)
  BY DEF Inv, NoneInv
<1>5. /\ pq' \in [Edges \cup {Out} -> Queues] /\ \A y \in Edges \cup {Out} : Sound(pq'[y])
      /\ sq' \in [Edges -> Queues] /\ \A y \in Edges : Sound(sq'[y])
      /\ Covered(drawn)'
      /\ HasNone(pq'[e.to].paths) <=> HasNone(pq[e.to].paths) \/ HasNone(got.paths)
  BY <1>1, <1>2, <1>3, OfferIs
<1>6. batch' \in Seq(Paths)
  <2>1. pq'[Out] \in Queues
    BY <1>5, SideIs
  <2>2. QED
    BY <1>1, <2>1 DEF Queues
<1>7. TypeInv'
  BY <1>1, <1>2, <1>5, <1>6 DEF TypeInv
<1>8. BudgetInv'
  BY <1>5 DEF BudgetInv
<1>9. AskInv'
  BY <1>1, <1>2 DEF AskInv
<1>10. PICK M \in SUBSET Nodes : M = IF HasNone(got.paths) THEN N \cup {e.to.src} ELSE N
  <2>1. e.to.src \in Nodes
    BY <1>2, LoadIs
  <2>2. QED
    BY <2>1
<1>11. /\ 1 \in M
       /\ \A y \in Edges : y.src \in M =>
            HasNone(pq'[y].paths) \/ HasNone(sq'[y].paths) \/ y.dst \in M
  BY <1>1, <1>2, <1>3, <1>4, <1>10, CarriedIs
<1>12. FinNd \in M => \E i \in 1..Len(batch') : 1 <= i /\ batch'[i].kind = "none"
  <2>1. SUFFICES ASSUME FinNd \in M PROVE HasNone(batch')
    <3>1. HasNone(batch') => \E i \in 1..Len(batch') : 1 <= i /\ batch'[i].kind = "none"
      BY <1>6 DEF HasNone
    <3>2. QED
      BY <3>1
  <2>2. FinNd \notin N
    BY <1>1, <1>4 DEF Reached
  <2>3. HasNone(got.paths) /\ FinNd = e.to.src
    BY <1>10, <2>1, <2>2
  <2>4. e.to = Out
    BY <1>2, <2>3, LoadIs, SideIs
  <2>5. QED
    BY <1>1, <1>5, <2>3, <2>4
<1>13. Reached(M)'
  BY <1>1, <1>11, <1>12 DEF Reached
<1>14. QED
  BY <1>7, <1>8, <1>9, <1>10, <1>13 DEF Inv, NoneInv

\* The queues are as they were, or emptied, and nothing is being drawn.
LEMMA CoveredStays ==
  ASSUME TypeInv, NEW drawn, Covered(drawn), sq' = sq,
         pq' = pq \/ pq' = [pq EXCEPT ![Out] = Empty],
         pc' \notin {"draw", "sweep"} \/ (pc' = pc /\ e' = e /\ got' = got)
  PROVE  Covered(drawn)'
<1> SUFFICES ASSUME NEW y \in Edges \cup {Out}
    PROVE  Weight(pq'[y].paths) + Offered(y)' + Pending(y)' + drawn[y] <= Arrived(drawn, y.src)
  BY DEF Covered
<1>1. /\ Weight(pq[y].paths) \in Nat /\ Offered(y) \in Nat /\ Pending(y) \in Nat
      /\ drawn[y] \in Nat /\ Arrived(drawn, y.src) \in Nat
      /\ Weight(pq[y].paths) + Offered(y) + Pending(y) + drawn[y] <= Arrived(drawn, y.src)
  <2>1. drawn \in [Edges \cup {Out} -> Nat]
        /\ Weight(pq[y].paths) + Offered(y) + Pending(y) + drawn[y] <= Arrived(drawn, y.src)
    BY DEF Covered
  <2>2. Arrived(drawn, y.src) \in Nat
    BY <2>1, IntoNat DEF Arrived
  <2>3. QED
    BY <2>1, <2>2, LoadIs
<1>2. Offered(y)' = Offered(y)
  BY DEF Offered
<1>3. Weight(pq'[y].paths) \in {0, Weight(pq[y].paths)}
  <2>1. pq'[y] = pq[y] \/ pq'[y] = Empty
    BY DEF TypeInv
  <2>2. QED
    BY <2>1, EmptyIs
<1>4. Pending(y)' \in {0, Pending(y)}
  BY DEF Pending
<1>5. \A a, b, c, d, n \in Nat : a + b + c + d <= n =>
        0 + b + c + d <= n /\ a + b + 0 + d <= n /\ 0 + b + 0 + d <= n
  OBVIOUS
<1>6. QED
  BY <1>1, <1>2, <1>3, <1>4, <1>5

\* Begin: a new round begins with an empty queue of complete paths.
LEMMA BeginStep ==
  ASSUME Inv, Begin
  PROVE  Inv'
<1>1. /\ pc = "pull" /\ pc' = "descend" /\ e' = [to |-> Out, k |-> k]
      /\ pq' = [pq EXCEPT ![Out] = Empty] /\ sq' = sq /\ rr' = rr /\ stack' = stack
      /\ got' = got /\ size' = size /\ k' = k /\ prune' = prune
      /\ batch' = batch /\ next' = next /\ done' = done
  BY DEF Begin, round
<1>2. TypeInv /\ AskInv
  BY DEF Inv
<1>3. k \in 0..SizeMax
  <2>1. k \in Nat /\ k <= 30 * Parallelism
    BY <1>2 DEF TypeInv
  <2>2. QED
    BY <2>1, ParallelismAssumption
<1>4. /\ pq' \in [Edges \cup {Out} -> Queues] /\ \A y \in Edges \cup {Out} : Sound(pq'[y])
      /\ pq'[Out] = Empty /\ \A y \in Edges : pq'[y] = pq[y]
  <2>1. Sound(Empty) /\ Empty \in Queues
    BY EmptyIs DEF Sound
  <2>2. QED
    BY <1>1, <1>2, <2>1, SideIs DEF TypeInv
<1>5. e' \in Requests /\ e'.to = Out /\ e'.k = k
  BY <1>1, <1>3, SideIs DEF Requests
<1>6. TypeInv'
  BY <1>1, <1>2, <1>4, <1>5 DEF TypeInv
<1>7. BudgetInv'
  <2>1. PICK drawn \in [Edges \cup {Out} -> Nat] : Covered(drawn)
    BY DEF Inv, BudgetInv
  <2>2. Covered(drawn)'
    BY <1>1, <1>2, <2>1, CoveredStays
  <2>3. QED
    BY <2>2 DEF BudgetInv
<1>8. AskInv'
  <2>1. stack = <<>>
    BY <1>1, <1>2 DEF AskInv
  <2>2. pq'[e'.to].count <= e'.k
    BY <1>3, <1>4, <1>5, EmptyIs
  <2>3. QED
    BY <1>1, <2>1, <2>2 DEF AskInv
<1>9. PICK N \in SUBSET Nodes : Reached(N)
  BY DEF Inv, NoneInv
<1>10. Reached(N)'
  <2>1. FinNd \notin N /\ done = FALSE
    BY <1>1, <1>9 DEF Reached
  <2>2. \A y \in Edges : y.src \in N => HasNone(pq'[y].paths) \/ HasNone(sq'[y].paths) \/ y.dst \in N
    BY <1>1, <1>4, <1>9 DEF Reached
  <2>3. \A i \in 1..Len(stack') : stack'[i].to.src \notin N
    BY <1>1, <1>9 DEF Reached
  <2>4. 1 \in N /\ e'.to.src \notin N
    BY <1>5, <1>9, <2>1, SideIs DEF Reached
  <2>5. QED
    BY <1>1, <2>1, <2>2, <2>3, <2>4 DEF Reached
<1>11. QED
  BY <1>6, <1>7, <1>8, <1>9, <1>10 DEF Inv, NoneInv

\* Check and Finished leave the queues alone.
LEMMA RestStep ==
  ASSUME Inv, UNCHANGED search, pc' = pc, k' = k, prune' = prune,
         batch' = batch, next' = next, done' = done
  PROVE  Inv'
<1>1. /\ pq' = pq /\ sq' = sq /\ rr' = rr /\ e' = e /\ stack' = stack /\ got' = got /\ size' = size
  BY DEF search
<1>2. TypeInv' /\ AskInv'
  BY <1>1 DEF Inv, TypeInv, AskInv
<1>3. BudgetInv'
  <2>1. PICK drawn \in [Edges \cup {Out} -> Nat] : Covered(drawn)
    BY DEF Inv, BudgetInv
  <2>2. Covered(drawn)'
    BY <1>1, <2>1, CoveredStays DEF Inv
  <2>3. QED
    BY <2>2 DEF BudgetInv
<1>4. NoneInv'
  BY <1>1 DEF Inv, NoneInv, Reached
<1>5. QED
  BY <1>2, <1>3, <1>4 DEF Inv

\* Report: `done' is set at the latest by `none'.
LEMMA ReportStep ==
  ASSUME Inv, Report
  PROVE  Inv'
<1>1. /\ pc = "check" /\ next' = next + 1
      /\ done' = (done \/ index' >= count \/ batch[next].kind = "none")
      /\ pc' = pc /\ k' = k /\ prune' = prune /\ batch' = batch
      /\ pq' = pq /\ sq' = sq /\ rr' = rr /\ e' = e /\ stack' = stack /\ got' = got /\ size' = size
  BY DEF Report, search
<1>2. done' \in BOOLEAN /\ (done = TRUE => done' = TRUE) /\ (batch[next].kind = "none" => done' = TRUE)
  BY <1>1
<1>3. TypeInv'
  BY <1>1, <1>2 DEF Inv, TypeInv
<1>4. AskInv'
  BY <1>1 DEF Inv, AskInv
<1>5. BudgetInv'
  <2>1. PICK drawn \in [Edges \cup {Out} -> Nat] : Covered(drawn)
    BY DEF Inv, BudgetInv
  <2>2. Covered(drawn)'
    BY <1>1, <2>1, CoveredStays DEF Inv
  <2>3. QED
    BY <2>2 DEF BudgetInv
<1>6. PICK N \in SUBSET Nodes : Reached(N)
  BY DEF Inv, NoneInv
<1>7. Reached(N)'
  <2>1. FinNd \in N => done' = TRUE \/ \E i \in 1..Len(batch) : next + 1 <= i /\ batch[i].kind = "none"
    <3>1. SUFFICES ASSUME FinNd \in N, done # TRUE
          PROVE  done' = TRUE \/ \E i \in 1..Len(batch) : next + 1 <= i /\ batch[i].kind = "none"
      BY <1>2
    <3>2. PICK i \in 1..Len(batch) : next <= i /\ batch[i].kind = "none"
      BY <1>6, <3>1 DEF Reached
    <3>3. CASE i = next
      BY <1>2, <3>2, <3>3
    <3>4. CASE i # next
      <4>1. next + 1 <= i
        BY <3>2, <3>4 DEF Inv, TypeInv
      <4>2. QED
        BY <3>2, <4>1
    <3>5. QED
      BY <3>3, <3>4
  <2>2. \A y \in Edges : y.src \in N => HasNone(pq[y].paths) \/ HasNone(sq[y].paths) \/ y.dst \in N
    BY <1>1, <1>6 DEF Reached
  <2>3. 1 \in N /\ \A i \in 1..Len(stack) : stack[i].to.src \notin N
    BY <1>6 DEF Reached
  <2>4. QED
    BY <1>1, <2>1, <2>2, <2>3 DEF Reached
<1>8. QED
  BY <1>3, <1>4, <1>5, <1>6, <1>7 DEF Inv, NoneInv

\* Close: every path of the batch has been reported.
LEMMA CloseStep ==
  ASSUME Inv, Close
  PROVE  Inv'
<1>1. /\ pc = "check" /\ next > Len(batch) /\ pc' = "prune" /\ prune' = 1 /\ batch' = <<>> /\ next' = 1
      /\ k' = k /\ done' = done
      /\ pq' = pq /\ sq' = sq /\ rr' = rr /\ e' = e /\ stack' = stack /\ got' = got /\ size' = size
  BY DEF Close, search
<1>2. batch' \in Seq(Paths) /\ batch \in Seq(Paths) /\ next \in Nat
  <2>1. <<>> \in Seq(Paths)
    OBVIOUS
  <2>2. QED
    BY <1>1, <2>1 DEF Inv, TypeInv
<1>3. TypeInv'
  BY <1>1, <1>2 DEF Inv, TypeInv
<1>4. AskInv'
  BY <1>1 DEF Inv, AskInv
<1>5. BudgetInv'
  <2>1. PICK drawn \in [Edges \cup {Out} -> Nat] : Covered(drawn)
    BY DEF Inv, BudgetInv
  <2>2. Covered(drawn)'
    BY <1>1, <2>1, CoveredStays DEF Inv
  <2>3. QED
    BY <2>2 DEF BudgetInv
<1>6. PICK N \in SUBSET Nodes : Reached(N)
  BY DEF Inv, NoneInv
<1>7. Reached(N)'
  <2>1. FinNd \in N => done = TRUE
    <3>1. \A i \in 1..Len(batch) : ~(next <= i)
      BY <1>1, <1>2
    <3>2. QED
      BY <1>6, <3>1 DEF Reached
  <2>2. \A y \in Edges : y.src \in N => HasNone(pq[y].paths) \/ HasNone(sq[y].paths) \/ y.dst \in N
    BY <1>1, <1>6 DEF Reached
  <2>3. 1 \in N /\ \A i \in 1..Len(stack) : stack[i].to.src \notin N
    BY <1>6 DEF Reached
  <2>4. QED
    BY <1>1, <2>1, <2>2, <2>3 DEF Reached
<1>8. QED
  BY <1>3, <1>4, <1>5, <1>6, <1>7 DEF Inv, NoneInv

\* Prune: push_impossible() comes to the next edge.
LEMMA PruneStep ==
  ASSUME FewPaths, Inv, Prune
  PROVE  Inv'
<1> DEFINE x == Links[prune]
<1>1. /\ pc = "prune" /\ prune <= Len(Links)
      /\ pq' = [pq EXCEPT ![x] = Move(@, sq[x])] /\ sq' = [sq EXCEPT ![x] = Empty]
      /\ e' = [to |-> x, k |-> 0] /\ got' = Empty /\ pc' = "sweep"
      /\ k' = k /\ prune' = prune /\ rr' = rr /\ stack' = stack /\ size' = size
      /\ batch' = batch /\ next' = next /\ done' = done
  BY DEF Prune, round
<1>2. TypeInv /\ AskInv
  BY DEF Inv
<1>3. x \in Edges
  <2>1. prune \in 1..Len(Links)
    BY <1>1, <1>2, LinksAre DEF TypeInv
  <2>2. QED
    BY <2>1, LinksAre
<1>4. PICK drawn \in [Edges \cup {Out} -> Nat] : Covered(drawn)
  BY DEF Inv, BudgetInv
<1>5. /\ pq' \in [Edges \cup {Out} -> Queues] /\ \A y \in Edges \cup {Out} : Sound(pq'[y])
      /\ sq' \in [Edges -> Queues] /\ \A y \in Edges : Sound(sq'[y])
      /\ Sound(got') /\ Covered(drawn)'
      /\ HasNone(pq'[x].paths) <=> HasNone(pq[x].paths) \/ HasNone(sq[x].paths)
      /\ \A y \in Edges \cup {Out} : y # x => pq'[y] = pq[y]
      /\ \A y \in Edges : y # x => sq'[y] = sq[y]
  <2> HIDE DEF x
  <2>1. QED
    BY <1>1, <1>2, <1>3, <1>4, CollectIs
<1> HIDE DEF x
<1>6. e' \in Requests
  BY <1>1, <1>3, SizeMaxIs DEF Requests
<1>7. TypeInv'
  BY <1>1, <1>2, <1>5, <1>6 DEF TypeInv
<1>8. BudgetInv'
  BY <1>5 DEF BudgetInv
<1>9. stack = <<>>
  BY <1>1, <1>2 DEF AskInv
<1>10. AskInv'
  BY <1>1, <1>9, EmptyIs DEF AskInv
<1>11. PICK N \in SUBSET Nodes : Reached(N)
  BY DEF Inv, NoneInv
<1>12. Reached(N)'
  <2>1. \A y \in Edges : y.src \in N => HasNone(pq[y].paths) \/ HasNone(sq[y].paths) \/ y.dst \in N
    BY <1>1, <1>11 DEF Reached
  <2>2. \A y \in Edges : y.src \in N => HasNone(pq'[y].paths) \/ HasNone(sq'[y].paths) \/ y.dst \in N
    BY <1>5, <2>1
  <2>3. 1 \in N /\ (FinNd \in N => done = TRUE)
    BY <1>1, <1>11 DEF Reached
  <2>4. QED
    BY <1>1, <1>9, <2>2, <2>3 DEF Reached
<1>13. QED
  BY <1>7, <1>8, <1>10, <1>11, <1>12 DEF Inv, NoneInv

\* The end of a sweep: what was swept is offered on.
LEMMA SweptStep ==
  ASSUME FewPaths, Inv, pc = "sweep", Offer(e.to), pc' = "prune", prune' = prune + 1,
         rr' \in [Nodes -> Nat], \A n \in Nodes : Pred(n) # <<>> => rr'[n] \in 1..Len(Pred(n)),
         k' = k, e' = e, stack' = stack, got' = got, size' = size,
         batch' = batch, next' = next, done' = done
  PROVE  Inv'
<1>1. TypeInv /\ AskInv
  BY DEF Inv
<1>2. PICK drawn \in [Edges \cup {Out} -> Nat] : Covered(drawn)
  BY DEF Inv, BudgetInv
<1>3. PICK N \in SUBSET Nodes : Reached(N)
  BY DEF Inv, NoneInv
<1>4. /\ pq' \in [Edges \cup {Out} -> Queues] /\ \A y \in Edges \cup {Out} : Sound(pq'[y])
      /\ sq' \in [Edges -> Queues] /\ \A y \in Edges : Sound(sq'[y])
      /\ Covered(drawn)'
  BY <1>1, <1>2, OfferIs
<1>5. TypeInv'
  BY <1>1, <1>4 DEF TypeInv
<1>6. BudgetInv'
  BY <1>4 DEF BudgetInv
<1>7. AskInv'
  BY <1>1 DEF AskInv
<1>8. ~HasNone(got.paths)
  BY <1>1 DEF AskInv
<1>9. \A y \in Edges : y.src \in N => HasNone(pq'[y].paths) \/ HasNone(sq'[y].paths) \/ y.dst \in N
  BY <1>1, <1>2, <1>3, <1>8, CarriedIs
<1>10. Reached(N)'
  <2>1. 1 \in N /\ (FinNd \in N => done = TRUE) /\ \A i \in 1..Len(stack) : stack[i].to.src \notin N
    BY <1>3 DEF Reached
  <2>2. QED
    BY <1>9, <2>1 DEF Reached
<1>11. QED
  BY <1>3, <1>5, <1>6, <1>7, <1>10 DEF Inv, NoneInv

\* push_impossible() takes only where every queue holds a path.
LEMMA SweepReady ==
  ASSUME TypeInv, ShortestSize(pq, e.to.src) > 0
  PROVE  /\ e.to.src \in Nodes /\ Pred(e.to.src) # <<>>
         /\ \A y \in ToSet(Pred(e.to.src)) : pq[y].paths # <<>>
<1> DEFINE a == ShortestSize(pq, e.to.src)
<1>1. /\ e.to.src \in Nodes
      /\ pq \in [Edges \cup {Out} -> Queues] /\ \A y \in Edges \cup {Out} : Sound(pq[y])
  BY LoadIs DEF TypeInv
<1>2. /\ a \in 0..SizeMax /\ a > 0 /\ Pred(e.to.src) # <<>>
      /\ \A y \in ToSet(Pred(e.to.src)) : a <= pq[y].count
  BY <1>1, ShortestSizeIs
<1> HIDE DEF a
<1>3. ASSUME NEW y \in ToSet(Pred(e.to.src)) PROVE pq[y].paths # <<>>
  <2>1. y \in Edges
    BY <1>1, PredIs
  <2>2. Sound(pq[y]) /\ pq[y].count \in 0..SizeMax
    BY <1>1, <2>1 DEF Queues
  <2>3. pq[y].count > 0
    BY <1>2, <1>3, <2>2, SizeMaxIs
  <2>4. QED
    BY <2>2, <2>3, FrontIs
<1>4. QED
  BY <1>1, <1>2, <1>3

\* Sweep: an impossible path is taken, or the edge is done with.
LEMMA SweepStep ==
  ASSUME FewPaths, Inv, NEW x \in ToSet(Pred(e.to.src)), Sweep(x)
  PROVE  Inv'
<1> DEFINE h == Head(pq[x].paths)
<1>1. /\ pc = "sweep" /\ ShortestSize(pq, e.to.src) > 0 /\ Advance(e.to.src, x)
      /\ k' = k /\ e' = e /\ stack' = stack /\ size' = size
      /\ batch' = batch /\ next' = next /\ done' = done
  BY DEF Sweep, round
<1>2. TypeInv /\ AskInv
  BY DEF Inv
<1>3. e.to.src \in Nodes /\ Pred(e.to.src) # <<>> /\ pq[x].paths # <<>>
  BY <1>1, <1>2, SweepReady
<1>4. rr' \in [Nodes -> Nat] /\ \A n \in Nodes : Pred(n) # <<>> => rr'[n] \in 1..Len(Pred(n))
  BY <1>1, <1>2, <1>3, AdvanceIs
<1>5. CASE IsUnsat(h, dead)
  <2>1. /\ pq' = [pq EXCEPT ![x] = Take(@)] /\ got' = Move(got, Queue(Extend(h, x, dead)))
        /\ pc' = pc /\ sq' = sq /\ prune' = prune
    BY <1>5 DEF Sweep
  <2>2. PICK drawn \in [Edges \cup {Out} -> Nat] : Covered(drawn)
    BY DEF Inv, BudgetInv
  <2>3. /\ x \in Edges /\ x.dst = e.to.src
        /\ pq' \in [Edges \cup {Out} -> Queues] /\ \A y \in Edges \cup {Out} : Sound(pq'[y])
        /\ Sound(got') /\ \E more \in [Edges \cup {Out} -> Nat] : Covered(more)'
        /\ HasNone(pq[x].paths) <=> h.kind = "none" \/ HasNone(pq'[x].paths)
        /\ HasNone(got'.paths) <=> HasNone(got.paths) \/ h.kind = "none"
        /\ \A y \in Edges \cup {Out} : y # x => pq'[y] = pq[y]
    <3>1. pc \in {"draw", "sweep"}
      BY <1>1
    <3>2. QED
      BY <1>1, <1>2, <1>3, <2>1, <2>2, <3>1, DrawnIs
  <2>4. h.kind # "none"
    BY <1>5 DEF IsUnsat
  <2> HIDE DEF h
  <2>5. TypeInv'
    BY <1>1, <1>2, <1>4, <2>1, <2>3 DEF TypeInv
  <2>6. BudgetInv'
    BY <2>3 DEF BudgetInv
  <2>7. AskInv'
    BY <1>1, <1>2, <2>1, <2>3, <2>4 DEF AskInv
  <2>8. PICK N \in SUBSET Nodes : Reached(N)
    BY DEF Inv, NoneInv
  <2>9. Reached(N)'
    <3>1. \A y \in Edges : y.src \in N => HasNone(pq[y].paths) \/ HasNone(sq[y].paths) \/ y.dst \in N
      BY <1>1, <2>8 DEF Reached
    <3>2. \A y \in Edges : y.src \in N => HasNone(pq'[y].paths) \/ HasNone(sq'[y].paths) \/ y.dst \in N
      BY <2>1, <2>3, <2>4, <3>1
    <3>3. 1 \in N /\ (FinNd \in N => done = TRUE) /\ \A i \in 1..Len(stack) : stack[i].to.src \notin N
      BY <1>1, <2>8 DEF Reached
    <3>4. QED
      BY <1>1, <2>1, <3>2, <3>3 DEF Reached
  <2>10. QED
    BY <2>5, <2>6, <2>7, <2>8, <2>9 DEF Inv, NoneInv
<1>6. CASE ~IsUnsat(h, dead)
  <2>1. Offer(e.to) /\ prune' = prune + 1 /\ pc' = "prune" /\ got' = got
    BY <1>6 DEF Sweep
  <2>2. QED
    BY <1>1, <1>4, <2>1, SweptStep
<1>7. QED
  BY <1>5, <1>6

\* NextRound: the search goes on as long as `none' has not arrived.
LEMMA NextRoundStep ==
  ASSUME Inv, NextRound
  PROVE  Inv'
<1>1. /\ pc = "prune" /\ prune' = prune /\ e' = e /\ stack' = stack /\ got' = got /\ size' = size
      /\ batch' = batch /\ next' = next /\ done' = done
  BY DEF NextRound, round
<1>2. TypeInv /\ AskInv
  BY DEF Inv
<1>3. k' \in Nat /\ k' <= 30 * Parallelism
  <2>1. k \in Nat /\ k <= 30 * Parallelism /\ Parallelism \in Nat
    BY <1>2, ParallelismAssumption DEF TypeInv
  <2>2. (k < 20 * Parallelism /\ k' = k + k \div 2) \/ k' = k
    BY DEF NextRound
  <2>3. k \div 2 \in Nat /\ 2 * (k \div 2) <= k
    BY <2>1
  <2>4. \A a, b, n \in Nat : a < 20 * n /\ 2 * b <= a => a + b <= 30 * n /\ a + b \in Nat
    OBVIOUS
  <2>5. QED
    BY <2>1, <2>2, <2>3, <2>4
<1>4. PICK drawn \in [Edges \cup {Out} -> Nat] : Covered(drawn)
  BY DEF Inv, BudgetInv
<1>5. PICK N \in SUBSET Nodes : Reached(N)
  BY DEF Inv, NoneInv
<1>6. stack = <<>>
  BY <1>1, <1>2 DEF AskInv
<1>7. /\ 1 \in N /\ (FinNd \in N => done = TRUE)
      /\ \A y \in Edges : y.src \in N => HasNone(pq[y].paths) \/ HasNone(sq[y].paths) \/ y.dst \in N
  BY <1>1, <1>5 DEF Reached
<1>8. CASE done = TRUE
  <2>1. /\ pc' = "over" /\ pq' = [y \in Edges \cup {Out} |-> Empty] /\ sq' = [y \in Edges |-> Empty]
        /\ rr' = [nd \in Nodes |-> 1]
    BY <1>2, <1>8 DEF NextRound, TypeInv
  <2>2. Sound(Empty) /\ Empty \in Queues /\ Weight(Empty.paths) = 0
    BY EmptyIs DEF Sound
  <2>3. /\ pq' \in [Edges \cup {Out} -> Queues] /\ \A y \in Edges \cup {Out} : Sound(pq'[y])
        /\ sq' \in [Edges -> Queues] /\ \A y \in Edges : Sound(sq'[y])
    BY <2>1, <2>2
  <2>4. rr' \in [Nodes -> Nat] /\ \A nd \in Nodes : Pred(nd) # <<>> => rr'[nd] \in 1..Len(Pred(nd))
    <3>1. SUFFICES ASSUME NEW nd \in Nodes, Pred(nd) # <<>> PROVE 1 \in 1..Len(Pred(nd))
      BY <2>1
    <3>2. Pred(nd) \in Seq(Edges)
      BY PredIs
    <3>3. QED
      BY <3>1, <3>2
  <2>5. TypeInv'
    BY <1>1, <1>2, <1>3, <2>1, <2>3, <2>4 DEF TypeInv
  <2>6. Covered(drawn)'
    <3>1. SUFFICES ASSUME NEW y \in Edges \cup {Out}
          PROVE  Weight(pq'[y].paths) + Offered(y)' + Pending(y)' + drawn[y] <= Arrived(drawn, y.src)
      BY <1>4 DEF Covered
    <3>2. Weight(pq'[y].paths) = 0 /\ Offered(y)' = 0 /\ Pending(y)' = 0
      BY <2>1, <2>2 DEF Offered, Pending
    <3>3. /\ Weight(pq[y].paths) \in Nat /\ Offered(y) \in Nat /\ Pending(y) \in Nat
          /\ drawn[y] \in Nat /\ Arrived(drawn, y.src) \in Nat
          /\ Weight(pq[y].paths) + Offered(y) + Pending(y) + drawn[y] <= Arrived(drawn, y.src)
      <4>1. Arrived(drawn, y.src) \in Nat
        BY <1>4, IntoNat DEF Arrived
      <4>2. QED
        BY <1>2, <1>4, <4>1, LoadIs DEF Covered
    <3>4. \A a, b, c, d, n \in Nat : a + b + c + d <= n => 0 + 0 + 0 + d <= n
      OBVIOUS
    <3>5. QED
      BY <3>2, <3>3, <3>4
  <2>7. AskInv'
    BY <1>1, <1>6, <2>1 DEF AskInv
  <2>8. Reached(N)'
    BY <1>1, <1>6, <1>7, <1>8, <2>1 DEF Reached
  <2>9. QED
    BY <1>5, <2>5, <2>6, <2>7, <2>8 DEF Inv, NoneInv, BudgetInv
<1>9. CASE done # TRUE
  <2>1. pc' = "pull" /\ pq' = pq /\ sq' = sq /\ rr' = rr /\ done = FALSE
    BY <1>2, <1>9 DEF NextRound, TypeInv
  <2>2. TypeInv'
    BY <1>1, <1>2, <1>3, <2>1 DEF TypeInv
  <2>3. Covered(drawn)'
    BY <1>2, <1>4, <2>1, CoveredStays
  <2>4. AskInv'
    BY <1>1, <1>6, <2>1 DEF AskInv
  <2>5. Reached(N)'
    BY <1>1, <1>6, <1>7, <1>9, <2>1 DEF Reached
  <2>6. QED
    BY <1>5, <2>2, <2>3, <2>4, <2>5 DEF Inv, NoneInv, BudgetInv
<1>10. QED
  BY <1>8, <1>9

-----------------------------------------------------------------------------
(* The theorems                                                            *)

\* Every step keeps the invariant.
LEMMA NextInv ==
  ASSUME FewPaths, Inv, [Next]_vars
  PROVE  Inv'
<1>1. CASE Begin
  BY <1>1, BeginStep
<1>2. CASE Ascend
  BY <1>2, AscendStep
<1>3. ASSUME NEW x \in ToSet(Pred(e.to.src)), Descend(x) PROVE Inv'
  BY <1>3, DescendStep
<1>4. ASSUME NEW x \in ToSet(Pred(e.to.src)), Draw(x) PROVE Inv'
  BY <1>4, DrawStep
<1>5. ASSUME NEW x \in ToSet(Pred(e.to.src)), Sweep(x) PROVE Inv'
  BY <1>5, SweepStep
<1>6. CASE Delegate
  BY <1>6, DelegateStep
<1>7. ASSUME NEW i \in DOMAIN batch, Check(i) PROVE Inv'
  BY <1>7, RestStep DEF Check
<1>8. CASE Report
  BY <1>8, ReportStep
<1>9. CASE Close
  BY <1>9, CloseStep
<1>10. CASE Prune
  BY <1>10, PruneStep
<1>11. CASE Swept
  <2>1. /\ pc = "sweep" /\ Offer(e.to) /\ pc' = "prune" /\ prune' = prune + 1 /\ rr' = rr
        /\ k' = k /\ e' = e /\ stack' = stack /\ got' = got /\ size' = size
        /\ batch' = batch /\ next' = next /\ done' = done
    BY <1>11 DEF Swept, round
  <2>2. /\ rr' \in [Nodes -> Nat]
        /\ \A n \in Nodes : Pred(n) # <<>> => rr'[n] \in 1..Len(Pred(n))
    BY <2>1 DEF Inv, TypeInv
  <2>3. QED
    BY <2>1, <2>2, SweptStep
<1>12. CASE NextRound
  BY <1>12, NextRoundStep
<1>13. CASE UNCHANGED vars
  BY <1>13, RestStep DEF vars, round
<1>14. QED
  BY <1>1, <1>2, <1>3, <1>4, <1>5, <1>6, <1>7, <1>8, <1>9, <1>10, <1>11, <1>12, <1>13
     DEF Next, Finished

\* In a program with no more paths than a sizet counts, every queue holds
\* what it says, no more than the paths that arrived, and `none' is always
\* ahead of what next_k() asks for.
THEOREM InvHolds == ASSUME FewPaths PROVE Spec => []Inv
<1>1. Inv /\ [Next]_vars => Inv'
  BY NextInv
<1>2. QED
  BY <1>1, InitInv, PTL DEF Spec

\* pathq::size() (cfg.cpp:741) is right at all times: after the size was
\* saturated by `none' and is counted again, and after paths were merged.
THEOREM SizesExact == ASSUME FewPaths PROVE Spec => []CountExact
<1>1. Inv => CountExact
  <2>1. SUFFICES ASSUME Inv PROVE CountExact
    OBVIOUS
  <2>2. ASSUME NEW q, Sound(q) PROVE q.count = Total(q.paths)
    BY <2>2, TotalIs DEF Sound, Queues
  <2>3. QED
    BY <2>1, <2>2 DEF Inv, TypeInv, CountExact
<1>2. QED
  BY <1>1, InvHolds, PTL

\* next_k() and push_impossible() never follow a null pointer: the node they
\* draw for has predecessors, and the queue they draw from holds a path.
THEOREM NeverNull == ASSUME FewPaths PROVE Spec => []NoNullDeref
<1>1. Inv => NoNullDeref
  <2>1. SUFFICES ASSUME Inv PROVE NoNullDeref
    OBVIOUS
  <2>2. TypeInv /\ AskInv /\ e.to.src \in Nodes
    BY <2>1, LoadIs DEF Inv
  <2>3. ASSUME pc = "descend" PROVE Pred(e.to.src) # <<>>
    <3>1. PICK N \in SUBSET Nodes : Reached(N)
      BY <2>1 DEF Inv, NoneInv
    <3>2. e.to.src \in Nodes \ {1}
      BY <2>2, <2>3, <3>1 DEF Reached
    <3>3. \E y \in Edges : y.dst = e.to.src
      BY <3>2, GraphAssumption
    <3>4. ToSet(Pred(e.to.src)) # {}
      BY <2>2, <3>3, PredIs
    <3>5. ToSet(<<>>) = {}
      BY DEF ToSet
    <3>6. QED
      BY <3>4, <3>5
  <2>4. ASSUME Pred(e.to.src) # <<>> PROVE Longest(e.to.src) \in ToSet(Pred(e.to.src))
    BY <2>2, <2>4, LongestIs DEF TypeInv
  <2>5. pc = "draw" /\ size < e.k =>
          Pred(e.to.src) # <<>> /\ pq[Longest(e.to.src)].paths # <<>>
    BY <2>2, <2>4, ReadyIs
  <2>6. pc = "sweep" /\ ShortestSize(pq, e.to.src) > 0 => pq[Longest(e.to.src)].paths # <<>>
    BY <2>2, <2>4, SweepReady
  <2>7. QED
    BY <2>3, <2>5, <2>6 DEF NoNullDeref
<1>2. QED
  BY <1>1, InvHolds, PTL
=============================================================================
