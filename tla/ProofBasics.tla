----------------------------- MODULE ProofBasics -----------------------------
(***************************************************************************)
(* What the proofs about several components rest on: induction over the    *)
(* natural numbers, stated for sets, with what follows from it for finite  *)
(* sets of numbers and for definitions by recursion, and facts about       *)
(* sequences.                                                              *)
(***************************************************************************)
EXTENDS SequencesExt, Integers, WellFoundedInduction, TLAPS

-----------------------------------------------------------------------------
(* Numbers                                                                 *)

NatLess == {ss \in Nat \X Nat : ss[1] < ss[2]}

LEMMA NatLessWF == IsWellFoundedOn(NatLess, Nat)
<1>1. OpToRel(<, Nat) = NatLess
  BY DEF OpToRel, NatLess
<1>2. QED
  BY <1>1, NatLessThanWellFounded, Zenon

\* Of some numbers, one is the least.
LEMMA LeastNat ==
  ASSUME NEW T \in SUBSET Nat, T # {}
  PROVE  \E x \in T : \A y \in T : x <= y
<1>1. PICK x \in T : \A y \in T : <<y, x>> \notin NatLess
  BY NatLessWF, WFMin
<1>2. \A y \in T : <<y, x>> \in NatLess <=> y < x
  BY DEF NatLess
<1>3. \A y \in T : ~(y < x)
  BY <1>1, <1>2, Zenon
<1>4. \A y \in T : x <= y
  BY <1>3
<1>5. QED
  BY <1>4

\* Induction: the set stands for the property.
LEMMA Induction ==
  ASSUME NEW S, 0 \in S, \A n \in Nat : n \in S => n + 1 \in S
  PROVE  Nat \subseteq S
<1>1. SUFFICES ASSUME Nat \ S # {} PROVE FALSE
  OBVIOUS
<1>2. PICK x \in Nat \ S : \A y \in Nat \ S : x <= y
  BY <1>1, LeastNat
<1>3. x # 0 /\ x - 1 \in Nat /\ x - 1 \notin Nat \ S
  BY <1>2
<1>4. QED
  BY <1>3

\* Induction up to a number
LEMMA InductionUpTo ==
  ASSUME NEW m \in Nat, NEW S, 0 \in S, \A n \in 0..m - 1 : n \in S => n + 1 \in S
  PROVE  0..m \subseteq S
<1> DEFINE T == S \cup {n \in Nat : n > m}
<1>1. 0 \in T
  OBVIOUS
<1>2. \A n \in Nat : n \in T => n + 1 \in T
  OBVIOUS
<1> HIDE DEF T
<1>3. Nat \subseteq T
  BY <1>1, <1>2, Induction
<1>4. QED
  BY <1>3 DEF T

\* Of finitely many places one is the last.
LEMMA LastOne ==
  ASSUME NEW n \in Nat, NEW S \in SUBSET (1..n), S # {}
  PROVE  \E m \in S : \A k \in S : k <= m
<1> DEFINE T == {n - k : k \in S}
<1>1. \A k \in S : n - k \in Nat /\ n - k \in T
  OBVIOUS
<1>2. T \in SUBSET Nat /\ T # {}
  BY <1>1, Zenon
<1>3. PICK x \in T : \A y \in T : x <= y
  BY <1>2, LeastNat
<1>4. PICK m \in S : x = n - m
  BY Zenon
<1>5. \A k \in S : n - m <= n - k
  BY <1>1, <1>3, <1>4, Zenon
<1>6. QED
  BY <1>5

\* The largest of finitely many places, taken as Max takes it
LEMMA MaxPlace ==
  ASSUME NEW n \in Nat, NEW S \in SUBSET (1..n), S # {}
  PROVE  Max(S) \in S /\ \A k \in S : k <= Max(S)
<1>1. \E m \in S : \A k \in S : m >= k
  BY LastOne
<1>2. QED
  BY <1>1 DEF Max

\* The smallest number of a set, taken as Min takes it
LEMMA MinNat ==
  ASSUME NEW S \in SUBSET Nat, S # {}
  PROVE  Min(S) \in S /\ \A k \in S : Min(S) <= k
<1>1. \E m \in S : \A k \in S : m <= k
  BY LeastNat
<1>2. QED
  BY <1>1 DEF Min

-----------------------------------------------------------------------------
(* Sequences                                                               *)

\* An element of a sequence is in the set the sequence is over.
LEMMA ElementIn ==
  ASSUME NEW S, NEW s \in Seq(S), NEW i \in 1..Len(s)
  PROVE  s[i] \in S
OBVIOUS

\* A sequence that has grown by one
LEMMA Longer ==
  ASSUME NEW S, NEW s \in Seq(S), NEW e \in S
  PROVE  /\ Append(s, e) \in Seq(S) /\ Len(Append(s, e)) = Len(s) + 1
         /\ \A n \in 1..Len(s) : Append(s, e)[n] = s[n]
         /\ Append(s, e)[Len(s) + 1] = e
         /\ Append(s, e) # <<>> /\ Front(Append(s, e)) = s /\ Last(Append(s, e)) = e
<1>1. /\ Append(s, e) \in Seq(S) /\ Len(Append(s, e)) = Len(s) + 1
      /\ \A n \in 1..Len(s) : Append(s, e)[n] = s[n]
      /\ Append(s, e)[Len(s) + 1] = e
  OBVIOUS
<1>2. Append(s, e) # <<>> /\ Last(Append(s, e)) = e
  BY <1>1 DEF Last
<1>3. Front(Append(s, e)) = s
  BY <1>1, SMTT(30) DEF Front
<1>4. QED
  BY <1>1, <1>2, <1>3

\* A sequence without its last element
LEMMA Shorter ==
  ASSUME NEW S, NEW s \in Seq(S), s # <<>>
  PROVE  /\ Front(s) \in Seq(S) /\ Len(Front(s)) = Len(s) - 1
         /\ \A n \in 1..Len(s) - 1 : Front(s)[n] = s[n]
         /\ Last(s) = s[Len(s)] /\ Len(s) \in Nat \ {0} /\ Last(s) \in S
<1>1. Len(s) \in Nat /\ Len(s) >= 1
  OBVIOUS
<1>2. Front(s) \in Seq(S)
  BY <1>1, SMTT(30) DEF Front
<1>3. Len(Front(s)) = Len(s) - 1
  BY <1>1, SMTT(30) DEF Front
<1>4. \A n \in 1..Len(s) - 1 : Front(s)[n] = s[n]
  BY <1>1, SMTT(30) DEF Front
<1>5. QED
  BY <1>1, <1>2, <1>3, <1>4 DEF Last

\* The beginning of a sequence
LEMMA Beginning ==
  ASSUME NEW S, NEW s \in Seq(S), NEW n \in 1..Len(s)
  PROVE  /\ SubSeq(s, 1, n) \in Seq(S) /\ Len(SubSeq(s, 1, n)) = n
         /\ \A k \in 1..n : SubSeq(s, 1, n)[k] = s[k]
         /\ Last(SubSeq(s, 1, n)) = s[n]
<1>1. /\ SubSeq(s, 1, n) \in Seq(S) /\ Len(SubSeq(s, 1, n)) = n
      /\ \A k \in 1..n : SubSeq(s, 1, n)[k] = s[k]
  OBVIOUS
<1>2. QED
  BY <1>1 DEF Last

\* also if nothing is left
LEMMA FirstOnes ==
  ASSUME NEW S, NEW s \in Seq(S), NEW n \in 0..Len(s)
  PROVE  /\ SubSeq(s, 1, n) \in Seq(S) /\ Len(SubSeq(s, 1, n)) = n
         /\ \A k \in 1..n : SubSeq(s, 1, n)[k] = s[k]
OBVIOUS

\* A sequence without its first element
LEMMA Rest ==
  ASSUME NEW S, NEW s \in Seq(S), s # <<>>
  PROVE  /\ 1 \in DOMAIN s /\ Head(s) = s[1] /\ Head(s) \in S
         /\ Tail(s) \in Seq(S) /\ DOMAIN s \subseteq Nat /\ DOMAIN Tail(s) \subseteq Nat
         /\ \A i \in DOMAIN Tail(s) : i + 1 \in DOMAIN s /\ Tail(s)[i] = s[i + 1]
         /\ \A i \in DOMAIN s : i = 1 \/ (i - 1 \in DOMAIN Tail(s) /\ Tail(s)[i - 1] = s[i])
<1>1. Len(s) \in Nat \ {0} /\ DOMAIN s = 1..Len(s)
  OBVIOUS
<1>2. Tail(s) \in Seq(S) /\ DOMAIN Tail(s) = 1..Len(s) - 1
  BY <1>1
<1>3. \A i \in 1..Len(s) - 1 : Tail(s)[i] = s[i + 1]
  BY <1>1
<1>4. Head(s) = s[1] /\ Head(s) \in S
  BY <1>1
<1>5. QED
  BY <1>1, <1>2, <1>3, <1>4

\* The elements of sequences
LEMMA ElementsConcat ==
  ASSUME NEW S, NEW s \in Seq(S), NEW t \in Seq(S)
  PROVE  s \o t \in Seq(S) /\ ToSet(s \o t) = ToSet(s) \cup ToSet(t)
<1>1. /\ s \o t \in Seq(S) /\ DOMAIN (s \o t) = 1..Len(s) + Len(t)
      /\ Len(s) \in Nat /\ Len(t) \in Nat /\ DOMAIN s = 1..Len(s) /\ DOMAIN t = 1..Len(t)
      /\ \A i \in 1..Len(s) : (s \o t)[i] = s[i]
      /\ \A i \in 1..Len(t) : (s \o t)[Len(s) + i] = t[i]
  OBVIOUS
<1>2. ASSUME NEW i \in DOMAIN (s \o t) PROVE (s \o t)[i] \in ToSet(s) \cup ToSet(t)
  <2>1. CASE i \in 1..Len(s)
    BY <1>1, <2>1 DEF ToSet
  <2>2. CASE i \notin 1..Len(s)
    <3>1. i - Len(s) \in 1..Len(t) /\ i = Len(s) + (i - Len(s))
      BY <1>1, <2>2
    <3>2. (s \o t)[i] = t[i - Len(s)]
      BY <1>1, <3>1
    <3>3. QED
      BY <1>1, <3>1, <3>2 DEF ToSet
  <2>3. QED
    BY <2>1, <2>2
<1>3. ASSUME NEW i \in DOMAIN s PROVE s[i] \in ToSet(s \o t)
  <2>1. i \in DOMAIN (s \o t)
    BY <1>1
  <2>2. QED
    BY <1>1, <2>1 DEF ToSet
<1>4. ASSUME NEW i \in DOMAIN t PROVE t[i] \in ToSet(s \o t)
  <2>1. Len(s) + i \in DOMAIN (s \o t)
    BY <1>1
  <2>2. QED
    BY <1>1, <2>1 DEF ToSet
<1>5. QED
  BY <1>1, <1>2, <1>3, <1>4, SMTT(30) DEF ToSet

LEMMA ElementsFront ==
  ASSUME NEW S, NEW s \in Seq(S), s # <<>>
  PROVE  ToSet(s) = ToSet(Front(s)) \cup {Last(s)}
<1>1. /\ Front(s) \in Seq(S) /\ Len(Front(s)) = Len(s) - 1
      /\ \A n \in 1..Len(s) - 1 : Front(s)[n] = s[n]
      /\ Last(s) = s[Len(s)] /\ Len(s) \in Nat \ {0}
  BY Shorter
<1>2. DOMAIN s = 1..Len(s) /\ DOMAIN Front(s) = 1..Len(s) - 1
  BY <1>1
<1>3. \A n \in 1..Len(s) : n = Len(s) \/ n \in 1..Len(s) - 1
  BY <1>1
<1>4. Len(s) \in 1..Len(s) /\ \A n \in 1..Len(s) - 1 : n \in 1..Len(s)
  BY <1>1
<1>5. QED
  BY <1>1, <1>2, <1>3, <1>4 DEF ToSet

LEMMA ElementsAppend ==
  ASSUME NEW S, NEW s \in Seq(S), NEW e \in S
  PROVE  ToSet(Append(s, e)) = ToSet(s) \cup {e}
<1>1. /\ Append(s, e) \in Seq(S) /\ Append(s, e) # <<>>
      /\ Front(Append(s, e)) = s /\ Last(Append(s, e)) = e
  BY Longer
<1>2. QED
  BY <1>1, ElementsFront

\* The last element of what follows
LEMMA LastConcat ==
  ASSUME NEW S, NEW s \in Seq(S), NEW t \in Seq(S), t # <<>>
  PROVE  s \o t # <<>> /\ Last(s \o t) = Last(t)
<1>1. /\ Len(s) \in Nat /\ Len(t) \in Nat \ {0} /\ Len(s \o t) = Len(s) + Len(t)
      /\ s \o t \in Seq(S)
      /\ \A i \in 1..Len(t) : (s \o t)[Len(s) + i] = t[i]
  OBVIOUS
<1>2. (s \o t)[Len(s \o t)] = t[Len(t)] /\ Len(s \o t) # 0
  BY <1>1
<1>3. s \o t # <<>>
  BY <1>2
<1>4. QED
  BY <1>2, <1>3 DEF Last
-----------------------------------------------------------------------------
(* Folds                                                                   *)

\* The function over sets of places by which the fold over a sequence is
\* defined, with the operator as a function h
IsFold(F, A, h, base, n, s) ==
  /\ F \in [SUBSET (1..n) -> A]
  /\ \A S \in SUBSET (1..n) :
       F[S] = IF S = {} THEN base ELSE h[<<F[S \ {Max(S)}], s[Max(S)]>>]

LEMMA FoldExists ==
  ASSUME NEW A, NEW B, NEW h \in [A \X B -> A], NEW base \in A, NEW n \in Nat, NEW s \in [1..n -> B]
  PROVE  \E F : IsFold(F, A, h, base, n, s)
<1> DEFINE Folds(F, m) ==
             /\ F \in [SUBSET (1..m) -> A]
             /\ \A S \in SUBSET (1..m) :
                  F[S] = IF S = {} THEN base ELSE h[<<F[S \ {Max(S)}], s[Max(S)]>>]
           M == {m \in 0..n : \E F : Folds(F, m)}
<1>1. 0 \in M
  <2>1. SUBSET (1..0) = {{}}
    OBVIOUS
  <2>2. Folds([S \in SUBSET (1..0) |-> base], 0)
    BY <2>1
  <2> HIDE DEF Folds
  <2>3. QED
    BY <2>2
<1>2. ASSUME NEW m \in 0..n - 1, m \in M PROVE m + 1 \in M
  <2>1. PICK F : Folds(F, m)
    BY <1>2
  <2> DEFINE G == [S \in SUBSET (1..m + 1) |->
                     IF m + 1 \in S THEN h[<<F[S \ {m + 1}], s[m + 1]>>] ELSE F[S]]
  <2>2. ASSUME NEW S \in SUBSET (1..m + 1), m + 1 \in S
        PROVE  Max(S) = m + 1 /\ S \ {m + 1} \in SUBSET (1..m)
    <3>1. m + 1 \in Nat /\ S # {}
      BY <2>2
    <3>2. Max(S) \in S /\ \A k \in S : k <= Max(S)
      BY <3>1, MaxPlace
    <3>3. Max(S) \in 1..m + 1 /\ m + 1 <= Max(S)
      BY <2>2, <3>2
    <3>4. QED
      BY <3>3
  <2>3. ASSUME NEW S \in SUBSET (1..m + 1), m + 1 \notin S
        PROVE  S \in SUBSET (1..m)
    BY <2>3
  <2>4. s[m + 1] \in B
    OBVIOUS
  <2>5. ASSUME NEW S \in SUBSET (1..m + 1)
        PROVE  /\ G[S] \in A
               /\ G[S] = IF S = {} THEN base ELSE h[<<G[S \ {Max(S)}], s[Max(S)]>>]
    <3>1. CASE m + 1 \in S
      <4>1. G[S] = h[<<F[S \ {m + 1}], s[m + 1]>>] /\ F[S \ {m + 1}] \in A
        BY <2>1, <2>2, <3>1
      <4>2. G[S \ {m + 1}] = F[S \ {m + 1}]
        BY <2>2, <3>1
      <4>3. QED
        BY <2>2, <2>4, <3>1, <4>1, <4>2
    <3>2. CASE m + 1 \notin S
      <4>1. G[S] = F[S] /\ S \in SUBSET (1..m)
        BY <2>3, <3>2
      <4>2. CASE S = {}
        BY <2>1, <4>1, <4>2
      <4>3. CASE S # {}
        <5>1. S \ {Max(S)} \in SUBSET (1..m) /\ m + 1 \notin S \ {Max(S)}
          BY <3>2, <4>1
        <5>2. G[S \ {Max(S)}] = F[S \ {Max(S)}]
          BY <5>1
        <5>3. QED
          BY <2>1, <4>1, <4>3, <5>2
      <4>4. QED
        BY <4>2, <4>3
    <3>3. QED
      BY <3>1, <3>2
  <2>6. Folds(G, m + 1)
    <3>1. G = [S \in SUBSET (1..m + 1) |-> G[S]]
      OBVIOUS
    <3> HIDE DEF G
    <3>2. QED
      BY <2>5, <3>1
  <2>7. m + 1 \in 0..n
    OBVIOUS
  <2> HIDE DEF G, Folds
  <2>8. QED
    BY <2>6, <2>7
<1>3. n \in M
  <2> HIDE DEF M
  <2>1. 0..n \subseteq M
    BY <1>1, <1>2, InductionUpTo
  <2>2. QED
    BY <2>1
<1>4. QED
  BY <1>3 DEF IsFold

\* The places in front of the last one
LEMMA MaxOfRange ==
  ASSUME NEW k \in Nat
  PROVE  /\ 1..k + 1 # {} /\ Max(1..k + 1) = k + 1 /\ (1..k + 1) \ {k + 1} = 1..k
<1>1. k + 1 \in Nat /\ k + 1 \in 1..k + 1
  OBVIOUS
<1>2. \A S \in SUBSET (1..k + 1) : S # {} => Max(S) \in S /\ \A i \in S : i <= Max(S)
  BY <1>1, MaxPlace
<1>3. Max(1..k + 1) \in 1..k + 1 /\ \A i \in 1..k + 1 : i <= Max(1..k + 1)
  BY <1>1, <1>2
<1>4. Max(1..k + 1) = k + 1
  <2>1. k + 1 <= Max(1..k + 1)
    BY <1>1, <1>3
  <2>2. QED
    BY <1>3, <2>1
<1>5. (1..k + 1) \ {k + 1} = 1..k
  OBVIOUS
<1>6. QED
  BY <1>1, <1>4, <1>5

\* a function defined by such a recursion, and the values it goes through
FoldsBy(F, A, h, base, n, s) ==
  /\ F[{}] = base
  /\ \A S \in SUBSET (1..n) :
       S # {} /\ F[S \ {Max(S)}] \in A => F[S] = h[<<F[S \ {Max(S)}], s[Max(S)]>>]

GoesThrough(G, F, A, h, base, n, s) ==
  /\ G \in [0..n -> A] /\ G[0] = base
  /\ \A u \in 0..n - 1 : G[u + 1] = h[<<G[u], s[u + 1]>>]
  /\ F[1..n] = G[n]

\* The recursion goes through one element after the other.
LEMMA FoldRuns ==
  ASSUME NEW A, NEW B, NEW h \in [A \X B -> A], NEW base \in A, NEW n \in Nat, NEW s \in [1..n -> B],
         NEW F, FoldsBy(F, A, h, base, n, s)
  PROVE  \E G : GoesThrough(G, F, A, h, base, n, s)
<1> USE DEF FoldsBy
<1> DEFINE K == {u \in 0..n : F[1..u] \in A}
<1>1. ASSUME NEW u \in 0..n - 1
      PROVE  /\ u + 1 \in 0..n /\ u + 1 \in 1..n
             /\ F[1..u] \in A => F[1..u + 1] = h[<<F[1..u], s[u + 1]>>]
  <2>1. 1..u + 1 \in SUBSET (1..n) /\ u + 1 \in 0..n /\ u + 1 \in 1..n /\ u \in Nat
    OBVIOUS
  <2>2. 1..u + 1 # {} /\ Max(1..u + 1) = u + 1 /\ (1..u + 1) \ {u + 1} = 1..u
    BY <2>1, MaxOfRange
  <2>3. QED
    BY <2>1, <2>2
<1>2. F[1..0] = base
  <2>1. 1..0 = {}
    OBVIOUS
  <2>2. QED
    BY <2>1
<1>3. 0..n \subseteq K
  <2>1. 0 \in K
    BY <1>2
  <2>2. ASSUME NEW u \in 0..n - 1, u \in K PROVE u + 1 \in K
    <3>1. u + 1 \in 1..n /\ F[1..u] \in A
      BY <1>1, <2>2
    <3>2. s[u + 1] \in B
      BY <3>1
    <3>3. QED
      BY <1>1, <3>1, <3>2
  <2> HIDE DEF K
  <2>3. QED
    BY <2>1, <2>2, InductionUpTo
<1> DEFINE G == [u \in 0..n |-> F[1..u]]
<1>4. G \in [0..n -> A] /\ n \in 0..n /\ G[n] = F[1..n] /\ G[0] = base
  BY <1>2, <1>3
<1>5. \A u \in 0..n - 1 : G[u + 1] = h[<<G[u], s[u + 1]>>]
  BY <1>1, <1>3
<1> HIDE DEF G
<1>6. GoesThrough(G, F, A, h, base, n, s)
  BY <1>4, <1>5 DEF GoesThrough
<1>7. QED
  BY <1>6

\* A sequence as a function
LEMMA SeqFunction ==
  ASSUME NEW S, NEW s \in Seq(S)
  PROVE  Len(s) \in Nat /\ DOMAIN s = 1..Len(s) /\ s \in [1..Len(s) -> S]
<1>1. Len(s) \in Nat /\ DOMAIN s = 1..Len(s)
  OBVIOUS
<1>2. s = [i \in 1..Len(s) |-> s[i]] /\ \A i \in 1..Len(s) : s[i] \in S
  OBVIOUS
<1>3. QED
  BY <1>1, <1>2

\* A sequence over a set is one over a larger set.
LEMMA SeqWider ==
  ASSUME NEW S, NEW T, S \subseteq T, NEW s \in Seq(S)
  PROVE  s \in Seq(T)
OBVIOUS

\* A piece of a sequence, which may be empty
LEMMA Piece ==
  ASSUME NEW S, NEW s \in Seq(S), NEW m \in 0..Len(s), NEW n \in m..Len(s)
  PROVE  SubSeq(s, m + 1, n) \in Seq(S)
OBVIOUS

\* The results of repeating a function up to n times
Iterates(D, A, S, h, n) ==
  D \in [0..n -> A] /\ D[0] = S /\ \A k \in 1..n : D[k] = h[D[k - 1]]

LEMMA Iterate ==
  ASSUME NEW A, NEW S \in A, NEW h \in [A -> A], NEW n \in Nat
  PROVE  \E D : Iterates(D, A, S, h, n)
<1> DEFINE Is(D, m) == Iterates(D, A, S, h, m)
           M == {m \in Nat : \E D : Is(D, m)}
<1> USE DEF Iterates
<1>1. 0 \in M
  <2> DEFINE D == [k \in 0..0 |-> S]
  <2>1. Is(D, 0)
    OBVIOUS
  <2> HIDE DEF D, Is
  <2>2. QED
    BY <2>1
<1>2. ASSUME NEW m \in Nat, m \in M PROVE m + 1 \in M
  <2>1. PICK D : Is(D, m)
    BY <1>2
  <2> DEFINE next == h[D[m]]
             F == [k \in 0..m + 1 |-> IF k <= m THEN D[k] ELSE next]
  <2>2. D[m] \in A
    BY <2>1
  <2>3. next \in A
    BY <2>2
  <2> HIDE DEF next
  <2>4. F \in [0..m + 1 -> A] /\ F[0] = S /\ F[m + 1] = next /\ \A k \in 0..m : F[k] = D[k]
    BY <2>1, <2>3
  <2> HIDE DEF F
  <2>5. ASSUME NEW k \in 1..m + 1 PROVE F[k] = h[F[k - 1]]
    <3>1. CASE k = m + 1
      <4>1. k - 1 = m /\ F[m] = D[m]
        BY <2>4, <3>1
      <4>2. QED
        BY <2>4, <3>1, <4>1 DEF next
    <3>2. CASE k \in 1..m
      <4>1. k - 1 \in 0..m /\ k \in 0..m
        BY <3>2
      <4>2. F[k - 1] = D[k - 1] /\ F[k] = D[k]
        BY <2>4, <4>1, Zenon
      <4>3. QED
        BY <2>1, <3>2, <4>2
    <3>3. QED
      BY <3>1, <3>2
  <2>6. Is(F, m + 1)
    BY <2>4, <2>5
  <2> HIDE DEF Is
  <2>7. QED
    BY <2>6
<1> HIDE DEF M
<1>3. n \in M
  BY <1>1, <1>2, Induction
<1> HIDE DEF Iterates
<1>4. QED
  BY <1>3 DEF M

\* FlattenSeq joins one sequence after the other.
LEMMA FlattenSteps ==
  ASSUME NEW S, NEW ss \in Seq(Seq(S)), ss # <<>>
  PROVE  \E F \in [1..Len(ss) -> Seq(S)] :
           /\ F[1] = ss[1]
           /\ \A i \in 1..Len(ss) - 1 : F[i + 1] = F[i] \o ss[i + 1]
           /\ FlattenSeq(ss) = F[Len(ss)]
<1> DEFINE n == Len(ss)
           Joined(F, m) == F = [i \in 1..m |-> IF i = 1 THEN ss[i] ELSE F[i - 1] \o ss[i]]
           flat == CHOOSE F : Joined(F, n)
<1>1. n \in Nat \ {0} /\ \A i \in 1..n : ss[i] \in Seq(S)
  OBVIOUS
<1>2. FlattenSeq(ss) = flat[n]
  BY <1>1 DEF FlattenSeq
<1> HIDE DEF n
<1> DEFINE M == {m \in Nat : \E F : Joined(F, m + 1)}
<1>3. 0 \in M
  <2> DEFINE F == [i \in 1..1 |-> ss[i]]
  <2>1. Joined(F, 0 + 1)
    OBVIOUS
  <2> HIDE DEF F, Joined
  <2>2. QED
    BY <2>1
<1>4. ASSUME NEW m \in Nat, m \in M PROVE m + 1 \in M
  <2>1. PICK D : Joined(D, m + 1)
    BY <1>4
  <2> DEFINE F == [i \in 1..m + 2 |-> IF i <= m + 1 THEN D[i] ELSE D[m + 1] \o ss[m + 2]]
  <2> DEFINE last == D[m + 1] \o ss[m + 2]
  <2>a. F = [i \in 1..m + 2 |-> IF i <= m + 1 THEN D[i] ELSE last]
    OBVIOUS
  <2> HIDE DEF last, F
  <2>b. /\ F = [i \in 1..m + 2 |-> F[i]] /\ (\A i \in 1..m + 1 : F[i] = D[i])
        /\ F[m + 2] = last
    BY <2>a
  <2>2. /\ F = [i \in 1..m + 2 |-> F[i]] /\ (\A i \in 1..m + 1 : F[i] = D[i])
        /\ F[m + 2] = D[m + 1] \o ss[m + 2]
    BY <2>b DEF last
  <2>3. \A i \in 1..m + 1 : D[i] = IF i = 1 THEN ss[i] ELSE D[i - 1] \o ss[i]
    BY <2>1
  <2> HIDE DEF F, Joined
  <2>4. ASSUME NEW i \in 1..m + 2 PROVE F[i] = IF i = 1 THEN ss[i] ELSE F[i - 1] \o ss[i]
    <3>1. CASE i = m + 2
      <4>1. i # 1 /\ i - 1 = m + 1 /\ m + 1 \in 1..m + 1
        BY <3>1
      <4>2. QED
        BY <2>2, <3>1, <4>1
    <3>2. CASE i \in 2..m + 1
      <4>1. i # 1 /\ i - 1 \in 1..m + 1 /\ i \in 1..m + 1
        BY <3>2
      <4>2. F[i - 1] = D[i - 1] /\ F[i] = D[i]
        BY <2>2, <4>1, Zenon
      <4>3. QED
        BY <2>3, <4>1, <4>2
    <3>3. CASE i = 1
      <4>1. 1 \in 1..m + 1
        OBVIOUS
      <4>2. F[1] = D[1] /\ D[1] = ss[1]
        BY <2>2, <2>3, <4>1
      <4>3. QED
        BY <3>3, <4>2
    <3>4. QED
      BY <3>1, <3>2, <3>3
  <2>5. F = [i \in 1..m + 2 |-> IF i = 1 THEN ss[i] ELSE F[i - 1] \o ss[i]]
    BY <2>2, <2>4
  <2>6. m + 2 = m + 1 + 1
    OBVIOUS
  <2>7. Joined(F, m + 1 + 1)
    BY <2>5, <2>6 DEF Joined
  <2>8. QED
    BY <2>7
<1> HIDE DEF M
<1>5. Nat \subseteq M
  BY <1>3, <1>4, Induction
<1>6. Joined(flat, n)
  <2>1. n - 1 \in Nat /\ n - 1 + 1 = n
    BY <1>1
  <2>2. n - 1 \in M
    BY <1>5, <2>1
  <2>3. \E F : Joined(F, n)
    BY <2>1, <2>2 DEF M
  <2> HIDE DEF Joined
  <2>4. QED
    BY <2>3
<1> HIDE DEF flat
<1>7. \A i \in 1..n : flat[i] = IF i = 1 THEN ss[i] ELSE flat[i - 1] \o ss[i]
  BY <1>6
<1>8. flat[1] = ss[1] /\ \A i \in 1..n - 1 : flat[i + 1] = flat[i] \o ss[i + 1]
  <2>1. ASSUME NEW i \in 1..n - 1 PROVE flat[i + 1] = flat[i] \o ss[i + 1]
    <3>1. PICK j \in 1..n : j = i + 1
      BY <1>1
    <3>2. j # 1 /\ j - 1 = i
      BY <1>1, <3>1
    <3>3. flat[j] = flat[j - 1] \o ss[j]
      BY <1>7, <3>2
    <3>4. QED
      BY <3>1, <3>2, <3>3, Zenon
  <2>2. 1 \in 1..n
    BY <1>1
  <2>3. QED
    BY <1>7, <2>1, <2>2
<1> DEFINE T == {m \in 0..n - 1 : flat[m + 1] \in Seq(S)}
<1>9. 0..n - 1 \subseteq T
  <2>1. 0 \in T
    BY <1>1, <1>8
  <2>2. ASSUME NEW m \in 0..n - 1 - 1, m \in T PROVE m + 1 \in T
    <3>1. m + 1 \in 1..n - 1 /\ m + 1 + 1 \in 1..n
      BY <1>1
    <3>2. flat[m + 1 + 1] = flat[m + 1] \o ss[m + 1 + 1]
      BY <1>8, <3>1
    <3>3. flat[m + 1] \in Seq(S) /\ ss[m + 1 + 1] \in Seq(S)
      BY <1>1, <2>2, <3>1
    <3>4. flat[m + 1] \o ss[m + 1 + 1] \in Seq(S)
      BY <3>3
    <3>5. flat[m + 1 + 1] \in Seq(S)
      BY <3>2, <3>4
    <3>6. QED
      BY <3>1, <3>5
  <2>3. n - 1 \in Nat
    BY <1>1
  <2> HIDE DEF T
  <2>4. QED
    BY <2>1, <2>2, <2>3, InductionUpTo
<1>10. ASSUME NEW i \in 1..n PROVE flat[i] \in Seq(S)
  <2>1. i - 1 \in 0..n - 1 /\ i - 1 + 1 = i
    BY <1>1
  <2>2. QED
    BY <1>9, <2>1
<1>11. flat \in [1..n -> Seq(S)]
  <2>1. flat = [i \in 1..n |-> flat[i]]
    BY <1>6, <1>7
  <2>2. QED
    BY <1>10, <2>1
<1>12. QED
  BY <1>2, <1>8, <1>11 DEF n

LEMMA FlattenOne ==
  ASSUME NEW S, NEW t \in Seq(S)
  PROVE  FlattenSeq(<<t>>) = t
<1>1. <<t>> \in Seq(Seq(S)) /\ <<t>> # <<>> /\ Len(<<t>>) = 1 /\ <<t>>[1] = t
  OBVIOUS
<1>2. QED
  BY <1>1, FlattenSteps

LEMMA FlattenAppend ==
  ASSUME NEW S, NEW ss \in Seq(Seq(S)), ss # <<>>, NEW t \in Seq(S)
  PROVE  /\ FlattenSeq(ss) \in Seq(S)
         /\ FlattenSeq(Append(ss, t)) = FlattenSeq(ss) \o t
<1> DEFINE n == Len(ss)
           a == Append(ss, t)
           Q == Seq(S)
<1>1. PICK F \in [1..n -> Seq(S)] : /\ F[1] = ss[1]
                                    /\ \A i \in 1..n - 1 : F[i + 1] = F[i] \o ss[i + 1]
                                    /\ FlattenSeq(ss) = F[n]
  BY FlattenSteps
<1>2. /\ n \in Nat \ {0} /\ a \in Seq(Q) /\ Len(a) = n + 1 /\ a[n + 1] = t
      /\ \A i \in 1..n : a[i] = ss[i]
  <2>1. ss \in Seq(Q) /\ t \in Q /\ ss # <<>>
    OBVIOUS
  <2> HIDE DEF Q
  <2>2. QED
    BY <2>1
<1>3. a # <<>>
  BY <1>2
<1> HIDE DEF n, a
<1>4. PICK G \in [1..Len(a) -> Seq(S)] :
         /\ G[1] = a[1]
         /\ \A i \in 1..Len(a) - 1 : G[i + 1] = G[i] \o a[i + 1]
         /\ FlattenSeq(a) = G[Len(a)]
  BY <1>2, <1>3, FlattenSteps
<1>5. /\ G[1] = ss[1] /\ FlattenSeq(a) = G[n + 1] /\ G[n + 1] = G[n] \o t
      /\ \A i \in 1..n - 1 : G[i + 1] = G[i] \o ss[i + 1]
  <2>1. 1..Len(a) - 1 = 1..n /\ 1 \in 1..n /\ n \in 1..n
    BY <1>2
  <2>2. \A i \in 1..n : G[i + 1] = G[i] \o a[i + 1]
    BY <1>4, <2>1, Zenon
  <2>3. ASSUME NEW i \in 1..n - 1 PROVE G[i + 1] = G[i] \o ss[i + 1]
    <3>1. i \in 1..n /\ i + 1 \in 1..n
      BY <1>2
    <3>2. QED
      BY <1>2, <2>2, <3>1, Zenon
  <2>4. G[n + 1] = G[n] \o t
    BY <1>2, <2>1, <2>2, Zenon
  <2>5. G[1] = ss[1] /\ FlattenSeq(a) = G[n + 1]
    BY <1>2, <1>4, <2>1, Zenon
  <2>6. QED
    BY <2>3, <2>4, <2>5, Zenon
<1> DEFINE T == {m \in 0..n - 1 : G[m + 1] = F[m + 1]}
<1>6. 0..n - 1 \subseteq T
  <2>1. 0 \in T
    BY <1>1, <1>2, <1>5
  <2>2. ASSUME NEW m \in 0..n - 1 - 1, m \in T PROVE m + 1 \in T
    <3>1. PICK j \in 1..n - 1 : j = m + 1
      BY <1>2
    <3>2. G[j + 1] = F[j + 1]
      BY <1>1, <1>5, <2>2, <3>1
    <3>3. QED
      BY <1>2, <3>1, <3>2
  <2>3. n - 1 \in Nat
    BY <1>2
  <2> HIDE DEF T
  <2>4. QED
    BY <2>1, <2>2, <2>3, InductionUpTo
<1>7. G[n] = F[n]
  <2>1. n - 1 \in 0..n - 1 /\ n - 1 + 1 = n
    BY <1>2
  <2>2. QED
    BY <1>6, <2>1
<1>8. FlattenSeq(ss) \in Seq(S)
  BY <1>1, <1>2
<1>9. QED
  BY <1>1, <1>5, <1>7, <1>8 DEF a
=============================================================================
