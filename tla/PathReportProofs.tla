--------------------------- MODULE PathReportProofs ---------------------------
(***************************************************************************)
(* What the enumeration by packet rate reports, for all programs, costs    *)
(* and numbers of paths:                                                   *)
(*                                                                         *)
(*   SortedBySlowness  the paths come from slowest to fastest              *)
(*   BoundIsSafe       the "max cycles" printed last bounds all to come    *)
(*   NothingIsLost     a search that ends by itself has reported each path *)
(*                     a packet can take, once, and counted the others     *)
(*                                                                         *)
(* The paths that have arrived at the source of an edge and were not drawn *)
(* along it yet stand in one line (Line): first those in pred_data.q, then *)
(* those in succ_data.q and, where they belong there, those next_k() has   *)
(* just collected.  Behind fin_nd the line is that of the complete paths.  *)
(* Whatever step the search takes is one of four (Steps): the lines stay,  *)
(* but for impossible paths that are merged (Quiet); the slowest path in   *)
(* front of a node is extended and joins the lines behind it (Drawing);    *)
(* the first complete path is reported (Reports); the search ends (Stops). *)
(* Each part of the invariants is shown for the first three.               *)
(*                                                                         *)
(* The first two theorems assume Steady: the ways into a node agree on the *)
(* cost of its last instruction.  Without it an extension may make the     *)
(* faster of two paths the slower one.                                     *)
(***************************************************************************)
EXTENDS PathEnumerationProofs, FiniteSetTheorems

-----------------------------------------------------------------------------
(* Queues that were joined                                                 *)

\* a is b, or what is left of impossible paths the last of which was b
Alike(a, b) ==
  a = b \/ (a.kind = b.kind /\ a.kind # "possible" /\ a.at = b.at /\ a.cost = b.cost)

\* t has the paths of s, in their order; impossible ones may have been merged
\* into a later one.
Selects(t, s, f) ==
  /\ f \in [1..Len(t) -> 1..Len(s)]
  /\ \A i, j \in 1..Len(t) : i < j => f[i] < f[j]
  /\ \A i \in 1..Len(t) : Alike(t[i], s[f[i]])
  /\ \A j \in 1..Len(s) : s[j].kind = "possible" => \E i \in 1..Len(t) : f[i] = j

\* t is what a queue s may have become: it stands for as many paths.
Merged(t, s) ==
  /\ t \in Seq(Paths) /\ s \in Seq(Paths)
  /\ Weight(t) = Weight(s)
  /\ \E f : Selects(t, s, f)

\* Nothing is merged in a queue left alone.
LEMMA MergedSame ==
  ASSUME NEW s \in Seq(Paths)
  PROVE  Merged(s, s)
<1> DEFINE f == [i \in 1..Len(s) |-> i]
<1>1. Selects(s, s, f)
  BY DEF Selects, Alike
<1>2. QED
  BY <1>1 DEF Merged

\* Merging goes on.
LEMMA MergedAgain ==
  ASSUME NEW t, NEW s, NEW r, Merged(t, s), Merged(s, r)
  PROVE  Merged(t, r)
<1>1. PICK f : Selects(t, s, f)
  BY DEF Merged
<1>2. PICK g : Selects(s, r, g)
  BY DEF Merged
<1>3. t \in Seq(Paths) /\ s \in Seq(Paths) /\ r \in Seq(Paths) /\ Weight(t) = Weight(r)
  BY DEF Merged
<1> DEFINE h == [i \in 1..Len(t) |-> g[f[i]]]
<1>4. \A i \in 1..Len(t) : f[i] \in 1..Len(s) /\ h[i] = g[f[i]] /\ h[i] \in 1..Len(r)
  BY <1>1, <1>2 DEF Selects
<1>5. h \in [1..Len(t) -> 1..Len(r)]
  BY <1>4
<1> HIDE DEF h
<1>6. \A i, j \in 1..Len(t) : i < j => h[i] < h[j]
  BY <1>1, <1>2, <1>4 DEF Selects
<1>7. ASSUME NEW i \in 1..Len(t) PROVE Alike(t[i], r[h[i]])
  <2>1. Alike(t[i], s[f[i]]) /\ Alike(s[f[i]], r[g[f[i]]])
    BY <1>1, <1>2, <1>4 DEF Selects
  <2>2. QED
    BY <1>4, <2>1 DEF Alike
<1>8. ASSUME NEW j \in 1..Len(r), r[j].kind = "possible" PROVE \E i \in 1..Len(t) : h[i] = j
  <2>1. PICK l \in 1..Len(s) : g[l] = j
    BY <1>2, <1>8 DEF Selects
  <2>2. Alike(s[l], r[j])
    BY <1>2, <2>1 DEF Selects
  <2>3. s[l].kind = "possible"
    BY <1>8, <2>2 DEF Alike
  <2>4. PICK i \in 1..Len(t) : f[i] = l
    BY <1>1, <2>3 DEF Selects
  <2>5. QED
    BY <1>4, <2>1, <2>4
<1>9. Selects(t, r, h)
  BY <1>5, <1>6, <1>7, <1>8 DEF Selects
<1>10. QED
  BY <1>3, <1>9 DEF Merged

\* The elements of a concatenation, by their places
LEMMA ConcatPlaces ==
  ASSUME NEW S, NEW s \in Seq(S), NEW t \in Seq(S)
  PROVE  /\ s \o t \in Seq(S) /\ Len(s \o t) = Len(s) + Len(t)
         /\ Len(s) \in Nat /\ Len(t) \in Nat
         /\ \A i \in 1..Len(s) : i \in 1..Len(s \o t) /\ (s \o t)[i] = s[i]
         /\ \A i \in 1..Len(t) : Len(s) + i \in 1..Len(s \o t) /\ (s \o t)[Len(s) + i] = t[i]
         /\ \A i \in 1..Len(s \o t) : i \in 1..Len(s) \/ (i > Len(s) /\ i - Len(s) \in 1..Len(t))
OBVIOUS

\* Two merged queues, one after the other
LEMMA MergedConcat ==
  ASSUME NEW a, NEW b, NEW c, NEW d, Merged(a, b), Merged(c, d)
  PROVE  Merged(a \o c, b \o d)
<1>1. PICK f : Selects(a, b, f)
  BY DEF Merged
<1>2. PICK g : Selects(c, d, g)
  BY DEF Merged
<1>3. /\ a \in Seq(Paths) /\ b \in Seq(Paths) /\ c \in Seq(Paths) /\ d \in Seq(Paths)
      /\ Weight(a) = Weight(b) /\ Weight(c) = Weight(d)
  BY DEF Merged
<1> DEFINE t == a \o c
           s == b \o d
           m == Len(a)
           n == Len(b)
           h == [i \in 1..Len(t) |-> IF i \in 1..m THEN f[i] ELSE n + g[i - m]]
<1>4. /\ t \in Seq(Paths) /\ Len(t) = m + Len(c) /\ m \in Nat /\ Len(c) \in Nat
      /\ \A i \in 1..m : i \in 1..Len(t) /\ t[i] = a[i]
      /\ \A i \in 1..Len(c) : m + i \in 1..Len(t) /\ t[m + i] = c[i]
      /\ \A i \in 1..Len(t) : i \in 1..m \/ (i > m /\ i - m \in 1..Len(c))
  BY <1>3, ConcatPlaces
<1>5. /\ s \in Seq(Paths) /\ Len(s) = n + Len(d) /\ n \in Nat /\ Len(d) \in Nat
      /\ \A i \in 1..n : i \in 1..Len(s) /\ s[i] = b[i]
      /\ \A i \in 1..Len(d) : n + i \in 1..Len(s) /\ s[n + i] = d[i]
      /\ \A i \in 1..Len(s) : i \in 1..n \/ (i > n /\ i - n \in 1..Len(d))
  BY <1>3, ConcatPlaces
<1>6. Weight(t) = Weight(s)
  BY <1>3, WeightConcat
<1> HIDE DEF t, s
<1>7. /\ \A i \in 1..m : f[i] \in 1..n /\ Alike(a[i], b[f[i]])
      /\ \A i \in 1..Len(c) : g[i] \in 1..Len(d) /\ Alike(c[i], d[g[i]])
      /\ \A i, j \in 1..m : i < j => f[i] < f[j]
      /\ \A i, j \in 1..Len(c) : i < j => g[i] < g[j]
  BY <1>1, <1>2 DEF Selects
<1> HIDE DEF m, n
<1>8. /\ \A i \in 1..m : h[i] = f[i] /\ h[i] \in 1..Len(s) /\ i \in 1..Len(t)
      /\ \A i \in 1..Len(c) : h[m + i] = n + g[i] /\ h[m + i] \in 1..Len(s) /\ m + i \in 1..Len(t)
  <2>1. ASSUME NEW i \in 1..m PROVE h[i] = f[i] /\ h[i] \in 1..Len(s) /\ i \in 1..Len(t)
    BY <1>4, <1>5, <1>7
  <2>2. ASSUME NEW i \in 1..Len(c)
        PROVE  h[m + i] = n + g[i] /\ h[m + i] \in 1..Len(s) /\ m + i \in 1..Len(t)
    <3>1. m + i \in 1..Len(t) /\ m + i \notin 1..m /\ (m + i) - m = i
      BY <1>4
    <3>2. h[m + i] = n + g[i]
      BY <3>1
    <3>3. n + g[i] \in 1..Len(s)
      BY <1>5, <1>7
    <3>4. QED
      BY <3>1, <3>2, <3>3
  <2>3. QED
    BY <2>1, <2>2
<1>9. h \in [1..Len(t) -> 1..Len(s)]
  <2>1. ASSUME NEW i \in 1..Len(t) PROVE h[i] \in 1..Len(s)
    <3>1. CASE i \in 1..m
      BY <1>8, <3>1
    <3>2. CASE i - m \in 1..Len(c)
      <4>1. i = m + (i - m)
        BY <1>4
      <4>2. QED
        BY <1>8, <3>2, <4>1
    <3>3. QED
      BY <1>4, <3>1, <3>2
  <2>2. h = [i \in 1..Len(t) |-> h[i]]
    OBVIOUS
  <2> HIDE DEF h
  <2>3. QED
    BY <2>1, <2>2
<1> HIDE DEF h
<1>10. ASSUME NEW i \in 1..Len(t), NEW j \in 1..Len(t), i < j PROVE h[i] < h[j]
  <2>1. CASE j \in 1..m
    <3>1. i \in 1..m
      BY <1>4, <1>10, <2>1
    <3>2. QED
      BY <1>7, <1>8, <1>10, <2>1, <3>1
  <2>2. CASE i \in 1..m /\ j - m \in 1..Len(c)
    <3>1. j = m + (j - m) /\ h[i] \in 1..n
      <4>1. j = m + (j - m)
        BY <1>4
      <4>2. h[i] = f[i] /\ f[i] \in 1..n
        BY <1>7, <1>8, <2>2
      <4>3. QED
        BY <4>1, <4>2
    <3>2. h[j] = n + g[j - m] /\ g[j - m] \in 1..Len(d)
      BY <1>7, <1>8, <2>2, <3>1
    <3>3. QED
      BY <1>5, <3>1, <3>2
  <2>3. CASE i - m \in 1..Len(c) /\ j - m \in 1..Len(c)
    <3>1. i = m + (i - m) /\ j = m + (j - m) /\ i - m < j - m
      BY <1>4, <1>10
    <3>2. g[i - m] < g[j - m] /\ g[i - m] \in Nat /\ g[j - m] \in Nat
      BY <1>5, <1>7, <2>3, <3>1
    <3>3. h[i] = n + g[i - m] /\ h[j] = n + g[j - m]
      BY <1>8, <2>3, <3>1
    <3>4. QED
      BY <1>5, <3>2, <3>3
  <2>4. QED
    BY <1>4, <1>10, <2>1, <2>2, <2>3
<1>11. ASSUME NEW i \in 1..Len(t) PROVE Alike(t[i], s[h[i]])
  <2>1. CASE i \in 1..m
    BY <1>4, <1>5, <1>7, <1>8, <2>1
  <2>2. CASE i - m \in 1..Len(c)
    <3>1. i = m + (i - m)
      BY <1>4
    <3>2. t[i] = c[i - m] /\ h[i] = n + g[i - m] /\ g[i - m] \in 1..Len(d)
      BY <1>4, <1>7, <1>8, <2>2, <3>1
    <3>3. s[h[i]] = d[g[i - m]]
      BY <1>5, <3>2
    <3>4. QED
      BY <1>7, <2>2, <3>2, <3>3
  <2>3. QED
    BY <1>4, <2>1, <2>2
<1>12. ASSUME NEW j \in 1..Len(s), s[j].kind = "possible" PROVE \E i \in 1..Len(t) : h[i] = j
  <2>1. CASE j \in 1..n
    <3>1. b[j].kind = "possible"
      BY <1>5, <1>12, <2>1
    <3>2. PICK i \in 1..m : f[i] = j
      BY <1>1, <2>1, <3>1 DEF Selects, m, n
    <3>3. QED
      BY <1>8, <3>2
  <2>2. CASE j - n \in 1..Len(d)
    <3>1. j = n + (j - n)
      BY <1>5
    <3>2. d[j - n].kind = "possible"
      BY <1>5, <1>12, <2>2, <3>1
    <3>3. PICK i \in 1..Len(c) : g[i] = j - n
      BY <1>2, <2>2, <3>2 DEF Selects
    <3>4. QED
      BY <1>8, <3>1, <3>3
  <2>3. QED
    BY <1>5, <2>1, <2>2
<1>13. Selects(t, s, h)
  BY <1>9, <1>10, <1>11, <1>12 DEF Selects
<1>14. QED
  BY <1>4, <1>5, <1>6, <1>13 DEF Merged, t, s

\* push() puts the second queue behind the first and merges where they meet.
LEMMA MergedPush ==
  ASSUME NEW q, Sound(q), NEW r, Sound(r), Weight(q.paths) + Weight(r.paths) <= SizeMax
  PROVE  Merged(Push(q, r).paths, q.paths \o r.paths)
<1> DEFINE a == q.paths
           b == r.paths
           t == Push(q, r).paths
           s == a \o b
           m == Len(a)
           l == MergePaths(Head(b), Last(a))
<1>1. /\ a \in Seq(Paths) /\ b \in Seq(Paths) /\ t \in Seq(Paths)
      /\ Weight(t) = Weight(a) + Weight(b)
  <2>1. Together(Push(q, r), q, r)
    BY PushIs
  <2>2. QED
    BY <2>1 DEF Together, Sound, Queues
<1>2. s \in Seq(Paths) /\ Weight(t) = Weight(s)
  BY <1>1, WeightConcat
<1>3. CASE ~(a # <<>> /\ b # <<>> /\ Mergeable(Head(b), Last(a)))
  <2>1. t = s
    BY <1>3 DEF Push
  <2>2. QED
    BY <1>2, <2>1, MergedSame
<1>4. CASE a # <<>> /\ b # <<>> /\ Mergeable(Head(b), Last(a))
  <2>1. t = (Front(a) \o <<l>>) \o Tail(b)
    BY <1>4 DEF Push
  <2> HIDE DEF l
  <2>2. /\ Front(a) \in Seq(Paths) /\ Len(Front(a)) = m - 1 /\ m \in Nat \ {0}
        /\ \A i \in 1..m - 1 : Front(a)[i] = a[i]
        /\ Last(a) = a[m] /\ Last(a) \in Paths
    BY <1>1, <1>4, Shorter
  <2>3. /\ Head(b) = b[1] /\ Head(b) \in Paths /\ Tail(b) \in Seq(Paths) /\ Len(Tail(b)) = Len(b) - 1
        /\ \A i \in 1..Len(Tail(b)) : Tail(b)[i] = b[i + 1]
        /\ Len(b) \in Nat \ {0}
    BY <1>1, <1>4
  <2>4. /\ Last(a).kind # "possible" /\ Head(b).kind # "possible"
        /\ Alike(l, Head(b))
    <3>1. Head(b) \in PathType
      BY <2>3 DEF Paths
    <3>2. l = Head(b) \/ l = [Head(b) EXCEPT !.count = (Head(b).count + Last(a).count) % (SizeMax + 1)]
      BY DEF MergePaths, l
    <3>3. l.kind = Head(b).kind /\ l.at = Head(b).at /\ l.cost = Head(b).cost
      BY <3>1, <3>2 DEF PathType
    <3>4. QED
      BY <1>4, <3>3 DEF Mergeable, Alike
  <2>5. l \in Paths
    <3>1. Stands(Head(b)) + Stands(Last(a)) <= SizeMax
      <4>1. Weight(a) = Weight(Front(a)) + Stands(Last(a)) /\ Weight(b) = Stands(Head(b)) + Weight(Tail(b))
        BY <1>1, <1>4, Beheaded, Betailed
      <4>2. /\ Weight(Front(a)) \in Nat /\ Weight(Tail(b)) \in Nat
            /\ Stands(Last(a)) \in Nat /\ Stands(Head(b)) \in Nat
        BY <2>2, <2>3, WeightNat, StandsNat
      <4>3. QED
        BY <4>1, <4>2, SizeMaxIs
    <3>2. QED
      BY <1>4, <2>2, <2>3, <3>1, MergeIs DEF l
  <2> DEFINE g == Front(a) \o <<l>>
             h == [i \in 1..Len(t) |-> IF i < m THEN i ELSE i + 1]
  <2>6. /\ g \in Seq(Paths) /\ Len(g) = m /\ g[m] = l
        /\ \A i \in 1..m - 1 : g[i] = a[i]
    <3> DEFINE u == Front(a)
               w == <<l>>
    <3>1. u \in Seq(Paths) /\ Len(u) = m - 1 /\ w \in Seq(Paths) /\ Len(w) = 1 /\ w[1] = l
      BY <2>2, <2>5
    <3> HIDE DEF u, w
    <3>2. /\ u \o w \in Seq(Paths) /\ Len(u \o w) = Len(u) + Len(w)
          /\ Len(u) \in Nat /\ Len(w) \in Nat
          /\ \A i \in 1..Len(u) : i \in 1..Len(u \o w) /\ (u \o w)[i] = u[i]
          /\ \A i \in 1..Len(w) : Len(u) + i \in 1..Len(u \o w) /\ (u \o w)[Len(u) + i] = w[i]
      <4>1. u \in Seq(Paths) /\ w \in Seq(Paths)
        BY <3>1
      <4>2. QED
        BY <4>1, ConcatPlaces
    <3>3. g = u \o w
      BY DEF g, u, w
    <3> HIDE DEF g, m
    <3>4. 1 \in 1..Len(w) /\ Len(u) + 1 = m /\ Len(g) = m
      BY <2>2, <3>1, <3>2, <3>3
    <3>5. g[m] = l
      BY <3>1, <3>2, <3>3, <3>4
    <3>6. \A i \in 1..m - 1 : g[i] = u[i]
      BY <3>1, <3>2, <3>3
    <3>7. QED
      BY <2>2, <3>2, <3>3, <3>4, <3>5, <3>6 DEF u
  <2> HIDE DEF g
  <2>7. /\ Len(t) = m + (Len(b) - 1)
        /\ \A i \in 1..Len(t) : /\ i < m => t[i] = a[i]
                                /\ i = m => t[i] = l
                                /\ i > m => t[i] = b[i - m + 1] /\ i - m + 1 \in 1..Len(b)
    <3>1. t = g \o Tail(b)
      BY <2>1 DEF g
    <3>2. /\ Len(t) = m + (Len(b) - 1)
          /\ \A i \in 1..m : t[i] = g[i]
          /\ \A i \in 1..Len(Tail(b)) : t[m + i] = Tail(b)[i]
      <4> DEFINE w == Tail(b)
      <4>1. w \in Seq(Paths) /\ g \in Seq(Paths) /\ Len(w) = Len(b) - 1 /\ Len(g) = m /\ t = g \o w
        BY <2>3, <2>6, <3>1
      <4> HIDE DEF w, m, t
      <4>2. /\ g \o w \in Seq(Paths) /\ Len(g \o w) = Len(g) + Len(w)
            /\ Len(g) \in Nat /\ Len(w) \in Nat
            /\ \A i \in 1..Len(g) : i \in 1..Len(g \o w) /\ (g \o w)[i] = g[i]
            /\ \A i \in 1..Len(w) : Len(g) + i \in 1..Len(g \o w) /\ (g \o w)[Len(g) + i] = w[i]
        <5>1. g \in Seq(Paths) /\ w \in Seq(Paths)
          BY <4>1
        <5>2. QED
          BY <5>1, ConcatPlaces
      <4>3. QED
        BY <4>1, <4>2 DEF w
    <3> HIDE DEF t, m
    <3>3. ASSUME NEW i \in 1..Len(t)
          PROVE  /\ i < m => t[i] = a[i]
                 /\ i = m => t[i] = l
                 /\ i > m => t[i] = b[i - m + 1] /\ i - m + 1 \in 1..Len(b)
      <4>1. i > m => i - m \in 1..Len(Tail(b)) /\ i = m + (i - m) /\ i - m + 1 \in 1..Len(b)
        BY <2>2, <2>3, <3>2
      <4>2. i <= m => i \in 1..m /\ (i < m => i \in 1..m - 1)
        BY <2>2
      <4>3. i < m => t[i] = a[i]
        <5>1. i < m => t[i] = g[i] /\ g[i] = a[i]
          BY <2>2, <2>6, <3>2, <4>2
        <5>2. QED
          BY <5>1
      <4>4. i = m => t[i] = l
        BY <2>2, <2>6, <3>2, <4>2
      <4>5. i > m => t[i] = b[i - m + 1] /\ i - m + 1 \in 1..Len(b)
        <5>1. i > m => t[i] = Tail(b)[i - m]
          BY <3>2, <4>1
        <5>2. QED
          BY <2>3, <4>1, <5>1
      <4>6. QED
        BY <4>3, <4>4, <4>5
    <3>4. QED
      BY <3>2, <3>3
  <2>8. /\ Len(s) = m + Len(b)
        /\ \A i \in 1..m : s[i] = a[i]
        /\ \A i \in 1..Len(b) : s[m + i] = b[i]
    <3>1. /\ s \in Seq(Paths) /\ Len(s) = Len(a) + Len(b)
          /\ Len(a) \in Nat /\ Len(b) \in Nat
          /\ \A i \in 1..Len(a) : i \in 1..Len(s) /\ s[i] = a[i]
          /\ \A i \in 1..Len(b) : Len(a) + i \in 1..Len(s) /\ s[Len(a) + i] = b[i]
      <4>1. a \in Seq(Paths) /\ b \in Seq(Paths)
        BY <1>1
      <4> HIDE DEF a, b
      <4>2. QED
        BY <4>1, ConcatPlaces
    <3>2. QED
      BY <3>1
  <2> HIDE DEF t, s, m, a, b
  <2>9. \A i \in 1..Len(t) : h[i] = (IF i < m THEN i ELSE i + 1) /\ h[i] \in 1..Len(s)
    BY <2>2, <2>3, <2>7, <2>8
  <2>10. h \in [1..Len(t) -> 1..Len(s)]
    BY <2>9
  <2> HIDE DEF h
  <2>11. \A i, j \in 1..Len(t) : i < j => h[i] < h[j]
    BY <2>2, <2>9
  <2>12. ASSUME NEW i \in 1..Len(t) PROVE Alike(t[i], s[h[i]])
    <3>1. CASE i < m
      <4>1. i \in 1..m /\ h[i] = i
        BY <2>2, <2>9, <3>1
      <4>2. QED
        BY <2>7, <2>8, <3>1, <4>1 DEF Alike
    <3>2. CASE i = m
      <4>1. h[i] = m + 1 /\ 1 \in 1..Len(b)
        BY <2>2, <2>3, <2>9, <3>2
      <4>2. s[h[i]] = Head(b)
        BY <2>3, <2>8, <4>1
      <4>3. QED
        BY <2>4, <2>7, <3>2, <4>2
    <3>3. CASE i > m
      <4>1. h[i] = m + (i - m + 1) /\ i - m + 1 \in 1..Len(b)
        BY <2>2, <2>7, <2>9, <3>3
      <4>2. s[h[i]] = b[i - m + 1]
        BY <2>8, <4>1
      <4>3. QED
        BY <2>7, <3>3, <4>2 DEF Alike
    <3>4. QED
      BY <2>2, <3>1, <3>2, <3>3
  <2>13. ASSUME NEW j \in 1..Len(s), s[j].kind = "possible" PROVE \E i \in 1..Len(t) : h[i] = j
    <3>1. j # m
      <4>1. m \in 1..m
        BY <2>2
      <4>2. s[m] = Last(a)
        BY <2>2, <2>8, <4>1
      <4>3. s[m].kind # "possible"
        BY <2>4, <4>2
      <4>4. QED
        BY <2>13, <4>3
    <3>2. CASE j < m
      <4>1. j \in 1..Len(t)
        BY <2>2, <2>3, <2>7, <3>2
      <4>2. QED
        BY <2>9, <3>2, <4>1
    <3>3. CASE j > m
      <4>1. j - 1 \in 1..Len(t) /\ ~(j - 1 < m) /\ (j - 1) + 1 = j
        BY <2>2, <2>3, <2>7, <2>8, <3>3
      <4>2. QED
        BY <2>9, <4>1
    <3>4. QED
      BY <2>2, <3>1, <3>2, <3>3
  <2>14. Selects(t, s, h)
    BY <2>10, <2>11, <2>12, <2>13 DEF Selects
  <2>15. QED
    BY <1>1, <1>2, <2>14 DEF Merged, t, s, a, b
<1>5. QED
  BY <1>3, <1>4

\* So does the push that replaces a queue said to be empty.
LEMMA MergedMove ==
  ASSUME NEW q, Sound(q), NEW r, Sound(r), Weight(q.paths) + Weight(r.paths) <= SizeMax
  PROVE  Merged(Move(q, r).paths, q.paths \o r.paths)
<1>1. CASE q.count = 0
  <2>1. q.paths \in Seq(Paths) /\ r.paths \in Seq(Paths) /\ Held(q.paths) = 0
    BY <1>1 DEF Sound, Queues
  <2>2. q.paths = <<>> /\ <<>> \o r.paths = r.paths
    BY <2>1, HeldIs
  <2>3. Move(q, r) = r
    BY <1>1 DEF Move
  <2>4. QED
    BY <2>1, <2>2, <2>3, MergedSame
<1>2. CASE q.count # 0
  BY <1>2, MergedPush DEF Move
<1>3. QED
  BY <1>1, <1>2

-----------------------------------------------------------------------------
(* The paths that wait for an edge                                         *)

\* What waits at the last node are the paths that were not reported yet.
Unreported == IF pc = "check" THEN SubSeq(batch, next, Len(batch)) ELSE <<>>
Fresh(y)   == IF pc \in {"draw", "sweep"} /\ y.src = e.to.src THEN got.paths ELSE <<>>
Line(y)    == IF y = Out THEN Unreported \o Fresh(Out)
              ELSE (pq[y].paths \o sq[y].paths) \o Fresh(y)

\* The last node is asked first, and what is asked for goes on behind what is
\* in pred_data.q; succ_data.q has just been emptied.
Tidy ==
  /\ pc = "check" => checked \subseteq 1..Len(batch) /\ next \in 1..Len(batch) + 1
  /\ k > 0
  /\ pc \in {"descend", "draw"} =>
       /\ pq[Out].paths = <<>>
       /\ e.to = Out <=> stack = <<>>
       /\ e.to = Out => e.k > 0
       /\ \A i \in 1..Len(stack) : stack[i].to = Out <=> i = 1
       /\ \A i \in 1..Len(stack) : i = 1 => stack[i].k > 0
       /\ \A i \in 1..Len(stack) : stack[i].to \in Edges => sq[stack[i].to].paths = <<>>
  /\ pc = "draw" /\ e.to = Out /\ got.paths = <<>> => size = 0
  /\ pc \in {"descend", "draw", "sweep"} /\ e.to \in Edges => sq[e.to].paths = <<>>
  /\ pc = "sweep" => e.to \in Edges

\* The pieces of a line are sequences of paths.
LEMMA LineIs ==
  ASSUME TypeInv, Tidy
  PROVE  /\ \A y \in Edges \cup {Out} :
              /\ pq[y].paths \in Seq(Paths) /\ Fresh(y) \in Seq(Paths) /\ Line(y) \in Seq(Paths)
              /\ Sound(pq[y])
         /\ \A y \in Edges : sq[y].paths \in Seq(Paths) /\ Sound(sq[y]) /\ y # Out
         /\ Unreported \in Seq(Paths) /\ got.paths \in Seq(Paths) /\ Sound(got)
<1>1. /\ \A y \in Edges \cup {Out} : pq[y].paths \in Seq(Paths) /\ Sound(pq[y])
      /\ \A y \in Edges : sq[y].paths \in Seq(Paths) /\ Sound(sq[y])
      /\ got.paths \in Seq(Paths) /\ Sound(got)
  BY DEF TypeInv, Sound, Queues
<1>2. \A y \in Edges \cup {Out} : Fresh(y) \in Seq(Paths)
  BY <1>1 DEF Fresh
<1>3. Unreported \in Seq(Paths)
  <2>1. CASE pc = "check"
    <3> DEFINE m == next - 1
               n == Len(batch)
    <3>1. batch \in Seq(Paths) /\ next \in 1..n + 1 /\ n \in Nat
      BY <2>1 DEF TypeInv, Tidy
    <3>2. m \in 0..n /\ n \in m..n /\ m + 1 = next
      BY <3>1
    <3> HIDE DEF m
    <3>3. SubSeq(batch, m + 1, n) \in Seq(Paths)
      BY <3>1, <3>2, Piece
    <3>4. QED
      BY <2>1, <3>2, <3>3 DEF Unreported
  <2>2. CASE pc # "check"
    BY <2>2 DEF Unreported
  <2>3. QED
    BY <2>1, <2>2
<1>4. \A y \in Edges : y # Out
  BY SideIs
<1>5. \A y \in Edges \cup {Out} : Line(y) \in Seq(Paths)
  <2>1. SUFFICES ASSUME NEW y \in Edges \cup {Out} PROVE Line(y) \in Seq(Paths)
    OBVIOUS
  <2>2. CASE y = Out
    BY <1>2, <1>3, <2>2 DEF Line
  <2>3. CASE y # Out
    <3>1. y \in Edges
      BY <2>3
    <3>2. pq[y].paths \o sq[y].paths \in Seq(Paths)
      BY <1>1, <3>1
    <3>3. QED
      BY <1>2, <2>3, <3>2 DEF Line
  <2>4. QED
    BY <2>2, <2>3
<1>6. QED
  BY <1>1, <1>2, <1>3, <1>4, <1>5

\* Nothing is appended.
LEMMA NothingMore ==
  ASSUME NEW S, NEW s \in Seq(S)
  PROVE  s \o <<>> = s /\ <<>> \o s = s
OBVIOUS

\* What is appended to an end of a concatenation
LEMMA ConcatAgain ==
  ASSUME NEW S, NEW s \in Seq(S), NEW t \in Seq(S), NEW u \in Seq(S)
  PROVE  (s \o t) \o u = s \o (t \o u)
OBVIOUS

\* A line that was left alone
LEMMA SameLine ==
  ASSUME TypeInv, Tidy, NEW y \in Edges \cup {Out}, pq'[y] = pq[y] \/ y = Out,
         y \in Edges => sq'[y] = sq[y], Fresh(y)' = Fresh(y), y = Out => Unreported' = Unreported
  PROVE  Line(y)' = Line(y) /\ Merged(Line(y)', Line(y))
<1>1. Line(y)' = Line(y)
  <2>1. CASE y = Out
    BY <2>1 DEF Line
  <2>2. CASE y # Out
    BY <2>2 DEF Line
  <2>3. QED
    BY <2>1, <2>2
<1>2. QED
  BY <1>1, LineIs, MergedSame

\* What succ_data.q holds is moved behind what pred_data.q holds.
LEMMA CollectLine ==
  ASSUME FewPaths, TypeInv, Tidy, NEW drawn, Covered(drawn), NEW x \in Edges,
         pc \notin {"draw", "sweep", "check"}, pc' # "check",
         pq' = [pq EXCEPT ![x] = Move(@, sq[x])], sq' = [sq EXCEPT ![x] = Empty],
         got' = Empty
  PROVE  \A y \in Edges \cup {Out} : Merged(Line(y)', Line(y))
<1>1. /\ \A y \in Edges \cup {Out} : y # x => pq'[y] = pq[y]
      /\ \A y \in Edges : y # x => sq'[y] = sq[y]
      /\ pq'[x] = Move(pq[x], sq[x]) /\ sq'[x] = Empty
  BY DEF TypeInv
<1>2. \A y \in Edges \cup {Out} : Fresh(y) = <<>> /\ Fresh(y)' = <<>>
  BY DEF Fresh, Empty
<1>3. Unreported = <<>> /\ Unreported' = <<>>
  BY DEF Unreported
<1>4. ASSUME NEW y \in Edges \cup {Out}, y # x PROVE Merged(Line(y)', Line(y))
  BY <1>1, <1>2, <1>3, <1>4, SameLine
<1>5. Merged(Line(x)', Line(x))
  <2>1. /\ Sound(pq[x]) /\ Sound(sq[x]) /\ pq[x].paths \in Seq(Paths) /\ sq[x].paths \in Seq(Paths)
        /\ x # Out
    BY LineIs
  <2>2. Weight(pq[x].paths) + Weight(sq[x].paths) <= SizeMax
    BY RoomIs DEF Offered
  <2> DEFINE s == pq[x].paths \o sq[x].paths
             t == Move(pq[x], sq[x]).paths
  <2>3. Merged(t, s)
    BY <2>1, <2>2, MergedMove
  <2>4. t \in Seq(Paths) /\ s \in Seq(Paths)
    BY <2>3 DEF Merged
  <2>5. Line(x) = s \o <<>> /\ Line(x)' = (t \o <<>>) \o <<>>
    <3>1. Line(x) = s \o Fresh(x) /\ Line(x)' = (pq'[x].paths \o sq'[x].paths) \o Fresh(x)'
      BY <2>1 DEF Line
    <3>2. sq'[x].paths = <<>> /\ pq'[x].paths = t
      BY <1>1 DEF Empty
    <3>3. QED
      BY <1>2, <3>1, <3>2
  <2> HIDE DEF s, t
  <2>6. Line(x) = s /\ Line(x)' = t
    BY <2>4, <2>5, NothingMore
  <2>7. QED
    BY <2>3, <2>6
<1>6. QED
  BY <1>4, <1>5

\* A path is drawn from the line of x and appended, extended, to the lines
\* behind the node it has arrived at.
Draws(x) ==
  /\ x \in Edges
  /\ \A z \in Edges : z.dst = x.dst =>
       /\ Line(z) # <<>>
       /\ CostVia(Head(Line(z)), z) <= CostVia(Head(Line(x)), x)
  /\ Line(x)' = Tail(Line(x))
  /\ \A y \in Edges \cup {Out} :
       y # x => Merged(Line(y)', IF y.src = x.dst
                                 THEN Append(Line(y), Extend(Head(Line(x)), x, dead))
                                 ELSE Line(y))

\* The first element of a concatenation, and what is behind it
LEMMA HeadConcat ==
  ASSUME NEW S, NEW s \in Seq(S), NEW t \in Seq(S), s # <<>>
  PROVE  s \o t # <<>> /\ Head(s \o t) = Head(s) /\ Tail(s \o t) = Tail(s) \o t
<1> DEFINE u == s \o t
           m == Len(s)
           n == Len(t)
<1>1. /\ u \in Seq(S) /\ Len(u) = m + n /\ m \in Nat /\ n \in Nat
      /\ \A i \in 1..m : u[i] = s[i]
      /\ \A i \in 1..n : u[m + i] = t[i]
  OBVIOUS
<1>2. m > 0
  OBVIOUS
<1> HIDE DEF u
<1>3. u # <<>> /\ Head(u) = Head(s)
  <2>1. u # <<>>
    BY <1>1, <1>2
  <2>2. Head(u) = u[1] /\ Head(s) = s[1] /\ 1 \in 1..m
    BY <1>1, <1>2, <2>1
  <2>3. QED
    BY <1>1, <2>1, <2>2
<1> DEFINE v == Tail(s)
<1>4. /\ v \in Seq(S) /\ Len(v) = m - 1 /\ \A i \in 1..m - 1 : v[i] = s[i + 1]
  OBVIOUS
<1>5. /\ Tail(u) \in Seq(S) /\ Len(Tail(u)) = m + n - 1 /\ \A i \in 1..m + n - 1 : Tail(u)[i] = u[i + 1]
  BY <1>1, <1>2, <1>3
<1> HIDE DEF v
<1> DEFINE w == v \o t
<1>6. /\ w \in Seq(S) /\ Len(w) = m - 1 + n
      /\ \A i \in 1..m - 1 : w[i] = v[i]
      /\ \A i \in 1..n : w[m - 1 + i] = t[i]
  <2>1. /\ w \in Seq(S) /\ Len(w) = Len(v) + Len(t)
        /\ \A i \in 1..Len(v) : w[i] = v[i]
        /\ \A i \in 1..Len(t) : w[Len(v) + i] = t[i]
    <3>1. v \in Seq(S)
      BY <1>4
    <3>2. /\ v \o t \in Seq(S) /\ Len(v \o t) = Len(v) + Len(t)
          /\ Len(v) \in Nat /\ Len(t) \in Nat
          /\ \A i \in 1..Len(v) : i \in 1..Len(v \o t) /\ (v \o t)[i] = v[i]
          /\ \A i \in 1..Len(t) : Len(v) + i \in 1..Len(v \o t) /\ (v \o t)[Len(v) + i] = t[i]
      BY <3>1, ConcatPlaces, SMTT(30)
    <3>3. QED
      BY <3>2
  <2> HIDE DEF w
  <2>2. QED
    BY <1>4, <2>1
<1> HIDE DEF w, m, n
<1>7. ASSUME NEW i \in 1..m + n - 1 PROVE Tail(u)[i] = w[i]
  <2>1. CASE i < m
    <3>1. i \in 1..m - 1 /\ i + 1 \in 1..m
      BY <1>1, <2>1
    <3>2. QED
      BY <1>1, <1>4, <1>5, <1>6, <3>1
  <2>2. CASE ~(i < m)
    <3>1. i - m + 1 \in 1..n /\ i + 1 = m + (i - m + 1) /\ i = m - 1 + (i - m + 1)
      BY <1>1, <1>2, <2>2
    <3>2. u[m + (i - m + 1)] = t[i - m + 1] /\ w[m - 1 + (i - m + 1)] = t[i - m + 1]
      BY <1>1, <1>6, <3>1
    <3>3. Tail(u)[i] = u[i + 1]
      BY <1>5
    <3>4. QED
      BY <3>1, <3>2, <3>3
  <2>3. QED
    BY <2>1, <2>2
<1>8. Tail(u) = w
  <2>1. Len(w) = Len(Tail(u)) /\ Len(w) = m + n - 1
    BY <1>1, <1>5, <1>6
  <2>2. \A i \in 1..Len(w) : Tail(u)[i] = w[i]
    BY <1>7, <2>1
  <2>3. QED
    BY <1>5, <1>6, <2>1, <2>2
<1>9. QED
  BY <1>3, <1>8 DEF u, w, v

\* A path is drawn, by next_k() or push_impossible().
LEMMA DrawnLines ==
  ASSUME FewPaths, TypeInv, Tidy, NEW drawn, Covered(drawn), pc \in {"draw", "sweep"},
         NEW x \in ToSet(Pred(e.to.src)), x = Longest(e.to.src),
         \A y \in ToSet(Pred(e.to.src)) : pq[y].paths # <<>>,
         pc' = pc, e' = e, sq' = sq, pq' = [pq EXCEPT ![x] = Take(@)],
         got' = Move(got, Queue(Extend(Head(pq[x].paths), x, dead))),
         batch' = batch, next' = next
  PROVE  Draws(x)
<1> DEFINE h == Head(pq[x].paths)
           nd == e.to.src
           p == Extend(h, x, dead)
<1>1. /\ x \in Edges /\ x.dst = nd /\ h \in Paths
      /\ Weight(got.paths) + Stands(h) <= SizeMax
      /\ \A y \in Edges \cup {Out} : y # x => pq'[y] = pq[y]
  BY DrawnIs
<1>2. nd \in Nodes /\ Pred(nd) # <<>> /\ pq \in [Edges \cup {Out} -> Queues]
      /\ rr[nd] \in 1..Len(Pred(nd))
  <2>1. nd \in Nodes
    BY LoadIs
  <2>2. Pred(nd) # <<>>
    BY DEF ToSet
  <2>3. QED
    BY <2>1, <2>2 DEF TypeInv
<1>3. \A z \in Edges : z.dst = nd => z.src # nd /\ z.src < nd
  BY EdgeIs
<1>4. ASSUME NEW z \in Edges, z.dst = nd
      PROVE  /\ z \in ToSet(Pred(nd)) /\ pq[z].paths # <<>> /\ Fresh(z) = <<>>
             /\ Line(z) = pq[z].paths \o sq[z].paths
             /\ Line(z) # <<>> /\ Head(Line(z)) = Head(pq[z].paths)
             /\ Tail(Line(z)) = Tail(pq[z].paths) \o sq[z].paths
             /\ FrontCost(z) = CostVia(Head(Line(z)), z)
  <2>1. z \in ToSet(Pred(nd))
    BY <1>2, <1>4, PredIs
  <2>2. pq[z].paths # <<>>
    BY <2>1
  <2>3. Fresh(z) = <<>>
    BY <1>3, <1>4 DEF Fresh
  <2>4. pq[z].paths \in Seq(Paths) /\ sq[z].paths \in Seq(Paths) /\ z # Out
    BY LineIs
  <2>5. Line(z) = pq[z].paths \o sq[z].paths
    <3> DEFINE s == pq[z].paths \o sq[z].paths
    <3>0. Line(z) = s \o Fresh(z)
      BY <2>4 DEF Line
    <3>1. s \in Seq(Paths) /\ Line(z) = s \o <<>>
      BY <2>3, <2>4, <3>0
    <3> HIDE DEF s
    <3>2. Line(z) = s
      BY <3>1, NothingMore
    <3>3. QED
      BY <3>2 DEF s
  <2>6. /\ Line(z) # <<>> /\ Head(Line(z)) = Head(pq[z].paths)
        /\ Tail(Line(z)) = Tail(pq[z].paths) \o sq[z].paths
    <3> DEFINE s == pq[z].paths
               t == sq[z].paths
    <3>1. s \in Seq(Paths) /\ t \in Seq(Paths) /\ s # <<>> /\ Line(z) = s \o t
      BY <2>2, <2>4, <2>5
    <3> HIDE DEF s, t
    <3>2. Line(z) # <<>> /\ Head(Line(z)) = Head(s) /\ Tail(Line(z)) = Tail(s) \o t
      <4>1. s \o t # <<>> /\ Head(s \o t) = Head(s) /\ Tail(s \o t) = Tail(s) \o t
        BY <3>1, HeadConcat
      <4>2. QED
        BY <3>1, <4>1
    <3>3. QED
      BY <3>2 DEF s, t
  <2>7. FrontCost(z) = CostVia(Head(Line(z)), z)
    BY <2>2, <2>6 DEF FrontCost
  <2>8. QED
    BY <2>1, <2>2, <2>3, <2>5, <2>6, <2>7
<1>5. \A y \in ToSet(Pred(nd)) : FrontCost(y) <= FrontCost(x)
  BY <1>2, LongestIs
<1>6. \A z \in Edges : z.dst = x.dst =>
        Line(z) # <<>> /\ CostVia(Head(Line(z)), z) <= CostVia(Head(Line(x)), x)
  BY <1>1, <1>4, <1>5
<1>7. Line(x)' = Tail(Line(x))
  <2>1. Fresh(x)' = <<>> /\ x # Out
    BY <1>1, <1>3, LineIs DEF Fresh
  <2>2. pq'[x].paths = Tail(pq[x].paths) /\ sq'[x] = sq[x]
    BY <1>1 DEF TypeInv, Take
  <2> DEFINE s == Tail(pq[x].paths) \o sq[x].paths
  <2>3. s \in Seq(Paths)
    <3>1. pq[x].paths \in Seq(Paths) /\ sq[x].paths \in Seq(Paths)
      BY <1>1, LineIs
    <3>2. pq[x].paths # <<>>
      BY <1>1, <1>4
    <3>3. QED
      BY <3>1, <3>2
  <2>4. Line(x)' = s \o <<>>
    BY <2>1, <2>2 DEF Line
  <2> HIDE DEF s
  <2>5. Line(x)' = s
    BY <2>3, <2>4, NothingMore
  <2>6. QED
    BY <1>1, <1>4, <2>5 DEF s
<1>8. Unreported' = Unreported
  BY DEF Unreported
<1>9. ASSUME NEW y \in Edges \cup {Out}, y # x, y.src # nd PROVE Merged(Line(y)', Line(y))
  <2>1. Fresh(y)' = Fresh(y)
    BY <1>9 DEF Fresh
  <2>2. QED
    BY <1>1, <1>8, <1>9, <2>1, SameLine
<1>10. h = Head(Line(x))
  BY <1>1, <1>4
<1>11. ASSUME NEW y \in Edges \cup {Out}, y # x, y.src = nd
       PROVE  Merged(Line(y)', Append(Line(y), p))
  <2>1. Fresh(y) = got.paths /\ Fresh(y)' = got'.paths
    BY <1>11 DEF Fresh
  <2> DEFINE s == IF y = Out THEN Unreported ELSE pq[y].paths \o sq[y].paths
             g == got.paths
  <2>2. Line(y) = s \o g
    BY <2>1, <1>11 DEF Line
  <2>3. Line(y)' = s \o got'.paths
    <3>1. CASE y = Out
      <4>1. Line(y)' = Unreported' \o Fresh(y)'
        BY <3>1 DEF Line
      <4>2. QED
        BY <1>8, <2>1, <3>1, <4>1
    <3>2. CASE y # Out
      <4>1. Line(y)' = (pq'[y].paths \o sq'[y].paths) \o Fresh(y)'
        BY <3>2 DEF Line
      <4>2. pq'[y] = pq[y] /\ sq'[y] = sq[y]
        BY <1>1, <1>11
      <4>3. QED
        BY <2>1, <3>2, <4>1, <4>2
    <3>3. QED
      BY <3>1, <3>2
  <2>4. s \in Seq(Paths) /\ g \in Seq(Paths) /\ Sound(got)
    <3>1. CASE y = Out
      BY <3>1, LineIs
    <3>2. CASE y # Out
      <4>1. y \in Edges
        BY <3>2
      <4>2. pq[y].paths \o sq[y].paths \in Seq(Paths)
        BY <4>1, LineIs
      <4>3. QED
        BY <3>2, <4>2, LineIs
    <3>3. QED
      BY <3>1, <3>2
  <2>5. p \in Paths /\ Stands(p) = Stands(h)
    BY <1>1, ExtendIs
  <2>6. Sound(Queue(p)) /\ Weight(Queue(p).paths) = Stands(h) /\ Queue(p).paths = <<p>>
    BY <2>5, QueueIs DEF Queue
  <2>7. Merged(got'.paths, g \o <<p>>)
    BY <1>1, <2>4, <2>6, MergedMove
  <2> HIDE DEF s, g, p, h, nd
  <2>8. Merged(s \o got'.paths, s \o (g \o <<p>>))
    BY <2>4, <2>7, MergedSame, MergedConcat
  <2>9. s \o (g \o <<p>>) = Append(s \o g, p)
    <3>1. <<p>> \in Seq(Paths) /\ s \o g \in Seq(Paths)
      BY <2>4, <2>5
    <3>2. s \o (g \o <<p>>) = (s \o g) \o <<p>>
      BY <2>4, <3>1, ConcatAgain
    <3>3. QED
      BY <2>5, <3>1, <3>2
  <2>10. QED
    BY <2>2, <2>3, <2>8, <2>9
<1>12. \A y \in Edges \cup {Out} :
         y # x => Merged(Line(y)', IF y.src = x.dst
                                   THEN Append(Line(y), Extend(Head(Line(x)), x, dead))
                                   ELSE Line(y))
  BY <1>1, <1>9, <1>10, <1>11
<1>13. QED
  BY <1>1, <1>6, <1>7, <1>12 DEF Draws

\* What was drawn is pushed to the queues behind its node.
LEMMA OfferedLines ==
  ASSUME FewPaths, TypeInv, Tidy, NEW drawn, Covered(drawn), pc \in {"draw", "sweep"},
         Offer(e.to), got' = Empty \/ pc' \notin {"draw", "sweep"},
         e.to = Out => pc' = "check" /\ batch' = pq'[Out].paths /\ next' = 1,
         e.to # Out => pc' # "check"
  PROVE  /\ \A y \in Edges \cup {Out} : Merged(Line(y)', Line(y))
         /\ e.to = Out => Line(Out)' = Line(Out) /\ Line(Out) = got.paths /\ batch' = got.paths
<1> DEFINE to == e.to
           g == got.paths
<1>1. /\ to \in Edges \cup {Out} /\ Sound(got) /\ g \in Seq(Paths)
      /\ \A y \in Edges \cup {Out} : Sound(pq[y]) /\ pq[y].paths \in Seq(Paths)
      /\ \A y \in Edges : Sound(sq[y]) /\ sq[y].paths \in Seq(Paths) /\ y # Out
  BY LineIs DEF TypeInv, Requests
<1>2. /\ pq'[to] = Move(pq[to], got)
      /\ \A y \in Edges \cup {Out} : y # to => pq'[y] = pq[y]
      /\ \A y \in Edges : sq'[y] = IF y \in Sibling(to) THEN Push(sq[y], got) ELSE sq[y]
  BY <1>1 DEF Offer, TypeInv
<1>3. /\ \A y \in Sibling(to) : y \in Edges /\ y # to /\ y.src = to.src
      /\ \A y \in Edges : y.src = to.src => y = to \/ y \in Sibling(to)
  BY <1>1, SiblingIs
<1>4. \A y \in Edges \cup {Out} :
        /\ Fresh(y)' = <<>>
        /\ Fresh(y) = IF y.src = to.src THEN g ELSE <<>>
        /\ y.src = to.src => Weight(pq[y].paths) + Weight(g) <= SizeMax
        /\ y.src = to.src /\ y \in Edges => Weight(sq[y].paths) + Weight(g) <= SizeMax
  <2>1. SUFFICES ASSUME NEW y \in Edges \cup {Out}
        PROVE /\ Fresh(y)' = <<>>
              /\ Fresh(y) = IF y.src = to.src THEN g ELSE <<>>
              /\ y.src = to.src => Weight(pq[y].paths) + Weight(g) <= SizeMax
              /\ y.src = to.src /\ y \in Edges => Weight(sq[y].paths) + Weight(g) <= SizeMax
    OBVIOUS
  <2>2. Fresh(y)' = <<>>
    BY DEF Fresh, Empty
  <2>3. Fresh(y) = IF y.src = to.src THEN g ELSE <<>>
    BY DEF Fresh
  <2>4. Weight(pq[y].paths) + Pending(y) <= SizeMax /\ Offered(y) + Pending(y) <= SizeMax
    BY RoomIs
  <2>5. y.src = to.src => Pending(y) = Weight(g)
    BY DEF Pending
  <2>6. y \in Edges => Offered(y) = Weight(sq[y].paths)
    BY DEF Offered
  <2>7. QED
    BY <2>2, <2>3, <2>4, <2>5, <2>6
<1>5. Unreported = <<>>
  BY DEF Unreported
<1>6. ASSUME NEW y \in Edges PROVE Merged(Line(y)', Line(y))
  <2> DEFINE p == pq[y].paths
             s == sq[y].paths
  <2>1. /\ Line(y) = (p \o s) \o Fresh(y)
        /\ Line(y)' = (pq'[y].paths \o sq'[y].paths) \o Fresh(y)'
    BY <1>1 DEF Line
  <2>2. p \in Seq(Paths) /\ s \in Seq(Paths) /\ y \in Edges \cup {Out} /\ p \o s \in Seq(Paths)
    BY <1>1
  <2>3. CASE y = to
    <3>1. s = <<>> /\ y \notin Sibling(to) /\ sq'[y] = sq[y] /\ pq'[y] = Move(pq[y], got)
      BY <1>2, <1>3, <2>3 DEF Tidy
    <3>2. Fresh(y) = g /\ Fresh(y)' = <<>>
      BY <1>4, <2>2, <2>3
    <3>3. Merged(Move(pq[y], got).paths, p \o g)
      BY <1>1, <1>4, <2>2, <2>3, MergedMove
    <3> DEFINE t == Move(pq[y], got).paths
    <3>4. t \in Seq(Paths)
      BY <3>3 DEF Merged
    <3>5. Line(y)' = (t \o <<>>) \o <<>> /\ Line(y) = (p \o <<>>) \o g
      BY <2>1, <3>1, <3>2
    <3> HIDE DEF t, p, g
    <3>6. Line(y)' = t /\ Line(y) = p \o g
      BY <2>2, <3>4, <3>5, NothingMore
    <3>7. QED
      BY <3>3, <3>6 DEF t
  <2>4. CASE y # to /\ y.src = to.src
    <3>1. sq'[y] = Push(sq[y], got) /\ pq'[y] = pq[y]
      BY <1>2, <1>3, <2>4
    <3>2. Fresh(y) = g /\ Fresh(y)' = <<>>
      BY <1>4, <2>2, <2>4
    <3>3. Merged(Push(sq[y], got).paths, s \o g)
      BY <1>1, <1>4, <2>2, <2>4, MergedPush
    <3> DEFINE t == Push(sq[y], got).paths
    <3>4. t \in Seq(Paths)
      BY <3>3 DEF Merged
    <3>5. Line(y)' = (p \o t) \o <<>> /\ Line(y) = (p \o s) \o g
      BY <2>1, <3>1, <3>2
    <3>6. Merged(p, p)
      BY <2>2, MergedSame
    <3>a. g \in Seq(Paths)
      BY <1>1
    <3> HIDE DEF t, p, g, s
    <3>7. Line(y)' = p \o t /\ Line(y) = p \o (s \o g)
      <4>1. p \o t \in Seq(Paths)
        BY <2>2, <3>4
      <4>2. (p \o t) \o <<>> = p \o t
        BY <4>1, NothingMore
      <4>3. (p \o s) \o g = p \o (s \o g)
        BY <2>2, <3>a, ConcatAgain
      <4>4. QED
        BY <3>5, <4>2, <4>3
    <3>8. Merged(p \o t, p \o (s \o g))
      BY <3>3, <3>6, MergedConcat DEF t
    <3>9. QED
      BY <3>7, <3>8
  <2>5. CASE y.src # to.src
    <3>1. y # to /\ y \notin Sibling(to)
      BY <1>3, <2>5
    <3>2. pq'[y] = pq[y] /\ sq'[y] = sq[y] /\ Fresh(y) = <<>> /\ Fresh(y)' = <<>>
      BY <1>2, <1>4, <2>2, <2>5, <3>1
    <3>3. QED
      BY <1>1, <2>2, <3>2, SameLine
  <2>6. QED
    BY <2>3, <2>4, <2>5
<1>7. CASE to = Out
  <2>1. pc = "draw" /\ pq[Out].paths = <<>>
    BY <1>1, <1>7 DEF Tidy
  <2>2. pq[Out].count = 0
    BY <1>1, <2>1, EmptyIs DEF Sound, Empty
  <2>3. pq'[Out] = got /\ batch' = g
    BY <1>2, <1>7, <2>2 DEF Move
  <2>4. Unreported' = SubSeq(g, 1, Len(g))
    BY <1>7, <2>3 DEF Unreported
  <2>5. SubSeq(g, 1, Len(g)) = g
    <3>1. g \in Seq(Paths)
      BY <1>1
    <3> HIDE DEF g
    <3>2. QED
      BY <3>1
  <2>6. Line(Out)' = g \o <<>> /\ Line(Out) = <<>> \o g
    <3>1. Fresh(Out) = g /\ Fresh(Out)' = <<>>
      BY <1>4, <1>7
    <3>2. QED
      BY <1>5, <2>4, <2>5, <3>1 DEF Line
  <2>7. Line(Out)' = g /\ Line(Out) = g
    BY <1>1, <2>6, NothingMore
  <2>8. Merged(Line(Out)', Line(Out))
    BY <1>1, <2>7, MergedSame
  <2>9. QED
    BY <1>6, <2>3, <2>7, <2>8
<1>8. CASE to # Out
  <2>1. to.src # Out.src
    BY <1>1, <1>8, SideIs
  <2>2. Fresh(Out) = <<>> /\ Fresh(Out)' = <<>>
    BY <1>4, <2>1
  <2>3. Unreported' = <<>>
    BY <1>8 DEF Unreported
  <2>4. Merged(Line(Out)', Line(Out))
    BY <1>5, <2>2, <2>3, SideIs, SameLine
  <2>5. QED
    BY <1>6, <1>8, <2>4
<1>9. QED
  BY <1>7, <1>8

-----------------------------------------------------------------------------
(* What a step does to the lines                                           *)

\* The cost of the first path of s is the new bound.
Prints(s) == s # <<>> /\ Head(s).kind = "possible" /\ bound' = Head(s).cost

\* The solver has found the conflict c on the path v.
Learns(v, c) ==
  v \in Seq(Edges \cup {Entry}) /\ c \in Conflicts /\ c \subseteq ToSet(v)
  /\ dead' = dead \cup {Decisive(v, c)}

\* Paths are moved from queue to queue, or checked.
Quiet ==
  /\ pc' = "over" <=> pc = "over"
  /\ \A y \in Edges \cup {Out} : Merged(Line(y)', Line(y))
  /\ dead' = dead \/ \E v, c : Learns(v, c)
  /\ bound' = bound \/ Prints(Line(Out))
  /\ count' = count /\ index' = index /\ done' = done /\ shown' = shown /\ hidden' = hidden

\* A path is drawn.
Drawing(x) ==
  /\ Draws(x)
  /\ pc # "over" /\ pc' # "over"
  /\ dead' = dead /\ bound' = bound
  /\ count' = count /\ index' = index /\ done' = done /\ shown' = shown /\ hidden' = hidden

\* The first of the complete paths is reported.
Reports ==
  LET p == Head(Line(Out))
      sat == p.kind = "possible" /\ Feasible(p.via)
  IN  /\ pc # "over" /\ pc' # "over"
      /\ Line(Out) # <<>>
      /\ Line(Out)' = Tail(Line(Out))
      /\ \A y \in Edges : Line(y)' = Line(y)
      /\ dead' = dead
      /\ bound' = bound \/ Prints(Tail(Line(Out)))
      /\ count' = count
      /\ index' = (IF sat THEN index + 1 ELSE index)
      /\ done' = (done \/ index' >= count \/ p.kind = "none")
      /\ shown' = (IF sat THEN Append(shown, p.via) ELSE shown)
      /\ hidden' = (IF sat \/ p.kind = "none" THEN hidden ELSE hidden + p.count)

\* The search ends.
Stops ==
  /\ pc = "prune" /\ done = TRUE /\ pc' = "over"
  /\ \A y \in Edges \cup {Out} : Line(y)' = <<>>
  /\ dead' = dead /\ bound' = bound
  /\ count' = count /\ index' = index /\ done' = done /\ shown' = shown /\ hidden' = hidden

\* next_k() begins.
LEMMA BeginLines ==
  ASSUME FewPaths, Inv, Tidy, Begin
  PROVE  Quiet
<1>1. TypeInv
  BY DEF Inv
<1>2. /\ pc = "pull" /\ pc' = "descend" /\ pq' = [pq EXCEPT ![Out] = Empty] /\ sq' = sq /\ got' = got
      /\ dead' = dead /\ bound' = bound
      /\ count' = count /\ index' = index /\ done' = done /\ shown' = shown /\ hidden' = hidden
  BY DEF Begin, round
<1>3. ASSUME NEW y \in Edges \cup {Out} PROVE Merged(Line(y)', Line(y))
  <2>1. Fresh(y) = <<>> /\ Fresh(y)' = <<>> /\ Unreported = <<>> /\ Unreported' = <<>>
    BY <1>2 DEF Fresh, Unreported
  <2>2. pq'[y] = pq[y] \/ y = Out
    BY <1>1, <1>2 DEF TypeInv
  <2>3. QED
    BY <1>1, <1>2, <2>1, <2>2, SameLine
<1>4. QED
  BY <1>2, <1>3 DEF Quiet

\* next_k() goes on with an edge in front.
LEMMA DescendLines ==
  ASSUME FewPaths, Inv, Tidy, NEW x \in ToSet(Pred(e.to.src)), Descend(x)
  PROVE  Quiet
<1>1. TypeInv /\ \E drawn \in [Edges \cup {Out} -> Nat] : Covered(drawn)
  BY DEF Inv, BudgetInv
<1>2. PICK drawn \in [Edges \cup {Out} -> Nat] : Covered(drawn)
  BY <1>1
<1>3. x \in Edges
  <2>1. e.to.src \in Nodes
    BY <1>1, LoadIs
  <2>2. QED
    BY <2>1, PredIs
<1>4. /\ pc = "descend" /\ pc' \in {"descend", "draw"} /\ got' = Empty
      /\ pq' = [pq EXCEPT ![x] = Move(@, sq[x])] /\ sq' = [sq EXCEPT ![x] = Empty]
      /\ dead' = dead /\ bound' = bound
      /\ count' = count /\ index' = index /\ done' = done /\ shown' = shown /\ hidden' = hidden
  BY DEF Descend, GoOn, round
<1>5. \A y \in Edges \cup {Out} : Merged(Line(y)', Line(y))
  BY <1>1, <1>2, <1>3, <1>4, CollectLine
<1>6. QED
  BY <1>4, <1>5 DEF Quiet

\* next_k() draws a path.
LEMMA DrawLines ==
  ASSUME FewPaths, Inv, Tidy, NEW x \in ToSet(Pred(e.to.src)), Draw(x)
  PROVE  x \in Edges /\ Drawing(x)
<1>1. TypeInv /\ AskInv /\ \E drawn \in [Edges \cup {Out} -> Nat] : Covered(drawn)
  BY DEF Inv, BudgetInv
<1>2. PICK drawn \in [Edges \cup {Out} -> Nat] : Covered(drawn)
  BY <1>1
<1>3. x \in Edges
  <2>1. e.to.src \in Nodes
    BY <1>1, LoadIs
  <2>2. QED
    BY <2>1, PredIs
<1>4. /\ pc = "draw" /\ size < e.k /\ pc' = pc /\ e' = e /\ sq' = sq
      /\ pq' = [pq EXCEPT ![x] = Take(@)] /\ x = Longest(e.to.src)
      /\ got' = Move(got, Queue(Extend(Head(pq[x].paths), x, dead)))
      /\ batch' = batch /\ next' = next
      /\ dead' = dead /\ bound' = bound
      /\ count' = count /\ index' = index /\ done' = done /\ shown' = shown /\ hidden' = hidden
  BY DEF Draw, round
<1>5. \A y \in ToSet(Pred(e.to.src)) : pq[y].paths # <<>>
  BY <1>1, <1>4, ReadyIs
<1>6. Draws(x)
  BY <1>1, <1>2, <1>4, <1>5, DrawnLines
<1>7. QED
  BY <1>3, <1>4, <1>6 DEF Drawing

\* next_k() comes back to what has asked for the paths.
LEMMA AscendLines ==
  ASSUME FewPaths, Inv, Tidy, Ascend
  PROVE  Quiet
<1>1. TypeInv /\ \E drawn \in [Edges \cup {Out} -> Nat] : Covered(drawn)
  BY DEF Inv, BudgetInv
<1>2. PICK drawn \in [Edges \cup {Out} -> Nat] : Covered(drawn)
  BY <1>1
<1>3. /\ pc = "draw" /\ pc' \in {"descend", "draw"} /\ got' = Empty /\ stack # <<>> /\ Offer(e.to)
      /\ dead' = dead /\ bound' = bound
      /\ count' = count /\ index' = index /\ done' = done /\ shown' = shown /\ hidden' = hidden
  BY DEF Ascend, GoOn, round
<1>4. e.to # Out
  BY <1>3 DEF Tidy
<1>5. \A y \in Edges \cup {Out} : Merged(Line(y)', Line(y))
  BY <1>1, <1>2, <1>3, <1>4, OfferedLines
<1>6. QED
  BY <1>3, <1>5 DEF Quiet

\* The complete paths are delegated, and the cost of the first may be printed.
LEMMA DelegateLines ==
  ASSUME FewPaths, Inv, Tidy, Delegate
  PROVE  Quiet
<1>1. TypeInv /\ \E drawn \in [Edges \cup {Out} -> Nat] : Covered(drawn)
  BY DEF Inv, BudgetInv
<1>2. PICK drawn \in [Edges \cup {Out} -> Nat] : Covered(drawn)
  BY <1>1
<1>3. /\ pc = "draw" /\ pc' = "check" /\ size >= e.k /\ stack = <<>> /\ Offer(e.to)
      /\ batch' = pq'[Out].paths /\ next' = 1
      /\ dead' = dead
      /\ bound' = (IF Undecided(batch'[1]) /\ batch'[1].cost < max THEN batch'[1].cost ELSE bound)
      /\ count' = count /\ index' = index /\ done' = done /\ shown' = shown /\ hidden' = hidden
  BY DEF Delegate
<1>4. e.to = Out /\ e.k > 0
  BY <1>3 DEF Tidy
<1>5. \A y \in Edges \cup {Out} : Merged(Line(y)', Line(y))
  BY <1>1, <1>2, <1>3, <1>4, OfferedLines
<1>6. Line(Out) = got.paths /\ batch' = got.paths /\ got.paths \in Seq(Paths)
  BY <1>1, <1>2, <1>3, <1>4, LineIs, OfferedLines
<1>7. got.paths # <<>>
  <2>1. e.k \in Nat /\ size \in Nat
    BY <1>1, SizeMaxIs DEF TypeInv, Requests
  <2>2. size # 0
    BY <1>3, <1>4, <2>1
  <2>3. QED
    BY <1>3, <1>4, <2>2 DEF Tidy
<1>8. bound' = bound \/ Prints(Line(Out))
  <2>1. Head(got.paths) = batch'[1]
    BY <1>6, <1>7
  <2>2. Undecided(batch'[1]) => batch'[1].kind = "possible"
    BY DEF Undecided
  <2>3. QED
    BY <1>3, <1>6, <1>7, <2>1, <2>2 DEF Prints
<1>9. QED
  BY <1>3, <1>5, <1>8 DEF Quiet

\* The lines if no queue and no list of paths changes.
LEMMA StillLines ==
  ASSUME TypeInv, Tidy, UNCHANGED <<pq, sq, got, e>>,
         pc' = pc \/ (pc \notin {"draw", "sweep"} /\ pc' \notin {"draw", "sweep"}),
         Unreported' = Unreported
  PROVE  \A y \in Edges \cup {Out} : Merged(Line(y)', Line(y))
<1>1. SUFFICES ASSUME NEW y \in Edges \cup {Out} PROVE Merged(Line(y)', Line(y))
  OBVIOUS
<1>2. Fresh(y)' = Fresh(y)
  BY DEF Fresh
<1>3. QED
  BY <1>2, SameLine

\* A worker checks a path, which may show a conflict.
LEMMA CheckLines ==
  ASSUME FewPaths, Inv, Tidy, NEW i \in DOMAIN batch, Check(i)
  PROVE  Quiet
<1>1. TypeInv
  BY DEF Inv
<1> DEFINE v == batch[i].via
<1>2. /\ pc = "check" /\ pc' = pc /\ UNCHANGED <<pq, sq, got, e, batch, next>>
      /\ dead' = dead \/ \E c \in Conflicts : c \subseteq ToSet(v) /\ dead' = dead \cup {Decisive(v, c)}
      /\ bound' = bound
      /\ count' = count /\ index' = index /\ done' = done /\ shown' = shown /\ hidden' = hidden
  BY DEF Check, search
<1>3. v \in Seq(Edges \cup {Entry})
  <2>1. batch[i] \in Paths
    BY <1>1 DEF TypeInv
  <2>2. QED
    BY <2>1 DEF Paths, PathType
<1>4. dead' = dead \/ \E u, c : Learns(u, c)
  BY <1>2, <1>3 DEF Learns
<1>5. Unreported' = Unreported
  BY <1>2 DEF Unreported
<1>6. \A y \in Edges \cup {Out} : Merged(Line(y)', Line(y))
  BY <1>1, <1>2, <1>5, StillLines
<1>7. QED
  BY <1>2, <1>4, <1>6 DEF Quiet

\* Sequences with the same elements are the same.
LEMMA SameSeq ==
  ASSUME NEW S, NEW s \in Seq(S), NEW t \in Seq(S), Len(s) = Len(t), \A i \in 1..Len(s) : s[i] = t[i]
  PROVE  s = t
OBVIOUS

\* What is left when the first element of a sequence has been passed by
LEMMA NextPiece ==
  ASSUME NEW S, NEW s \in Seq(S), NEW n \in 1..Len(s)
  PROVE  /\ SubSeq(s, n, Len(s)) # <<>> /\ Head(SubSeq(s, n, Len(s))) = s[n]
         /\ Tail(SubSeq(s, n, Len(s))) = SubSeq(s, n + 1, Len(s))
         /\ SubSeq(s, n, Len(s)) \in Seq(S)
<1> DEFINE m == Len(s)
           u == SubSeq(s, n, m)
           v == SubSeq(s, n + 1, m)
<1>1. /\ m \in Nat /\ u \in Seq(S) /\ Len(u) = m - n + 1
      /\ \A i \in 1..m - n + 1 : u[i] = s[n + i - 1]
  OBVIOUS
<1>2. /\ v \in Seq(S) /\ Len(v) = m - n
      /\ \A i \in 1..m - n : v[i] = s[n + i]
  <2>1. /\ n \in 0..Len(s) /\ m \in n..Len(s)
    OBVIOUS
  <2>2. v \in Seq(S)
    BY <2>1, Piece
  <2>3. QED
    BY <2>2
<1> HIDE DEF u, v
<1>3. u # <<>>
  <2>1. Len(u) > 0
    BY <1>1
  <2>2. QED
    BY <2>1
<1>4. Head(u) = u[1] /\ u[1] = s[n]
  <2>1. 1 \in 1..m - n + 1 /\ n + 1 - 1 = n
    BY <1>1
  <2>2. u[1] = s[n]
    BY <1>1, <2>1
  <2>3. QED
    BY <1>1, <1>3, <2>2
<1>5. /\ Tail(u) \in Seq(S) /\ Len(Tail(u)) = m - n /\ \A i \in 1..m - n : Tail(u)[i] = u[i + 1]
  BY <1>1, <1>3
<1>6. \A i \in 1..m - n : Tail(u)[i] = v[i]
  <2>1. ASSUME NEW i \in 1..m - n PROVE Tail(u)[i] = v[i]
    <3>1. i + 1 \in 1..m - n + 1 /\ n + (i + 1) - 1 = n + i
      BY <1>1
    <3>2. u[i + 1] = s[n + (i + 1) - 1]
      BY <1>1, <3>1
    <3>3. QED
      BY <1>2, <1>5, <3>1, <3>2
  <2>2. QED
    BY <2>1
<1>7. Tail(u) = v
  <2>1. Len(Tail(u)) = Len(v)
    BY <1>2, <1>5
  <2>2. \A i \in 1..Len(Tail(u)) : Tail(u)[i] = v[i]
    BY <1>2, <1>5, <1>6
  <2>3. Tail(u) \in Seq(S) /\ v \in Seq(S)
    BY <1>2, <1>5
  <2>4. QED
    BY <2>1, <2>2, <2>3, SameSeq
<1>8. QED
  BY <1>1, <1>3, <1>4, <1>7 DEF u, v

\* The callback of a path is called.
LEMMA ReportLines ==
  ASSUME FewPaths, Inv, Tidy, Report
  PROVE  Reports
<1>1. TypeInv
  BY DEF Inv
<1> DEFINE q == batch[next]
           sat == q.kind = "possible" /\ Feasible(q.via)
           n == Len(batch)
<1>2. /\ pc = "check" /\ next \in checked /\ next' = next + 1 /\ pc' = pc /\ batch' = batch
      /\ UNCHANGED <<pq, sq, got, e>> /\ dead' = dead /\ count' = count
      /\ index' = (IF sat THEN index + 1 ELSE index)
      /\ done' = (done \/ index' >= count \/ q.kind = "none")
      /\ shown' = (IF sat THEN Append(shown, q.via) ELSE shown)
      /\ hidden' = (IF sat \/ q.kind = "none" THEN hidden ELSE hidden + q.count)
  BY DEF Report, search
<1>3. bound' = bound \/ (next < n /\ batch[next + 1].kind = "possible" /\ bound' = batch[next + 1].cost)
  BY DEF Report, Undecided
<1>4. batch \in Seq(Paths) /\ next \in 1..n /\ n \in Nat
  BY <1>1, <1>2 DEF TypeInv, Tidy
<1>5. Line(Out) = Unreported /\ Line(Out)' = Unreported' /\ Fresh(Out) = <<>>
  <2>1. Fresh(Out) = <<>> /\ Fresh(Out)' = <<>>
    BY <1>2 DEF Fresh
  <2>2. Unreported \in Seq(Paths)
    BY <1>1, LineIs
  <2>3. Unreported' \in Seq(Paths)
    <3>1. next + 1 = next' /\ next \in 0..n /\ n \in next..n
      BY <1>2, <1>4
    <3>2. SubSeq(batch, next + 1, n) \in Seq(Paths)
      BY <1>4, <3>1, Piece
    <3>3. QED
      BY <1>2, <3>1, <3>2 DEF Unreported
  <2>4. Line(Out) = Unreported \o <<>> /\ Line(Out)' = Unreported' \o <<>>
    BY <2>1 DEF Line
  <2>5. QED
    BY <2>1, <2>2, <2>3, <2>4, NothingMore
<1>6. Unreported = SubSeq(batch, next, n) /\ Unreported' = SubSeq(batch, next + 1, n)
  BY <1>2 DEF Unreported
<1>7. Line(Out) # <<>> /\ Head(Line(Out)) = q /\ Line(Out)' = Tail(Line(Out))
  <2>1. /\ SubSeq(batch, next, n) # <<>> /\ Head(SubSeq(batch, next, n)) = batch[next]
        /\ Tail(SubSeq(batch, next, n)) = SubSeq(batch, next + 1, n)
    BY <1>4, NextPiece
  <2>2. QED
    BY <1>5, <1>6, <2>1
<1>8. next < n => Tail(Line(Out)) # <<>> /\ Head(Tail(Line(Out))) = batch[next + 1]
  <2>1. SUFFICES ASSUME next < n PROVE Tail(Line(Out)) # <<>> /\ Head(Tail(Line(Out))) = batch[next + 1]
    OBVIOUS
  <2>2. next + 1 \in 1..n
    BY <1>4, <2>1
  <2>3. SubSeq(batch, next + 1, n) # <<>> /\ Head(SubSeq(batch, next + 1, n)) = batch[next + 1]
    BY <1>4, <2>2, NextPiece
  <2>4. QED
    BY <1>5, <1>6, <1>7, <2>3
<1>9. bound' = bound \/ Prints(Tail(Line(Out)))
  BY <1>3, <1>8 DEF Prints
<1>10. ASSUME NEW y \in Edges PROVE Line(y)' = Line(y)
  <2>1. y # Out /\ Fresh(y)' = Fresh(y)
    BY <1>2, SideIs DEF Fresh
  <2>2. QED
    BY <1>2, <2>1 DEF Line
<1>11. pc # "over" /\ pc' # "over"
  BY <1>2
<1> HIDE DEF q, sat, n
<1>12. QED
  BY <1>2, <1>7, <1>9, <1>10, <1>11 DEF Reports, q, sat

\* All paths were reported.
LEMMA CloseLines ==
  ASSUME FewPaths, Inv, Tidy, Close
  PROVE  Quiet
<1>1. TypeInv
  BY DEF Inv
<1>2. /\ pc = "check" /\ next > Len(batch) /\ pc' = "prune" /\ UNCHANGED <<pq, sq, got, e>>
      /\ dead' = dead /\ bound' = bound
      /\ count' = count /\ index' = index /\ done' = done /\ shown' = shown /\ hidden' = hidden
  BY DEF Close, search
<1>3. Unreported' = Unreported
  <2>1. next = Len(batch) + 1 /\ Len(batch) \in Nat /\ batch \in Seq(Paths)
    BY <1>1, <1>2 DEF TypeInv, Tidy
  <2>2. SubSeq(batch, next, Len(batch)) = <<>>
    BY <2>1
  <2>3. QED
    BY <1>2, <2>2 DEF Unreported
<1>4. \A y \in Edges \cup {Out} : Merged(Line(y)', Line(y))
  BY <1>1, <1>2, <1>3, StillLines
<1>5. QED
  BY <1>2, <1>4 DEF Quiet

\* push_impossible() goes on with an edge.
LEMMA PruneLines ==
  ASSUME FewPaths, Inv, Tidy, Prune
  PROVE  Quiet
<1>1. TypeInv /\ \E drawn \in [Edges \cup {Out} -> Nat] : Covered(drawn)
  BY DEF Inv, BudgetInv
<1>2. PICK drawn \in [Edges \cup {Out} -> Nat] : Covered(drawn)
  BY <1>1
<1>3. PICK x \in Edges : x = Links[prune]
  <2>1. prune \in Nat \ {0} /\ prune <= Len(Links)
    BY <1>1 DEF TypeInv, Prune
  <2>2. prune \in 1..Len(Links)
    BY <2>1, LinksAre
  <2>3. QED
    BY <2>2, LinksAre
<1>4. /\ pc = "prune" /\ pc' = "sweep" /\ got' = Empty
      /\ pq' = [pq EXCEPT ![x] = Move(@, sq[x])] /\ sq' = [sq EXCEPT ![x] = Empty]
      /\ dead' = dead /\ bound' = bound
      /\ count' = count /\ index' = index /\ done' = done /\ shown' = shown /\ hidden' = hidden
  BY <1>3 DEF Prune, round
<1>5. \A y \in Edges \cup {Out} : Merged(Line(y)', Line(y))
  BY <1>1, <1>2, <1>4, CollectLine
<1>6. QED
  BY <1>4, <1>5 DEF Quiet

\* push_impossible() takes an impossible path, or is done with the edge.
LEMMA SweepLines ==
  ASSUME FewPaths, Inv, Tidy, NEW x \in ToSet(Pred(e.to.src)), Sweep(x)
  PROVE  x \in Edges /\ (Quiet \/ Drawing(x))
<1>1. TypeInv /\ \E drawn \in [Edges \cup {Out} -> Nat] : Covered(drawn)
  BY DEF Inv, BudgetInv
<1>2. PICK drawn \in [Edges \cup {Out} -> Nat] : Covered(drawn)
  BY <1>1
<1>3. x \in Edges
  <2>1. e.to.src \in Nodes
    BY <1>1, LoadIs
  <2>2. QED
    BY <2>1, PredIs
<1>4. /\ pc = "sweep" /\ x = Longest(e.to.src) /\ ShortestSize(pq, e.to.src) > 0
      /\ e' = e /\ batch' = batch /\ next' = next
      /\ dead' = dead /\ bound' = bound
      /\ count' = count /\ index' = index /\ done' = done /\ shown' = shown /\ hidden' = hidden
  BY DEF Sweep, round
<1>5. \A y \in ToSet(Pred(e.to.src)) : pq[y].paths # <<>>
  BY <1>1, <1>4, SweepReady
<1>6. CASE IsUnsat(Head(pq[x].paths), dead)
  <2>1. /\ pc' = pc /\ sq' = sq /\ pq' = [pq EXCEPT ![x] = Take(@)]
        /\ got' = Move(got, Queue(Extend(Head(pq[x].paths), x, dead)))
    BY <1>6 DEF Sweep
  <2>2. Draws(x)
    BY <1>1, <1>2, <1>4, <1>5, <2>1, DrawnLines
  <2>3. QED
    BY <1>3, <1>4, <2>1, <2>2 DEF Drawing
<1>7. CASE ~IsUnsat(Head(pq[x].paths), dead)
  <2>1. Offer(e.to) /\ pc' = "prune"
    BY <1>7 DEF Sweep
  <2>2. e.to # Out
    BY <1>4, SideIs DEF Tidy
  <2>3. \A y \in Edges \cup {Out} : Merged(Line(y)', Line(y))
    BY <1>1, <1>2, <1>4, <2>1, <2>2, OfferedLines
  <2>4. QED
    BY <1>3, <1>4, <2>1, <2>3 DEF Quiet
<1>8. QED
  BY <1>6, <1>7

\* push_impossible() finds a queue empty.
LEMMA SweptLines ==
  ASSUME FewPaths, Inv, Tidy, Swept
  PROVE  Quiet
<1>1. TypeInv /\ \E drawn \in [Edges \cup {Out} -> Nat] : Covered(drawn)
  BY DEF Inv, BudgetInv
<1>2. PICK drawn \in [Edges \cup {Out} -> Nat] : Covered(drawn)
  BY <1>1
<1>3. /\ pc = "sweep" /\ pc' = "prune" /\ Offer(e.to)
      /\ dead' = dead /\ bound' = bound
      /\ count' = count /\ index' = index /\ done' = done /\ shown' = shown /\ hidden' = hidden
  BY DEF Swept, round
<1>4. e.to # Out
  BY <1>3, SideIs DEF Tidy
<1>5. \A y \in Edges \cup {Out} : Merged(Line(y)', Line(y))
  BY <1>1, <1>2, <1>3, <1>4, OfferedLines
<1>6. QED
  BY <1>3, <1>5 DEF Quiet

\* Another round, or the end: reset() empties all queues.
LEMMA NextRoundLines ==
  ASSUME FewPaths, Inv, Tidy, NextRound
  PROVE  Quiet \/ Stops
<1>1. TypeInv
  BY DEF Inv
<1>2. /\ pc = "prune"
      /\ dead' = dead /\ bound' = bound
      /\ count' = count /\ index' = index /\ done' = done /\ shown' = shown /\ hidden' = hidden
      /\ UNCHANGED <<got, e>>
  BY DEF NextRound, round
<1>3. CASE done = TRUE
  <2>1. /\ pc' = "over" /\ pq' = [x \in DOMAIN pq |-> Empty] /\ sq' = [x \in DOMAIN sq |-> Empty]
    BY <1>3 DEF NextRound
  <2>2. ASSUME NEW y \in Edges \cup {Out} PROVE Line(y)' = <<>>
    <3>1. Fresh(y)' = <<>> /\ Unreported' = <<>>
      BY <2>1 DEF Fresh, Unreported
    <3>2. pq'[y].paths = <<>> /\ (y # Out => sq'[y].paths = <<>>)
      BY <1>1, <2>1 DEF TypeInv, Empty
    <3>3. QED
      BY <3>1, <3>2 DEF Line
  <2>3. QED
    BY <1>2, <1>3, <2>1, <2>2 DEF Stops
<1>4. CASE done = FALSE
  <2>1. pc' = "pull" /\ pq' = pq /\ sq' = sq
    BY <1>4 DEF NextRound
  <2>2. Unreported' = Unreported
    BY <1>2, <2>1 DEF Unreported
  <2>3. \A y \in Edges \cup {Out} : Merged(Line(y)', Line(y))
    BY <1>1, <1>2, <2>1, <2>2, StillLines
  <2>4. QED
    BY <1>2, <2>1, <2>3 DEF Quiet
<1>5. QED
  BY <1>1, <1>3, <1>4 DEF TypeInv

\* Whatever happens is one of the four.
LEMMA Steps ==
  ASSUME FewPaths, Inv, Tidy, [Next]_vars
  PROVE  Quiet \/ (\E x \in Edges : Drawing(x)) \/ Reports \/ Stops
<1>1. CASE UNCHANGED vars
  <2>1. TypeInv
    BY DEF Inv
  <2>2. /\ UNCHANGED <<pq, sq, got, e, batch, next>> /\ pc' = pc /\ dead' = dead /\ bound' = bound
        /\ count' = count /\ index' = index /\ done' = done /\ shown' = shown /\ hidden' = hidden
    BY <1>1 DEF vars, search, round
  <2>3. Unreported' = Unreported
    BY <2>2 DEF Unreported
  <2>4. \A y \in Edges \cup {Out} : Merged(Line(y)', Line(y))
    BY <2>1, <2>2, <2>3, StillLines
  <2>5. QED
    BY <2>2, <2>4 DEF Quiet
<1>2. CASE Next
  <2>1. CASE Finished
    BY <1>1, <2>1 DEF Finished
  <2>2. QED
    BY <1>2, <2>1, BeginLines, AscendLines, DescendLines, DrawLines, SweepLines, DelegateLines,
       CheckLines, ReportLines, CloseLines, PruneLines, SweptLines, NextRoundLines, Zenon DEF Next
<1>3. QED
  BY <1>1, <1>2

-----------------------------------------------------------------------------
(* Queues stay tidy                                                        *)

\* What is pushed is there.
LEMMA PushFills ==
  ASSUME NEW q \in Queues, NEW p \in Paths
  PROVE  Move(q, Queue(p)).paths # <<>>
<1>1. Queue(p).paths = <<p>>
  BY DEF Queue
<1>2. CASE q.count = 0
  <2>1. Move(q, Queue(p)) = Queue(p)
    BY <1>2 DEF Move
  <2>2. <<p>> # <<>>
    OBVIOUS
  <2>3. QED
    BY <1>1, <2>1, <2>2
<1>3. CASE q.count # 0
  <2> DEFINE m == MergePaths(Head(<<p>>), Last(q.paths))
             S == Paths \cup {m}
             f == Front(q.paths)
  <2>1. Move(q, Queue(p)).paths = IF /\ q.paths # <<>> /\ <<p>> # <<>>
                                     /\ Mergeable(Head(<<p>>), Last(q.paths))
                                  THEN f \o <<m>> \o Tail(<<p>>)
                                  ELSE q.paths \o <<p>>
    BY <1>1, <1>3 DEF Move, Push
  <2>2. q.paths \in Seq(Paths) /\ <<p>> \in Seq(Paths) /\ <<p>> # <<>> /\ Tail(<<p>>) = <<>>
    BY DEF Queues
  <2>3. q.paths \o <<p>> # <<>>
    BY <2>2, LastConcat
  <2>4. q.paths # <<>> => f \o <<m>> \o Tail(<<p>>) # <<>>
    <3>1. SUFFICES ASSUME q.paths # <<>> PROVE (f \o <<m>>) \o <<>> # <<>>
      BY <2>2
    <3>2. f \in Seq(Paths)
      BY <2>2, <3>1, Shorter
    <3> HIDE DEF f, m
    <3>3. f \in Seq(S) /\ <<m>> \in Seq(S) /\ <<m>> # <<>>
      BY <3>2
    <3> HIDE DEF S
    <3>4. f \o <<m>> # <<>> /\ f \o <<m>> \in Seq(S)
      <4> DEFINE w == <<m>>
      <4>1. w \in Seq(S) /\ w # <<>>
        BY <3>3
      <4> HIDE DEF w
      <4>2. f \o w # <<>> /\ f \o w \in Seq(S)
        BY <3>3, <4>1, LastConcat
      <4>3. QED
        BY <4>2 DEF w
    <3>5. QED
      BY <3>4, NothingMore
  <2>5. QED
    BY <2>1, <2>3, <2>4
<1>4. QED
  BY <1>2, <1>3

\* The search begins with a request for the last node.
LEMMA TidyInit ==
  ASSUME Init
  PROVE  Tidy
<1>1. /\ pc \in {"over", "pull"} /\ k = Parallelism
  BY DEF Init
<1>2. k > 0
  BY <1>1, ParallelismAssumption
<1>3. QED
  BY <1>1, <1>2 DEF Tidy

\* next_k() leaves things tidy when it begins,
LEMMA TidyBegin ==
  ASSUME Inv, Tidy, Begin
  PROVE  Tidy'
<1>1. /\ pc' = "descend" /\ pc = "pull" /\ e' = [to |-> Out, k |-> k] /\ k' = k /\ stack' = stack
      /\ pq' = [pq EXCEPT ![Out] = Empty]
  BY DEF Begin
<1>2. stack = <<>>
  BY <1>1 DEF Inv, AskInv
<1>3. pq'[Out].paths = <<>>
  BY <1>1 DEF Inv, TypeInv, Empty
<1>4. Out \notin Edges /\ k > 0
  BY SideIs DEF Tidy
<1>5. QED
  BY <1>1, <1>2, <1>3, <1>4 DEF Tidy

\* when it goes on with an edge,
LEMMA TidyDescend ==
  ASSUME Inv, Tidy, NEW x \in ToSet(Pred(e.to.src)), Descend(x)
  PROVE  Tidy'
<1>1. TypeInv
  BY DEF Inv
<1>2. x \in Edges /\ x # Out
  <2>1. e.to.src \in Nodes
    BY <1>1, LoadIs
  <2>2. x \in Edges
    BY <2>1, PredIs
  <2>3. QED
    BY <2>2, SideIs
<1>3. /\ pc = "descend" /\ pc' \in {"descend", "draw"} /\ k' = k /\ e'.to = x
      /\ stack' = Append(stack, e)
      /\ pq' = [pq EXCEPT ![x] = Move(@, sq[x])] /\ sq' = [sq EXCEPT ![x] = Empty]
  BY DEF Descend, GoOn
<1>4. pq'[Out] = pq[Out] /\ sq'[x].paths = <<>> /\ \A y \in Edges : y # x => sq'[y] = sq[y]
  BY <1>1, <1>2, <1>3 DEF TypeInv, Empty
<1>5. /\ pq[Out].paths = <<>>
      /\ e.to = Out <=> stack = <<>>
      /\ e.to = Out => e.k > 0
      /\ \A i \in 1..Len(stack) : stack[i].to = Out <=> i = 1
      /\ \A i \in 1..Len(stack) : i = 1 => stack[i].k > 0
      /\ \A i \in 1..Len(stack) : stack[i].to \in Edges => sq[stack[i].to].paths = <<>>
      /\ e.to \in Edges => sq[e.to].paths = <<>>
      /\ k > 0
  BY <1>3 DEF Tidy
<1>6. /\ stack \in Seq(Requests) /\ e \in Requests /\ Len(stack) \in Nat
  BY <1>1 DEF TypeInv
<1>7. /\ stack' # <<>> /\ Len(stack') = Len(stack) + 1
      /\ \A i \in 1..Len(stack) : stack'[i] = stack[i]
      /\ stack'[Len(stack) + 1] = e
  BY <1>3, <1>6, Longer
<1>8. stack = <<>> <=> Len(stack) + 1 = 1
  BY <1>6
<1>9. ASSUME NEW i \in 1..Len(stack')
      PROVE  /\ stack'[i].to = Out <=> i = 1
             /\ i = 1 => stack'[i].k > 0
             /\ stack'[i].to \in Edges => sq'[stack'[i].to].paths = <<>>
  <2>1. i \in 1..Len(stack) \/ i = Len(stack) + 1
    BY <1>6, <1>7
  <2>2. CASE i \in 1..Len(stack)
    BY <1>4, <1>5, <1>7, <2>2, SMTT(30)
  <2>3. CASE i = Len(stack) + 1
    <3>1. stack'[i] = e
      BY <1>7, <2>3
    <3>2. QED
      BY <1>4, <1>5, <1>8, <2>3, <3>1
  <2>4. QED
    BY <2>1, <2>2, <2>3
<1>10. QED
  BY <1>2, <1>3, <1>4, <1>5, <1>7, <1>9 DEF Tidy

\* when it draws a path,
LEMMA TidyDraw ==
  ASSUME Inv, Tidy, NEW x \in ToSet(Pred(e.to.src)), Draw(x)
  PROVE  Tidy'
<1>1. TypeInv /\ AskInv
  BY DEF Inv
<1>2. x \in Edges /\ x # Out
  <2>1. e.to.src \in Nodes
    BY <1>1, LoadIs
  <2>2. x \in Edges
    BY <2>1, PredIs
  <2>3. QED
    BY <2>2, SideIs
<1>3. /\ pc = "draw" /\ pc' = pc /\ k' = k /\ e' = e /\ stack' = stack /\ sq' = sq /\ size < e.k
      /\ pq' = [pq EXCEPT ![x] = Take(@)]
      /\ got' = Move(got, Queue(Extend(Head(pq[x].paths), x, dead)))
  BY DEF Draw
<1>4. pq'[Out] = pq[Out]
  BY <1>1, <1>2, <1>3 DEF TypeInv
<1>5. got'.paths # <<>>
  <2>1. pq[x].paths # <<>> /\ pq[x].paths \in Seq(Paths) /\ got \in Queues
    BY <1>1, <1>2, <1>3, ReadyIs DEF TypeInv, Sound, Queues
  <2>2. Extend(Head(pq[x].paths), x, dead) \in Paths
    <3>1. Head(pq[x].paths) \in Paths
      BY <2>1
    <3>2. QED
      BY <1>2, <3>1, ExtendIs
  <2>3. QED
    BY <1>3, <2>1, <2>2, PushFills
<1>6. QED
  BY <1>3, <1>4, <1>5 DEF Tidy

\* and when it comes back.
LEMMA TidyAscend ==
  ASSUME FewPaths, Inv, Tidy, Ascend
  PROVE  Tidy'
<1>1. TypeInv /\ AskInv /\ \E drawn \in [Edges \cup {Out} -> Nat] : Covered(drawn)
  BY DEF Inv, BudgetInv
<1>2. PICK drawn \in [Edges \cup {Out} -> Nat] : Covered(drawn)
  BY <1>1
<1> DEFINE n == Len(stack)
<1>3. /\ pc = "draw" /\ stack # <<>> /\ Offer(e.to) /\ stack' = Front(stack)
      /\ GoOn(Last(stack), pq') /\ k' = k
  BY DEF Ascend
<1>4. /\ stack \in Seq(Requests) /\ n \in Nat \ {0} /\ Last(stack) = stack[n] /\ Len(stack') = n - 1
      /\ \A i \in 1..n - 1 : stack'[i] = stack[i]
  BY <1>1, <1>3, Shorter DEF TypeInv
<1>5. e' = stack[n] /\ pc' \in {"descend", "draw"} /\ got' = Empty /\ size' = pq'[stack[n].to].count
  BY <1>3, <1>4 DEF GoOn
<1>6. /\ pq[Out].paths = <<>> /\ e.to # Out /\ k > 0
      /\ \A i \in 1..n : stack[i].to = Out <=> i = 1
      /\ \A i \in 1..n : i = 1 => stack[i].k > 0
      /\ \A i \in 1..n : stack[i].to \in Edges => sq[stack[i].to].paths = <<>>
  BY <1>3 DEF Tidy
<1>7. e.to \in Edges \cup {Out} /\ Out \in Edges \cup {Out}
  BY <1>1, LoadIs
<1>8. /\ pq'[Out] = pq[Out]
      /\ \A y \in Edges : y \notin Sibling(e.to) => sq'[y] = sq[y]
  BY <1>1, <1>3, <1>6, <1>7 DEF Offer, TypeInv
<1>9. ASSUME NEW i \in 1..n, stack[i].to \in Edges PROVE sq'[stack[i].to].paths = <<>>
  <2>1. stack[i].to.src > e.to.src /\ stack[i].to.src \in Nat /\ e.to.src \in Nat
    BY <1>1, <1>7, SideIs, StackIs
  <2>2. stack[i].to.src # e.to.src
    BY <2>1
  <2>3. stack[i].to \notin Sibling(e.to)
    BY <1>7, <2>2, SiblingIs
  <2>4. QED
    BY <1>6, <1>8, <1>9, <2>3
<1>10. n \in 1..n /\ \A i \in 1..n - 1 : i \in 1..n
  BY <1>4
<1>11. stack' = <<>> <=> n = 1
  BY <1>3, <1>4, Shorter
<1> HIDE DEF n
<1>12. pq[Out].count = 0
  <2>1. Sound(pq[Out])
    BY <1>1, <1>7 DEF TypeInv
  <2>2. QED
    BY <1>6, <2>1, EmptyIs DEF Sound, Empty
<1>13. /\ e'.to = Out <=> stack' = <<>>
       /\ e'.to = Out => e'.k > 0
       /\ e'.to \in Edges => sq'[e'.to].paths = <<>>
       /\ e'.to = Out => size' = 0
  BY <1>5, <1>6, <1>8, <1>9, <1>10, <1>11, <1>12
<1>14. \A i \in 1..Len(stack') :
         /\ stack'[i].to = Out <=> i = 1
         /\ i = 1 => stack'[i].k > 0
         /\ stack'[i].to \in Edges => sq'[stack'[i].to].paths = <<>>
  BY <1>4, <1>6, <1>9, <1>10
<1>15. QED
  BY <1>3, <1>5, <1>6, <1>8, <1>13, <1>14 DEF Tidy

\* The last path of a round was checked after the others; then the edges are
\* gone through, one by one.
LEMMA TidyNext ==
  ASSUME FewPaths, Inv, Tidy, [Next]_vars
  PROVE  Tidy'
<1>1. TypeInv /\ AskInv
  BY DEF Inv
<1>2. CASE UNCHANGED vars
  BY <1>2 DEF vars, search, round, Tidy
<1>3. ASSUME Delegate PROVE Tidy'
  <2>1. pc' = "check" /\ checked' = {} /\ next' = 1 /\ k' = k /\ batch' = pq'[Out].paths /\ Offer(e.to)
    BY <1>3 DEF Delegate
  <2>2. Len(batch') \in Nat
    <3>1. PICK drawn \in [Edges \cup {Out} -> Nat] : Covered(drawn)
      BY DEF Inv, BudgetInv
    <3>2. pc \in {"draw", "sweep"}
      BY <1>3 DEF Delegate
    <3>3. Sound(pq'[Out])
      BY <1>1, <2>1, <3>1, <3>2, OfferIs
    <3>4. QED
      BY <2>1, <3>3 DEF Sound, Queues
  <2>3. QED
    BY <2>1, <2>2 DEF Tidy
<1>4. ASSUME NEW i \in DOMAIN batch, Check(i) PROVE Tidy'
  <2>1. pc = "check" /\ pc' = pc /\ checked' = checked \cup {i} /\ next' = next /\ k' = k /\ batch' = batch
    BY <1>4 DEF Check
  <2>2. i \in 1..Len(batch)
    BY <1>1, <1>4 DEF TypeInv
  <2>3. QED
    BY <2>1, <2>2 DEF Tidy
<1>5. ASSUME Report PROVE Tidy'
  <2>1. /\ pc = "check" /\ pc' = pc /\ checked' = checked /\ next' = next + 1 /\ k' = k /\ batch' = batch
        /\ next \in checked
    BY <1>5 DEF Report
  <2>2. next \in 1..Len(batch) /\ Len(batch) \in Nat
    BY <1>1, <2>1 DEF TypeInv, Tidy
  <2>3. next' \in 1..Len(batch) + 1
    BY <2>1, <2>2
  <2>4. QED
    BY <2>1, <2>3 DEF Tidy
<1>6. ASSUME Close PROVE Tidy'
  BY <1>6 DEF Close, Tidy
<1>7. ASSUME Prune PROVE Tidy'
  <2>1. prune \in 1..Len(Links)
    <3>1. prune \in Nat \ {0} /\ prune <= Len(Links)
      BY <1>1, <1>7 DEF TypeInv, Prune
    <3>2. QED
      BY <3>1, LinksAre
  <2>2. PICK x \in Edges : x = Links[prune]
    BY <2>1, LinksAre
  <2>3. /\ pc' = "sweep" /\ e' = [to |-> x, k |-> 0] /\ sq' = [sq EXCEPT ![x] = Empty] /\ k' = k
    BY <1>7, <2>2 DEF Prune
  <2>4. sq'[x].paths = <<>>
    BY <1>1, <2>3 DEF TypeInv, Empty
  <2>5. QED
    BY <2>3, <2>4 DEF Tidy
<1>8. ASSUME NEW x \in ToSet(Pred(e.to.src)), Sweep(x) PROVE Tidy'
  <2>1. /\ pc = "sweep" /\ k' = k /\ e' = e /\ stack' = stack
        /\ (pc' = "prune" \/ (pc' = pc /\ sq' = sq))
    BY <1>8 DEF Sweep
  <2>2. QED
    BY <2>1 DEF Tidy
<1>9. ASSUME Swept PROVE Tidy'
  BY <1>9 DEF Swept, Tidy
<1>10. ASSUME NextRound PROVE Tidy'
  <2>1. pc' \in {"over", "pull"} /\ (k' = k \/ k' = k + k \div 2)
    BY <1>10 DEF NextRound
  <2>2. k \in Nat /\ k > 0
    BY <1>1 DEF TypeInv, Tidy
  <2>3. k' > 0
    <3>1. k \div 2 \in Nat
      BY <2>2
    <3>2. QED
      BY <2>1, <2>2, <3>1
  <2>4. QED
    BY <2>1, <2>3 DEF Tidy
<1>11. ASSUME Finished PROVE Tidy'
  BY <1>2, <1>11 DEF Finished
<1>12. CASE Next
  BY <1>3, <1>4, <1>5, <1>6, <1>7, <1>8, <1>9, <1>10, <1>11, <1>12,
     TidyBegin, TidyDescend, TidyDraw, TidyAscend, Zenon DEF Next
<1>13. QED
  BY <1>2, <1>12

-----------------------------------------------------------------------------
(* What a path costs                                                       *)

\* Every instruction that ends a block has one cost for each way to go on,
\* however it was reached.
Steady == \A x, y \in Edges \cup {Entry} : x.dst = y.dst => Leave[x] = Leave[y]

\* The cost of a path adds up edge by edge.
LEMMA CostSteps ==
  ASSUME NEW via \in Seq(Edges \cup {Entry}), via # <<>>
  PROVE  \E G : /\ G \in [0..Len(via) - 1 -> Nat] /\ G[0] = CostFirmware + Enter[Entry]
                /\ \A u \in 0..Len(via) - 2 :
                     G[u + 1] = G[u] + Leave[via[u + 1]][via[u + 2].taken] + Enter[via[u + 2]]
                /\ PathCost(via) = G[Len(via) - 1]
<1> DEFINE n == Len(via) - 1
           s == [m \in 1..n |-> m]
           base == CostFirmware + Enter[Entry]
           Op(c, m) == c + Leave[via[m]][via[m + 1].taken] + Enter[via[m + 1]]
           h == [x \in Nat \X (1..n) |-> Op(x[1], x[2])]
           Goes(F) == F = [S \in SUBSET DOMAIN s |->
                             IF S = {} THEN base ELSE Op(F[S \ {Max(S)}], s[Max(S)])]
           F == CHOOSE F : Goes(F)
<1>1. PathCost(via) = F[DOMAIN s]
  BY DEF FoldLeft, MapThenFoldSet, PathCost
<1>2. n \in Nat /\ DOMAIN s = 1..n /\ s \in [1..n -> 1..n] /\ \A m \in 1..n : s[m] = m
  OBVIOUS
<1>3. base \in Nat /\ \A c \in Nat, m \in 1..n : Op(c, m) \in Nat
  <2>1. base \in Nat
    BY CostAssumption
  <2>2. ASSUME NEW c \in Nat, NEW m \in 1..n PROVE Op(c, m) \in Nat
    <3>1. via[m] \in Edges \cup {Entry} /\ via[m + 1] \in Edges \cup {Entry}
      OBVIOUS
    <3>2. via[m + 1].taken \in BOOLEAN
      <4>1. Entry.taken \in BOOLEAN /\ \A x \in Edges : x.taken \in BOOLEAN
        BY EdgeIs DEF Entry
      <4>2. QED
        BY <3>1, <4>1
    <3>3. Leave[via[m]] \in [BOOLEAN -> Nat] /\ Enter[via[m + 1]] \in Nat
      BY <3>1, CostAssumption
    <3> DEFINE a == Leave[via[m]][via[m + 1].taken]
               b == Enter[via[m + 1]]
    <3>4. a \in Nat /\ b \in Nat
      BY <3>2, <3>3
    <3> HIDE DEF a, b
    <3>5. c + a + b \in Nat
      BY <3>4
    <3>6. QED
      BY <3>5 DEF a, b
  <2>3. QED
    BY <2>1, <2>2
<1> HIDE DEF n, base, Op
<1>4. h \in [Nat \X (1..n) -> Nat] /\ \A c \in Nat, m \in 1..n : h[<<c, m>>] = Op(c, m)
  BY <1>3
<1> HIDE DEF h, s
<1>5. PICK G : /\ G \in [SUBSET (1..n) -> Nat]
               /\ \A S \in SUBSET (1..n) :
                    G[S] = IF S = {} THEN base ELSE h[<<G[S \ {Max(S)}], s[Max(S)]>>]
  <2>1. \E G : IsFold(G, Nat, h, base, n, s)
    BY <1>2, <1>3, <1>4, FoldExists
  <2>2. QED
    BY <2>1 DEF IsFold
<1>6. ASSUME NEW S \in SUBSET (1..n), S # {}
      PROVE  G[S] = Op(G[S \ {Max(S)}], s[Max(S)]) /\ s[Max(S)] \in 1..n
  <2>1. Max(S) \in 1..n
    BY <1>2, <1>6, MaxPlace
  <2>2. G[S \ {Max(S)}] \in Nat /\ s[Max(S)] \in 1..n
    <3>1. S \ {Max(S)} \in SUBSET (1..n)
      OBVIOUS
    <3>2. QED
      BY <1>2, <1>5, <2>1, <3>1
  <2>3. QED
    BY <1>4, <1>5, <1>6, <2>2
<1>7. Goes(G)
  BY <1>2, <1>5, <1>6
<1>8. Goes(F)
  BY <1>7
<1> HIDE DEF F
<1>9. /\ F[{}] = base
      /\ \A S \in SUBSET (1..n) : S # {} => F[S] = Op(F[S \ {Max(S)}], s[Max(S)])
  BY <1>2, <1>8
<1> HIDE DEF Goes
<1>10. FoldsBy(F, Nat, h, base, n, s)
  BY <1>4, <1>6, <1>9 DEF FoldsBy
<1>11. PICK H : GoesThrough(H, F, Nat, h, base, n, s)
  <2>1. \E H : GoesThrough(H, F, Nat, h, base, n, s)
    BY <1>2, <1>3, <1>4, <1>10, FoldRuns
  <2>2. QED
    BY <2>1
<1>12. ASSUME NEW u \in 0..n - 1 PROVE H[u + 1] = Op(H[u], u + 1)
  <2>1. u \in 0..n /\ u + 1 \in 1..n
    BY <1>2
  <2>2. QED
    BY <1>2, <1>4, <1>11, <2>1 DEF GoesThrough
<1>13. /\ H \in [0..Len(via) - 1 -> Nat] /\ H[0] = CostFirmware + Enter[Entry]
       /\ PathCost(via) = H[Len(via) - 1]
  BY <1>1, <1>2, <1>11 DEF n, base, GoesThrough
<1>14. ASSUME NEW u \in 0..Len(via) - 2
       PROVE  H[u + 1] = H[u] + Leave[via[u + 1]][via[u + 2].taken] + Enter[via[u + 2]]
  <2>1. u \in 0..n - 1 /\ u + 1 + 1 = u + 2
    BY DEF n
  <2>2. QED
    BY <1>12, <2>1 DEF Op
<1>15. QED
  BY <1>13, <1>14

\* A way through the program costs a number; the first block and what an edge
\* adds
LEMMA CostNat ==
  ASSUME NEW via \in Seq(Edges \cup {Entry}), via # <<>>
  PROVE  PathCost(via) \in Nat
<1>1. PICK G : /\ G \in [0..Len(via) - 1 -> Nat]
               /\ PathCost(via) = G[Len(via) - 1]
  BY CostSteps
<1>2. Len(via) - 1 \in 0..Len(via) - 1
  OBVIOUS
<1>3. QED
  BY <1>1, <1>2

\* The way that has only entered costs what the firmware and its first node do.
LEMMA CostStart == PathCost(<<Entry>>) = CostFirmware + Enter[Entry]
<1> DEFINE v == <<Entry>>
<1>1. v \in Seq(Edges \cup {Entry}) /\ v # <<>> /\ Len(v) = 1
  OBVIOUS
<1> HIDE DEF v
<1>2. PICK G : G[0] = CostFirmware + Enter[Entry] /\ PathCost(v) = G[Len(v) - 1]
  BY <1>1, CostSteps, Zenon
<1>3. Len(v) - 1 = 0
  BY <1>1
<1>4. QED
  BY <1>2, <1>3 DEF v

\* One more edge costs what leaving the last node by it and entering the next does.
LEMMA CostAppend ==
  ASSUME NEW via \in Seq(Edges \cup {Entry}), via # <<>>, NEW x \in Edges
  PROVE  PathCost(Append(via, x)) = PathCost(via) + Leave[Last(via)][x.taken] + Enter[x]
<1> DEFINE w == Append(via, x)
           m == Len(via) - 1
<1>1. /\ w \in Seq(Edges \cup {Entry}) /\ w # <<>> /\ Len(w) = Len(via) + 1
      /\ \A i \in 1..Len(via) : w[i] = via[i]
      /\ w[Len(via) + 1] = x
  BY Longer
<1> HIDE DEF w
<1>2. Len(via) \in Nat /\ Len(via) > 0 /\ m \in Nat /\ Last(via) = via[m + 1]
  BY DEF Last
<1>3. PICK G : /\ G[0] = CostFirmware + Enter[Entry]
               /\ \A u \in 0..Len(via) - 2 :
                    G[u + 1] = G[u] + Leave[via[u + 1]][via[u + 2].taken] + Enter[via[u + 2]]
               /\ PathCost(via) = G[Len(via) - 1]
  BY CostSteps
<1>4. PICK H : /\ H[0] = CostFirmware + Enter[Entry]
               /\ \A u \in 0..Len(w) - 2 :
                    H[u + 1] = H[u] + Leave[w[u + 1]][w[u + 2].taken] + Enter[w[u + 2]]
               /\ PathCost(w) = H[Len(w) - 1]
  BY <1>1, CostSteps
<1> DEFINE K == {u \in 0..m : G[u] = H[u]}
<1> HIDE DEF m
<1>5. m = Len(via) - 1
  BY DEF m
<1>6. 0 \in K
  BY <1>2, <1>3, <1>4
<1>7. ASSUME NEW u \in 0..m - 1, u \in K PROVE u + 1 \in K
  <2>1. /\ u \in 0..Len(via) - 2 /\ u \in 0..Len(w) - 2 /\ u + 1 \in 0..m
        /\ u + 1 \in 1..Len(via) /\ u + 2 \in 1..Len(via)
    BY <1>1, <1>2, <1>5
  <2>2. w[u + 1] = via[u + 1] /\ w[u + 2] = via[u + 2]
    BY <1>1, <2>1
  <2>3. G[u + 1] = G[u] + Leave[via[u + 1]][via[u + 2].taken] + Enter[via[u + 2]]
    BY <1>3, <2>1
  <2>4. H[u + 1] = H[u] + Leave[w[u + 1]][w[u + 2].taken] + Enter[w[u + 2]]
    BY <1>4, <2>1
  <2>5. QED
    BY <1>7, <2>1, <2>2, <2>3, <2>4
<1> HIDE DEF K
<1>8. m \in K
  <2>1. 0..m \subseteq K
    BY <1>2, <1>6, <1>7, InductionUpTo
  <2>2. QED
    BY <1>2, <2>1
<1>9. G[m] = H[m]
  BY <1>8 DEF K
<1>10. H[m + 1] = H[m] + Leave[via[m + 1]][x.taken] + Enter[x]
  <2>1. m \in 0..Len(w) - 2 /\ m + 1 \in 1..Len(via) /\ m + 2 = Len(via) + 1
    BY <1>1, <1>2, <1>5
  <2>2. H[m + 1] = H[m] + Leave[w[m + 1]][w[m + 2].taken] + Enter[w[m + 2]]
    BY <1>4, <2>1
  <2>3. w[m + 1] = via[m + 1] /\ w[m + 2] = x
    BY <1>1, <2>1
  <2>4. QED
    BY <2>2, <2>3
<1>11. Len(w) - 1 = m + 1 /\ Len(via) - 1 = m
  BY <1>1, <1>2, <1>5
<1>12. QED
  BY <1>2, <1>3, <1>4, <1>9, <1>10, <1>11 DEF w

-----------------------------------------------------------------------------
(* The worst paths                                                         *)

\* succ() yields the edges that leave a node: at most one for each way.
LEMMA SuccIs ==
  ASSUME NEW nd \in Nodes
  PROVE  Succ(nd) \in Seq(Edges) /\ ToSet(Succ(nd)) = {x \in Edges : x.src = nd}
<1>1. ASSUME NEW taken \in BOOLEAN
      PROVE  /\ Only(Leaving(nd, taken)) \in Seq(Edges)
             /\ ToSet(Only(Leaving(nd, taken))) = Leaving(nd, taken)
  <2> DEFINE S == Leaving(nd, taken)
  <2>1. CASE S = {}
    <3>1. Only(S) = <<>>
      BY <2>1 DEF Only
    <3>2. <<>> \in Seq(Edges) /\ ToSet(<<>>) = {}
      BY DEF ToSet
    <3>3. QED
      BY <2>1, <3>1, <3>2
  <2>2. CASE S # {}
    <3> DEFINE y == CHOOSE x \in S : TRUE
    <3>1. y \in S /\ S \subseteq Edges /\ \A x \in S : x.src = nd /\ x.taken = taken
      BY <2>2 DEF Leaving
    <3>2. Only(S) = <<y>>
      BY <2>2 DEF Only
    <3> HIDE DEF y, S
    <3>3. \A x \in S : x = y
      <4>1. SUFFICES ASSUME NEW x \in S PROVE x = y
        OBVIOUS
      <4>2. PICK i \in DOMAIN Links : Links[i] = x
        BY <3>1 DEF Edges, ToSet
      <4>3. PICK j \in DOMAIN Links : Links[j] = y
        BY <3>1 DEF Edges, ToSet
      <4>4. Links[i].src = Links[j].src /\ Links[i].taken = Links[j].taken
        BY <3>1, <4>2, <4>3
      <4>5. i = j
        BY <4>4, GraphAssumption
      <4>6. QED
        BY <4>2, <4>3, <4>5
    <3>4. y \in Edges /\ S = {y}
      BY <3>1, <3>3
    <3>5. <<y>> \in Seq(Edges) /\ ToSet(<<y>>) = {y}
      BY <3>4 DEF ToSet
    <3>6. QED
      BY <3>2, <3>4, <3>5 DEF S
  <2>3. QED
    BY <2>1, <2>2
<1> DEFINE s == Only(Leaving(nd, TRUE))
           t == Only(Leaving(nd, FALSE))
<1>2. s \in Seq(Edges) /\ ToSet(s) = Leaving(nd, TRUE) /\ t \in Seq(Edges) /\ ToSet(t) = Leaving(nd, FALSE)
  BY <1>1
<1>3. Succ(nd) = s \o t
  BY DEF Succ
<1> HIDE DEF s, t
<1>4. Succ(nd) \in Seq(Edges) /\ ToSet(Succ(nd)) = Leaving(nd, TRUE) \cup Leaving(nd, FALSE)
  <2>1. s \in Seq(Edges) /\ t \in Seq(Edges)
    BY <1>2
  <2>2. s \o t \in Seq(Edges) /\ ToSet(s \o t) = ToSet(s) \cup ToSet(t)
    BY <2>1, ElementsConcat
  <2>3. QED
    BY <1>2, <1>3, <2>2
<1>5. \A x \in Edges : x.taken = TRUE \/ x.taken = FALSE
  BY EdgeIs
<1>6. QED
  BY <1>4, <1>5 DEF Leaving

\* The edges behind earlier nodes come first.
InOrder(s) == \A i, j \in 1..Len(s) : i < j => s[i].src <= s[j].src

\* The edges are visited in topological order.
LEMMA VisitIs ==
  /\ Visit \in Seq(Edges) /\ InOrder(Visit)
  /\ \A x \in Edges : \E i \in 1..Len(Visit) : Visit[i] = x
<1> DEFINE n == FinNd
           A == Seq(Edges)
           s == [nd \in Nodes |-> nd]
           Op(a, nd) == a \o Succ(nd)
           h == [x \in A \X (1..n) |-> Op(x[1], x[2])]
           Goes(F) == F = [S \in SUBSET DOMAIN s |->
                             IF S = {} THEN <<>> ELSE Op(F[S \ {Max(S)}], s[Max(S)])]
           F == CHOOSE F : Goes(F)
<1>1. Visit = F[DOMAIN s]
  BY DEF FoldLeft, MapThenFoldSet, Visit
<1>2. n \in Nat /\ DOMAIN s = 1..n /\ s \in [1..n -> 1..n] /\ \A m \in 1..n : s[m] = m
  BY SideIs DEF Nodes
<1>3. <<>> \in A /\ \A a \in A, m \in 1..n : Op(a, m) \in A
  <2>1. ASSUME NEW a \in A, NEW m \in 1..n PROVE Op(a, m) \in A
    <3>1. Succ(m) \in Seq(Edges)
      BY SuccIs DEF Nodes
    <3>2. QED
      BY <3>1, ElementsConcat
  <2>2. QED
    BY <2>1
<1> HIDE DEF n, A, Op
<1>4. h \in [A \X (1..n) -> A] /\ \A a \in A, m \in 1..n : h[<<a, m>>] = Op(a, m)
  BY <1>3
<1> HIDE DEF h, s
<1>5. PICK G : /\ G \in [SUBSET (1..n) -> A]
               /\ \A S \in SUBSET (1..n) :
                    G[S] = IF S = {} THEN <<>> ELSE h[<<G[S \ {Max(S)}], s[Max(S)]>>]
  <2>1. \E G : IsFold(G, A, h, <<>>, n, s)
    BY <1>2, <1>3, <1>4, FoldExists
  <2>2. QED
    BY <2>1 DEF IsFold
<1>6. ASSUME NEW S \in SUBSET (1..n), S # {}
      PROVE  G[S] = Op(G[S \ {Max(S)}], s[Max(S)]) /\ s[Max(S)] \in 1..n
  <2>1. Max(S) \in 1..n
    BY <1>2, <1>6, MaxPlace
  <2>2. G[S \ {Max(S)}] \in A /\ s[Max(S)] \in 1..n
    <3>1. S \ {Max(S)} \in SUBSET (1..n)
      OBVIOUS
    <3>2. QED
      BY <1>2, <1>5, <2>1, <3>1
  <2>3. QED
    BY <1>4, <1>5, <1>6, <2>2
<1>7. Goes(G)
  BY <1>2, <1>5, <1>6
<1>8. Goes(F)
  BY <1>7
<1> HIDE DEF F
<1>9. /\ F[{}] = <<>>
      /\ \A S \in SUBSET (1..n) : S # {} => F[S] = Op(F[S \ {Max(S)}], s[Max(S)])
  BY <1>2, <1>8
<1> HIDE DEF Goes
<1>10. FoldsBy(F, A, h, <<>>, n, s)
  BY <1>4, <1>6, <1>9 DEF FoldsBy
<1>11. PICK H : GoesThrough(H, F, A, h, <<>>, n, s)
  <2>1. \E H : GoesThrough(H, F, A, h, <<>>, n, s)
    BY <1>2, <1>3, <1>4, <1>10, FoldRuns
  <2>2. QED
    BY <2>1
<1>12. /\ H \in [0..n -> A] /\ H[0] = <<>> /\ Visit = H[n]
       /\ \A u \in 0..n - 1 : H[u + 1] = H[u] \o Succ(u + 1)
  <2>1. H \in [0..n -> A] /\ H[0] = <<>> /\ Visit = H[n]
    BY <1>1, <1>2, <1>11 DEF GoesThrough
  <2>2. ASSUME NEW u \in 0..n - 1 PROVE H[u + 1] = H[u] \o Succ(u + 1)
    <3>1. u \in 0..n /\ u + 1 \in 1..n
      BY <1>2
    <3>2. H[u + 1] = Op(H[u], u + 1)
      BY <1>2, <1>4, <1>11, <2>1, <3>1 DEF GoesThrough
    <3>3. QED
      BY <3>2 DEF Op
  <2>3. QED
    BY <2>1, <2>2
<1> DEFINE K == {u \in 0..n : InOrder(H[u]) /\ ToSet(H[u]) = {x \in Edges : x.src <= u}}
<1>13. 0 \in K
  <2>1. InOrder(H[0]) /\ ToSet(H[0]) = {}
    BY <1>12 DEF InOrder, ToSet
  <2>2. \A x \in Edges : ~(x.src <= 0)
    BY EdgeIs DEF Nodes
  <2>3. QED
    BY <1>2, <2>1, <2>2
<1>14. ASSUME NEW u \in 0..n - 1, u \in K PROVE u + 1 \in K
  <2> DEFINE a == H[u]
             b == Succ(u + 1)
             c == H[u + 1]
  <2>1. u \in 0..n /\ u + 1 \in 0..n /\ u + 1 \in 1..n /\ u \in Nat
    BY <1>2
  <2>2. a \in Seq(Edges) /\ c = a \o b /\ InOrder(a) /\ ToSet(a) = {x \in Edges : x.src <= u}
    BY <1>12, <1>14, <2>1 DEF A
  <2>3. b \in Seq(Edges) /\ ToSet(b) = {x \in Edges : x.src = u + 1}
    BY <2>1, SuccIs DEF Nodes, n
  <2> HIDE DEF a, b, c
  <2>4. ToSet(c) = {x \in Edges : x.src <= u + 1}
    <3>1. ToSet(c) = ToSet(a) \cup ToSet(b)
      BY <2>2, <2>3, ElementsConcat
    <3>2. \A x \in Edges : x.src \in Nat
      BY EdgeIs
    <3>3. \A x \in Edges : x.src <= u + 1 <=> x.src <= u \/ x.src = u + 1
      BY <2>1, <3>2
    <3>4. QED
      BY <2>2, <2>3, <3>1, <3>3
  <2>5. InOrder(c)
    <3>1. SUFFICES ASSUME NEW i \in 1..Len(c), NEW j \in 1..Len(c), i < j PROVE c[i].src <= c[j].src
      BY DEF InOrder
    <3>2. /\ Len(a) \in Nat /\ Len(b) \in Nat
          /\ \A m \in 1..Len(a) : m \in 1..Len(c) /\ c[m] = a[m]
          /\ \A m \in 1..Len(b) : Len(a) + m \in 1..Len(c) /\ c[Len(a) + m] = b[m]
          /\ \A m \in 1..Len(c) : m \in 1..Len(a) \/ \E l \in 1..Len(b) : m = Len(a) + l
      <4>1. /\ a \o b \in Seq(Edges) /\ Len(a \o b) = Len(a) + Len(b)
            /\ Len(a) \in Nat /\ Len(b) \in Nat
            /\ \A m \in 1..Len(a) : m \in 1..Len(a \o b) /\ (a \o b)[m] = a[m]
            /\ \A m \in 1..Len(b) : Len(a) + m \in 1..Len(a \o b) /\ (a \o b)[Len(a) + m] = b[m]
            /\ \A m \in 1..Len(a \o b) : m \in 1..Len(a) \/ (m > Len(a) /\ m - Len(a) \in 1..Len(b))
        BY <2>2, <2>3, ConcatPlaces
      <4>2. ASSUME NEW m \in 1..Len(c) PROVE m \in 1..Len(a) \/ \E l \in 1..Len(b) : m = Len(a) + l
        <5>1. m \in 1..Len(a) \/ (m > Len(a) /\ m - Len(a) \in 1..Len(b))
          BY <2>2, <4>1
        <5>2. m = Len(a) + (m - Len(a))
          BY <4>1
        <5>3. QED
          BY <5>1, <5>2
      <4>3. QED
        BY <2>2, <4>1, <4>2
    <3>3. /\ \A m \in 1..Len(a) : a[m] \in Edges /\ a[m].src <= u /\ a[m].src \in Nat
          /\ \A m \in 1..Len(b) : b[m].src = u + 1
      <4>1. /\ \A m \in 1..Len(a) : a[m] \in ToSet(a)
            /\ \A m \in 1..Len(b) : b[m] \in ToSet(b)
        BY <2>2, <2>3 DEF ToSet
      <4>2. \A x \in Edges : x.src \in Nat
        BY EdgeIs
      <4>3. QED
        BY <2>2, <2>3, <4>1, <4>2
    <3>4. CASE i \in 1..Len(a) /\ j \in 1..Len(a)
      BY <2>2, <3>1, <3>2, <3>4 DEF InOrder
    <3>5. CASE i \in 1..Len(a) /\ \E m \in 1..Len(b) : j = Len(a) + m
      <4>1. PICK m \in 1..Len(b) : j = Len(a) + m
        BY <3>5
      <4>2. c[j] = b[m] /\ c[i] = a[i]
        BY <3>2, <3>5, <4>1
      <4>3. c[j].src = u + 1 /\ c[i].src <= u /\ c[i].src \in Nat
        BY <3>3, <3>5, <4>2
      <4>4. QED
        BY <2>1, <4>3
    <3>6. CASE (\E m \in 1..Len(b) : i = Len(a) + m) /\ \E m \in 1..Len(b) : j = Len(a) + m
      <4>1. PICK m \in 1..Len(b) : j = Len(a) + m
        BY <3>6
      <4>2. PICK l \in 1..Len(b) : i = Len(a) + l
        BY <3>6
      <4>3. c[j] = b[m] /\ c[i] = b[l]
        BY <3>2, <4>1, <4>2
      <4>4. c[j].src = u + 1 /\ c[i].src = u + 1
        BY <3>3, <4>3
      <4>5. QED
        BY <2>1, <4>4
    <3>7. QED
      BY <3>1, <3>2, <3>4, <3>5, <3>6
  <2>6. QED
    BY <2>1, <2>4, <2>5 DEF c
<1>15. n \in K
  <2> HIDE DEF K
  <2>1. 0..n \subseteq K
    BY <1>2, <1>13, <1>14, InductionUpTo
  <2>2. QED
    BY <1>2, <2>1
<1>16. Visit \in Seq(Edges) /\ InOrder(Visit) /\ ToSet(Visit) = {x \in Edges : x.src <= n}
  BY <1>2, <1>12, <1>15 DEF A
<1>17. \A x \in Edges : x.src <= n
  BY EdgeIs DEF Nodes, n
<1>18. ASSUME NEW x \in Edges PROVE \E i \in 1..Len(Visit) : Visit[i] = x
  <2>1. x \in ToSet(Visit)
    BY <1>16, <1>17
  <2>2. DOMAIN Visit = 1..Len(Visit)
    BY <1>16
  <2>3. QED
    BY <2>1, <2>2 DEF ToSet
<1>19. QED
  BY <1>16, <1>18

\* what the last instruction of a node costs, and what a path that costs l at
\* the source of x costs behind x; `none' costs nothing.
LeaveOf(nd) == Leave[CHOOSE z \in Edges \cup {Entry} : z.dst = nd]
After(l, x) == IF l = 0 THEN 0 ELSE l + LeaveOf(x.src)[x.taken] + Enter[x]

\* a path that waits for y: it has arrived at the source of y.
Proper(p, y) == IF p.kind = "none" THEN p.cost = 0 ELSE p.cost > 0 /\ p.at.dst = y.src

\* Where the costs are steady, the cost of a node's last instruction is that
\* of every edge to the node.
LEMMA LeaveIs ==
  ASSUME Steady
  PROVE  /\ \A z \in Edges \cup {Entry} : Leave[z] = LeaveOf(z.dst)
         /\ \A x \in Edges : LeaveOf(x.src)[x.taken] \in Nat /\ Enter[x] \in Nat
<1>1. ASSUME NEW nd, NEW z \in Edges \cup {Entry}, z.dst = nd
      PROVE  Leave[z] = LeaveOf(nd) /\ LeaveOf(nd) \in [BOOLEAN -> Nat]
  <2> DEFINE y == CHOOSE x \in Edges \cup {Entry} : x.dst = nd
  <2>1. y \in Edges \cup {Entry} /\ y.dst = nd
    BY <1>1
  <2>2. LeaveOf(nd) = Leave[y]
    BY DEF LeaveOf
  <2> HIDE DEF y
  <2>3. QED
    BY <1>1, <2>1, <2>2, CostAssumption DEF Steady
<1>2. ASSUME NEW x \in Edges PROVE LeaveOf(x.src)[x.taken] \in Nat /\ Enter[x] \in Nat
  <2>1. x.src \in Nodes /\ x.taken \in BOOLEAN /\ Enter[x] \in Nat
    BY EdgeIs, CostAssumption
  <2>2. \E z \in Edges \cup {Entry} : z.dst = x.src
    <3>1. CASE x.src = 1
      <4>1. Entry \in Edges \cup {Entry} /\ Entry.dst = 1
        BY DEF Entry
      <4>2. QED
        BY <3>1, <4>1
    <3>2. CASE x.src # 1
      BY <2>1, <3>2, GraphAssumption
    <3>3. QED
      BY <3>1, <3>2
  <2>3. LeaveOf(x.src) \in [BOOLEAN -> Nat]
    BY <1>1, <2>2
  <2>4. QED
    BY <2>1, <2>3
<1>3. QED
  BY <1>1, <1>2

\* The more expensive path stays the more expensive one.
LEMMA AfterIs ==
  ASSUME Steady, NEW x \in Edges, NEW l \in Nat
  PROVE  /\ After(l, x) \in Nat /\ l <= After(l, x)
         /\ \A m \in Nat : l <= m => After(l, x) <= After(m, x)
<1> DEFINE a == LeaveOf(x.src)[x.taken]
           b == Enter[x]
<1>1. a \in Nat /\ b \in Nat
  BY LeaveIs
<1>2. \A m : After(m, x) = IF m = 0 THEN 0 ELSE m + a + b
  BY DEF After
<1> HIDE DEF a, b
<1>3. QED
  BY <1>1, <1>2

\* A path that is extended goes on to wait behind the next node.
LEMMA ExtendCost ==
  ASSUME Steady, NEW p \in Paths, NEW x \in Edges, Proper(p, x), NEW marked
  PROVE  /\ CostVia(p, x) = After(p.cost, x)
         /\ Extend(p, x, marked).cost = After(p.cost, x)
         /\ \A y : y.src = x.dst => Proper(Extend(p, x, marked), y)
<1> DEFINE longer == [p EXCEPT !.at = x, !.cost = CostVia(p, x), !.via = Append(@, x),
                               !.min = Max({@, MinSize[x]})]
<1>1. p \in PathType /\ p.cost \in Nat
  BY DEF Paths, PathType
<1>2. CASE p.kind = "none"
  <2>1. p.cost = 0 /\ CostVia(p, x) = 0 /\ Extend(p, x, marked) = p
    BY <1>2 DEF Proper, CostVia, Extend
  <2>2. QED
    BY <1>2, <2>1 DEF Proper, After
<1>3. CASE p.kind # "none"
  <2>1. p.cost > 0 /\ p.at.dst = x.src /\ p.at \in Edges \cup {Entry}
    BY <1>1, <1>3 DEF Proper, PathType
  <2>2. CostVia(p, x) = After(p.cost, x)
    <3>1. Leave[p.at] = LeaveOf(x.src)
      BY <2>1, LeaveIs
    <3>2. CostVia(p, x) = p.cost + LeaveOf(x.src)[x.taken] + Enter[x]
      BY <1>3, <3>1 DEF CostVia
    <3>3. QED
      BY <1>1, <2>1, <3>2 DEF After
  <2>3. longer.kind = p.kind /\ longer.cost = CostVia(p, x) /\ longer.at = x
    BY <1>1 DEF PathType
  <2> DEFINE q == ToImpossible(longer)
  <2>4. q.kind = "impossible" /\ q.cost = CostVia(p, x) /\ q.at = x
    <3>1. longer \in [kind : {p.kind}, at : {x}, cost : {CostVia(p, x)}, count : {p.count},
                      via : {Append(p.via, x)}, min : {Max({p.min, MinSize[x]})}]
      BY <1>1 DEF PathType
    <3> HIDE DEF longer
    <3>2. QED
      BY <3>1 DEF ToImpossible
  <2>5. Extend(p, x, marked) = longer \/ Extend(p, x, marked) = q
    BY <1>3 DEF Extend
  <2> HIDE DEF longer, q
  <2>6. /\ Extend(p, x, marked).kind # "none" /\ Extend(p, x, marked).cost = CostVia(p, x)
        /\ Extend(p, x, marked).at = x
    BY <1>3, <2>3, <2>4, <2>5
  <2>7. After(p.cost, x) > 0
    <3>1. After(p.cost, x) \in Nat /\ p.cost <= After(p.cost, x)
      BY <1>1, AfterIs
    <3>2. QED
      BY <1>1, <2>1, <3>1
  <2>8. QED
    BY <2>2, <2>6, <2>7 DEF Proper
<1>4. QED
  BY <1>2, <1>3

\* what underestimate_packetrate() keeps at a node when another path arrives,
\* and what it begins with
Arrive(m, x) == [m EXCEPT ![x.dst] = Slower(@, Extend(m[x.src], x, {}))]
Arrivals == [nd \in Nodes |-> IF nd = 1 THEN ToImpossible(Start) ELSE None]

\* It goes from edge to edge.
LEMMA WorstSteps ==
  \E G : /\ G \in [0..Len(Visit) -> [Nodes -> Paths]] /\ G[0] = Arrivals
         /\ \A u \in 0..Len(Visit) - 1 : G[u + 1] = Arrive(G[u], Visit[u + 1])
         /\ Worst = G[Len(Visit)][FinNd].cost
<1> DEFINE n == Len(Visit)
           A == [Nodes -> Paths]
           base == Arrivals
           h == [x \in A \X Edges |-> Arrive(x[1], x[2])]
           Goes(F) == F = [S \in SUBSET DOMAIN Visit |->
                             IF S = {} THEN base ELSE Arrive(F[S \ {Max(S)}], Visit[Max(S)])]
           F == CHOOSE F : Goes(F)
<1>1. Worst = F[DOMAIN Visit][FinNd].cost
  BY DEF FoldLeft, MapThenFoldSet, Worst, Arrive, Arrivals
<1>2. n \in Nat /\ DOMAIN Visit = 1..n /\ Visit \in [1..n -> Edges]
  BY VisitIs, SeqFunction
<1>3. base \in A /\ \A a \in A, x \in Edges : Arrive(a, x) \in A
  <2>1. base \in A
    <3>1. Start \in PathType /\ Start.kind # "none" /\ None \in Paths
      BY StartIs DEF Paths
    <3>2. ToImpossible(Start) \in PathType /\ ToImpossible(Start).kind = "impossible"
      <4>1. <<>> \in Seq(Edges \cup {Entry})
        OBVIOUS
      <4>2. QED
        BY <3>1, <4>1 DEF ToImpossible, PathType
    <3>3. ToImpossible(Start) \in Paths
      BY <3>2 DEF Paths
    <3>4. QED
      BY <3>1, <3>3 DEF Arrivals
  <2>2. ASSUME NEW a \in A, NEW x \in Edges PROVE Arrive(a, x) \in A
    <3> DEFINE p == Extend(a[x.src], x, {})
    <3>1. x.src \in Nodes /\ x.dst \in Nodes
      BY EdgeIs
    <3>2. a[x.src] \in Paths /\ a[x.dst] \in Paths
      BY <3>1
    <3>3. p \in Paths
      BY <3>2, ExtendIs
    <3> HIDE DEF p
    <3>4. Slower(a[x.dst], p) \in Paths
      BY <3>2, <3>3 DEF Slower
    <3>5. QED
      BY <3>1, <3>4 DEF Arrive, p
  <2>3. QED
    BY <2>1, <2>2
<1> HIDE DEF n, A, base
<1>4. h \in [A \X Edges -> A] /\ \A a \in A, x \in Edges : h[<<a, x>>] = Arrive(a, x)
  BY <1>3
<1> HIDE DEF h
<1>5. PICK G : /\ G \in [SUBSET (1..n) -> A]
               /\ \A S \in SUBSET (1..n) :
                    G[S] = IF S = {} THEN base ELSE h[<<G[S \ {Max(S)}], Visit[Max(S)]>>]
  <2>1. \E G : IsFold(G, A, h, base, n, Visit)
    BY <1>2, <1>3, <1>4, FoldExists
  <2>2. QED
    BY <2>1 DEF IsFold
<1>6. ASSUME NEW S \in SUBSET (1..n), S # {}
      PROVE  G[S] = Arrive(G[S \ {Max(S)}], Visit[Max(S)]) /\ Visit[Max(S)] \in Edges
  <2>1. Max(S) \in 1..n
    BY <1>2, <1>6, MaxPlace
  <2>2. G[S \ {Max(S)}] \in A /\ Visit[Max(S)] \in Edges
    <3>1. S \ {Max(S)} \in SUBSET (1..n)
      OBVIOUS
    <3>2. QED
      BY <1>2, <1>5, <2>1, <3>1
  <2>3. QED
    BY <1>4, <1>5, <1>6, <2>2
<1>7. Goes(G)
  BY <1>2, <1>5, <1>6
<1>8. Goes(F)
  BY <1>7
<1> HIDE DEF F
<1>9. /\ F[{}] = base
      /\ \A S \in SUBSET (1..n) : S # {} => F[S] = Arrive(F[S \ {Max(S)}], Visit[Max(S)])
  BY <1>2, <1>8
<1> HIDE DEF Goes
<1>10. FoldsBy(F, A, h, base, n, Visit)
  BY <1>4, <1>6, <1>9 DEF FoldsBy
<1>11. PICK H : GoesThrough(H, F, A, h, base, n, Visit)
  <2>1. \E H : GoesThrough(H, F, A, h, base, n, Visit)
    BY <1>2, <1>3, <1>4, <1>10, FoldRuns
  <2>2. QED
    BY <2>1
<1>12. /\ H \in [0..n -> A] /\ H[0] = base /\ Worst = H[n][FinNd].cost
       /\ \A u \in 0..n - 1 : H[u + 1] = Arrive(H[u], Visit[u + 1])
  <2>1. H \in [0..n -> A] /\ H[0] = base /\ Worst = H[n][FinNd].cost
    BY <1>1, <1>2, <1>11 DEF GoesThrough
  <2>2. ASSUME NEW u \in 0..n - 1 PROVE H[u + 1] = Arrive(H[u], Visit[u + 1])
    <3>1. u \in 0..n /\ u + 1 \in 1..n
      BY <1>2
    <3>2. Visit[u + 1] \in Edges
      BY <1>2, <3>1
    <3>3. QED
      BY <1>4, <1>11, <2>1, <3>1, <3>2 DEF GoesThrough
  <2>3. QED
    BY <2>1, <2>2
<1>13. QED
  BY <1>12 DEF n, A, base

\* No path gets to a node more slowly than the one that was kept there.
LEMMA WorstIs ==
  ASSUME Steady
  PROVE  \E top : /\ top \in [Nodes -> Nat] /\ top[1] = CostFirmware + Enter[Entry]
                  /\ \A x \in Edges : After(top[x.src], x) <= top[x.dst]
                  /\ top[FinNd] = Worst
<1> DEFINE n == Len(Visit)
<1>1. PICK G : /\ G \in [0..Len(Visit) -> [Nodes -> Paths]] /\ G[0] = Arrivals
               /\ \A u \in 0..Len(Visit) - 1 : G[u + 1] = Arrive(G[u], Visit[u + 1])
               /\ Worst = G[Len(Visit)][FinNd].cost
  BY WorstSteps
<1>2. n \in Nat /\ \A i \in 1..n : Visit[i] \in Edges
  BY VisitIs
<1> HIDE DEF n
<1> DEFINE Fine(m) == \A nd \in Nodes : IF m[nd].kind = "none" THEN m[nd].cost = 0
                                        ELSE m[nd].cost > 0 /\ m[nd].at.dst = nd
           Above(m, u) == \A i \in 1..u : After(m[Visit[i].src].cost, Visit[i]) <= m[Visit[i].dst].cost
           K == {u \in 0..n : /\ Fine(G[u]) /\ Above(G[u], u)
                              /\ G[u][1].cost = CostFirmware + Enter[Entry]}
<1>3. 0 \in K
  <2>1. Fine(G[0]) /\ G[0][1].cost = CostFirmware + Enter[Entry]
    <3>1. /\ ToImpossible(Start).kind = "impossible" /\ ToImpossible(Start).at = Entry
          /\ ToImpossible(Start).cost = CostFirmware + Enter[Entry]
          /\ None.kind = "none" /\ None.cost = 0
      BY DEF ToImpossible, Start, None
    <3>2. CostFirmware + Enter[Entry] > 0
      <4>1. Enter[Entry] \in Nat
        BY CostAssumption
      <4>2. QED
        BY <4>1, CostAssumption
    <3>3. 1 \in Nodes /\ Entry.dst = 1
      BY SideIs DEF Entry
    <3>4. \A nd \in Nodes : Arrivals[nd] = IF nd = 1 THEN ToImpossible(Start) ELSE None
      BY DEF Arrivals
    <3>5. QED
      BY <1>1, <3>1, <3>2, <3>3, <3>4
  <2>2. Above(G[0], 0)
    OBVIOUS
  <2>3. QED
    BY <1>2, <2>1, <2>2
<1>4. ASSUME NEW u \in 0..n - 1, u \in K PROVE u + 1 \in K
  <2> DEFINE x == Visit[u + 1]
             a == G[u]
             b == G[u + 1]
             p == Extend(a[x.src], x, {})
  <2>1. u \in 0..n /\ u + 1 \in 0..n /\ u + 1 \in 1..n /\ u \in Nat
    BY <1>2
  <2>2. x \in Edges /\ a \in [Nodes -> Paths] /\ b \in [Nodes -> Paths] /\ b = Arrive(a, x)
    BY <1>1, <1>2, <2>1 DEF n
  <2>3. Fine(a) /\ Above(a, u) /\ a[1].cost = CostFirmware + Enter[Entry]
    BY <1>4
  <2> HIDE DEF x, a, b
  <2>4. /\ x.src \in Nodes /\ x.dst \in Nodes /\ x.src # x.dst /\ x.dst # 1
        /\ x.src \in Nat /\ x.dst \in Nat /\ x.src < x.dst
    BY <2>2, EdgeIs
  <2>5. a[x.src] \in Paths /\ Proper(a[x.src], x)
    BY <2>2, <2>3, <2>4 DEF Proper
  <2>6. /\ p \in Paths /\ p.cost = After(a[x.src].cost, x)
        /\ \A y : y.src = x.dst => Proper(p, y)
    BY <2>2, <2>5, ExtendIs, ExtendCost
  <2>7. IF p.kind = "none" THEN p.cost = 0 ELSE p.cost > 0 /\ p.at.dst = x.dst
    <3>1. [src |-> x.dst].src = x.dst
      OBVIOUS
    <3>2. Proper(p, [src |-> x.dst])
      BY <2>6, <3>1
    <3>3. QED
      BY <3>2 DEF Proper
  <2> HIDE DEF p
  <2>8. /\ b[x.dst] = Slower(a[x.dst], p) /\ \A nd \in Nodes : nd # x.dst => b[nd] = a[nd]
    BY <2>2, <2>4 DEF Arrive, p
  <2>9. \A nd \in Nodes : a[nd].cost \in Nat /\ b[nd].cost \in Nat
    BY <2>2 DEF Paths, PathType
  <2>10. p.cost \in Nat
    BY <2>6 DEF Paths, PathType
  <2>11. p.cost <= b[x.dst].cost /\ \A nd \in Nodes : a[nd].cost <= b[nd].cost
    BY <2>4, <2>8, <2>9, <2>10 DEF Slower
  <2>12. Fine(b)
    <3>1. \A nd \in Nodes : b[nd] = a[nd] \/ (nd = x.dst /\ b[nd] = p)
      BY <2>8 DEF Slower
    <3>2. QED
      BY <2>3, <2>7, <3>1
  <2>13. b[1].cost = CostFirmware + Enter[Entry]
    BY <2>3, <2>4, <2>8, SideIs
  <2>14. Above(b, u + 1)
    <3>1. SUFFICES ASSUME NEW i \in 1..u + 1
                   PROVE  After(b[Visit[i].src].cost, Visit[i]) <= b[Visit[i].dst].cost
      OBVIOUS
    <3>2. i \in 1..n /\ (i = u + 1 \/ i \in 1..u)
      BY <1>2, <2>1
    <3>3. PICK z \in Edges : z = Visit[i]
      BY <1>2, <3>2
    <3>4. z.src \in Nodes /\ z.dst \in Nodes /\ z.src \in Nat
      BY EdgeIs
    <3>5. z.src <= x.src
      <4>1. CASE i = u + 1
        BY <3>3, <3>4, <4>1 DEF x
      <4>2. CASE i \in 1..u
        BY <1>2, <2>1, <3>2, <3>3, <4>2, VisitIs DEF InOrder, x, n
      <4>3. QED
        BY <3>2, <4>1, <4>2
    <3>6. b[z.src] = a[z.src]
      BY <2>4, <2>8, <3>4, <3>5
    <3>7. After(a[z.src].cost, z) \in Nat
      BY <2>9, <3>4, AfterIs
    <3>8. CASE i = u + 1
      <4>1. z = x
        BY <3>3, <3>8 DEF x
      <4>2. QED
        BY <2>6, <2>11, <3>3, <3>6, <4>1
    <3>9. CASE i \in 1..u
      <4>1. After(a[z.src].cost, z) <= a[z.dst].cost
        BY <2>3, <3>3, <3>9
      <4>2. QED
        BY <2>9, <2>11, <3>3, <3>4, <3>6, <3>7, <4>1
    <3>10. QED
      BY <3>2, <3>8, <3>9
  <2>15. QED
    BY <2>1, <2>12, <2>13, <2>14 DEF b
<1>5. n \in K
  <2> HIDE DEF K
  <2>1. 0..n \subseteq K
    BY <1>2, <1>3, <1>4, InductionUpTo
  <2>2. QED
    BY <1>2, <2>1
<1> DEFINE m == G[n]
           top == [nd \in Nodes |-> m[nd].cost]
<1>6. m \in [Nodes -> Paths] /\ Above(m, n) /\ m[1].cost = CostFirmware + Enter[Entry]
      /\ Worst = m[FinNd].cost
  BY <1>1, <1>2, <1>5 DEF n
<1> HIDE DEF K, m
<1>7. top \in [Nodes -> Nat] /\ top[1] = CostFirmware + Enter[Entry] /\ top[FinNd] = Worst
  BY <1>6, SideIs DEF Paths, PathType
<1>8. ASSUME NEW x \in Edges PROVE After(top[x.src], x) <= top[x.dst]
  <2>1. PICK i \in 1..n : Visit[i] = x
    BY VisitIs DEF n
  <2>2. After(m[x.src].cost, x) <= m[x.dst].cost
    BY <1>6, <2>1
  <2>3. x.src \in Nodes /\ x.dst \in Nodes
    BY EdgeIs
  <2>4. QED
    BY <2>2, <2>3
<1> HIDE DEF top
<1>9. QED
  BY <1>7, <1>8

-----------------------------------------------------------------------------
(* The order of the paths that wait                                        *)

\* from slow to fast
Down(s) == \A i, j \in 1..Len(s) : i < j => s[j].cost <= s[i].cost

\* low is the cost of the last path drawn at a node, and before that of the
\* worst path there can be.  What waits for y is not faster, and not slower
\* than what was drawn last behind y.
Fitting(y, low) ==
  {p \in Paths : Proper(p, y) /\ low[y.src] <= p.cost /\ (y \in Edges => After(p.cost, y) <= low[y.dst])}

\* a line in order
Sorted(s, y, low) == Down(s) /\ s \in Seq(Fitting(y, low))

\* all lines in order, at marks that fit together along the edges
Order(low) ==
  /\ low \in [Nodes -> Nat]
  /\ \A x \in Edges : After(low[x.src], x) <= low[x.dst]
  /\ \A y \in Edges \cup {Out} : Sorted(Line(y), y, low)

\* What is merged stays where it was, and what it was.
LEMMA MergedWithin ==
  ASSUME NEW t, NEW s, Merged(t, s), NEW G, s \in Seq(G),
         \A a \in Paths, b \in G : Alike(a, b) => a \in G
  PROVE  t \in Seq(G)
<1>1. PICK f : Selects(t, s, f)
  BY DEF Merged
<1>2. t \in Seq(Paths)
  BY DEF Merged
<1>3. ASSUME NEW i \in 1..Len(t) PROVE t[i] \in G
  <2>1. f[i] \in 1..Len(s) /\ Alike(t[i], s[f[i]])
    BY <1>1 DEF Selects
  <2>2. t[i] \in Paths /\ s[f[i]] \in G
    BY <1>2, <2>1
  <2>3. QED
    BY <2>1, <2>2
<1>4. QED
  BY <1>2, <1>3

\* What is merged stays in order.
LEMMA MergedDown ==
  ASSUME NEW t, NEW s, Merged(t, s), Down(s)
  PROVE  Down(t)
<1>1. PICK f : Selects(t, s, f)
  BY DEF Merged
<1>2. SUFFICES ASSUME NEW i \in 1..Len(t), NEW j \in 1..Len(t), i < j PROVE t[j].cost <= t[i].cost
  BY DEF Down
<1>3. f[i] \in 1..Len(s) /\ f[j] \in 1..Len(s) /\ f[i] < f[j]
  BY <1>1, <1>2 DEF Selects
<1>4. t[i].cost = s[f[i]].cost /\ t[j].cost = s[f[j]].cost
  BY <1>1 DEF Selects, Alike
<1>5. QED
  BY <1>3, <1>4 DEF Down

\* An impossible path may take the place of one that fits.
LEMMA MergedSorted ==
  ASSUME NEW t, NEW s, Merged(t, s), NEW y, NEW low, Sorted(s, y, low)
  PROVE  Sorted(t, y, low)
<1>1. Down(t)
  BY MergedDown DEF Sorted
<1>2. ASSUME NEW a \in Paths, NEW b \in Fitting(y, low), Alike(a, b) PROVE a \in Fitting(y, low)
  BY <1>2 DEF Alike, Fitting, Proper
<1>3. t \in Seq(Fitting(y, low))
  <2> DEFINE G == Fitting(y, low)
  <2>1. s \in Seq(G) /\ \A a \in Paths, b \in G : Alike(a, b) => a \in G
    BY <1>2 DEF Sorted
  <2> HIDE DEF G
  <2>2. t \in Seq(G)
    BY <2>1, MergedWithin
  <2>3. QED
    BY <2>2 DEF G
<1>4. QED
  BY <1>1, <1>3 DEF Sorted

\* The first one is the slowest; without it the others are still in order.
LEMMA DownTail ==
  ASSUME NEW S, NEW s \in Seq(S), s # <<>>, Down(s), \A p \in S : p.cost \in Nat
  PROVE  /\ Head(s) \in S /\ Tail(s) \in Seq(S) /\ Down(Tail(s))
         /\ \A i \in 1..Len(s) : s[i].cost <= Head(s).cost
         /\ \A i \in 1..Len(Tail(s)) : Tail(s)[i].cost <= Head(s).cost
<1>1. /\ Len(s) \in Nat /\ 1 \in 1..Len(s) /\ Head(s) = s[1] /\ Tail(s) \in Seq(S)
      /\ Len(Tail(s)) = Len(s) - 1
      /\ \A i \in 1..Len(Tail(s)) : Tail(s)[i] = s[i + 1] /\ i + 1 \in 1..Len(s)
      /\ \A i \in 1..Len(s) : s[i] \in S
  OBVIOUS
<1>2. Down(Tail(s))
  <2>1. SUFFICES ASSUME NEW i \in 1..Len(Tail(s)), NEW j \in 1..Len(Tail(s)), i < j
                 PROVE  Tail(s)[j].cost <= Tail(s)[i].cost
    BY DEF Down
  <2>2. /\ i + 1 \in 1..Len(s) /\ j + 1 \in 1..Len(s) /\ i + 1 < j + 1
        /\ Tail(s)[j] = s[j + 1] /\ Tail(s)[i] = s[i + 1]
    BY <1>1, <2>1
  <2>3. QED
    BY <2>2 DEF Down
<1>3. ASSUME NEW i \in 1..Len(s) PROVE s[i].cost <= Head(s).cost
  <2>1. CASE i = 1
    BY <1>1, <2>1
  <2>2. CASE i # 1
    <3>1. 1 < i
      BY <1>1, <2>2
    <3>2. QED
      BY <1>1, <3>1 DEF Down
  <2>3. QED
    BY <2>1, <2>2
<1>4. QED
  BY <1>1, <1>2, <1>3

\* A faster one is appended.
LEMMA DownAppend ==
  ASSUME NEW S, NEW s \in Seq(S), NEW p \in S, Down(s), \A i \in 1..Len(s) : p.cost <= s[i].cost
  PROVE  Append(s, p) \in Seq(S) /\ Down(Append(s, p))
<1> DEFINE t == Append(s, p)
<1>1. /\ t \in Seq(S) /\ Len(t) = Len(s) + 1 /\ Len(s) \in Nat
      /\ \A n \in 1..Len(s) : t[n] = s[n]
      /\ t[Len(s) + 1] = p
  BY Longer
<1> HIDE DEF t
<1>2. ASSUME NEW i \in 1..Len(t), NEW j \in 1..Len(t), i < j PROVE t[j].cost <= t[i].cost
  <2> DEFINE n == Len(s)
  <2>0. n \in Nat /\ i \in 1..n + 1 /\ j \in 1..n + 1
    BY <1>1
  <2> HIDE DEF n
  <2>a. i \in 1..n /\ (j \in 1..n \/ j = n + 1)
    BY <1>2, <2>0
  <2>1. i \in 1..Len(s) /\ (j \in 1..Len(s) \/ j = Len(s) + 1)
    BY <2>a DEF n
  <2>2. CASE j \in 1..Len(s)
    BY <1>1, <1>2, <2>1, <2>2 DEF Down
  <2>3. CASE j = Len(s) + 1
    BY <1>1, <2>1, <2>3
  <2>4. QED
    BY <2>1, <2>2, <2>3
<1>3. QED
  BY <1>1, <1>2 DEF Down, t

\* Two elements
LEMMA PairConcat ==
  ASSUME NEW S, NEW a \in S, NEW b \in S
  PROVE  <<a>> \o <<b>> = <<a, b>>
<1> DEFINE s == <<a>>
           t == <<b>>
           u == <<a, b>>
           v == s \o t
<1>1. /\ s \in Seq(S) /\ Len(s) = 1 /\ s[1] = a
      /\ t \in Seq(S) /\ Len(t) = 1 /\ t[1] = b
      /\ u \in Seq(S) /\ Len(u) = 2 /\ u[1] = a /\ u[2] = b
  OBVIOUS
<1> HIDE DEF s, t, u
<1>2. /\ s \o t \in Seq(S) /\ Len(s \o t) = Len(s) + Len(t)
      /\ Len(s) \in Nat /\ Len(t) \in Nat
      /\ \A i \in 1..Len(s) : i \in 1..Len(s \o t) /\ (s \o t)[i] = s[i]
      /\ \A i \in 1..Len(t) : Len(s) + i \in 1..Len(s \o t) /\ (s \o t)[Len(s) + i] = t[i]
  <2>1. s \in Seq(S) /\ t \in Seq(S)
    BY <1>1
  <2>2. QED
    BY <2>1, ConcatPlaces
<1> HIDE DEF v
<1>3. v \in Seq(S) /\ Len(v) = 2 /\ v[1] = a /\ v[2] = b
  <2>1. 1 \in 1..1 /\ Len(s) + Len(t) = 2 /\ Len(s) + 1 = 2
    BY <1>1
  <2>2. QED
    BY <1>1, <1>2, <2>1 DEF v
<1>4. \A i \in 1..2 : v[i] = u[i]
  <2>1. \A i \in 1..2 : i = 1 \/ i = 2
    OBVIOUS
  <2>2. QED
    BY <1>1, <1>3, <2>1
<1>5. v = u
  BY <1>1, <1>3, <1>4, SameSeq
<1>6. QED
  BY <1>5 DEF s, t, u, v

\* At first the start and `none' wait behind the first node.
LEMMA LineInit ==
  ASSUME Init, NEW y \in Edges \cup {Out}
  PROVE  Line(y) = IF y.src = 1 THEN <<Start, None>> ELSE <<>>
<1>1. pc \in {"over", "pull"}
  BY DEF Init
<1>2. Fresh(y) = <<>> /\ Unreported = <<>>
  BY <1>1 DEF Fresh, Unreported
<1>3. CASE y = Out
  <2>1. Line(y) = <<>> \o <<>>
    BY <1>2, <1>3 DEF Line
  <2>2. y.src # 1
    BY <1>3, SideIs
  <2>3. QED
    BY <2>1, <2>2
<1>4. CASE y # Out
  <2>1. y \in Edges /\ pq[y].paths = <<>>
    BY <1>4 DEF Init, Empty
  <2>2. Line(y) = (<<>> \o sq[y].paths) \o <<>>
    BY <1>2, <1>4, <2>1 DEF Line
  <2>3. CASE y.src # 1
    <3>1. sq[y].paths = <<>>
      BY <2>1, <2>3 DEF Init, Empty
    <3>2. QED
      BY <2>2, <2>3, <3>1
  <2>4. CASE y.src = 1
    <3>1. sq[y] = Push(Queue(Start), Queue(None))
      BY <2>1, <2>4 DEF Init
    <3> DEFINE s == <<Start>>
               t == <<None>>
    <3>2. Head(t).kind # Last(s).kind
      <4>1. Head(t) = None /\ Last(s) = Start
        BY DEF Last
      <4>2. QED
        BY <4>1, StartIs
    <3>3. sq[y].paths = s \o t
      BY <3>1, <3>2 DEF Push, Queue, Mergeable
    <3>4. s \in Seq(Paths) /\ t \in Seq(Paths) /\ s \o t = <<Start, None>>
      <4>1. Start \in Paths /\ None \in Paths
        BY StartIs
      <4>2. s \in Seq(Paths) /\ t \in Seq(Paths)
        BY <4>1
      <4>3. s \o t = <<Start, None>>
        BY <4>1, PairConcat
      <4>4. QED
        BY <4>2, <4>3
    <3>5. <<Start, None>> \in Seq(Paths)
      BY StartIs
    <3> DEFINE u == <<Start, None>>
    <3>6. Line(y) = (<<>> \o u) \o <<>> /\ u \in Seq(Paths)
      BY <2>2, <3>3, <3>4, <3>5
    <3> HIDE DEF u
    <3>7. Line(y) = u
      BY <3>6, NothingMore
    <3>8. QED
      BY <2>4, <3>7 DEF u
  <2>5. QED
    BY <2>3, <2>4
<1>5. QED
  BY <1>3, <1>4

\* The order at the beginning
LEMMA OrderInit ==
  ASSUME Steady, Init
  PROVE  \E low : Order(low) /\ low[FinNd] = Worst
<1>1. PICK top : /\ top \in [Nodes -> Nat] /\ top[1] = CostFirmware + Enter[Entry]
                 /\ \A x \in Edges : After(top[x.src], x) <= top[x.dst]
                 /\ top[FinNd] = Worst
  BY WorstIs
<1> DEFINE low == [top EXCEPT ![1] = 0]
<1>2. low \in [Nodes -> Nat] /\ low[1] = 0 /\ \A nd \in Nodes : nd # 1 => low[nd] = top[nd]
  BY <1>1, SideIs
<1> HIDE DEF low
<1>3. ASSUME NEW x \in Edges PROVE After(low[x.src], x) <= low[x.dst]
  <2>1. x.src \in Nodes /\ x.dst \in Nodes /\ x.dst # 1
    BY EdgeIs
  <2>2. CASE x.src = 1
    <3>1. After(low[x.src], x) = 0
      BY <1>2, <2>2 DEF After
    <3>2. low[x.dst] \in Nat
      BY <1>2, <2>1
    <3>3. QED
      BY <3>1, <3>2
  <2>3. CASE x.src # 1
    BY <1>1, <1>2, <2>1, <2>3
  <2>4. QED
    BY <2>2, <2>3
<1>4. ASSUME NEW y \in Edges \cup {Out} PROVE Sorted(Line(y), y, low)
  <2>1. CASE y.src # 1
    <3>1. Line(y) = <<>>
      BY <2>1, LineInit
    <3>2. <<>> \in Seq(Fitting(y, low)) /\ Down(<<>>)
      BY DEF Down
    <3>3. QED
      BY <3>1, <3>2 DEF Sorted
  <2>2. CASE y.src = 1
    <3>1. Line(y) = <<Start, None>> /\ y \in Edges
      BY <2>2, LineInit, SideIs
    <3>2. /\ Start.kind = "possible" /\ Start.at = Entry /\ Start.cost = CostFirmware + Enter[Entry]
          /\ None.kind = "none" /\ None.cost = 0 /\ Entry.dst = 1
      BY DEF Start, None, Entry
    <3>3. Start.cost > 0 /\ Start.cost \in Nat
      <4>1. Enter[Entry] \in Nat
        BY CostAssumption
      <4>2. QED
        BY <3>2, <4>1, CostAssumption
    <3>4. Start \in Fitting(y, low)
      <4>1. After(Start.cost, y) <= low[y.dst]
        <5>1. After(top[1], y) <= top[y.dst]
          BY <1>1, <2>2, <3>1
        <5>2. low[y.dst] = top[y.dst]
          BY <1>2, <3>1, EdgeIs
        <5>3. QED
          BY <1>1, <3>2, <5>1, <5>2
      <4>2. Proper(Start, y)
        BY <2>2, <3>2, <3>3 DEF Proper
      <4>3. low[y.src] <= Start.cost
        BY <1>2, <2>2, <3>3
      <4>4. QED
        BY <4>1, <4>2, <4>3, StartIs DEF Fitting
    <3>5. None \in Fitting(y, low)
      <4>1. After(None.cost, y) <= low[y.dst]
        <5>1. After(None.cost, y) = 0
          BY <3>2 DEF After
        <5>2. low[y.dst] \in Nat
          BY <1>2, <3>1, EdgeIs
        <5>3. QED
          BY <5>1, <5>2
      <4>2. Proper(None, y) /\ low[y.src] <= None.cost
        BY <1>2, <2>2, <3>2 DEF Proper
      <4>3. QED
        BY <4>1, <4>2, StartIs DEF Fitting
    <3>6. Down(<<Start, None>>)
      <4>1. SUFFICES ASSUME NEW i \in 1..2, NEW j \in 1..2, i < j
                     PROVE  <<Start, None>>[j].cost <= <<Start, None>>[i].cost
        BY DEF Down
      <4>2. i = 1 /\ j = 2
        BY <4>1
      <4>3. QED
        BY <3>2, <3>3, <4>2
    <3>7. QED
      BY <3>1, <3>4, <3>5, <3>6 DEF Sorted
  <2>3. QED
    BY <2>1, <2>2
<1>5. Order(low)
  BY <1>2, <1>3, <1>4 DEF Order
<1>6. low[FinNd] = Worst
  BY <1>1, <1>2, SideIs
<1>7. QED
  BY <1>5, <1>6

\* The order is kept while paths are moved,
LEMMA OrderQuiet ==
  ASSUME NEW low, Order(low), \A y \in Edges \cup {Out} : Merged(Line(y)', Line(y))
  PROVE  Order(low)'
<1>1. ASSUME NEW y \in Edges \cup {Out} PROVE Sorted(Line(y)', y, low)
  <2>1. Merged(Line(y)', Line(y)) /\ Sorted(Line(y), y, low)
    BY DEF Order
  <2>2. QED
    BY <2>1, MergedSorted
<1>2. QED
  BY <1>1 DEF Order

\* and when the first of the complete paths leaves.
LEMMA OrderTail ==
  ASSUME NEW low, Order(low), Line(Out) # <<>>, Line(Out)' = Tail(Line(Out)),
         \A y \in Edges : Line(y)' = Line(y)
  PROVE  Order(low)'
<1>1. ASSUME NEW y \in Edges \cup {Out} PROVE Sorted(Line(y)', y, low)
  <2>1. Sorted(Line(y), y, low)
    BY DEF Order
  <2>2. CASE y \in Edges
    BY <2>1, <2>2
  <2>3. CASE y = Out
    <3> DEFINE S == Fitting(Out, low)
               s == Line(Out)
    <3>1. s \in Seq(S) /\ Down(s) /\ s # <<>> /\ \A p \in S : p.cost \in Nat
      BY <2>1, <2>3 DEF Sorted, Fitting, Paths, PathType
    <3> HIDE DEF S, s
    <3>2. Tail(s) \in Seq(S) /\ Down(Tail(s))
      BY <3>1, DownTail
    <3>3. QED
      BY <2>3, <3>2 DEF Sorted, S, s
  <2>4. QED
    BY <2>2, <2>3
<1>2. QED
  BY <1>1 DEF Order

\* What is drawn at a node is not faster than what waits for it, and not
\* slower than what was drawn there before.
LEMMA OrderDraw ==
  ASSUME Steady, NEW low, Order(low), NEW x \in Edges, Draws(x)
  PROVE  \E new : /\ Order(new)'
                  /\ new[x.dst] = After(Head(Line(x)).cost, x) /\ new[x.dst] <= low[x.dst]
                  /\ \A nd \in Nodes : nd # x.dst => new[nd] = low[nd]
<1> DEFINE h == Head(Line(x))
           nd == x.dst
           p == Extend(h, x, dead)
<1>a. PICK c : c = After(h.cost, x)
  OBVIOUS
<1>b. PICK new : new = [low EXCEPT ![nd] = c]
  OBVIOUS
<1>1. low \in [Nodes -> Nat] /\ \A z \in Edges : After(low[z.src], z) <= low[z.dst]
  BY DEF Order
<1>2. ASSUME NEW y \in Edges \cup {Out}
      PROVE  /\ Down(Line(y)) /\ Line(y) \in Seq(Fitting(y, low))
             /\ \A i \in 1..Len(Line(y)) : Line(y)[i] \in Fitting(y, low)
  BY DEF Order, Sorted
<1>3. \A y : \A q \in Fitting(y, low) : q \in Paths /\ q.cost \in Nat /\ Proper(q, y) /\ low[y.src] <= q.cost
  BY DEF Fitting, Paths, PathType
<1>4. \A y \in Edges : \A q \in Fitting(y, low) : After(q.cost, y) <= low[y.dst]
  BY DEF Fitting
<1>5. ASSUME NEW z \in Edges, z.dst = nd
      PROVE  /\ Line(z) # <<>> /\ Head(Line(z)) \in Fitting(z, low)
             /\ Tail(Line(z)) \in Seq(Fitting(z, low)) /\ Down(Tail(Line(z)))
             /\ \A i \in 1..Len(Line(z)) : Line(z)[i].cost <= Head(Line(z)).cost
             /\ After(Head(Line(z)).cost, z) <= c
  <2>1. Line(z) # <<>> /\ CostVia(Head(Line(z)), z) <= CostVia(Head(Line(x)), x)
    BY <1>5 DEF Draws
  <2>2. Line(x) # <<>>
    BY DEF Draws
  <2>3. ASSUME NEW w \in Edges, Line(w) # <<>>
        PROVE  /\ Head(Line(w)) \in Fitting(w, low)
               /\ Tail(Line(w)) \in Seq(Fitting(w, low)) /\ Down(Tail(Line(w)))
               /\ \A i \in 1..Len(Line(w)) : Line(w)[i].cost <= Head(Line(w)).cost
               /\ CostVia(Head(Line(w)), w) = After(Head(Line(w)).cost, w)
    <3> DEFINE S == Fitting(w, low)
               s == Line(w)
    <3>1. s \in Seq(S) /\ Down(s) /\ s # <<>> /\ \A q \in S : q.cost \in Nat
      BY <1>2, <1>3, <2>3
    <3> HIDE DEF S, s
    <3>2. /\ Head(s) \in S /\ Tail(s) \in Seq(S) /\ Down(Tail(s))
          /\ \A i \in 1..Len(s) : s[i].cost <= Head(s).cost
      BY <3>1, DownTail
    <3>3. Head(s) \in Paths /\ Proper(Head(s), w)
      BY <1>3, <3>2 DEF S
    <3>4. CostVia(Head(s), w) = After(Head(s).cost, w)
      BY <3>3, ExtendCost
    <3>5. QED
      BY <3>2, <3>4 DEF S, s
  <2>4. QED
    BY <2>1, <2>2, <2>3, <1>a
<1>6. h \in Fitting(x, low) /\ h \in Paths /\ h.cost \in Nat /\ Proper(h, x)
  BY <1>3, <1>5
<1>7. /\ nd \in Nodes /\ c \in Nat /\ low[nd] \in Nat /\ c <= low[nd]
      /\ p \in Paths /\ p.cost = c /\ \A y : y.src = nd => Proper(p, y)
  <2>1. c \in Nat
    BY <1>6, <1>a, AfterIs
  <2>2. c <= low[nd]
    BY <1>4, <1>6, <1>a
  <2>3. p \in Paths /\ p.cost = c /\ \A y : y.src = nd => Proper(p, y)
    BY <1>6, <1>a, ExtendIs, ExtendCost
  <2>4. nd \in Nodes /\ low[nd] \in Nat
    BY <1>1, EdgeIs
  <2>5. QED
    BY <2>1, <2>2, <2>3, <2>4
<1>8. /\ new \in [Nodes -> Nat] /\ new[nd] = c
      /\ \A n \in Nodes : n # nd => new[n] = low[n]
  BY <1>1, <1>7, <1>b
<1> HIDE DEF p, h
<1>9. \A z \in Edges : z.src \in Nodes /\ z.dst \in Nodes /\ z.src # z.dst
  BY EdgeIs
<1>10. ASSUME NEW z \in Edges PROVE After(new[z.src], z) <= new[z.dst]
  <2>1. /\ After(low[z.src], z) <= low[z.dst] /\ low[z.src] \in Nat /\ low[z.dst] \in Nat
        /\ After(low[z.src], z) \in Nat
    BY <1>1, <1>9, AfterIs
  <2>2. CASE z.dst = nd
    <3>1. Head(Line(z)) \in Fitting(z, low) /\ After(Head(Line(z)).cost, z) <= c
      BY <1>5, <2>2
    <3>2. low[z.src] <= Head(Line(z)).cost /\ Head(Line(z)).cost \in Nat
      BY <1>3, <3>1
    <3>3. /\ After(low[z.src], z) <= After(Head(Line(z)).cost, z)
          /\ After(Head(Line(z)).cost, z) \in Nat
      BY <2>1, <3>2, AfterIs
    <3>4. After(low[z.src], z) <= c
      BY <1>7, <2>1, <3>1, <3>3
    <3>5. new[z.src] = low[z.src] /\ new[z.dst] = c
      BY <1>8, <1>9, <2>2
    <3>6. QED
      BY <3>4, <3>5
  <2>3. CASE z.src = nd
    <3>1. After(c, z) <= After(low[nd], z) /\ After(c, z) \in Nat
      BY <1>7, AfterIs
    <3>2. After(c, z) <= low[z.dst]
      BY <2>1, <2>3, <3>1
    <3>3. new[z.src] = c /\ new[z.dst] = low[z.dst]
      BY <1>8, <1>9, <2>3
    <3>4. QED
      BY <3>2, <3>3
  <2>4. CASE z.dst # nd /\ z.src # nd
    BY <1>8, <1>9, <2>1, <2>4
  <2>5. QED
    BY <2>2, <2>3, <2>4
<1>11. ASSUME NEW y \in Edges, y.dst = nd, NEW i \in 1..Len(Line(y)) PROVE Line(y)[i] \in Fitting(y, new)
  <2> DEFINE q == Line(y)[i]
  <2>1. q \in Fitting(y, low) /\ q \in Paths /\ q.cost \in Nat /\ Proper(q, y) /\ low[y.src] <= q.cost
    BY <1>2, <1>3
  <2>2. /\ q.cost <= Head(Line(y)).cost /\ After(Head(Line(y)).cost, y) <= c
        /\ Head(Line(y)).cost \in Nat
    BY <1>3, <1>5, <1>11
  <2> HIDE DEF q
  <2>3. /\ After(q.cost, y) <= After(Head(Line(y)).cost, y)
        /\ After(q.cost, y) \in Nat /\ After(Head(Line(y)).cost, y) \in Nat
    BY <2>1, <2>2, AfterIs
  <2>4. After(q.cost, y) <= c
    BY <1>7, <2>2, <2>3
  <2>5. new[y.src] = low[y.src] /\ new[y.dst] = c
    BY <1>8, <1>9, <1>11
  <2>6. QED
    BY <2>1, <2>4, <2>5 DEF Fitting, q
<1>12. Sorted(Line(x)', x, new)
  <2>1. Line(x)' = Tail(Line(x))
    BY DEF Draws
  <2> DEFINE s == Line(x)
             S == Fitting(x, new)
  <2>2. s \in Seq(Fitting(x, low)) /\ s # <<>> /\ Down(Tail(s)) /\ \A i \in 1..Len(s) : s[i] \in S
    BY <1>2, <1>5, <1>11
  <2> HIDE DEF s, S
  <2>3. s \in Seq(S)
    BY <2>2
  <2>4. Tail(s) \in Seq(S)
    BY <2>2, <2>3
  <2>5. QED
    BY <2>1, <2>2, <2>4 DEF Sorted, s, S
<1>13. ASSUME NEW y \in Edges \cup {Out}, y # x PROVE Sorted(Line(y)', y, new)
  <2>1. Merged(Line(y)', IF y.src = nd THEN Append(Line(y), p) ELSE Line(y))
    BY <1>13 DEF Draws, p, h
  <2>2. CASE y.src = nd
    <3> DEFINE s == Line(y)
               S == Fitting(y, new)
    <3>1. y \in Edges => y.dst # nd
      BY <1>9, <2>2
    <3>2. ASSUME NEW q \in Fitting(y, low) PROVE q \in S /\ c <= q.cost
      <4>1. q \in Paths /\ q.cost \in Nat /\ Proper(q, y) /\ low[nd] <= q.cost
        BY <1>3, <2>2
      <4>2. c <= q.cost /\ new[y.src] = c
        BY <1>7, <1>8, <2>2, <4>1
      <4>3. y \in Edges => After(q.cost, y) <= new[y.dst]
        BY <1>4, <1>8, <1>9, <3>1
      <4>4. QED
        BY <4>1, <4>2, <4>3 DEF Fitting
    <3>3. s \in Seq(Fitting(y, low)) /\ Down(s) /\ \A i \in 1..Len(s) : s[i] \in Fitting(y, low)
      BY <1>2
    <3>4. p \in S
      <4>1. y \in Edges => After(p.cost, y) <= new[y.dst]
        <5>1. SUFFICES ASSUME y \in Edges PROVE After(p.cost, y) <= new[y.dst]
          OBVIOUS
        <5>2. After(new[y.src], y) <= new[y.dst]
          BY <1>10, <5>1
        <5>3. QED
          BY <1>7, <1>8, <2>2, <5>2
      <4>2. Proper(p, y) /\ new[y.src] <= p.cost
        BY <1>7, <1>8, <2>2
      <4>3. QED
        BY <1>7, <4>1, <4>2 DEF Fitting
    <3> HIDE DEF s, S
    <3>5. s \in Seq(S) /\ Down(s) /\ \A i \in 1..Len(s) : p.cost <= s[i].cost
      BY <1>7, <3>2, <3>3
    <3>6. Append(s, p) \in Seq(S) /\ Down(Append(s, p))
      BY <3>4, <3>5, DownAppend
    <3>7. Sorted(Append(Line(y), p), y, new)
      BY <3>6 DEF Sorted, s, S
    <3>8. Merged(Line(y)', Append(Line(y), p))
      BY <2>1, <2>2
    <3>9. QED
      BY <3>7, <3>8, MergedSorted
  <2>3. CASE y.src # nd
    <3>1. Merged(Line(y)', Line(y))
      BY <2>1, <2>3
    <3>2. Sorted(Line(y), y, new)
      <4> DEFINE s == Line(y)
                 S == Fitting(y, new)
      <4>1. s \in Seq(Fitting(y, low)) /\ Down(s) /\ \A i \in 1..Len(s) : s[i] \in Fitting(y, low)
        BY <1>2
      <4>2. ASSUME NEW i \in 1..Len(s) PROVE s[i] \in S
        <5>1. CASE y \in Edges /\ y.dst = nd
          BY <1>11, <5>1
        <5>2. CASE ~(y \in Edges /\ y.dst = nd)
          <6>1. new[y.src] = low[y.src] /\ (y \in Edges => new[y.dst] = low[y.dst])
            BY <1>8, <1>9, <2>3, <5>2, SideIs
          <6>2. Fitting(y, new) = Fitting(y, low)
            BY <6>1 DEF Fitting
          <6>3. QED
            BY <4>1, <6>2
        <5>3. QED
          BY <5>1, <5>2
      <4> HIDE DEF s, S
      <4>3. s \in Seq(S)
        BY <4>1, <4>2
      <4>4. QED
        BY <4>1, <4>3 DEF Sorted, s, S
    <3>3. QED
      BY <3>1, <3>2, MergedSorted
  <2>4. QED
    BY <2>2, <2>3
<1>14. Order(new)'
  BY <1>8, <1>10, <1>12, <1>13 DEF Order
<1>15. QED
  BY <1>7, <1>8, <1>14, <1>a DEF h

-----------------------------------------------------------------------------
(* The paths that wait are ways through the program                        *)

\* the edges of a way from the entry to nd
IsPath(w, nd) ==
  /\ w \in Seq(Edges \cup {Entry}) /\ w # <<>> /\ w[1] = Entry /\ Last(w).dst = nd
  /\ \A i \in 1..Len(w) - 1 : w[i + 1] \in Edges /\ w[i].dst = w[i + 1].src

\* what a possible path says of itself, when it waits for y
Knowing(y) ==
  {p \in Paths : p.kind = "possible" =>
     p.count = 1 /\ IsPath(p.via, y.src) /\ p.at = Last(p.via) /\ p.cost = PathCost(p.via)}

\* all paths know what they are
Known == \A y \in Edges \cup {Out} : Line(y) \in Seq(Knowing(y))

\* A way to the source of an edge goes on along the edge.
LEMMA PathAppend ==
  ASSUME NEW x \in Edges, NEW w, IsPath(w, x.src)
  PROVE  IsPath(Append(w, x), x.dst)
<1> DEFINE v == Append(w, x)
           n == Len(w)
<1>1. w \in Seq(Edges \cup {Entry}) /\ w # <<>> /\ w[1] = Entry /\ Last(w).dst = x.src
  BY DEF IsPath
<1>2. /\ v \in Seq(Edges \cup {Entry}) /\ Len(v) = n + 1
      /\ \A i \in 1..n : v[i] = w[i]
      /\ v[n + 1] = x /\ v # <<>> /\ Last(v) = x
  BY <1>1, Longer
<1>3. n \in Nat /\ n > 0 /\ Last(w) = w[n]
  BY <1>1 DEF Last
<1>4. \A i \in 1..n - 1 : w[i + 1] \in Edges /\ w[i].dst = w[i + 1].src
  BY DEF IsPath
<1> HIDE DEF v, n
<1>5. v[1] = Entry
  <2>1. 1 \in 1..n
    BY <1>3
  <2>2. QED
    BY <1>1, <1>2, <2>1
<1>6. ASSUME NEW i \in 1..Len(v) - 1 PROVE v[i + 1] \in Edges /\ v[i].dst = v[i + 1].src
  <2>1. i \in 1..n /\ (i = n \/ (i \in 1..n - 1 /\ i + 1 \in 1..n))
    BY <1>2, <1>3
  <2>2. CASE i = n
    BY <1>1, <1>2, <1>3, <2>1, <2>2
  <2>3. CASE i \in 1..n - 1 /\ i + 1 \in 1..n
    BY <1>2, <1>4, <2>1, <2>3
  <2>4. QED
    BY <2>1, <2>2, <2>3
<1>7. QED
  BY <1>2, <1>5, <1>6 DEF IsPath, v

\* A path that is extended knows itself; one that is not possible any more
\* need not.
LEMMA ExtendKnown ==
  ASSUME NEW x \in Edges, NEW p \in Knowing(x), NEW y, y.src = x.dst, NEW marked
  PROVE  Extend(p, x, marked) \in Knowing(y)
<1> DEFINE longer == [p EXCEPT !.at = x, !.cost = CostVia(p, x), !.via = Append(@, x),
                               !.min = Max({@, MinSize[x]})]
           q == Extend(p, x, marked)
<1>1. p \in Paths /\ p \in PathType
  BY DEF Knowing, Paths
<1>2. q \in Paths
  BY <1>1, ExtendIs
<1>3. SUFFICES ASSUME q.kind = "possible"
               PROVE  q.count = 1 /\ IsPath(q.via, y.src) /\ q.at = Last(q.via) /\ q.cost = PathCost(q.via)
  BY <1>2 DEF Knowing
<1>4. p.kind # "none"
  BY <1>1, <1>3, ExtendIs
<1>5. ToImpossible(longer).kind = "impossible"
  <2>1. longer \in [kind : {p.kind}, at : {x}, cost : {CostVia(p, x)}, count : {p.count},
                    via : {Append(p.via, x)}, min : {Max({p.min, MinSize[x]})}]
    BY <1>1 DEF PathType
  <2> HIDE DEF longer
  <2>2. QED
    BY <2>1 DEF ToImpossible
<1>6. q = longer
  <2>1. q = longer \/ q = ToImpossible(longer)
    BY <1>4 DEF Extend
  <2>2. QED
    BY <1>3, <1>5, <2>1
<1>7. /\ q.kind = p.kind /\ q.count = p.count /\ q.via = Append(p.via, x) /\ q.at = x
      /\ q.cost = CostVia(p, x)
  BY <1>1, <1>6 DEF PathType
<1> HIDE DEF longer, q
<1>8. p.count = 1 /\ IsPath(p.via, x.src) /\ p.at = Last(p.via) /\ p.cost = PathCost(p.via)
  BY <1>3, <1>7 DEF Knowing
<1>9. p.via \in Seq(Edges \cup {Entry}) /\ p.via # <<>>
  BY <1>8 DEF IsPath
<1>10. IsPath(q.via, y.src)
  BY <1>7, <1>8, PathAppend
<1>11. q.at = Last(q.via)
  BY <1>7, <1>9, Longer
<1>12. q.cost = PathCost(q.via)
  <2>1. q.cost = PathCost(p.via) + Leave[Last(p.via)][x.taken] + Enter[x]
    BY <1>4, <1>7, <1>8 DEF CostVia
  <2>2. PathCost(Append(p.via, x)) = PathCost(p.via) + Leave[Last(p.via)][x.taken] + Enter[x]
    BY <1>9, CostAppend
  <2>3. QED
    BY <1>7, <2>1, <2>2
<1>13. QED
  BY <1>7, <1>8, <1>10, <1>11, <1>12

\* It begins with the way to the first node.
LEMMA StartKnown ==
  ASSUME NEW y, y.src = 1
  PROVE  Start \in Knowing(y) /\ None \in Knowing(y)
<1> DEFINE w == <<Entry>>
<1>1. Start.count = 1 /\ Start.via = w /\ Start.at = Entry /\ Start.cost = CostFirmware + Enter[Entry]
  BY DEF Start
<1>2. None.kind # "possible"
  BY DEF None
<1>3. w \in Seq(Edges \cup {Entry}) /\ w # <<>> /\ Len(w) = 1 /\ w[1] = Entry
  OBVIOUS
<1>4. Last(w) = Entry
  BY <1>3 DEF Last
<1>5. IsPath(w, 1)
  BY <1>3, <1>4 DEF IsPath, Entry
<1>6. Start.cost = PathCost(w)
  BY <1>1, CostStart
<1> HIDE DEF w
<1>7. QED
  BY <1>1, <1>2, <1>4, <1>5, <1>6, StartIs DEF Knowing

\* At first there is the path that has only entered.
LEMMA KnownInit ==
  ASSUME Init
  PROVE  Known
<1>1. SUFFICES ASSUME NEW y \in Edges \cup {Out} PROVE Line(y) \in Seq(Knowing(y))
  BY DEF Known
<1>2. CASE y.src = 1
  <2>1. Start \in Knowing(y) /\ None \in Knowing(y)
    BY <1>2, StartKnown
  <2>2. Line(y) = <<Start, None>>
    BY <1>2, LineInit
  <2>3. QED
    BY <2>1, <2>2
<1>3. CASE y.src # 1
  <2>1. Line(y) = <<>>
    BY <1>3, LineInit
  <2>2. QED
    BY <2>1
<1>4. QED
  BY <1>2, <1>3

\* What is merged into what others know of themselves is not possible.
LEMMA MergedKnown ==
  ASSUME NEW t, NEW s, Merged(t, s), NEW y, s \in Seq(Knowing(y))
  PROVE  t \in Seq(Knowing(y))
<1> DEFINE G == Knowing(y)
<1>1. ASSUME NEW a \in Paths, NEW b \in G, Alike(a, b) PROVE a \in G
  BY <1>1 DEF Alike, Knowing
<1>2. s \in Seq(G)
  OBVIOUS
<1> HIDE DEF G
<1>3. t \in Seq(G)
  BY <1>1, <1>2, MergedWithin
<1>4. QED
  BY <1>3 DEF G

\* Every step extends paths along edges, or lets them be.
LEMMA KnownNext ==
  ASSUME FewPaths, Inv, Tidy, Known, [Next]_vars
  PROVE  Known'
<1>1. \A y \in Edges \cup {Out} : Line(y) \in Seq(Knowing(y))
  BY DEF Known
<1>2. CASE Quiet
  <2>1. ASSUME NEW y \in Edges \cup {Out} PROVE Line(y)' \in Seq(Knowing(y))
    BY <1>1, <1>2, MergedKnown DEF Quiet
  <2>2. QED
    BY <2>1 DEF Known, Knowing
<1>3. ASSUME NEW x \in Edges, Drawing(x) PROVE Known'
  <2>1. Draws(x) /\ Line(x) # <<>> /\ Line(x)' = Tail(Line(x))
    BY <1>3 DEF Drawing, Draws
  <2>2. Head(Line(x)) \in Knowing(x) /\ Line(x)' \in Seq(Knowing(x))
    BY <1>1, <2>1
  <2>3. ASSUME NEW y \in Edges \cup {Out}, y # x PROVE Line(y)' \in Seq(Knowing(y))
    <3> DEFINE p == Extend(Head(Line(x)), x, dead)
    <3>1. Merged(Line(y)', IF y.src = x.dst THEN Append(Line(y), p) ELSE Line(y))
      BY <2>1, <2>3 DEF Draws
    <3>2. CASE y.src = x.dst
      <4>1. p \in Knowing(y)
        BY <2>2, <3>2, ExtendKnown
      <4> HIDE DEF p
      <4>2. Append(Line(y), p) \in Seq(Knowing(y))
        BY <1>1, <4>1
      <4>3. QED
        BY <3>1, <3>2, <4>2, MergedKnown
    <3>3. CASE y.src # x.dst
      BY <1>1, <3>1, <3>3, MergedKnown
    <3>4. QED
      BY <3>2, <3>3
  <2>4. QED
    BY <2>2, <2>3 DEF Known, Knowing
<1>4. CASE Reports
  <2>1. Line(Out) # <<>> /\ Line(Out)' = Tail(Line(Out)) /\ \A y \in Edges : Line(y)' = Line(y)
    BY <1>4 DEF Reports
  <2>2. Line(Out)' \in Seq(Knowing(Out))
    BY <1>1, <2>1
  <2>3. ASSUME NEW y \in Edges \cup {Out} PROVE Line(y)' \in Seq(Knowing(y))
    BY <1>1, <2>1, <2>2
  <2>4. QED
    BY <2>3 DEF Known, Knowing
<1>5. CASE Stops
  <2>1. ASSUME NEW y \in Edges \cup {Out} PROVE Line(y)' \in Seq(Knowing(y))
    <3>1. Line(y)' = <<>>
      BY <1>5 DEF Stops
    <3>2. QED
      BY <3>1
  <2>2. QED
    BY <2>1 DEF Known, Knowing
<1>6. QED
  BY <1>2, <1>3, <1>4, <1>5, Steps

-----------------------------------------------------------------------------
(* The order of the reports                                                *)

\* Nothing in s costs more than c.
Below(s, c) == \A i \in 1..Len(s) : s[i].cost <= c

\* the complete paths that cost no less than what is drawn at the last node
Reportable(low) == {v \in Seq(Edges \cup {Entry}) : IsPath(v, FinNd) /\ low[FinNd] <= PathCost(v)}

\* What was reported is in order, and what waits to be reported is not slower.
Told(low) ==
  /\ shown \in Seq(Reportable(low))
  /\ \A i, j \in 1..Len(shown) : i < j => PathCost(shown[j]) <= PathCost(shown[i])
  /\ \A i \in 1..Len(shown) : Below(Line(Out), PathCost(shown[i]))

\* A complete path has a cost.
LEMMA ReportableCost ==
  ASSUME NEW low, NEW v \in Reportable(low)
  PROVE  v \in Seq(Edges \cup {Entry}) /\ IsPath(v, FinNd) /\ PathCost(v) \in Nat
<1>1. v \in Seq(Edges \cup {Entry}) /\ IsPath(v, FinNd)
  BY DEF Reportable
<1>2. v # <<>>
  BY <1>1 DEF IsPath
<1>3. QED
  BY <1>1, <1>2, CostNat

\* Merging makes nothing slower.
LEMMA MergedBelow ==
  ASSUME NEW t, NEW s, Merged(t, s), NEW c, Below(s, c)
  PROVE  Below(t, c)
<1>1. PICK f : Selects(t, s, f)
  BY DEF Merged
<1>2. ASSUME NEW i \in 1..Len(t) PROVE t[i].cost <= c
  <2>1. f[i] \in 1..Len(s) /\ Alike(t[i], s[f[i]])
    BY <1>1 DEF Selects
  <2>2. t[i].cost = s[f[i]].cost
    BY <2>1 DEF Alike
  <2>3. QED
    BY <2>1, <2>2 DEF Below
<1>3. QED
  BY <1>2 DEF Below

\* Nothing is reported at first.
LEMMA ToldInit ==
  ASSUME NEW low, Init
  PROVE  Told(low)
<1>1. shown = <<>>
  BY DEF Init
<1>2. QED
  BY <1>1 DEF Told

\* Paths are moved.
LEMMA ToldQuiet ==
  ASSUME NEW low, Told(low), Merged(Line(Out)', Line(Out)), shown' = shown
  PROVE  Told(low)'
<1>1. ASSUME NEW i \in 1..Len(shown) PROVE Below(Line(Out)', PathCost(shown[i]))
  <2>1. Below(Line(Out), PathCost(shown[i]))
    BY DEF Told
  <2>2. QED
    BY <2>1, MergedBelow
<1>2. QED
  BY <1>1 DEF Told, Below, Reportable

\* A path is drawn: if at the last node, it is the slowest one to come.
LEMMA ToldDraw ==
  ASSUME Steady, NEW low, Order(low), Told(low), NEW x \in Edges, Draws(x), shown' = shown, Line(x) # <<>>,
         NEW new, Order(new)', new[x.dst] = After(Head(Line(x)).cost, x), new[x.dst] <= low[x.dst],
         \A nd \in Nodes : nd # x.dst => new[nd] = low[nd]
  PROVE  Told(new)'
<1>1. /\ FinNd \in Nodes /\ Out.src = FinNd /\ x # Out /\ x.dst \in Nodes /\ low \in [Nodes -> Nat]
      /\ new \in [Nodes -> Nat]
  <2>1. low \in [Nodes -> Nat] /\ new \in [Nodes -> Nat]
    BY DEF Order
  <2>2. QED
    BY <2>1, EdgeIs, SideIs DEF Out
<1>2. new[FinNd] <= low[FinNd] /\ new[FinNd] \in Nat /\ low[FinNd] \in Nat
  BY <1>1
<1>3. /\ shown \in Seq(Reportable(low))
      /\ \A i, j \in 1..Len(shown) : i < j => PathCost(shown[j]) <= PathCost(shown[i])
      /\ \A i \in 1..Len(shown) : Below(Line(Out), PathCost(shown[i]))
  BY DEF Told
<1>4. Reportable(low) \subseteq Reportable(new)
  <2>1. ASSUME NEW v \in Reportable(low) PROVE new[FinNd] <= PathCost(v)
    <3>1. PathCost(v) \in Nat /\ low[FinNd] <= PathCost(v)
      BY ReportableCost DEF Reportable
    <3>2. QED
      BY <1>2, <3>1
  <2>2. QED
    BY <2>1 DEF Reportable
<1>5. shown \in Seq(Reportable(new))
  BY <1>3, <1>4
<1>6. ASSUME NEW i \in 1..Len(shown) PROVE Below(Line(Out)', PathCost(shown[i]))
  <2> DEFINE c == PathCost(shown[i])
             p == Extend(Head(Line(x)), x, dead)
             s == Line(Out)
  <2>1. shown[i] \in Reportable(low)
    BY <1>3
  <2>2. c \in Nat /\ low[FinNd] <= c /\ Below(s, c)
    BY <1>3, <2>1, ReportableCost DEF Reportable
  <2>3. Merged(Line(Out)', IF Out.src = x.dst THEN Append(s, p) ELSE s)
    BY <1>1 DEF Draws
  <2>4. CASE x.dst = FinNd
    <3>1. p.cost <= c
      <4>1. Head(Line(x)) \in Fitting(x, low)
        BY DEF Order, Sorted
      <4>2. Head(Line(x)) \in Paths /\ Proper(Head(Line(x)), x)
        BY <4>1 DEF Fitting
      <4>3. p.cost = new[FinNd]
        BY <2>4, <4>2, ExtendCost
      <4> HIDE DEF p, c
      <4>4. QED
        BY <1>2, <2>2, <4>3
    <3>2. s \in Seq(Fitting(Out, low)) 
      BY DEF Order, Sorted
    <3>3. Below(Append(s, p), c)
      <4> HIDE DEF s, p, c
      <4>1. Len(s) \in Nat /\ Len(Append(s, p)) = Len(s) + 1 /\ Append(s, p)[Len(s) + 1] = p
            /\ \A m \in 1..Len(s) : Append(s, p)[m] = s[m]
        BY <3>2
      <4>2. ASSUME NEW m \in 1..Len(Append(s, p)) PROVE Append(s, p)[m].cost <= c
        <5>1. m \in 1..Len(s) \/ m = Len(s) + 1
          BY <4>1
        <5>2. CASE m \in 1..Len(s)
          BY <2>2, <4>1, <5>2 DEF Below
        <5>3. CASE m = Len(s) + 1
          BY <3>1, <4>1, <5>3
        <5>4. QED
          BY <5>1, <5>2, <5>3
      <4>3. QED
        BY <4>2 DEF Below
    <3>4. QED
      BY <1>1, <2>3, <2>4, <3>3, MergedBelow
  <2>5. CASE x.dst # FinNd
    BY <1>1, <2>2, <2>3, <2>5, MergedBelow
  <2>6. QED
    BY <2>4, <2>5
<1>7. QED
  BY <1>3, <1>5, <1>6 DEF Told, Below, Reportable

\* The first of the complete paths is reported: none that waits is slower.
LEMMA ToldReport ==
  ASSUME NEW low, Order(low), Known, Told(low), Reports
  PROVE  Told(low)'
<1> DEFINE s == Line(Out)
           p == Head(s)
           sat == p.kind = "possible" /\ Feasible(p.via)
<1>1. s # <<>> /\ s' = Tail(s) /\ shown' = IF sat THEN Append(shown, p.via) ELSE shown
  BY DEF Reports
<1>2. s \in Seq(Fitting(Out, low)) /\ Down(s) /\ s \in Seq(Knowing(Out))
  BY DEF Order, Sorted, Known
<1>3. /\ p \in Fitting(Out, low) /\ Tail(s) \in Seq(Fitting(Out, low)) /\ Len(s) \in Nat
      /\ Below(s, p.cost) /\ Below(Tail(s), p.cost)
  <2> DEFINE S == Fitting(Out, low)
  <2>1. \A q \in S : q.cost \in Nat
    BY DEF Fitting, Paths, PathType
  <2>2. s \in Seq(S) /\ Down(s) /\ s # <<>>
    BY <1>1, <1>2
  <2> HIDE DEF S, s
  <2>3. /\ p \in S /\ Tail(s) \in Seq(S)
        /\ \A i \in 1..Len(s) : s[i].cost <= p.cost
        /\ \A i \in 1..Len(Tail(s)) : Tail(s)[i].cost <= p.cost
    BY <2>1, <2>2, DownTail
  <2>4. Len(s) \in Nat
    BY <2>2
  <2>5. QED
    BY <2>3, <2>4 DEF Below, S
<1>4. /\ shown \in Seq(Reportable(low))
      /\ \A i, j \in 1..Len(shown) : i < j => PathCost(shown[j]) <= PathCost(shown[i])
      /\ \A i \in 1..Len(shown) : Below(s, PathCost(shown[i]))
  BY DEF Told
<1>5. \A c : Below(s, c) => Below(Tail(s), c) /\ p.cost <= c
  <2>1. /\ Len(s) \in Nat /\ 1 \in 1..Len(s) /\ p = s[1] /\ Len(Tail(s)) = Len(s) - 1
        /\ \A i \in 1..Len(Tail(s)) : Tail(s)[i] = s[i + 1] /\ i + 1 \in 1..Len(s)
    <3> HIDE DEF s
    <3>1. QED
      BY <1>1, <1>2
  <2> HIDE DEF s, p
  <2>2. QED
    BY <2>1 DEF Below
<1>6. CASE ~sat
  <2>1. shown' = shown
    BY <1>1, <1>6
  <2>2. \A i \in 1..Len(shown) : Below(s', PathCost(shown[i]))
    BY <1>1, <1>4, <1>5
  <2>3. QED
    BY <1>4, <2>1, <2>2 DEF Told, Below, Reportable
<1>7. CASE sat
  <2> DEFINE v == p.via
             n == Len(shown)
  <2>1. p \in Knowing(Out) /\ p.kind = "possible"
    BY <1>1, <1>2, <1>7
  <2>2. IsPath(v, FinNd) /\ p.cost = PathCost(v) /\ v \in Seq(Edges \cup {Entry})
    BY <2>1 DEF Knowing, Out, IsPath
  <2>3. v \in Reportable(low)
    BY <1>3, <2>2 DEF Reportable, Fitting, Out
  <2>4. /\ n \in Nat /\ shown' \in Seq(Reportable(low)) /\ Len(shown') = n + 1
        /\ \A i \in 1..n : shown'[i] = shown[i]
        /\ shown'[n + 1] = v
    <3>1. shown' = Append(shown, v)
      BY <1>1, <1>7
    <3> HIDE DEF v
    <3>2. QED
      BY <1>4, <2>3, <3>1
  <2>5. Below(s', PathCost(v))
    BY <1>1, <1>3, <2>2
  <2>6. \A i \in 1..n : Below(s', PathCost(shown[i])) /\ PathCost(v) <= PathCost(shown[i])
    BY <1>1, <1>4, <1>5, <2>2
  <2> HIDE DEF v, n, s, p
  <2>7. \A i \in 1..Len(shown') : i \in 1..n \/ i = n + 1
    BY <2>4
  <2>8. \A i \in 1..Len(shown') : Below(s', PathCost(shown'[i]))
    BY <2>4, <2>5, <2>6, <2>7
  <2>9. \A i, j \in 1..Len(shown') : i < j => PathCost(shown'[j]) <= PathCost(shown'[i])
    <3>1. SUFFICES ASSUME NEW i \in 1..Len(shown'), NEW j \in 1..Len(shown'), i < j
                   PROVE  PathCost(shown'[j]) <= PathCost(shown'[i])
      OBVIOUS
    <3>2. i \in 1..n
      BY <2>4, <3>1
    <3>3. CASE j \in 1..n
      BY <1>4, <2>4, <3>1, <3>2, <3>3 DEF n
    <3>4. CASE j = n + 1
      BY <2>4, <2>6, <3>2, <3>4
    <3>5. QED
      BY <2>7, <3>3, <3>4
  <2>10. QED
    BY <2>4, <2>8, <2>9 DEF Told, Below, Reportable, s
<1>8. QED
  BY <1>6, <1>7

\* The bound: nothing that waits at the last node, or is drawn there, is slower.
Bounded(low) == bound \in Nat /\ low[FinNd] <= bound /\ Below(Line(Out), bound)

\* The first of what waits at the last node is a bound for it.
LEMMA FrontBounds ==
  ASSUME NEW low, NEW s \in Seq(Fitting(Out, low)), Down(s), s # <<>>
  PROVE  Head(s).cost \in Nat /\ low[FinNd] <= Head(s).cost /\ Below(s, Head(s).cost)
<1> DEFINE S == Fitting(Out, low)
<1>1. \A q \in S : q.cost \in Nat /\ low[FinNd] <= q.cost
  BY DEF Fitting, Paths, PathType, Out
<1>2. s \in Seq(S)
  OBVIOUS
<1> HIDE DEF S
<1>3. Head(s) \in S /\ \A i \in 1..Len(s) : s[i].cost <= Head(s).cost
  BY <1>1, <1>2, DownTail
<1>4. QED
  BY <1>1, <1>3 DEF Below

\* The bound is one while nothing is drawn: it is printed for the first of the
\* complete paths.
LEMMA BoundedQuiet ==
  ASSUME NEW low, Order(low), Bounded(low), Merged(Line(Out)', Line(Out)),
         bound' = bound \/ Prints(Line(Out))
  PROVE  Bounded(low)'
<1>1. CASE bound' = bound
  <2>1. Below(Line(Out)', bound)
    BY MergedBelow DEF Bounded
  <2>2. QED
    BY <1>1, <2>1 DEF Bounded, Below
<1>2. CASE Prints(Line(Out))
  <2>1. Line(Out) # <<>> /\ bound' = Head(Line(Out)).cost
    BY <1>2 DEF Prints
  <2>2. Line(Out) \in Seq(Fitting(Out, low)) /\ Down(Line(Out))
    BY DEF Order, Sorted
  <2>3. bound' \in Nat /\ low[FinNd] <= bound' /\ Below(Line(Out), bound')
    BY <2>1, <2>2, FrontBounds
  <2>4. Below(Line(Out)', bound')
    BY <2>3, MergedBelow
  <2>5. QED
    BY <2>3, <2>4 DEF Bounded, Below
<1>3. QED
  BY <1>1, <1>2

\* What is drawn to the end is not slower than what was drawn before, or than
\* the worst path there can be.
LEMMA BoundedDraw ==
  ASSUME Steady, NEW low, Order(low), Bounded(low), NEW x \in Edges, Draws(x), bound' = bound, Line(x) # <<>>,
         NEW new, Order(new)', new[x.dst] = After(Head(Line(x)).cost, x), new[x.dst] <= low[x.dst],
         \A nd \in Nodes : nd # x.dst => new[nd] = low[nd]
  PROVE  Bounded(new)'
<1>1. /\ FinNd \in Nodes /\ Out.src = FinNd /\ x # Out /\ x.dst \in Nodes /\ low \in [Nodes -> Nat]
      /\ new \in [Nodes -> Nat]
  <2>1. low \in [Nodes -> Nat] /\ new \in [Nodes -> Nat]
    BY DEF Order
  <2>2. QED
    BY <2>1, EdgeIs, SideIs DEF Out
<1>2. new[FinNd] <= low[FinNd] /\ new[FinNd] \in Nat /\ low[FinNd] \in Nat
  BY <1>1
<1>3. bound \in Nat /\ low[FinNd] <= bound /\ Below(Line(Out), bound)
  BY DEF Bounded
<1> DEFINE p == Extend(Head(Line(x)), x, dead)
           s == Line(Out)
<1>4. Merged(Line(Out)', IF Out.src = x.dst THEN Append(s, p) ELSE s)
  BY <1>1 DEF Draws
<1>5. CASE x.dst = FinNd
  <2>1. Head(Line(x)) \in Fitting(x, low)
    BY DEF Order, Sorted
  <2>2. Head(Line(x)) \in Paths /\ Proper(Head(Line(x)), x)
    BY <2>1 DEF Fitting
  <2>3. p.cost = new[FinNd]
    BY <1>5, <2>2, ExtendCost
  <2>4. s \in Seq(Fitting(Out, low))
    BY DEF Order, Sorted
  <2>5. Below(Append(s, p), bound)
    <3> HIDE DEF s, p
    <3>1. Len(s) \in Nat /\ Len(Append(s, p)) = Len(s) + 1 /\ Append(s, p)[Len(s) + 1] = p
          /\ \A m \in 1..Len(s) : Append(s, p)[m] = s[m]
      BY <2>4
    <3>2. ASSUME NEW m \in 1..Len(Append(s, p)) PROVE Append(s, p)[m].cost <= bound
      <4>1. m \in 1..Len(s) \/ m = Len(s) + 1
        BY <3>1
      <4>2. CASE m \in 1..Len(s)
        BY <1>3, <3>1, <4>2 DEF Below, s
      <4>3. CASE m = Len(s) + 1
        BY <1>2, <1>3, <2>3, <3>1, <4>3
      <4>4. QED
        BY <4>1, <4>2, <4>3
    <3>3. QED
      BY <3>2 DEF Below
  <2>6. Below(Line(Out)', bound)
    BY <1>1, <1>4, <1>5, <2>5, MergedBelow
  <2>7. QED
    BY <1>2, <1>3, <2>6 DEF Bounded, Below
<1>6. CASE x.dst # FinNd
  <2>1. Below(Line(Out)', bound)
    BY <1>1, <1>3, <1>4, <1>6, MergedBelow
  <2>2. QED
    BY <1>2, <1>3, <2>1 DEF Bounded, Below
<1>7. QED
  BY <1>5, <1>6

\* The next bound is the cost of the next path.
LEMMA BoundedReport ==
  ASSUME NEW low, Order(low), Bounded(low), Reports
  PROVE  Bounded(low)'
<1> DEFINE s == Line(Out)
<1>1. s # <<>> /\ s' = Tail(s) /\ (bound' = bound \/ Prints(Tail(s)))
  BY DEF Reports
<1>2. s \in Seq(Fitting(Out, low)) /\ Down(s)
  BY DEF Order, Sorted
<1>3. Tail(s) \in Seq(Fitting(Out, low)) /\ Down(Tail(s))
  <2> DEFINE S == Fitting(Out, low)
  <2>1. \A q \in S : q.cost \in Nat
    BY DEF Fitting, Paths, PathType
  <2>2. s \in Seq(S)
    BY <1>2
  <2> HIDE DEF S, s
  <2>3. Tail(s) \in Seq(S) /\ Down(Tail(s))
    BY <1>1, <1>2, <2>1, <2>2, DownTail
  <2>4. QED
    BY <2>3 DEF S
<1>4. CASE bound' = bound
  <2>1. bound \in Nat /\ low[FinNd] <= bound /\ Below(s, bound)
    BY DEF Bounded
  <2>2. Below(Tail(s), bound)
    <3> HIDE DEF s
    <3>1. \A i \in 1..Len(Tail(s)) : Tail(s)[i] = s[i + 1] /\ i + 1 \in 1..Len(s)
      BY <1>1, <1>2
    <3>2. QED
      BY <2>1, <3>1 DEF Below
  <2>3. QED
    BY <1>1, <1>4, <2>1, <2>2 DEF Bounded, Below
<1>5. CASE Prints(Tail(s))
  <2>1. Tail(s) # <<>> /\ bound' = Head(Tail(s)).cost
    BY <1>5 DEF Prints
  <2>2. bound' \in Nat /\ low[FinNd] <= bound' /\ Below(Tail(s), bound')
    <3> HIDE DEF s
    <3>1. QED
      BY <1>3, <2>1, FrontBounds
  <2>3. QED
    BY <1>1, <2>2 DEF Bounded, Below
<1>6. QED
  BY <1>1, <1>4, <1>5

\* The paths wait and are reported in order, and the bound is one.
Ranked(low) == Order(low) /\ Told(low) /\ Bounded(low)
RankInv == \E low : Ranked(low)

\* At first the mark of each node is the worst path to it.
LEMMA RankInit ==
  ASSUME Steady, Init
  PROVE  RankInv
<1>1. PICK low : Order(low) /\ low[FinNd] = Worst
  BY OrderInit
<1>2. low[FinNd] \in Nat
  BY <1>1, SideIs DEF Order
<1>3. Line(Out) = <<>>
  BY LineInit, GraphAssumption DEF Out
<1>4. bound = Worst
  BY DEF Init
<1>5. Bounded(low)
  BY <1>1, <1>2, <1>3, <1>4 DEF Bounded, Below
<1>6. QED
  BY <1>1, <1>5, ToldInit DEF RankInv, Ranked

\* A path that is drawn lowers the mark of its node, nothing else does.
LEMMA RankNext ==
  ASSUME FewPaths, Steady, Inv, Tidy, Known, RankInv, [Next]_vars
  PROVE  RankInv'
<1>1. PICK low : Order(low) /\ Told(low) /\ Bounded(low)
  BY DEF RankInv, Ranked
<1>2. CASE Quiet
  <2>1. /\ \A y \in Edges \cup {Out} : Merged(Line(y)', Line(y))
        /\ bound' = bound \/ Prints(Line(Out))
        /\ shown' = shown
    BY <1>2 DEF Quiet
  <2>2. Order(low)' /\ Told(low)' /\ Bounded(low)'
    BY <1>1, <2>1, OrderQuiet, ToldQuiet, BoundedQuiet
  <2>3. QED
    BY <2>2 DEF RankInv, Ranked
<1>3. ASSUME NEW x \in Edges, Drawing(x) PROVE RankInv'
  <2>1. Draws(x) /\ shown' = shown /\ bound' = bound /\ Line(x) # <<>>
    BY <1>3 DEF Drawing, Draws
  <2>2. PICK new : /\ Order(new)'
                   /\ new[x.dst] = After(Head(Line(x)).cost, x) /\ new[x.dst] <= low[x.dst]
                   /\ \A nd \in Nodes : nd # x.dst => new[nd] = low[nd]
    BY <1>1, <2>1, OrderDraw
  <2>3. Told(new)' /\ Bounded(new)'
    BY <1>1, <2>1, <2>2, ToldDraw, BoundedDraw
  <2>4. QED
    BY <2>2, <2>3 DEF RankInv, Ranked
<1>4. CASE Reports
  <2>1. /\ Line(Out) # <<>> /\ Line(Out)' = Tail(Line(Out))
        /\ \A y \in Edges : Line(y)' = Line(y)
    BY <1>4 DEF Reports
  <2>2. Order(low)' /\ Told(low)' /\ Bounded(low)'
    BY <1>1, <1>4, <2>1, OrderTail, ToldReport, BoundedReport
  <2>3. QED
    BY <2>2 DEF RankInv, Ranked
<1>5. CASE Stops
  <2>1. /\ \A y \in Edges \cup {Out} : Line(y)' = <<>>
        /\ bound' = bound /\ shown' = shown
    BY <1>5 DEF Stops
  <2>2. Order(low)'
    <3>1. \A y \in Edges \cup {Out} : Sorted(<<>>, y, low)
      BY DEF Sorted, Down
    <3>2. low \in [Nodes -> Nat] /\ \A x \in Edges : After(low[x.src], x) <= low[x.dst]
      BY <1>1 DEF Order
    <3>3. QED
      BY <2>1, <3>1, <3>2 DEF Order
  <2>3. Told(low)' /\ Bounded(low)'
    BY <1>1, <2>1 DEF Told, Bounded, Below, Reportable
  <2>4. QED
    BY <2>2, <2>3 DEF RankInv, Ranked
<1>6. QED
  BY <1>2, <1>3, <1>4, <1>5, Steps

\* The queues are tidy, the paths are ways that know their cost and wait in
\* order, the reports are in order.
ReportInv == Inv /\ Tidy /\ Known /\ RankInv

\* The parts hold at first.
LEMMA ReportInit == ASSUME Steady PROVE Init => ReportInv
<1>1. QED
  BY InitInv, TidyInit, KnownInit, RankInit DEF ReportInv

\* The parts together are inductive.
LEMMA ReportNext ==
  ASSUME FewPaths, Steady
  PROVE  ReportInv /\ [Next]_vars => ReportInv'
<1>1. SUFFICES ASSUME ReportInv, [Next]_vars PROVE ReportInv'
  OBVIOUS
<1>2. Inv /\ Tidy /\ Known /\ RankInv
  BY <1>1 DEF ReportInv
<1>3. Inv'
  BY <1>1, <1>2, NextInv
<1>4. Tidy' /\ Known' /\ RankInv'
  BY <1>1, <1>2, TidyNext, KnownNext, RankNext
<1>5. QED
  BY <1>3, <1>4 DEF ReportInv

\* The paths are reported from slowest to fastest (report_path(), called at
\* cfg.cpp:2116): a node always draws the path that is the slowest once
\* extended, and an extension never makes the faster of two the slower one.
THEOREM SortedBySlowness == ASSUME FewPaths, Steady PROVE Spec => []SlowestFirst
<1>1. ReportInv => SlowestFirst
  <2>1. SUFFICES ASSUME ReportInv, NEW i \in 1..Len(shown) - 1
                 PROVE  PathCost(shown[i + 1]) <= PathCost(shown[i])
    BY DEF SlowestFirst
  <2>2. PICK low : Told(low)
    BY <2>1 DEF ReportInv, RankInv, Ranked
  <2>3. /\ shown \in Seq(Reportable(low))
        /\ \A m, j \in 1..Len(shown) : m < j => PathCost(shown[j]) <= PathCost(shown[m])
    BY <2>2 DEF Told
  <2>4. i \in 1..Len(shown) /\ i + 1 \in 1..Len(shown) /\ i < i + 1
    BY <2>1, <2>3
  <2>5. QED
    BY <2>3, <2>4
<1>2. ReportInv /\ [Next]_vars => ReportInv'
  BY ReportNext
<1>3. QED
  BY <1>1, <1>2, ReportInit, PTL DEF Spec

-----------------------------------------------------------------------------
(* All ways through the program                                            *)

\* the ways from the entry to a node
WaysTo(nd) == {w \in Seq(Edges \cup {Entry}) : IsPath(w, nd)}

\* Only the empty way leads to the first node.
LEMMA FirstWay == WaysTo(1) = {<<Entry>>}
<1>1. <<Entry>> \in WaysTo(1)
  <2> DEFINE w == <<Entry>>
  <2>1. w \in Seq(Edges \cup {Entry}) /\ w # <<>> /\ Len(w) = 1 /\ w[1] = Entry
    OBVIOUS
  <2>2. Last(w) = Entry
    BY <2>1 DEF Last
  <2> HIDE DEF w
  <2>3. Last(w).dst = 1 /\ 1..Len(w) - 1 = {}
    BY <2>1, <2>2 DEF Entry
  <2>4. IsPath(w, 1)
    BY <2>1, <2>3 DEF IsPath
  <2>5. w \in WaysTo(1)
    BY <2>1, <2>4 DEF WaysTo
  <2>6. QED
    BY <2>5 DEF w
<1>2. ASSUME NEW w \in WaysTo(1) PROVE w = <<Entry>>
  <2> DEFINE n == Len(w)
  <2>1. w \in Seq(Edges \cup {Entry}) /\ w # <<>> /\ w[1] = Entry /\ Last(w).dst = 1
    BY DEF WaysTo, IsPath
  <2>2. n \in Nat /\ n > 0 /\ Last(w) = w[n]
    BY <2>1 DEF Last
  <2>3. \A i \in 1..n - 1 : w[i + 1] \in Edges
    BY DEF WaysTo, IsPath
  <2> HIDE DEF n
  <2>4. n = 1
    <3>1. SUFFICES ASSUME n # 1 PROVE FALSE
      OBVIOUS
    <3>2. n - 1 \in 1..n - 1 /\ (n - 1) + 1 = n
      BY <2>2, <3>1
    <3>3. w[n] \in Edges
      BY <2>3, <3>2
    <3>4. QED
      BY <2>1, <2>2, <3>3, EdgeIs
  <2>5. QED
    BY <2>1, <2>4 DEF n
<1>3. QED
  BY <1>1, <1>2

\* To any other node it leads by an edge.
LEMMA WayBack ==
  ASSUME NEW nd, nd # 1, NEW v \in WaysTo(nd)
  PROVE  \E x \in Edges : x.dst = nd /\ \E w \in WaysTo(x.src) : v = Append(w, x)
<1> DEFINE n == Len(v)
           x == v[n]
           w == SubSeq(v, 1, n - 1)
<1>1. v \in Seq(Edges \cup {Entry}) /\ v # <<>> /\ v[1] = Entry /\ Last(v).dst = nd
  BY DEF WaysTo, IsPath
<1>2. n \in Nat /\ n > 0 /\ Last(v) = v[n]
  BY <1>1 DEF Last
<1>3. \A i \in 1..n - 1 : v[i + 1] \in Edges /\ v[i].dst = v[i + 1].src
  BY DEF WaysTo, IsPath
<1>4. n # 1
  BY <1>1, <1>2 DEF Entry
<1>5. n - 1 \in 1..n - 1 /\ (n - 1) + 1 = n /\ n - 1 \in Nat /\ n - 1 <= n
  <2>1. n \in Nat /\ n > 0 /\ n # 1
    BY <1>2, <1>4
  <2> HIDE DEF n
  <2>2. QED
    BY <2>1
<1>6. x \in Edges /\ x.dst = nd /\ v[n - 1].dst = x.src
  BY <1>1, <1>2, <1>3, <1>5
<1>7. w \in Seq(Edges \cup {Entry}) /\ Len(w) = n - 1 /\ \A i \in 1..n - 1 : w[i] = v[i]
  BY <1>1, <1>5
<1>8. v = Append(w, x)
  <2>1. /\ Append(w, x) \in Seq(Edges \cup {Entry}) /\ Len(Append(w, x)) = n
        /\ \A i \in 1..n - 1 : Append(w, x)[i] = v[i]
        /\ Append(w, x)[n] = v[n]
    <3> HIDE DEF w
    <3>1. x \in Edges \cup {Entry}
      BY <1>6
    <3> HIDE DEF x, n
    <3>2. /\ Append(w, x) \in Seq(Edges \cup {Entry}) /\ Len(Append(w, x)) = (n - 1) + 1
          /\ \A i \in 1..n - 1 : Append(w, x)[i] = w[i]
          /\ Append(w, x)[(n - 1) + 1] = x
      BY <1>5, <1>7, <3>1, Longer
    <3>3. QED
      BY <1>2, <1>5, <1>7, <3>2 DEF x
  <2>2. \A i \in 1..n : i \in 1..n - 1 \/ i = n
    BY <1>2
  <2> HIDE DEF w, x
  <2>3. QED
    BY <1>1, <2>1, <2>2, SameSeq
<1>9. IsPath(w, x.src)
  <2>1. w # <<>> /\ Last(w) = v[n - 1] /\ w[1] = Entry
    <3> HIDE DEF w, x, n
    <3>1. 1 \in 1..n - 1
      BY <1>5, <1>2
    <3>2. QED
      BY <1>1, <1>5, <1>7, <3>1 DEF Last
  <2>2. \A i \in 1..Len(w) - 1 : w[i + 1] \in Edges /\ w[i].dst = w[i + 1].src
    <3> HIDE DEF w, x, n
    <3>1. ASSUME NEW i \in 1..Len(w) - 1 PROVE i \in 1..n - 1 /\ i + 1 \in 1..n - 1
      BY <1>5, <1>7
    <3>2. QED
      BY <1>3, <1>7, <3>1
  <2> HIDE DEF w, x, n
  <2>3. QED
    BY <1>6, <1>7, <2>1, <2>2 DEF IsPath
<1> HIDE DEF w, x
<1>10. QED
  BY <1>6, <1>7, <1>8, <1>9 DEF WaysTo

\* The ways to a node are those to the sources of its edges, and one more step.
LEMMA WaysStep ==
  ASSUME NEW nd \in Nodes, nd # 1
  PROVE  WaysTo(nd) = UNION {{Append(w, x) : w \in WaysTo(x.src)} : x \in ToSet(Pred(nd))}
<1>1. ToSet(Pred(nd)) = {x \in Edges : x.dst = nd}
  BY PredIs
<1>2. ASSUME NEW v \in WaysTo(nd)
      PROVE  \E x \in ToSet(Pred(nd)) : v \in {Append(w, x) : w \in WaysTo(x.src)}
  BY <1>1, <1>2, WayBack
<1>3. ASSUME NEW x \in ToSet(Pred(nd)), NEW w \in WaysTo(x.src) PROVE Append(w, x) \in WaysTo(nd)
  <2>1. x \in Edges /\ x.dst = nd /\ IsPath(w, x.src)
    BY <1>1 DEF WaysTo
  <2>2. IsPath(Append(w, x), nd)
    BY <2>1, PathAppend
  <2>3. QED
    BY <2>2 DEF WaysTo, IsPath
<1> DEFINE From(x) == {Append(w, x) : w \in WaysTo(x.src)}
<1>4. \A x \in ToSet(Pred(nd)) : From(x) \subseteq WaysTo(nd)
  BY <1>3
<1>5. \A v \in WaysTo(nd) : \E x \in ToSet(Pred(nd)) : v \in From(x)
  BY <1>2
<1> HIDE DEF From
<1>6. WaysTo(nd) = UNION {From(x) : x \in ToSet(Pred(nd))}
  BY <1>4, <1>5
<1>7. QED
  BY <1>6 DEF From

\* AllPaths are the ways to the last node.
LEMMA AllPathsIs == AllPaths = WaysTo(FinNd)
<1> DEFINE Body(f) == [nd \in Nodes |->
              IF nd = 1 THEN {<<Entry>>}
              ELSE UNION {{Append(w, x) : w \in f[x.src]} : x \in ToSet(Pred(nd))}]
           ways == CHOOSE f : f = Body(f)
           all == [nd \in Nodes |-> WaysTo(nd)]
<1>1. ASSUME NEW nd \in Nodes, NEW x \in ToSet(Pred(nd)) PROVE x.src \in Nodes /\ x.src < nd
  BY EdgeIs, PredIs
<1>2. all = Body(all)
  <2>1. ASSUME NEW nd \in Nodes
        PROVE  WaysTo(nd) = IF nd = 1 THEN {<<Entry>>}
                            ELSE UNION {{Append(w, x) : w \in all[x.src]} : x \in ToSet(Pred(nd))}
    <3>1. CASE nd = 1
      BY <3>1, FirstWay
    <3>2. CASE nd # 1
      <4>1. \A x \in ToSet(Pred(nd)) : all[x.src] = WaysTo(x.src)
        BY <1>1
      <4> HIDE DEF all
      <4>2. WaysTo(nd) = UNION {{Append(w, x) : w \in WaysTo(x.src)} : x \in ToSet(Pred(nd))}
        BY <3>2, WaysStep
      <4>3. QED
        BY <3>2, <4>1, <4>2
    <3>3. QED
      BY <3>1, <3>2
  <2>2. QED
    BY <2>1
<1>3. ways = Body(ways)
  <2> HIDE DEF all
  <2>1. \E f : f = Body(f)
    BY <1>2
  <2> HIDE DEF Body
  <2>2. QED
    BY <2>1
<1>4. \A nd \in Nodes : ways[nd] = IF nd = 1 THEN {<<Entry>>}
                                   ELSE UNION {{Append(w, x) : w \in ways[x.src]} : x \in ToSet(Pred(nd))}
  <2> HIDE DEF ways
  <2>1. QED
    BY <1>3
<1> DEFINE T == {n \in Nat : \A nd \in Nodes : nd <= n => ways[nd] = WaysTo(nd)}
<1>5. Nat \subseteq T
  <2> HIDE DEF ways
  <2>1. 0 \in T
    BY DEF Nodes
  <2>2. ASSUME NEW n \in Nat, n \in T PROVE n + 1 \in T
    <3>1. ASSUME NEW nd \in Nodes, nd <= n + 1 PROVE ways[nd] = WaysTo(nd)
      <4>1. CASE nd = 1
        BY <1>4, <4>1, FirstWay
      <4>2. CASE nd # 1
        <5>1. ASSUME NEW x \in ToSet(Pred(nd)) PROVE ways[x.src] = WaysTo(x.src)
          <6>1. x.src \in Nodes /\ x.src < nd
            BY <1>1
          <6>2. x.src \in Nat /\ nd \in Nat
            BY <6>1, GraphAssumption DEF Nodes
          <6>3. x.src <= n
            BY <3>1, <6>1, <6>2
          <6>4. QED
            BY <2>2, <6>1, <6>3
        <5>2. ways[nd] = UNION {{Append(w, x) : w \in ways[x.src]} : x \in ToSet(Pred(nd))}
          BY <1>4, <4>2
        <5>3. WaysTo(nd) = UNION {{Append(w, x) : w \in WaysTo(x.src)} : x \in ToSet(Pred(nd))}
          BY <4>2, WaysStep
        <5>4. QED
          BY <5>1, <5>2, <5>3
      <4>3. QED
        BY <4>1, <4>2
    <3>2. QED
      BY <3>1
  <2> HIDE DEF T
  <2>3. QED
    BY <2>1, <2>2, Induction
<1>6. ways[FinNd] = WaysTo(FinNd)
  <2> HIDE DEF ways
  <2>1. FinNd \in Nodes /\ FinNd \in Nat /\ FinNd <= FinNd
    BY GraphAssumption DEF Nodes
  <2>2. QED
    BY <1>5, <2>1
<1>7. AllPaths = ways[FinNd]
  BY DEF AllPaths
<1>8. QED
  BY <1>6, <1>7

-----------------------------------------------------------------------------
(* No path that can be taken gets lost                                     *)

\* the edge a way goes on by; s holds the possible path w
At(v, n) == IF n <= Len(v) THEN v[n] ELSE Out
Holds(s, w) == \E i \in 1..Len(s) : s[i].kind = "possible" /\ s[i].via = w

\* What was found to be unsatisfiable is; some beginning of each path that can
\* be taken waits, until the path was reported.
DeadOk == \A d \in dead : ~Feasible(d)
Waiting(v) == \E n \in 1..Len(v) : Holds(Line(At(v, n + 1)), SubSeq(v, 1, n))
Kept == \A v \in WaysTo(FinNd) : Feasible(v) => v \in ToSet(shown) \/ Waiting(v)

\* Only impossible paths are merged.
LEMMA MergedHolds ==
  ASSUME NEW t, NEW s, Merged(t, s), NEW w, Holds(s, w)
  PROVE  Holds(t, w)
<1>1. PICK f : Selects(t, s, f)
  BY DEF Merged
<1>2. PICK j \in 1..Len(s) : s[j].kind = "possible" /\ s[j].via = w
  BY DEF Holds
<1>3. PICK i \in 1..Len(t) : f[i] = j
  BY <1>1, <1>2 DEF Selects
<1>4. Alike(t[i], s[j])
  BY <1>1, <1>3 DEF Selects
<1>5. t[i] = s[j]
  BY <1>2, <1>4 DEF Alike
<1>6. QED
  BY <1>2, <1>5 DEF Holds

\* A path joins those that wait.
LEMMA AppendHolds ==
  ASSUME NEW S, NEW s \in Seq(S), NEW p \in S, NEW w,
         Holds(s, w) \/ (p.kind = "possible" /\ p.via = w)
  PROVE  Holds(Append(s, p), w)
<1>1. /\ Len(s) \in Nat /\ Len(Append(s, p)) = Len(s) + 1 /\ Append(s, p)[Len(s) + 1] = p
      /\ \A m \in 1..Len(s) : Append(s, p)[m] = s[m]
  BY Longer
<1>2. CASE Holds(s, w)
  <2>1. PICK i \in 1..Len(s) : s[i].kind = "possible" /\ s[i].via = w
    BY <1>2 DEF Holds
  <2>2. i \in 1..Len(Append(s, p)) /\ Append(s, p)[i] = s[i]
    BY <1>1
  <2>3. QED
    BY <2>1, <2>2 DEF Holds
<1>3. CASE p.kind = "possible" /\ p.via = w
  <2>1. Len(s) + 1 \in 1..Len(Append(s, p))
    BY <1>1
  <2>2. QED
    BY <1>1, <1>3, <2>1 DEF Holds
<1>4. QED
  BY <1>2, <1>3

\* Only the first path leaves.
LEMMA TailHolds ==
  ASSUME NEW S, NEW s \in Seq(S), s # <<>>, NEW w, Holds(s, w)
  PROVE  Holds(Tail(s), w) \/ (Head(s).kind = "possible" /\ Head(s).via = w)
<1>1. PICK i \in 1..Len(s) : s[i].kind = "possible" /\ s[i].via = w
  BY DEF Holds
<1>2. CASE i = 1
  BY <1>1, <1>2
<1>3. CASE i # 1
  <2>1. i - 1 \in 1..Len(Tail(s)) /\ Tail(s)[i - 1] = s[i]
    <3>1. Len(s) \in Nat /\ Len(Tail(s)) = Len(s) - 1 /\ i \in Nat /\ i > 1 /\ i <= Len(s)
      BY <1>3
    <3>2. PICK m \in 1..Len(Tail(s)) : i = m + 1
      BY <3>1
    <3>3. Tail(s)[m] = s[m + 1] /\ i - 1 = m
      BY <3>1, <3>2
    <3>4. QED
      BY <3>2, <3>3
  <2>2. QED
    BY <1>1, <2>1 DEF Holds
<1>4. QED
  BY <1>2, <1>3

\* A complete way, and one of its beginnings
LEMMA WayIs ==
  ASSUME NEW v \in WaysTo(FinNd), NEW n \in 1..Len(v)
  PROVE  /\ v \in Seq(Edges \cup {Entry}) /\ Len(v) \in Nat /\ Len(v) > 1 /\ v[1] = Entry /\ n \in Nat
         /\ At(v, n + 1) \in Edges \cup {Out} /\ At(v, n + 1).src = v[n].dst
         /\ SubSeq(v, 1, n) \in Seq(Edges \cup {Entry}) /\ SubSeq(v, 1, n) # <<>>
         /\ n < Len(v) => /\ At(v, n + 1) \in Edges /\ n + 1 \in 1..Len(v)
                          /\ v[n + 1] = At(v, n + 1)
                          /\ SubSeq(v, 1, n + 1) = Append(SubSeq(v, 1, n), At(v, n + 1))
         /\ n = Len(v) => At(v, n + 1) = Out /\ SubSeq(v, 1, n) = v
         /\ ToSet(SubSeq(v, 1, n)) \subseteq ToSet(v)
<1> DEFINE w == SubSeq(v, 1, n)
           l == Len(v)
<1>1. v \in Seq(Edges \cup {Entry}) /\ v # <<>> /\ v[1] = Entry /\ Last(v).dst = FinNd
  BY DEF WaysTo, IsPath
<1>2. l \in Nat /\ l > 0 /\ Last(v) = v[l] /\ DOMAIN v = 1..l
  BY <1>1 DEF Last
<1>3. \A i \in 1..l - 1 : v[i + 1] \in Edges /\ v[i].dst = v[i + 1].src
  BY DEF WaysTo, IsPath
<1>4. l > 1
  <2>1. l # 1
    BY <1>1, <1>2, GraphAssumption DEF Entry
  <2> HIDE DEF l
  <2>2. QED
    BY <1>2, <2>1
<1>5. /\ w \in Seq(Edges \cup {Entry}) /\ Len(w) = n /\ DOMAIN w = 1..n
      /\ \A i \in 1..n : w[i] = v[i]
  <2>1. w \in Seq(Edges \cup {Entry}) /\ Len(w) = n /\ \A i \in 1..n : w[i] = v[i]
    BY <1>1, Beginning
  <2>2. QED
    BY <2>1
<1>6. n \in Nat /\ n \in 1..l
  BY <1>2
<1>7. w # <<>>
  <2> HIDE DEF w
  <2>1. QED
    BY <1>5, <1>6
<1>8. ToSet(w) \subseteq ToSet(v)
  <2> HIDE DEF w, l
  <2>1. \A i \in 1..n : i \in 1..l
    BY <1>2, <1>6
  <2>2. QED
    BY <1>2, <1>5, <2>1 DEF ToSet
<1>9. CASE n < l
  <2>1. n + 1 \in 1..l /\ n + 1 <= l /\ n \in 1..l - 1
    <3> HIDE DEF l
    <3>1. QED
      BY <1>2, <1>6, <1>9
  <2>2. At(v, n + 1) = v[n + 1]
    BY <2>1 DEF At
  <2>3. v[n + 1] \in Edges /\ v[n].dst = v[n + 1].src
    BY <1>3, <2>1
  <2>4. SubSeq(v, 1, n + 1) = Append(w, v[n + 1])
    <3> DEFINE u == SubSeq(v, 1, n + 1)
               x == v[n + 1]
    <3>1. x \in Edges \cup {Entry}
      BY <2>3
    <3>2. u \in Seq(Edges \cup {Entry}) /\ Len(u) = n + 1 /\ \A i \in 1..n + 1 : u[i] = v[i]
      BY <1>1, <2>1, Beginning
    <3> HIDE DEF u, x, w, l
    <3>3. /\ Append(w, x) \in Seq(Edges \cup {Entry}) /\ Len(Append(w, x)) = n + 1
          /\ \A i \in 1..n : Append(w, x)[i] = w[i]
          /\ Append(w, x)[n + 1] = x
      BY <1>5, <3>1, Longer
    <3>4. \A i \in 1..n + 1 : i \in 1..n \/ i = n + 1
      BY <1>6
    <3>5. \A i \in 1..Len(u) : u[i] = Append(w, x)[i]
      BY <1>5, <3>2, <3>3, <3>4 DEF x
    <3>6. u = Append(w, x)
      BY <3>2, <3>3, <3>5, SameSeq
    <3>7. QED
      BY <3>6 DEF u, x
  <2> HIDE DEF w, l
  <2>5. n # l
    BY <1>2, <1>6, <1>9
  <2>6. QED
    BY <1>1, <1>2, <1>4, <1>5, <1>6, <1>7, <1>8, <2>1, <2>2, <2>3, <2>4, <2>5 DEF w, l
<1>10. CASE n = l
  <2>1. ~(n + 1 <= l) /\ ~(n < l)
    <3> HIDE DEF l
    <3>1. QED
      BY <1>2, <1>10
  <2>2. At(v, n + 1) = Out /\ Out.src = v[n].dst
    BY <1>1, <1>2, <1>10, <2>1 DEF At, Out
  <2>3. w = v
    <3> HIDE DEF w, l
    <3>1. QED
      BY <1>1, <1>5, <1>10, SameSeq DEF l
  <2>4. QED
    BY <1>1, <1>2, <1>4, <1>5, <1>6, <1>7, <1>8, <1>10, <2>1, <2>2, <2>3
<1>11. QED
  <2> HIDE DEF l
  <2>1. n < l \/ n = l
    BY <1>2, <1>6
  <2>2. QED
    BY <1>9, <1>10, <2>1 

\* What can be taken can be taken in part.
LEMMA FeasiblePart ==
  ASSUME NEW v, NEW w, Feasible(v), ToSet(w) \subseteq ToSet(v)
  PROVE  Feasible(w)
BY DEF Feasible

\* apply_unsat_core() marks a beginning of the path that has the conflict.
LEMMA DecisiveIs ==
  ASSUME NEW v \in Seq(Edges \cup {Entry}), NEW c \in Conflicts, c \subseteq ToSet(v)
  PROVE  ~Feasible(Decisive(v, c))
<1>1. CASE c = {}
  BY <1>1 DEF Feasible
<1>2. CASE c # {}
  <2> DEFINE S == {m \in 1..Len(v) : v[m] \in c}
             Is(m) == m \in DOMAIN v /\ v[m] \in c /\ \A j \in m + 1..Len(v) : v[j] \notin c
             n == CHOOSE m \in DOMAIN v : v[m] \in c /\ \A j \in m + 1..Len(v) : v[j] \notin c
  <2>1. Len(v) \in Nat /\ DOMAIN v = 1..Len(v)
    OBVIOUS
  <2>2. \A z \in c : \E m \in 1..Len(v) : v[m] = z
    BY <2>1 DEF ToSet
  <2>3. S \in SUBSET (1..Len(v)) /\ S # {}
    BY <1>2, <2>2
  <2>4. \A m \in 1..Len(v) : v[m] \in c <=> m \in S
    OBVIOUS
  <2> HIDE DEF S
  <2>5. PICK m \in S : \A j \in S : j <= m
    BY <2>1, <2>3, LastOne
  <2>6. m \in 1..Len(v) /\ \A j \in m + 1..Len(v) : j \notin S /\ j \in 1..Len(v)
    BY <2>1, <2>3, <2>5
  <2>7. m \in DOMAIN v /\ v[m] \in c /\ \A j \in m + 1..Len(v) : v[j] \notin c
    BY <2>1, <2>4, <2>5, <2>6
  <2>8. n \in DOMAIN v /\ \A j \in n + 1..Len(v) : v[j] \notin c
    BY <2>7
  <2>9. Decisive(v, c) = SubSeq(v, 1, n)
    BY DEF Decisive
  <2> HIDE DEF n
  <2>10. n \in 1..Len(v)
    BY <2>1, <2>8
  <2> DEFINE w == SubSeq(v, 1, n)
  <2>11. w \in Seq(Edges \cup {Entry}) /\ Len(w) = n /\ \A j \in 1..n : w[j] = v[j]
    BY <2>10, Beginning
  <2>12. DOMAIN w = 1..n
    BY <2>11
  <2> HIDE DEF w
  <2>13. ASSUME NEW z \in c PROVE z \in ToSet(w)
    <3>1. PICK j \in 1..Len(v) : v[j] = z
      BY <2>2
    <3>2. j \notin n + 1..Len(v)
      BY <2>8, <3>1
    <3>3. j \in 1..n
      BY <2>1, <2>10, <3>2
    <3>4. w[j] = z
      BY <2>11, <3>1, <3>3
    <3>5. QED
      BY <2>12, <3>3, <3>4 DEF ToSet
  <2>14. c \subseteq ToSet(Decisive(v, c))
    BY <2>9, <2>13 DEF w
  <2>15. QED
    BY <2>14 DEF Feasible
<1>3. QED
  BY <1>1, <1>2

\* What is marked stays what cannot be taken.
LEMMA DeadNext ==
  ASSUME FewPaths, Inv, Tidy, DeadOk, [Next]_vars
  PROVE  DeadOk'
<1>1. dead' = dead \/ \E v, c : Learns(v, c)
  BY Steps DEF Quiet, Drawing, Reports, Stops
<1>2. CASE dead' = dead
  BY <1>2 DEF DeadOk
<1>3. ASSUME NEW v, NEW c, Learns(v, c) PROVE DeadOk'
  <2>1. v \in Seq(Edges \cup {Entry}) /\ c \in Conflicts /\ c \subseteq ToSet(v)
        /\ dead' = dead \cup {Decisive(v, c)}
    BY <1>3 DEF Learns
  <2>2. ~Feasible(Decisive(v, c))
    BY <2>1, DecisiveIs
  <2>3. QED
    BY <2>1, <2>2 DEF DeadOk
<1>4. QED
  BY <1>1, <1>2, <1>3

\* A path that can be taken stays possible when it is extended.
LEMMA ExtendLives ==
  ASSUME DeadOk, NEW v, Feasible(v), NEW x \in Edges, NEW p \in Paths, p.kind = "possible",
         p.via \in Seq(Edges \cup {Entry}), ToSet(Append(p.via, x)) \subseteq ToSet(v)
  PROVE  Extend(p, x, dead).kind = "possible" /\ Extend(p, x, dead).via = Append(p.via, x)
<1> DEFINE w == p.via
<1>1. ToSet(w) \subseteq ToSet(v)
  <2>1. ToSet(Append(w, x)) = ToSet(w) \cup {x}
    <3>1. x \in Edges \cup {Entry}
      OBVIOUS
    <3>2. QED
      BY <3>1, ElementsAppend
  <2>2. QED
    BY <2>1
<1>2. ~Marked(w, dead)
  <2>1. SUFFICES ASSUME NEW n \in DOMAIN w, SubSeq(w, 1, n) \in dead PROVE FALSE
    BY DEF Marked
  <2> DEFINE u == SubSeq(w, 1, n)
  <2>2. n \in 1..Len(w) /\ DOMAIN w = 1..Len(w) /\ Len(w) \in Nat
    OBVIOUS
  <2>3. u \in Seq(Edges \cup {Entry}) /\ Len(u) = n /\ \A j \in 1..n : u[j] = w[j]
    BY <2>2, Beginning
  <2>4. DOMAIN u = 1..n /\ \A j \in 1..n : j \in 1..Len(w)
    BY <2>2, <2>3
  <2>5. ToSet(u) \subseteq ToSet(w)
    <3> HIDE DEF u, w
    <3>1. QED
      BY <2>2, <2>3, <2>4 DEF ToSet
  <2>6. Feasible(u)
    BY <1>1, <2>5, FeasiblePart
  <2>7. QED
    BY <2>1, <2>6 DEF DeadOk
<1>3. ~NotedUnsat(Append(w, x))
  BY CostAssumption DEF NotedUnsat, Feasible
<1> DEFINE longer == [p EXCEPT !.at = x, !.cost = CostVia(p, x), !.via = Append(@, x),
                               !.min = Max({@, MinSize[x]})]
<1>4. longer.via = Append(w, x) /\ longer.kind = "possible"
  BY DEF Paths, PathType
<1>5. ~IsUnsat(p, dead)
  BY <1>2 DEF IsUnsat
<1>6. Extend(p, x, dead) = longer
  BY <1>3, <1>4, <1>5 DEF Extend
<1>7. QED
  BY <1>4, <1>6

\* At first all paths begin with what waits.
LEMMA KeptInit ==
  ASSUME Init
  PROVE  DeadOk /\ Kept
<1>1. DeadOk
  BY DEF Init, DeadOk
<1>2. ASSUME NEW v \in WaysTo(FinNd) PROVE Waiting(v)
  <2>1. v \in Seq(Edges \cup {Entry}) /\ v # <<>>
    BY DEF WaysTo, IsPath
  <2>2. 1 \in 1..Len(v)
    BY <2>1
  <2>3. v[1] = Entry /\ At(v, 1 + 1) \in Edges \cup {Out} /\ At(v, 1 + 1).src = v[1].dst
    BY <2>2, WayIs
  <2>4. At(v, 1 + 1).src = 1
    BY <2>3 DEF Entry
  <2>5. Line(At(v, 1 + 1)) = <<Start, None>>
    BY <2>3, <2>4, LineInit
  <2>6. SubSeq(v, 1, 1) = <<Entry>>
    <3> DEFINE u == SubSeq(v, 1, 1)
    <3>1. u \in Seq(Edges \cup {Entry}) /\ Len(u) = 1 /\ \A j \in 1..1 : u[j] = v[j]
      BY <2>1, <2>2, Beginning
    <3> HIDE DEF u
    <3>2. u[1] = Entry
      BY <2>3, <3>1
    <3>3. u = <<Entry>>
      BY <3>1, <3>2
    <3>4. QED
      BY <3>3 DEF u
  <2>7. Start.kind = "possible" /\ Start.via = <<Entry>>
    BY DEF Start
  <2>8. Holds(<<Start, None>>, <<Entry>>)
    <3> DEFINE s == <<Start, None>>
    <3>1. Len(s) = 2 /\ s[1] = Start
      OBVIOUS
    <3> HIDE DEF s
    <3>2. Holds(s, <<Entry>>)
      BY <2>7, <3>1 DEF Holds
    <3>3. QED
      BY <3>2 DEF s
  <2>9. QED
    BY <2>2, <2>5, <2>6, <2>8 DEF Waiting
<1>3. QED
  BY <1>1, <1>2 DEF Kept

\* A path that is drawn goes on waiting behind the node it has arrived at.
LEMMA KeptDraw ==
  ASSUME TypeInv, Tidy, DeadOk, NEW x \in Edges, Draws(x),
         NEW v \in WaysTo(FinNd), Feasible(v), Waiting(v)
  PROVE  Waiting(v)'
<1> DEFINE E == Extend(Head(Line(x)), x, dead)
<1>1. PICK n \in 1..Len(v) : Holds(Line(At(v, n + 1)), SubSeq(v, 1, n))
  BY DEF Waiting
<1>a. PICK y : y = At(v, n + 1)
  OBVIOUS
<1>b. PICK w : w = SubSeq(v, 1, n)
  OBVIOUS
<1>2. /\ n \in Nat /\ Len(v) \in Nat /\ y \in Edges \cup {Out} /\ y.src = v[n].dst
      /\ w \in Seq(Edges \cup {Entry})
      /\ n < Len(v) => /\ n + 1 \in 1..Len(v) /\ v[n + 1] = y
                       /\ SubSeq(v, 1, n + 1) = Append(w, y)
      /\ n = Len(v) => y = Out
  BY WayIs, <1>a, <1>b
<1>3. /\ Line(x) # <<>> /\ Line(x)' = Tail(Line(x))
      /\ \A z \in Edges \cup {Out} :
           z # x => Merged(Line(z)', IF z.src = x.dst THEN Append(Line(z), E) ELSE Line(z))
  BY DEF Draws
<1>4. \A z \in Edges \cup {Out} : Line(z) \in Seq(Paths)
  BY LineIs
<1>5. Head(Line(x)) \in Paths /\ E \in Paths
  <2>1. Head(Line(x)) \in Paths
    BY <1>3, <1>4
  <2>2. QED
    BY <2>1, ExtendIs DEF Paths
<1> HIDE DEF E
<1>6. ASSUME NEW z \in Edges \cup {Out}, z # x, NEW u,
             Holds(Line(z), u) \/ (z.src = x.dst /\ E.kind = "possible" /\ E.via = u)
      PROVE  Holds(Line(z)', u)
  <2>1. CASE z.src = x.dst
    <3>1. Holds(Append(Line(z), E), u)
      BY <1>4, <1>5, <1>6, AppendHolds
    <3>2. QED
      BY <1>3, <1>6, <2>1, <3>1, MergedHolds
  <2>2. CASE z.src # x.dst
    BY <1>3, <1>6, <2>2, MergedHolds
  <2>3. QED
    BY <2>1, <2>2
<1>7. Holds(Line(y), w)
  BY <1>1, <1>a, <1>b
<1>8. CASE y # x
  <2>1. Holds(Line(y)', w)
    BY <1>2, <1>6, <1>7, <1>8
  <2>2. QED
    BY <1>a, <1>b, <2>1 DEF Waiting, Holds
<1>9. CASE y = x
  <2>1. n < Len(v)
    <3>1. y # Out
      BY <1>9, SideIs
    <3>2. n # Len(v)
      BY <1>2, <3>1
    <3>3. QED
      BY <1>2, <3>2
  <2>2. CASE Holds(Tail(Line(x)), w)
    <3>1. Holds(Line(y)', w)
      BY <1>3, <1>9, <2>2
    <3>2. QED
      BY <1>a, <1>b, <3>1 DEF Waiting, Holds
  <2>3. CASE Head(Line(x)).kind = "possible" /\ Head(Line(x)).via = w
    <3>1. n + 1 \in 1..Len(v) /\ v[n + 1] = x /\ SubSeq(v, 1, n + 1) = Append(w, x)
      BY <1>2, <1>9, <2>1
    <3>2. ToSet(SubSeq(v, 1, n + 1)) \subseteq ToSet(v)
      BY <3>1, WayIs
    <3>3. E.kind = "possible" /\ E.via = SubSeq(v, 1, n + 1)
      BY <1>2, <1>5, <2>3, <3>1, <3>2, ExtendLives DEF E
    <3>a. PICK z : z = At(v, (n + 1) + 1)
      OBVIOUS
    <3>4. z \in Edges \cup {Out} /\ z.src = x.dst
      BY <3>a, <3>1, WayIs
    <3>5. z # x
      BY <3>4, EdgeIs
    <3>6. Holds(Line(z)', SubSeq(v, 1, n + 1))
      BY <1>6, <3>3, <3>4, <3>5
    <3>7. QED
      BY <3>1, <3>a, <3>6 DEF Waiting, Holds
  <2>4. QED
    BY <1>3, <1>4, <1>7, <1>9, <2>2, <2>3, TailHolds
<1>10. QED
  BY <1>8, <1>9

\* The path that is reported was a complete one.
LEMMA KeptReport ==
  ASSUME TypeInv, Tidy, Known, Reports, shown \in Seq(Seq(Edges \cup {Entry})),
         NEW v \in WaysTo(FinNd), Feasible(v), v \in ToSet(shown) \/ Waiting(v)
  PROVE  (v \in ToSet(shown) \/ Waiting(v))'
<1> DEFINE s == Line(Out)
           p == Head(s)
           sat == p.kind = "possible" /\ Feasible(p.via)
<1>1. /\ s # <<>> /\ s' = Tail(s) /\ \A z \in Edges : Line(z)' = Line(z)
      /\ shown' = IF sat THEN Append(shown, p.via) ELSE shown
  BY DEF Reports
<1>2. s \in Seq(Paths) /\ s \in Seq(Knowing(Out))
  BY LineIs DEF Known
<1>3. sat => p.via \in Seq(Edges \cup {Entry})
  <2>1. p \in Knowing(Out)
    BY <1>1, <1>2
  <2>2. QED
    BY <2>1 DEF Knowing, IsPath
<1> HIDE DEF s, p
<1>4. ToSet(shown) \subseteq ToSet(shown') /\ (sat => p.via \in ToSet(shown'))
  <2>1. CASE sat
    BY <1>1, <1>3, <2>1, ElementsAppend
  <2>2. CASE ~sat
    BY <1>1, <2>2
  <2>3. QED
    BY <2>1, <2>2
<1>5. CASE v \in ToSet(shown)
  BY <1>4, <1>5
<1>6. CASE Waiting(v)
  <2>1. PICK n \in 1..Len(v) : Holds(Line(At(v, n + 1)), SubSeq(v, 1, n))
    BY <1>6 DEF Waiting
  <2>a. PICK y : y = At(v, n + 1)
    OBVIOUS
  <2>b. PICK w : w = SubSeq(v, 1, n)
    OBVIOUS
  <2>2. /\ n \in Nat /\ Len(v) \in Nat /\ y \in Edges \cup {Out}
        /\ n < Len(v) => y \in Edges
        /\ n = Len(v) => y = Out /\ w = v
    BY WayIs, <2>a, <2>b
  <2>3. CASE y \in Edges
    <3>1. Holds(Line(y)', w)
      BY <1>1, <2>1, <2>a, <2>b, <2>3
    <3>2. QED
      BY <2>a, <2>b, <3>1 DEF Waiting, Holds
  <2>4. CASE y = Out /\ w = v
    <3>1. Holds(s, v)
      BY <2>1, <2>a, <2>b, <2>4 DEF s
    <3>2. CASE Holds(Tail(s), v)
      <4>1. Holds(Line(y)', w)
        BY <1>1, <2>4, <3>2 DEF s
      <4>2. QED
        BY <2>a, <2>b, <4>1 DEF Waiting, Holds
    <3>3. CASE p.kind = "possible" /\ p.via = v
      BY <1>4, <3>3
    <3>4. QED
      BY <1>1, <1>2, <3>1, <3>2, <3>3, TailHolds DEF p
  <2>5. QED
    <3>1. n < Len(v) \/ n = Len(v)
      BY <2>2
    <3>2. QED
      BY <2>2, <2>3, <2>4, <3>1
<1>7. QED
  BY <1>5, <1>6

\* Nothing that can be taken gets lost until the search ends.
LEMMA KeptNext ==
  ASSUME FewPaths, Inv, Tidy, Known, DeadOk, Kept, shown \in Seq(Seq(Edges \cup {Entry})), [Next]_vars
  PROVE  Kept' \/ Stops
<1>1. TypeInv
  BY DEF Inv
<1>2. SUFFICES ASSUME NEW v \in WaysTo(FinNd), Feasible(v), ~Stops
               PROVE  (v \in ToSet(shown) \/ Waiting(v))'
  BY DEF Kept, WaysTo, IsPath, Feasible
<1>3. v \in ToSet(shown) \/ Waiting(v)
  BY <1>2 DEF Kept
<1>4. CASE Quiet
  <2>1. shown' = shown /\ \A y \in Edges \cup {Out} : Merged(Line(y)', Line(y))
    BY <1>4 DEF Quiet
  <2>2. CASE Waiting(v)
    <3>1. PICK n \in 1..Len(v) : Holds(Line(At(v, n + 1)), SubSeq(v, 1, n))
      BY <2>2 DEF Waiting
    <3>a. PICK y : y = At(v, n + 1)
      OBVIOUS
    <3>2. y \in Edges \cup {Out}
      BY <3>a, WayIs
    <3>3. Holds(Line(y)', SubSeq(v, 1, n))
      BY <2>1, <3>1, <3>2, <3>a, MergedHolds
    <3>4. QED
      BY <3>a, <3>3 DEF Waiting, Holds
  <2>3. QED
    BY <1>3, <2>1, <2>2
<1>5. ASSUME NEW x \in Edges, Drawing(x) PROVE (v \in ToSet(shown) \/ Waiting(v))'
  <2>1. Draws(x) /\ shown' = shown
    BY <1>5 DEF Drawing
  <2>2. QED
    BY <1>1, <1>2, <1>3, <2>1, KeptDraw
<1>6. CASE Reports
  BY <1>1, <1>2, <1>3, <1>6, KeptReport
<1>7. QED
  BY <1>2, <1>4, <1>5, <1>6, Steps

-----------------------------------------------------------------------------
(* The bound holds                                                         *)

\* what the first n edges of a way cost
Part(v, n) == PathCost(SubSeq(v, 1, n))

\* A way begins at the entry, which costs something.
LEMMA PartFirst ==
  ASSUME NEW v \in WaysTo(FinNd)
  PROVE  1 \in 1..Len(v) /\ SubSeq(v, 1, 1) = <<Entry>> /\ Part(v, 1) > 0 /\ Part(v, 1) \in Nat
<1>1. v \in Seq(Edges \cup {Entry}) /\ v # <<>> /\ v[1] = Entry
  BY DEF WaysTo, IsPath
<1>2. 1 \in 1..Len(v)
  BY <1>1
<1>3. SubSeq(v, 1, 1) = <<Entry>>
  <2> DEFINE u == SubSeq(v, 1, 1)
  <2>1. u \in Seq(Edges \cup {Entry}) /\ Len(u) = 1 /\ \A j \in 1..1 : u[j] = v[j]
    BY <1>1, <1>2, Beginning
  <2> HIDE DEF u
  <2>2. u[1] = Entry
    BY <1>1, <2>1
  <2>3. u = <<Entry>>
    BY <2>1, <2>2
  <2>4. QED
    BY <2>3 DEF u
<1>4. CostFirmware \in Nat /\ CostFirmware > 0 /\ Enter[Entry] \in Nat
  BY CostAssumption
<1>5. Part(v, 1) = CostFirmware + Enter[Entry]
  BY <1>3, CostStart DEF Part
<1>6. QED
  BY <1>2, <1>3, <1>4, <1>5

\* With each edge it goes up as After says.
LEMMA PartStep ==
  ASSUME Steady, NEW v \in WaysTo(FinNd), NEW n \in 1..Len(v), n < Len(v), Part(v, n) > 0
  PROVE  Part(v, n + 1) = After(Part(v, n), v[n + 1])
<1> DEFINE w == SubSeq(v, 1, n)
           x == v[n + 1]
<1>1. /\ v \in Seq(Edges \cup {Entry}) /\ w \in Seq(Edges \cup {Entry}) /\ w # <<>>
      /\ x \in Edges /\ x.src = v[n].dst /\ SubSeq(v, 1, n + 1) = Append(w, x)
  <2>1. x = At(v, n + 1)
    BY WayIs
  <2>2. QED
    BY <2>1, WayIs
<1>2. Last(w) = v[n]
  BY <1>1, Beginning
<1>3. v[n] \in Edges \cup {Entry}
  BY <1>1
<1> HIDE DEF w, x
<1>4. PathCost(Append(w, x)) = PathCost(w) + Leave[Last(w)][x.taken] + Enter[x]
  BY <1>1, CostAppend
<1>5. Leave[v[n]] = LeaveOf(x.src)
  BY <1>1, <1>3, LeaveIs
<1>6. Part(v, n) = PathCost(w) /\ Part(v, n + 1) = PathCost(Append(w, x))
  BY <1>1 DEF Part, w
<1>7. Part(v, n) \in Nat
  BY <1>1, <1>6, CostNat
<1>8. Part(v, n) # 0
  BY <1>7
<1>9. QED
  BY <1>2, <1>4, <1>5, <1>6, <1>8 DEF After, x

\* What the beginning of a way costs is a number.
LEMMA PartNat ==
  ASSUME Steady, NEW v \in WaysTo(FinNd), NEW n \in 1..Len(v)
  PROVE  Part(v, n) \in Nat /\ Part(v, n) > 0
<1>1. Len(v) \in Nat /\ n \in Nat
  BY WayIs
<1> DEFINE T == {m \in Nat : m + 1 <= Len(v) => Part(v, m + 1) \in Nat /\ Part(v, m + 1) > 0}
<1>2. 0 \in T
  BY PartFirst
<1>3. ASSUME NEW m \in Nat, m \in T PROVE m + 1 \in T
  <2>1. SUFFICES ASSUME (m + 1) + 1 <= Len(v)
                 PROVE  Part(v, (m + 1) + 1) \in Nat /\ Part(v, (m + 1) + 1) > 0
    OBVIOUS
  <2>2. m + 1 \in 1..Len(v) /\ m + 1 < Len(v)
    BY <1>1, <2>1
  <2>3. Part(v, m + 1) \in Nat /\ Part(v, m + 1) > 0
    BY <1>3, <2>2
  <2>4. Part(v, (m + 1) + 1) = After(Part(v, m + 1), v[(m + 1) + 1]) /\ v[(m + 1) + 1] \in Edges
    BY <2>2, <2>3, PartStep, WayIs
  <2> DEFINE a == Part(v, m + 1)
             b == After(a, v[(m + 1) + 1])
  <2>5. b \in Nat /\ a <= b
    BY <2>3, <2>4, AfterIs
  <2> HIDE DEF a, b
  <2>6. b > 0
    BY <2>3, <2>5 DEF a
  <2>7. QED
    BY <2>4, <2>5, <2>6 DEF a, b
<1> HIDE DEF T
<1>4. Nat \subseteq T
  BY <1>2, <1>3, Induction
<1>5. PICK m \in Nat : n = m + 1
  BY <1>1
<1>6. QED
  BY <1>1, <1>4, <1>5 DEF T

\* What bounds a beginning of a way bounds the way.
LEMMA CostChain ==
  ASSUME Steady, NEW low \in [Nodes -> Nat], \A x \in Edges : After(low[x.src], x) <= low[x.dst],
         NEW v \in WaysTo(FinNd), NEW n \in 1..Len(v), Part(v, n) <= low[v[n].dst]
  PROVE  PathCost(v) <= low[FinNd]
<1>1. Len(v) \in Nat /\ n \in Nat /\ n <= Len(v)
  BY WayIs
<1> DEFINE T == {m \in Nat : n + m <= Len(v) => Part(v, n + m) <= low[v[n + m].dst]}
<1>2. 0 \in T
  <2>1. n + 0 = n
    BY <1>1
  <2>2. QED
    BY <2>1
<1>3. ASSUME NEW m \in Nat, m \in T PROVE m + 1 \in T
  <2>1. SUFFICES ASSUME n + (m + 1) <= Len(v)
                 PROVE  Part(v, n + (m + 1)) <= low[v[n + (m + 1)].dst]
    OBVIOUS
  <2>a. PICK j : j = n + m
    OBVIOUS
  <2>2. j \in 1..Len(v) /\ j < Len(v) /\ n + (m + 1) = j + 1 /\ Part(v, j) <= low[v[j].dst]
    BY <1>1, <1>3, <2>1, <2>a
  <2>b. PICK x : x = v[j + 1]
    OBVIOUS
  <2>3. x \in Edges /\ v[j].dst = x.src
    BY <2>2, <2>b, WayIs
  <2>4. Part(v, j) \in Nat /\ Part(v, j) > 0
    BY <2>2, PartNat
  <2>5. Part(v, j + 1) = After(Part(v, j), x)
    BY <2>2, <2>4, <2>b, PartStep
  <2>6. x.src \in Nodes /\ x.dst \in Nodes
    BY <2>3, EdgeIs
  <2>7. low[x.src] \in Nat /\ low[x.dst] \in Nat /\ After(low[x.src], x) <= low[x.dst]
    BY <2>3, <2>6
  <2>8. After(Part(v, j), x) <= After(low[x.src], x) /\ After(Part(v, j), x) \in Nat
        /\ After(low[x.src], x) \in Nat
    BY <2>2, <2>3, <2>4, <2>7, AfterIs
  <2>9. After(Part(v, j), x) <= low[x.dst]
    BY <2>7, <2>8
  <2>10. QED
    BY <2>2, <2>5, <2>9, <2>b
<1> HIDE DEF T
<1>4. Nat \subseteq T
  BY <1>2, <1>3, Induction
<1>5. PICK m \in Nat : n + m = Len(v)
  BY <1>1
<1>6. Part(v, Len(v)) <= low[v[Len(v)].dst]
  BY <1>1, <1>4, <1>5 DEF T
<1>7. Len(v) \in 1..Len(v)
  BY <1>1
<1>8. SubSeq(v, 1, Len(v)) = v /\ v[Len(v)].dst = FinNd
  <2>1. SubSeq(v, 1, Len(v)) = v /\ At(v, Len(v) + 1) = Out /\ At(v, Len(v) + 1).src = v[Len(v)].dst
    BY <1>7, WayIs
  <2>2. QED
    BY <2>1, SideIs
<1>9. QED
  BY <1>6, <1>8 DEF Part

\* As long as the paths are kept the bound holds for them.
LEMMA BoundFollows ==
  ASSUME Steady, Known, RankInv, Kept
  PROVE  BoundHolds
<1>1. SUFFICES ASSUME NEW v \in WaysTo(FinNd), Waiting(v) PROVE PathCost(v) <= bound
  BY AllPathsIs DEF BoundHolds, Kept
<1>2. PICK low : Order(low) /\ Bounded(low)
  BY DEF RankInv, Ranked
<1>3. PICK n \in 1..Len(v) : Holds(Line(At(v, n + 1)), SubSeq(v, 1, n))
  BY <1>1 DEF Waiting
<1>a. PICK y : y = At(v, n + 1)
  OBVIOUS
<1>4. /\ y \in Edges \cup {Out} /\ n \in Nat /\ Len(v) \in Nat
      /\ n < Len(v) => y \in Edges /\ n + 1 \in 1..Len(v) /\ v[n + 1] = y
      /\ n = Len(v) => y = Out /\ SubSeq(v, 1, n) = v
  BY <1>a, WayIs
<1>5. PICK i \in 1..Len(Line(y)) : Line(y)[i].kind = "possible" /\ Line(y)[i].via = SubSeq(v, 1, n)
  BY <1>3, <1>a DEF Holds
<1>6. Line(y) \in Seq(Knowing(y)) /\ Line(y) \in Seq(Fitting(y, low))
  BY <1>2, <1>4 DEF Known, Order, Sorted
<1>b. PICK p : p = Line(y)[i]
  OBVIOUS
<1>7. p \in Knowing(y) /\ p \in Fitting(y, low)
  BY <1>5, <1>6, <1>b
<1>8. p.cost = Part(v, n)
  BY <1>5, <1>7, <1>b DEF Knowing, Part
<1>9. /\ low \in [Nodes -> Nat] /\ \A x \in Edges : After(low[x.src], x) <= low[x.dst]
      /\ bound \in Nat /\ low[FinNd] <= bound /\ Below(Line(Out), bound) /\ low[FinNd] \in Nat
  BY <1>2, SideIs DEF Order, Bounded
<1>10. CASE n < Len(v)
  <2>1. y \in Edges /\ n + 1 \in 1..Len(v) /\ v[n + 1] = y
    BY <1>4, <1>10
  <2>2. After(p.cost, y) <= low[y.dst]
    BY <1>7, <2>1 DEF Fitting
  <2>3. Part(v, n) > 0
    BY PartNat
  <2>4. Part(v, n + 1) = After(Part(v, n), y)
    BY <1>10, <2>1, <2>3, PartStep
  <2>5. Part(v, n + 1) <= low[v[n + 1].dst]
    BY <1>8, <2>1, <2>2, <2>4
  <2>6. PathCost(v) <= low[FinNd]
    BY <1>9, <2>1, <2>5, CostChain
  <2>7. PathCost(v) \in Nat
    BY CostNat DEF WaysTo, IsPath
  <2>8. QED
    BY <1>9, <2>6, <2>7
<1>11. CASE n = Len(v)
  <2>1. y = Out /\ p.cost = PathCost(v)
    BY <1>4, <1>8, <1>11 DEF Part
  <2>2. QED
    BY <1>5, <1>9, <1>b, <2>1 DEF Below
<1>12. QED
  BY <1>4, <1>10, <1>11

\* What can be taken is kept, until the search ends; then the bound holds for
\* what was left behind.
KeepInv == ReportInv /\ DeadOk /\ (Kept \/ (pc = "over" /\ BoundHolds))

\* The search loses nothing, and keeps the bound when it ends.
LEMMA KeepNext ==
  ASSUME FewPaths, Steady
  PROVE  KeepInv /\ [Next]_vars => KeepInv'
<1>1. SUFFICES ASSUME KeepInv, [Next]_vars PROVE KeepInv'
  OBVIOUS
<1>2. /\ ReportInv /\ DeadOk /\ (Kept \/ (pc = "over" /\ BoundHolds))
      /\ Inv /\ Tidy /\ Known /\ RankInv
  BY <1>1 DEF KeepInv, ReportInv
<1>3. ReportInv' /\ DeadOk'
  BY <1>1, <1>2, ReportNext, DeadNext
<1>4. CASE pc = "over" /\ BoundHolds
  <2>1. UNCHANGED vars
    BY <1>1, <1>4 DEF Next, Begin, Ascend, Descend, Draw, Sweep, Delegate, Check, Report, Close, Prune,
                      Swept, NextRound, Finished
  <2>2. pc' = "over" /\ bound' = bound /\ shown' = shown
    BY <1>4, <2>1 DEF vars, search, round
  <2>3. BoundHolds'
    BY <1>4, <2>2 DEF BoundHolds
  <2>4. QED
    BY <1>3, <2>2, <2>3 DEF KeepInv
<1>5. CASE Kept
  <2>1. shown \in Seq(Seq(Edges \cup {Entry}))
    <3>1. PICK low : Told(low)
      BY <1>2 DEF RankInv, Ranked
    <3>2. shown \in Seq(Reportable(low)) /\ Reportable(low) \subseteq Seq(Edges \cup {Entry})
      BY <3>1 DEF Told, Reportable
    <3>3. QED
      BY <3>2, SeqWider
  <2>2. CASE Kept'
    BY <1>3, <2>2 DEF KeepInv
  <2>3. CASE Stops
    <3>1. pc' = "over" /\ bound' = bound /\ shown' = shown
      BY <2>3 DEF Stops
    <3>2. BoundHolds
      BY <1>2, <1>5, BoundFollows
    <3>3. BoundHolds'
      BY <3>1, <3>2 DEF BoundHolds
    <3>4. QED
      BY <1>3, <3>1, <3>3 DEF KeepInv
  <2>4. QED
    BY <1>1, <1>2, <1>5, <2>1, <2>2, <2>3, KeptNext
<1>6. QED
  BY <1>2, <1>4, <1>5

\* The "max cycles" printed last (cfg.cpp:1999 and 2036) bounds every path a
\* packet can take and that was not reported yet, at all times, also if the
\* search was ended early.
THEOREM BoundIsSafe == ASSUME FewPaths, Steady PROVE Spec => []BoundHolds
<1>1. KeepInv => BoundHolds
  BY BoundFollows DEF KeepInv, ReportInv
<1>2. KeepInv /\ [Next]_vars => KeepInv'
  BY KeepNext
<1>3. Init => KeepInv
  BY ReportInit, KeptInit DEF KeepInv
<1>4. QED
  BY <1>1, <1>2, <1>3, PTL DEF Spec

-----------------------------------------------------------------------------
(* Nothing is reported twice                                               *)

\* The possible paths in s are different ones.
Distinct(s) ==
  \A i, j \in 1..Len(s) :
    i < j /\ s[i].kind = "possible" /\ s[j].kind = "possible" => s[i].via # s[j].via

\* The possible paths drawn at each node: what waits behind it is among them,
\* and what was drawn from an edge does not wait for it any more.
Once(seen) ==
  /\ seen \in [Nodes -> SUBSET Seq(Edges \cup {Entry})]
  /\ \A y \in Edges \cup {Out} :
       Distinct(Line(y)) /\ \A w : Holds(Line(y), w) => w \in seen[y.src]
  /\ \A x \in Edges : \A w \in seen[x.dst] :
       Last(w) = x => Front(w) \in seen[x.src] /\ ~Holds(Line(x), Front(w))
  /\ ToSet(shown) \subseteq seen[FinNd]
  /\ \A v \in ToSet(shown) : ~Holds(Line(Out), v)
  /\ \A i, j \in 1..Len(shown) : i < j => shown[i] # shown[j]

\* What is reported is a complete path that can be taken.
ShownOk == shown \in Seq({v \in WaysTo(FinNd) : Feasible(v)})

\* Merging makes no possible path, and leaves them in their order.
LEMMA MergedDistinct ==
  ASSUME NEW t, NEW s, Merged(t, s)
  PROVE  /\ \A w : Holds(t, w) => Holds(s, w)
         /\ Distinct(s) => Distinct(t)
<1>1. PICK f : Selects(t, s, f)
  BY DEF Merged
<1>2. \A i \in 1..Len(t) : f[i] \in 1..Len(s) /\ (t[i].kind = "possible" => s[f[i]] = t[i])
  BY <1>1 DEF Selects, Alike
<1>3. ASSUME NEW w, Holds(t, w) PROVE Holds(s, w)
  BY <1>2, <1>3 DEF Holds
<1>4. ASSUME Distinct(s) PROVE Distinct(t)
  <2>1. SUFFICES ASSUME NEW i \in 1..Len(t), NEW j \in 1..Len(t), i < j,
                        t[i].kind = "possible", t[j].kind = "possible"
                 PROVE  t[i].via # t[j].via
    BY DEF Distinct
  <2>2. f[i] < f[j] /\ f[i] \in 1..Len(s) /\ f[j] \in 1..Len(s) /\ s[f[i]] = t[i] /\ s[f[j]] = t[j]
    BY <1>1, <1>2, <2>1 DEF Selects
  <2>3. QED
    BY <1>4, <2>1, <2>2 DEF Distinct
<1>5. QED
  BY <1>3, <1>4

\* One more path, which was not there
LEMMA AppendDistinct ==
  ASSUME NEW S, NEW s \in Seq(S), NEW p \in S
  PROVE  /\ \A w : Holds(Append(s, p), w) => Holds(s, w) \/ (p.kind = "possible" /\ p.via = w)
         /\ Distinct(s) /\ (p.kind = "possible" => ~Holds(s, p.via)) => Distinct(Append(s, p))
<1> DEFINE t == Append(s, p)
           n == Len(s)
<1>1. /\ n \in Nat /\ Len(t) = n + 1 /\ t[n + 1] = p /\ \A m \in 1..n : t[m] = s[m]
  BY Longer
<1> HIDE DEF t
<1>2. \A i \in 1..Len(t) : i \in 1..n \/ i = n + 1
  <2> HIDE DEF n
  <2>1. QED
    BY <1>1
<1>3. ASSUME NEW w, Holds(t, w) PROVE Holds(s, w) \/ (p.kind = "possible" /\ p.via = w)
  <2>1. PICK i \in 1..Len(t) : t[i].kind = "possible" /\ t[i].via = w
    BY <1>3 DEF Holds
  <2>2. CASE i \in 1..n
    BY <1>1, <2>1, <2>2 DEF Holds
  <2>3. CASE i = n + 1
    BY <1>1, <2>1, <2>3
  <2>4. QED
    BY <1>2, <2>2, <2>3
<1>4. ASSUME Distinct(s), p.kind = "possible" => ~Holds(s, p.via) PROVE Distinct(t)
  <2>1. SUFFICES ASSUME NEW i \in 1..Len(t), NEW j \in 1..Len(t), i < j,
                        t[i].kind = "possible", t[j].kind = "possible"
                 PROVE  t[i].via # t[j].via
    BY DEF Distinct
  <2>2. i \in 1..n /\ t[i] = s[i]
    <3> HIDE DEF n
    <3>1. i \in 1..n
      BY <1>1, <2>1
    <3>2. QED
      BY <1>1, <3>1
  <2>3. CASE j \in 1..n
    BY <1>1, <1>4, <2>1, <2>2, <2>3 DEF Distinct
  <2>4. CASE j = n + 1
    BY <1>1, <1>4, <2>1, <2>2, <2>4 DEF Holds
  <2>5. QED
    BY <1>2, <2>3, <2>4
<1>5. QED
  BY <1>3, <1>4 DEF t

\* The first one leaves, and does not come again.
LEMMA TailDistinct ==
  ASSUME NEW S, NEW s \in Seq(S), s # <<>>, Distinct(s)
  PROVE  /\ \A w : Holds(Tail(s), w) => Holds(s, w)
         /\ Distinct(Tail(s))
         /\ Head(s).kind = "possible" => Holds(s, Head(s).via) /\ ~Holds(Tail(s), Head(s).via)
<1> DEFINE t == Tail(s)
<1>1. /\ Len(s) \in Nat /\ 1 \in 1..Len(s) /\ Head(s) = s[1]
      /\ Len(t) = Len(s) - 1
      /\ \A i \in 1..Len(t) : t[i] = s[i + 1] /\ i + 1 \in 1..Len(s)
  OBVIOUS
<1> HIDE DEF t
<1>2. \A w : Holds(t, w) => Holds(s, w)
  BY <1>1 DEF Holds
<1>3. Distinct(t)
  <2>1. SUFFICES ASSUME NEW i \in 1..Len(t), NEW j \in 1..Len(t), i < j,
                        t[i].kind = "possible", t[j].kind = "possible"
                 PROVE  t[i].via # t[j].via
    BY DEF Distinct
  <2>2. /\ i + 1 \in 1..Len(s) /\ j + 1 \in 1..Len(s) /\ t[i] = s[i + 1] /\ t[j] = s[j + 1]
        /\ i + 1 < j + 1
    BY <1>1, <2>1
  <2>3. QED
    BY <2>1, <2>2 DEF Distinct
<1>4. ASSUME Head(s).kind = "possible" PROVE Holds(s, Head(s).via) /\ ~Holds(t, Head(s).via)
  <2>1. Holds(s, Head(s).via)
    BY <1>1, <1>4 DEF Holds
  <2>2. ASSUME NEW i \in 1..Len(t), t[i].kind = "possible" PROVE t[i].via # Head(s).via
    <3>1. i + 1 \in 1..Len(s) /\ t[i] = s[i + 1] /\ 1 < i + 1
      BY <1>1
    <3>2. QED
      BY <1>1, <1>4, <2>2, <3>1 DEF Distinct
  <2>3. QED
    BY <2>1, <2>2 DEF Holds
<1>5. QED
  BY <1>2, <1>3, <1>4 DEF t

\* Nothing was drawn at first.
LEMMA OnceInit ==
  ASSUME Init
  PROVE  \E seen : Once(seen)
<1>a. PICK seen : seen = [nd \in Nodes |-> IF nd = 1 THEN {<<Entry>>} ELSE {}]
  OBVIOUS
<1>1. <<Entry>> \in Seq(Edges \cup {Entry})
  OBVIOUS
<1>2. seen \in [Nodes -> SUBSET Seq(Edges \cup {Entry})] /\ \A nd \in Nodes : nd # 1 => seen[nd] = {}
  BY <1>1, <1>a
<1>3. seen[1] = {<<Entry>>} /\ FinNd # 1 /\ FinNd \in Nodes
  BY <1>a, SideIs
<1>4. ASSUME NEW y \in Edges \cup {Out}
      PROVE  Distinct(Line(y)) /\ \A w : Holds(Line(y), w) => w \in seen[y.src]
  <2>1. CASE y.src = 1
    <3> DEFINE s == <<Start, None>>
    <3>1. Line(y) = s
      BY <2>1, LineInit
    <3>2. Len(s) = 2 /\ s[1] = Start /\ s[2] = None
      OBVIOUS
    <3>3. Start.via = <<Entry>> /\ None.kind # "possible"
      BY DEF Start, None
    <3> HIDE DEF s
    <3>4. \A i \in 1..Len(s) : s[i].kind = "possible" => i = 1
      BY <3>2, <3>3
    <3>5. Distinct(s)
      BY <3>4 DEF Distinct
    <3>6. \A w : Holds(s, w) => w = <<Entry>>
      BY <3>2, <3>3, <3>4 DEF Holds
    <3>7. QED
      BY <1>3, <2>1, <3>1, <3>5, <3>6
  <2>2. CASE y.src # 1
    <3>1. Line(y) = <<>>
      BY <2>2, LineInit
    <3>2. QED
      BY <3>1 DEF Distinct, Holds
  <2>3. QED
    BY <2>1, <2>2
<1>5. \A x \in Edges : seen[x.dst] = {}
  <2>1. \A x \in Edges : x.dst \in Nodes /\ x.dst # 1
    BY EdgeIs
  <2>2. QED
    BY <1>2, <2>1
<1>6. shown = <<>>
  BY DEF Init
<1>7. ToSet(shown) = {} /\ Len(shown) = 0
  BY <1>6 DEF ToSet
<1>8. Once(seen)
  BY <1>2, <1>4, <1>5, <1>7 DEF Once
<1>9. QED
  BY <1>8

\* What is merged is drawn from the same nodes.
LEMMA OnceQuiet ==
  ASSUME NEW seen, Once(seen), shown' = shown, \A y \in Edges \cup {Out} : Merged(Line(y)', Line(y))
  PROVE  Once(seen)'
<1>1. ASSUME NEW y \in Edges \cup {Out}
      PROVE  /\ Distinct(Line(y)') /\ \A w : Holds(Line(y)', w) => Holds(Line(y), w)
  BY MergedDistinct DEF Once
<1>2. /\ seen \in [Nodes -> SUBSET Seq(Edges \cup {Entry})]
      /\ \A y \in Edges \cup {Out} : \A w : Holds(Line(y), w) => w \in seen[y.src]
      /\ \A x \in Edges : \A w \in seen[x.dst] :
           Last(w) = x => Front(w) \in seen[x.src] /\ ~Holds(Line(x), Front(w))
      /\ ToSet(shown) \subseteq seen[FinNd]
      /\ \A v \in ToSet(shown) : ~Holds(Line(Out), v)
      /\ \A i, j \in 1..Len(shown) : i < j => shown[i] # shown[j]
  BY DEF Once
<1>3. \A y \in Edges \cup {Out} : Distinct(Line(y)') /\ \A w : Holds(Line(y)', w) => w \in seen[y.src]
  BY <1>1, <1>2
<1>4. \A x \in Edges : \A w \in seen[x.dst] :
           Last(w) = x => Front(w) \in seen[x.src] /\ ~Holds(Line(x)', Front(w))
  BY <1>1, <1>2
<1>5. \A v \in ToSet(shown) : ~Holds(Line(Out)', v)
  BY <1>1, <1>2
<1>6. QED
  BY <1>2, <1>3, <1>4, <1>5 DEF Once, Holds, Distinct

\* A possible path was one before it was extended.
LEMMA ExtendVia ==
  ASSUME NEW p \in Paths, NEW x \in Edges, NEW marked, Extend(p, x, marked).kind = "possible"
  PROVE  p.kind = "possible" /\ Extend(p, x, marked).via = Append(p.via, x)
<1> DEFINE longer == [p EXCEPT !.at = x, !.cost = CostVia(p, x), !.via = Append(@, x),
                               !.min = Max({@, MinSize[x]})]
           q == Extend(p, x, marked)
<1>1. p \in PathType
  BY DEF Paths
<1>2. p.kind # "none"
  BY <1>1, ExtendIs
<1>3. ToImpossible(longer).kind = "impossible"
  <2>1. longer \in [kind : {p.kind}, at : {x}, cost : {CostVia(p, x)}, count : {p.count},
                    via : {Append(p.via, x)}, min : {Max({p.min, MinSize[x]})}]
    BY <1>1 DEF PathType
  <2> HIDE DEF longer
  <2>2. QED
    BY <2>1 DEF ToImpossible
<1>4. q = longer
  <2>1. q = longer \/ q = ToImpossible(longer)
    BY <1>2 DEF Extend
  <2>2. QED
    BY <1>3, <2>1
<1>5. q.kind = p.kind /\ q.via = Append(p.via, x)
  BY <1>1, <1>4 DEF PathType
<1>6. QED
  BY <1>5

\* What is drawn was not drawn before.
LEMMA OnceDraw ==
  ASSUME TypeInv, Tidy, NEW seen, Once(seen), NEW x \in Edges, Draws(x), shown' = shown
  PROVE  \E new : Once(new)'
<1> DEFINE p == Head(Line(x))
           E == Extend(p, x, dead)
<1>a. PICK more : more = IF E.kind = "possible" THEN {E.via} ELSE {}
  OBVIOUS
<1>b. PICK new : new = [seen EXCEPT ![x.dst] = @ \cup more]
  OBVIOUS
<1>1. /\ seen \in [Nodes -> SUBSET Seq(Edges \cup {Entry})]
      /\ \A y \in Edges \cup {Out} : Distinct(Line(y)) /\ \A w : Holds(Line(y), w) => w \in seen[y.src]
      /\ \A z \in Edges : \A w \in seen[z.dst] :
           Last(w) = z => Front(w) \in seen[z.src] /\ ~Holds(Line(z), Front(w))
      /\ ToSet(shown) \subseteq seen[FinNd]
      /\ \A v \in ToSet(shown) : ~Holds(Line(Out), v)
      /\ \A i, j \in 1..Len(shown) : i < j => shown[i] # shown[j]
  BY DEF Once
<1>2. /\ Line(x) # <<>> /\ Line(x)' = Tail(Line(x))
      /\ \A y \in Edges \cup {Out} :
           y # x => Merged(Line(y)', IF y.src = x.dst THEN Append(Line(y), E) ELSE Line(y))
  BY DEF Draws
<1>3. \A y \in Edges \cup {Out} : Line(y) \in Seq(Paths)
  BY LineIs
<1>4. p \in Paths /\ E \in Paths
  <2>1. p \in Paths
    BY <1>2, <1>3
  <2>2. QED
    BY <2>1, ExtendIs
<1>5. /\ x.src \in Nodes /\ x.dst \in Nodes /\ x.src # x.dst /\ x # Out
      /\ \A y \in Edges \cup {Out} : y.src \in Nodes
      /\ \A z \in Edges : z.dst \in Nodes
      /\ FinNd \in Nodes /\ Out.src = FinNd /\ Out \in Edges \cup {Out}
  BY EdgeIs, SideIs
<1>6. /\ \A w : Holds(Line(x)', w) => Holds(Line(x), w)
      /\ Distinct(Line(x)')
      /\ p.kind = "possible" => Holds(Line(x), p.via) /\ ~Holds(Line(x)', p.via)
  <2> DEFINE s == Line(x)
  <2>1. s \in Seq(Paths) /\ s # <<>> /\ Distinct(s)
    BY <1>1, <1>2, <1>3
  <2> HIDE DEF s
  <2>2. /\ \A w : Holds(Tail(s), w) => Holds(s, w)
        /\ Distinct(Tail(s))
        /\ Head(s).kind = "possible" => Holds(s, Head(s).via) /\ ~Holds(Tail(s), Head(s).via)
    BY <2>1, TailDistinct
  <2>3. QED
    BY <1>2, <2>2 DEF s
<1>7. ASSUME NEW u \in more
      PROVE  /\ u = E.via /\ E.kind = "possible" /\ p.kind = "possible"
             /\ u \in Seq(Edges \cup {Entry}) /\ Last(u) = x /\ Front(u) = p.via
             /\ p.via \in seen[x.src] /\ u \notin seen[x.dst]
  <2>1. u = E.via /\ E.kind = "possible"
    BY <1>a
  <2>2. p.kind = "possible" /\ E.via = Append(p.via, x)
    BY <1>4, <2>1, ExtendVia
  <2>3. p.via \in Seq(Edges \cup {Entry})
    BY <1>4 DEF Paths, PathType
  <2>4. u \in Seq(Edges \cup {Entry}) /\ Last(u) = x /\ Front(u) = p.via
    <3>1. x \in Edges \cup {Entry}
      OBVIOUS
    <3> HIDE DEF p
    <3>2. QED
      BY <2>1, <2>2, <2>3, <3>1, Longer
  <2>5. Holds(Line(x), p.via)
    BY <1>6, <2>2
  <2>6. p.via \in seen[x.src]
    BY <1>1, <2>5
  <2>7. u \notin seen[x.dst]
    BY <1>1, <2>4, <2>5
  <2>8. QED
    BY <2>1, <2>2, <2>4, <2>6, <2>7
<1> HIDE DEF E, p
<1>8. /\ new \in [Nodes -> SUBSET Seq(Edges \cup {Entry})]
      /\ \A nd \in Nodes : seen[nd] \subseteq new[nd] /\ (nd # x.dst => new[nd] = seen[nd])
      /\ new[x.dst] = seen[x.dst] \cup more
  BY <1>1, <1>5, <1>7, <1>b
<1>9. ASSUME NEW y \in Edges \cup {Out}, y # x
      PROVE  /\ Distinct(Line(y)')
             /\ \A w : Holds(Line(y)', w) => Holds(Line(y), w) \/ (y.src = x.dst /\ w \in more)
  <2>1. CASE y.src = x.dst
    <3>1. Merged(Line(y)', Append(Line(y), E))
      BY <1>2, <1>9, <2>1
    <3>2. E.kind = "possible" => ~Holds(Line(y), E.via)
      <4>1. ASSUME E.kind = "possible" PROVE E.via \in more
        BY <1>a, <4>1
      <4>2. QED
        BY <1>1, <1>7, <2>1, <4>1
    <3>3. /\ Distinct(Append(Line(y), E))
          /\ \A w : Holds(Append(Line(y), E), w) => Holds(Line(y), w) \/ (E.kind = "possible" /\ E.via = w)
      BY <1>1, <1>3, <1>4, <3>2, AppendDistinct
    <3>4. Distinct(Line(y)') /\ \A w : Holds(Line(y)', w) => Holds(Append(Line(y), E), w)
      BY <3>1, <3>3, MergedDistinct
    <3>5. \A w : E.kind = "possible" /\ E.via = w => w \in more
      BY <1>a
    <3>6. QED
      BY <2>1, <3>3, <3>4, <3>5
  <2>2. CASE y.src # x.dst
    <3>1. Merged(Line(y)', Line(y))
      BY <1>2, <1>9, <2>2
    <3>2. QED
      BY <1>1, <3>1, MergedDistinct
  <2>3. QED
    BY <2>1, <2>2
<1>10. ASSUME NEW y \in Edges \cup {Out}
       PROVE  Distinct(Line(y)') /\ \A w : Holds(Line(y)', w) => w \in new[y.src]
  <2>1. CASE y = x
    BY <1>1, <1>5, <1>6, <1>8, <2>1
  <2>2. CASE y # x
    <3>1. \A w : Holds(Line(y), w) => w \in new[y.src]
      BY <1>1, <1>5, <1>8
    <3>2. \A w : y.src = x.dst /\ w \in more => w \in new[y.src]
      BY <1>8
    <3>3. QED
      BY <1>9, <2>2, <3>1, <3>2
  <2>3. QED
    BY <2>1, <2>2
<1>11. ASSUME NEW z \in Edges, NEW w \in new[z.dst], Last(w) = z
       PROVE  Front(w) \in new[z.src] /\ ~Holds(Line(z)', Front(w))
  <2>1. CASE w \in seen[z.dst]
    <3>1. Front(w) \in seen[z.src] /\ ~Holds(Line(z), Front(w))
      BY <1>1, <1>11, <2>1
    <3>2. CASE z = x
      BY <1>5, <1>6, <1>8, <3>1, <3>2
    <3>3. CASE z # x
      <4>1. ~(z.src = x.dst /\ Front(w) \in more)
        BY <1>7, <3>1
      <4>2. ~Holds(Line(z)', Front(w))
        BY <1>9, <3>1, <3>3, <4>1
      <4>3. QED
        BY <1>5, <1>8, <3>1, <4>2
    <3>4. QED
      BY <3>2, <3>3
  <2>2. CASE w \notin seen[z.dst]
    <3>1. w \in more
      BY <1>5, <1>8, <1>11, <2>2
    <3>2. z = x /\ Front(w) = p.via /\ p.via \in seen[x.src] /\ p.kind = "possible"
      BY <1>7, <1>11, <3>1
    <3>3. QED
      BY <1>5, <1>6, <1>8, <3>2
  <2>3. QED
    BY <2>1, <2>2
<1>12. ASSUME NEW v \in ToSet(shown) PROVE ~Holds(Line(Out)', v) /\ v \in new[FinNd]
  <2>1. v \in seen[FinNd] /\ ~Holds(Line(Out), v)
    BY <1>1
  <2>2. ~(Out.src = x.dst /\ v \in more)
    BY <1>5, <1>7, <2>1
  <2>3. QED
    BY <1>5, <1>8, <1>9, <2>1, <2>2
<1>13. Once(new)'
  BY <1>1, <1>8, <1>10, <1>11, <1>12 DEF Once, Holds, Distinct
<1>14. QED
  BY <1>13

\* A path that is reported leaves the line it waited in, and does not return.
LEMMA OnceReport ==
  ASSUME TypeInv, Tidy, Known, ShownOk, NEW seen, Once(seen), Reports
  PROVE  Once(seen)'
<1> DEFINE s == Line(Out)
           p == Head(s)
           sat == p.kind = "possible" /\ Feasible(p.via)
<1>1. /\ seen \in [Nodes -> SUBSET Seq(Edges \cup {Entry})]
      /\ \A y \in Edges \cup {Out} : Distinct(Line(y)) /\ \A w : Holds(Line(y), w) => w \in seen[y.src]
      /\ \A z \in Edges : \A w \in seen[z.dst] :
           Last(w) = z => Front(w) \in seen[z.src] /\ ~Holds(Line(z), Front(w))
      /\ ToSet(shown) \subseteq seen[FinNd]
      /\ \A v \in ToSet(shown) : ~Holds(Line(Out), v)
      /\ \A i, j \in 1..Len(shown) : i < j => shown[i] # shown[j]
  BY DEF Once
<1>2. /\ s # <<>> /\ s' = Tail(s) /\ \A z \in Edges : Line(z)' = Line(z)
      /\ shown' = IF sat THEN Append(shown, p.via) ELSE shown
  BY DEF Reports
<1>3. s \in Seq(Paths) /\ Distinct(s) /\ \A w : Holds(s, w) => w \in seen[FinNd]
  BY <1>1, LineIs, SideIs
<1> HIDE DEF s
<1>4. /\ \A w : Holds(Tail(s), w) => Holds(s, w)
      /\ Distinct(Tail(s))
      /\ p.kind = "possible" => Holds(s, p.via) /\ ~Holds(Tail(s), p.via)
  BY <1>2, <1>3, TailDistinct
<1>5. ASSUME NEW y \in Edges \cup {Out}
      PROVE  Distinct(Line(y)') /\ \A w : Holds(Line(y)', w) => w \in seen[y.src]
  <2>1. CASE y \in Edges
    BY <1>1, <1>2, <2>1
  <2>2. CASE y = Out
    BY <1>2, <1>3, <1>4, <2>2, SideIs DEF s
  <2>3. QED
    BY <2>1, <2>2
<1>6. \A z \in Edges : \A w \in seen[z.dst] :
        Last(w) = z => Front(w) \in seen[z.src] /\ ~Holds(Line(z)', Front(w))
  BY <1>1, <1>2
<1>7. CASE ~sat
  <2>1. shown' = shown
    BY <1>2, <1>7
  <2>2. \A v \in ToSet(shown) : ~Holds(s', v)
    BY <1>1, <1>2, <1>4 DEF s
  <2>3. QED
    BY <1>1, <1>5, <1>6, <2>1, <2>2 DEF Once, Holds, Distinct, s
<1>8. CASE sat
  <2> DEFINE v == p.via
             n == Len(shown)
             S == Seq(Edges \cup {Entry})
  <2>1. v \in seen[FinNd] /\ v \notin ToSet(shown) /\ ~Holds(s', v)
    BY <1>1, <1>2, <1>3, <1>4, <1>8 DEF s
  <2>2. shown \in Seq(S) /\ v \in S
    <3>1. p \in Paths
      BY <1>2, <1>3
    <3>2. shown \in Seq(S)
      <4>1. {u \in WaysTo(FinNd) : Feasible(u)} \subseteq S
        BY DEF WaysTo
      <4> HIDE DEF S
      <4>2. QED
        BY <4>1, SeqWider DEF ShownOk
    <3>3. QED
      BY <3>1, <3>2 DEF Paths, PathType
  <2> HIDE DEF v, S
  <2>3. shown' = Append(shown, v)
    BY <1>2, <1>8 DEF v
  <2>4. /\ n \in Nat /\ Len(shown') = n + 1 /\ shown'[n + 1] = v
        /\ \A i \in 1..n : shown'[i] = shown[i]
        /\ DOMAIN shown = 1..n
    BY <2>2, <2>3
  <2>5. ToSet(shown') = ToSet(shown) \cup {v}
    BY <2>2, <2>3, ElementsAppend
  <2>6. ToSet(shown') \subseteq seen[FinNd] /\ \A u \in ToSet(shown') : ~Holds(s', u)
    BY <1>1, <1>2, <1>4, <2>1, <2>5 DEF s
  <2>7. \A i, j \in 1..Len(shown') : i < j => shown'[i] # shown'[j]
    <3>1. SUFFICES ASSUME NEW i \in 1..Len(shown'), NEW j \in 1..Len(shown'), i < j
                   PROVE  shown'[i] # shown'[j]
      OBVIOUS
    <3> HIDE DEF n
    <3>2. i \in 1..n /\ (j \in 1..n \/ j = n + 1)
      BY <2>4, <3>1
    <3>3. shown'[i] = shown[i] /\ shown[i] \in ToSet(shown)
      BY <2>4, <3>2 DEF ToSet
    <3>4. CASE j \in 1..n
      BY <1>1, <2>4, <3>1, <3>2, <3>3, <3>4 DEF n
    <3>5. CASE j = n + 1
      BY <2>1, <2>4, <3>3, <3>5
    <3>6. QED
      BY <3>2, <3>4, <3>5
  <2>8. QED
    BY <1>1, <1>5, <1>6, <2>6, <2>7 DEF Once, Holds, Distinct, s
<1>9. QED
  BY <1>7, <1>8

\* A reported path is a way to the last node, and satisfiable.
LEMMA ShownNext ==
  ASSUME FewPaths, Inv, Tidy, Known, ShownOk, [Next]_vars
  PROVE  ShownOk'
<1>1. CASE shown' = shown
  BY <1>1 DEF ShownOk
<1>2. CASE Reports
  <2> DEFINE p == Head(Line(Out))
             sat == p.kind = "possible" /\ Feasible(p.via)
             G == {v \in WaysTo(FinNd) : Feasible(v)}
  <2>1. Line(Out) # <<>> /\ shown' = IF sat THEN Append(shown, p.via) ELSE shown
    BY <1>2 DEF Reports
  <2>2. p \in Knowing(Out)
    BY <2>1 DEF Known
  <2>3. CASE sat
    <3>1. IsPath(p.via, FinNd)
      BY <2>2, <2>3 DEF Knowing, Out
    <3>2. p.via \in G
      BY <2>3, <3>1 DEF WaysTo, IsPath
    <3> HIDE DEF G
    <3>3. Append(shown, p.via) \in Seq(G)
      BY <3>2 DEF ShownOk, G
    <3>4. QED
      BY <2>1, <2>3, <3>3 DEF ShownOk, G
  <2>4. CASE ~sat
    BY <2>1, <2>4 DEF ShownOk
  <2>5. QED
    BY <2>3, <2>4
<1>3. QED
  BY <1>1, <1>2, Steps DEF Quiet, Drawing, Stops

-----------------------------------------------------------------------------
(* The search ends by itself when everything was drawn                     *)

\* Only `none' costs nothing.
Costly == {p \in Paths : p.kind # "none" => p.cost > 0}
Dear == \A y \in Edges \cup {Out} : Line(y) \in Seq(Costly)

\* only `none' is left; `none' comes last
Drawn(s) == \A i \in 1..Len(s) : s[i].kind = "none"
NoneLast(s) == \A i, j \in 1..Len(s) : i < j /\ s[i].kind = "none" => s[j].kind = "none"

\* `none' was drawn at these nodes: nothing else is left in front of them.
Drained(ended) ==
  /\ ended \subseteq Nodes
  /\ \A x \in Edges : x.dst \in ended => x.src \in ended /\ Drawn(Line(x))
  /\ \A y \in Edges \cup {Out} : NoneLast(Line(y)) /\ (HasNone(Line(y)) => y.src \in ended)
  /\ done = TRUE /\ index < count => FinNd \in ended /\ Drawn(Line(Out))

\* Extending a path adds to its cost, and `none' stays `none'.
LEMMA ExtendDear ==
  ASSUME NEW p \in Costly, NEW x \in Edges
  PROVE  /\ \A marked : Extend(p, x, marked) \in Costly
         /\ CostVia(p, x) \in Nat
         /\ p.kind # "none" => CostVia(p, x) > 0
         /\ p.kind = "none" => CostVia(p, x) = 0
<1>1. p \in Paths /\ (p.kind # "none" => p.cost > 0) /\ p \in PathType /\ p.cost \in Nat
  BY DEF Costly, Paths, PathType
<1>2. CASE p.kind = "none"
  <2>1. CostVia(p, x) = 0
    BY <1>2 DEF CostVia
  <2>2. \A marked : Extend(p, x, marked) = p
    BY <1>2 DEF Extend
  <2>3. QED
    BY <1>2, <2>1, <2>2
<1>3. CASE p.kind # "none"
  <2>1. CostVia(p, x) \in Nat /\ CostVia(p, x) > 0
    <3>1. x.taken \in BOOLEAN /\ p.at \in Edges \cup {Entry} /\ Enter[x] \in Nat
      BY <1>1, EdgeIs, CostAssumption DEF PathType
    <3>2. Leave[p.at] \in [BOOLEAN -> Nat]
      BY <3>1, CostAssumption
    <3>3. Leave[p.at][x.taken] \in Nat
      BY <3>1, <3>2
    <3>4. CostVia(p, x) = p.cost + Leave[p.at][x.taken] + Enter[x]
      BY <1>3 DEF CostVia
    <3>5. QED
      BY <1>1, <1>3, <3>1, <3>3, <3>4
  <2>2. ASSUME NEW marked PROVE Extend(p, x, marked) \in Costly
    <3> DEFINE longer == [p EXCEPT !.at = x, !.cost = CostVia(p, x), !.via = Append(@, x),
                                   !.min = Max({@, MinSize[x]})]
    <3>1. longer \in [kind : {p.kind}, at : {x}, cost : {CostVia(p, x)}, count : {p.count},
                      via : {Append(p.via, x)}, min : {Max({p.min, MinSize[x]})}]
      BY <1>1 DEF PathType
    <3>2. Extend(p, x, marked) = longer \/ Extend(p, x, marked) = ToImpossible(longer)
      BY <1>3 DEF Extend
    <3> HIDE DEF longer
    <3>3. longer.cost = CostVia(p, x) /\ ToImpossible(longer).cost = CostVia(p, x)
      BY <3>1 DEF ToImpossible
    <3>4. Extend(p, x, marked) \in Paths
      BY <1>1, ExtendIs
    <3>5. QED
      BY <2>1, <3>2, <3>3, <3>4 DEF Costly
  <2>3. QED
    BY <1>3, <2>1, <2>2
<1>4. QED
  BY <1>2, <1>3

\* At first only the path that has entered costs something.
LEMMA DearInit ==
  ASSUME Init
  PROVE  Dear
<1>1. Start \in Costly /\ None \in Costly
  <2>1. Start.cost = CostFirmware + Enter[Entry] /\ None.kind = "none"
    BY DEF Start, None
  <2>2. CostFirmware \in Nat /\ CostFirmware > 0 /\ Enter[Entry] \in Nat
    BY CostAssumption
  <2>3. QED
    BY <2>1, <2>2, StartIs DEF Costly
<1>2. SUFFICES ASSUME NEW y \in Edges \cup {Out} PROVE Line(y) \in Seq(Costly)
  BY DEF Dear
<1>3. CASE y.src = 1
  <2>1. Line(y) = <<Start, None>>
    BY <1>3, LineInit
  <2>2. QED
    BY <1>1, <2>1
<1>4. CASE y.src # 1
  <2>1. Line(y) = <<>>
    BY <1>4, LineInit
  <2>2. QED
    BY <2>1
<1>5. QED
  BY <1>3, <1>4

\* Merging keeps costs.
LEMMA MergedDear ==
  ASSUME NEW t, NEW s, Merged(t, s), s \in Seq(Costly)
  PROVE  t \in Seq(Costly)
<1>1. ASSUME NEW a \in Paths, NEW b \in Costly, Alike(a, b) PROVE a \in Costly
  BY <1>1 DEF Alike, Costly
<1>2. QED
  BY <1>1, MergedWithin

\* Every step keeps paths costly.
LEMMA DearNext ==
  ASSUME FewPaths, Inv, Tidy, Dear, [Next]_vars
  PROVE  Dear'
<1>1. \A y \in Edges \cup {Out} : Line(y) \in Seq(Costly)
  BY DEF Dear
<1>2. CASE Quiet
  <2>1. ASSUME NEW y \in Edges \cup {Out} PROVE Line(y)' \in Seq(Costly)
    BY <1>1, <1>2, MergedDear DEF Quiet
  <2>2. QED
    BY <2>1 DEF Dear, Costly
<1>3. ASSUME NEW x \in Edges, Drawing(x) PROVE Dear'
  <2> DEFINE E == Extend(Head(Line(x)), x, dead)
  <2>1. /\ Line(x) # <<>> /\ Line(x)' = Tail(Line(x))
        /\ \A y \in Edges \cup {Out} :
             y # x => Merged(Line(y)', IF y.src = x.dst THEN Append(Line(y), E) ELSE Line(y))
    BY <1>3 DEF Drawing, Draws
  <2>2. Head(Line(x)) \in Costly /\ Line(x)' \in Seq(Costly)
    BY <1>1, <2>1
  <2>3. E \in Costly
    BY <2>2, ExtendDear
  <2> HIDE DEF E
  <2>4. ASSUME NEW y \in Edges \cup {Out}, y # x PROVE Line(y)' \in Seq(Costly)
    <3>1. CASE y.src = x.dst
      <4>1. Append(Line(y), E) \in Seq(Costly)
        BY <1>1, <2>3
      <4>2. QED
        BY <2>1, <2>4, <3>1, <4>1, MergedDear
    <3>2. CASE y.src # x.dst
      BY <1>1, <2>1, <2>4, <3>2, MergedDear
    <3>3. QED
      BY <3>1, <3>2
  <2>5. QED
    BY <2>2, <2>4 DEF Dear, Costly
<1>4. CASE Reports
  <2>1. Line(Out) # <<>> /\ Line(Out)' = Tail(Line(Out)) /\ \A y \in Edges : Line(y)' = Line(y)
    BY <1>4 DEF Reports
  <2>2. Line(Out)' \in Seq(Costly)
    BY <1>1, <2>1
  <2>3. QED
    BY <1>1, <2>1, <2>2 DEF Dear, Costly
<1>5. CASE Stops
  <2>1. \A y \in Edges \cup {Out} : Line(y)' = <<>>
    BY <1>5 DEF Stops
  <2>a. <<>> \in Seq(Costly)
    OBVIOUS
  <2>2. \A y \in Edges \cup {Out} : Line(y)' \in Seq(Costly)
    BY <2>1, <2>a
  <2>3. QED
    BY <2>2 DEF Dear, Costly
<1>6. QED
  BY <1>2, <1>3, <1>4, <1>5, Steps

\* Merging keeps each kind where it was.
LEMMA MergedDrawn ==
  ASSUME NEW t, NEW s, Merged(t, s)
  PROVE  /\ Drawn(s) => Drawn(t)
         /\ NoneLast(s) => NoneLast(t)
         /\ HasNone(t) => HasNone(s)
<1>1. PICK f : Selects(t, s, f)
  BY DEF Merged
<1>2. \A i \in 1..Len(t) : f[i] \in 1..Len(s) /\ t[i].kind = s[f[i]].kind
  BY <1>1 DEF Selects, Alike
<1>3. \A i, j \in 1..Len(t) : i < j => f[i] < f[j]
  BY <1>1 DEF Selects
<1>4. Drawn(s) => Drawn(t)
  BY <1>2 DEF Drawn
<1>5. NoneLast(s) => NoneLast(t)
  BY <1>2, <1>3, SMTT(30) DEF NoneLast
<1>6. HasNone(t) => HasNone(s)
  BY <1>2 DEF HasNone
<1>7. QED
  BY <1>4, <1>5, <1>6

\* One more path: `none', or where there was no `none' yet
LEMMA AppendDrawn ==
  ASSUME NEW S, NEW s \in Seq(S), NEW p \in S
  PROVE  /\ NoneLast(s) /\ (p.kind # "none" => ~HasNone(s)) => NoneLast(Append(s, p))
         /\ HasNone(Append(s, p)) => HasNone(s) \/ p.kind = "none"
         /\ Drawn(s) /\ p.kind = "none" => Drawn(Append(s, p))
<1> DEFINE t == Append(s, p)
           n == Len(s)
<1>1. /\ n \in Nat /\ Len(t) = n + 1 /\ t[n + 1] = p /\ \A m \in 1..n : t[m] = s[m]
  BY Longer
<1> HIDE DEF t, n
<1>2. \A i \in 1..Len(t) : (i \in 1..n /\ t[i] = s[i]) \/ (i = n + 1 /\ t[i] = p)
  BY <1>1
<1>3. HasNone(t) => HasNone(s) \/ p.kind = "none"
  BY <1>2 DEF HasNone, n
<1>a. Drawn(s) /\ p.kind = "none" => Drawn(t)
  BY <1>2 DEF Drawn, n
<1>4. ASSUME NoneLast(s), p.kind # "none" => ~HasNone(s) PROVE NoneLast(t)
  <2>1. SUFFICES ASSUME NEW i \in 1..Len(t), NEW j \in 1..Len(t), i < j, t[i].kind = "none"
                 PROVE  t[j].kind = "none"
    BY DEF NoneLast
  <2>2. i \in 1..n /\ t[i] = s[i]
    BY <1>1, <2>1
  <2>3. HasNone(s)
    BY <2>1, <2>2 DEF HasNone, n
  <2>4. CASE j \in 1..n
    BY <1>1, <1>4, <2>1, <2>2, <2>4 DEF NoneLast, n
  <2>5. CASE j = n + 1
    BY <1>1, <1>4, <2>3, <2>5
  <2>6. QED
    BY <1>2, <2>4, <2>5
<1>5. QED
  BY <1>3, <1>4, <1>a DEF t

\* What leaves a line does not change what is behind it; if it was `none', nothing else is.
LEMMA TailDrawn ==
  ASSUME NEW S, NEW s \in Seq(S), s # <<>>
  PROVE  /\ Drawn(s) => Drawn(Tail(s))
         /\ NoneLast(s) => NoneLast(Tail(s))
         /\ NoneLast(s) /\ Head(s).kind = "none" => Drawn(s)
         /\ HasNone(Tail(s)) => HasNone(s)
         /\ Head(s).kind = "none" => HasNone(s)
         /\ Drawn(s) => Head(s).kind = "none"
<1> DEFINE t == Tail(s)
<1>1. /\ Len(s) \in Nat /\ 1 \in 1..Len(s) /\ Head(s) = s[1]
      /\ Len(t) = Len(s) - 1
      /\ \A i \in 1..Len(t) : t[i] = s[i + 1] /\ i + 1 \in 1..Len(s)
  OBVIOUS
<1> HIDE DEF t
<1>2. (Drawn(s) => Drawn(t)) /\ (Drawn(s) => Head(s).kind = "none")
  BY <1>1 DEF Drawn
<1>3. ASSUME NoneLast(s) PROVE NoneLast(t)
  <2>1. SUFFICES ASSUME NEW i \in 1..Len(t), NEW j \in 1..Len(t), i < j, t[i].kind = "none"
                 PROVE  t[j].kind = "none"
    BY DEF NoneLast
  <2>2. /\ i + 1 \in 1..Len(s) /\ j + 1 \in 1..Len(s) /\ t[i] = s[i + 1] /\ t[j] = s[j + 1]
        /\ i + 1 < j + 1
    BY <1>1, <2>1
  <2>3. QED
    BY <1>3, <2>1, <2>2 DEF NoneLast
<1>4. ASSUME NoneLast(s), Head(s).kind = "none" PROVE Drawn(s)
  <2>1. ASSUME NEW i \in 1..Len(s) PROVE s[i].kind = "none"
    <3>1. CASE i = 1
      BY <1>1, <1>4, <3>1
    <3>2. CASE i # 1
      <4>1. 1 < i
        BY <1>1, <3>2
      <4>2. QED
        BY <1>1, <1>4, <4>1 DEF NoneLast
    <3>3. QED
      BY <3>1, <3>2
  <2>2. QED
    BY <2>1 DEF Drawn
<1>5. (HasNone(t) => HasNone(s)) /\ (Head(s).kind = "none" => HasNone(s))
  BY <1>1 DEF HasNone
<1>6. QED
  BY <1>2, <1>3, <1>4, <1>5 DEF t

\* At first `none' waits behind the first node only.
LEMMA DrainedInit ==
  ASSUME Init
  PROVE  \E ended : Drained(ended)
<1>1. ASSUME NEW y \in Edges \cup {Out}
      PROVE  NoneLast(Line(y)) /\ (HasNone(Line(y)) => y.src = 1)
  <2>1. CASE y.src = 1
    <3> DEFINE s == <<Start, None>>
    <3>1. Line(y) = s
      BY <2>1, LineInit
    <3>2. Len(s) = 2 /\ s[1] = Start /\ s[2] = None
      OBVIOUS
    <3>3. Start.kind # "none" /\ None.kind = "none"
      BY DEF Start, None
    <3> HIDE DEF s
    <3>4. NoneLast(s)
      BY <3>2, <3>3 DEF NoneLast
    <3>5. QED
      BY <2>1, <3>1, <3>4
  <2>2. CASE y.src # 1
    <3>1. Line(y) = <<>>
      BY <2>2, LineInit
    <3>2. QED
      BY <3>1 DEF NoneLast, HasNone
  <2>3. QED
    BY <2>1, <2>2
<1>2. done = FALSE
  BY DEF Init
<1>3. \A x \in Edges : x.dst # 1
  BY EdgeIs
<1>4. Drained({1})
  BY <1>1, <1>2, <1>3, SideIs DEF Drained
<1>5. QED
  BY <1>4

\* Merging moves no `none'.
LEMMA DrainedQuiet ==
  ASSUME NEW ended, Drained(ended), done' = done, index' = index, count' = count,
         \A y \in Edges \cup {Out} : Merged(Line(y)', Line(y))
  PROVE  Drained(ended)'
<1>1. \A y \in Edges \cup {Out} : /\ Drawn(Line(y)) => Drawn(Line(y)')
                                  /\ NoneLast(Line(y)) => NoneLast(Line(y)')
                                  /\ HasNone(Line(y)') => HasNone(Line(y))
  BY MergedDrawn
<1>2. /\ ended \subseteq Nodes
      /\ \A x \in Edges : x.dst \in ended => x.src \in ended /\ Drawn(Line(x)')
      /\ \A y \in Edges \cup {Out} : NoneLast(Line(y)') /\ (HasNone(Line(y)') => y.src \in ended)
      /\ done = TRUE /\ index < count => FinNd \in ended /\ Drawn(Line(Out)')
  BY <1>1 DEF Drained
<1>3. QED
  BY <1>2 DEF Drained, Drawn, NoneLast, HasNone

\* `none' is only drawn if it is all there is.
LEMMA DrainedDraw ==
  ASSUME TypeInv, Tidy, Dear, NEW ended, Drained(ended), NEW x \in Edges, Draws(x),
         done' = done, index' = index, count' = count
  PROVE  \E new : Drained(new)'
<1> DEFINE p == Head(Line(x))
           E == Extend(p, x, dead)
<1>1. /\ ended \subseteq Nodes
      /\ \A z \in Edges : z.dst \in ended => z.src \in ended /\ Drawn(Line(z))
      /\ \A y \in Edges \cup {Out} : NoneLast(Line(y)) /\ (HasNone(Line(y)) => y.src \in ended)
      /\ done = TRUE /\ index < count => FinNd \in ended /\ Drawn(Line(Out))
  BY DEF Drained
<1>2. /\ Line(x) # <<>> /\ Line(x)' = Tail(Line(x))
      /\ \A y \in Edges \cup {Out} :
           y # x => Merged(Line(y)', IF y.src = x.dst THEN Append(Line(y), E) ELSE Line(y))
      /\ \A z \in Edges : z.dst = x.dst => Line(z) # <<>> /\ CostVia(Head(Line(z)), z) <= CostVia(p, x)
  BY DEF Draws
<1>3. \A y \in Edges \cup {Out} : Line(y) \in Seq(Costly)
  BY DEF Dear
<1>4. p \in Costly /\ E \in Costly
  <2>1. p \in Costly
    BY <1>2, <1>3
  <2>2. QED
    BY <2>1, ExtendDear
<1>5. E.kind = "none" <=> p.kind = "none"
  BY <1>4, ExtendIs DEF Costly
<1>6. /\ x.src \in Nodes /\ x.dst \in Nodes /\ x.src # x.dst /\ x # Out
      /\ FinNd \in Nodes /\ Out.src = FinNd /\ Out \in Edges \cup {Out}
  BY EdgeIs, SideIs
<1>7. ASSUME NEW z \in Edges \cup {Out}, Line(z) # <<>>
      PROVE  /\ Drawn(Line(z)) => Drawn(Tail(Line(z)))
             /\ NoneLast(Tail(Line(z)))
             /\ Head(Line(z)).kind = "none" => Drawn(Line(z)) /\ HasNone(Line(z))
             /\ HasNone(Tail(Line(z))) => HasNone(Line(z))
             /\ Drawn(Line(z)) => Head(Line(z)).kind = "none"
  <2> DEFINE s == Line(z)
  <2>1. s \in Seq(Costly) /\ s # <<>> /\ NoneLast(s)
    BY <1>1, <1>3, <1>7
  <2> HIDE DEF s
  <2>2. /\ Drawn(s) => Drawn(Tail(s))
        /\ NoneLast(Tail(s))
        /\ Head(s).kind = "none" => Drawn(s) /\ HasNone(s)
        /\ HasNone(Tail(s)) => HasNone(s)
        /\ Drawn(s) => Head(s).kind = "none"
    BY <2>1, TailDrawn
  <2>3. QED
    BY <2>2 DEF s
<1>8. ASSUME p.kind = "none", NEW z \in Edges, z.dst = x.dst
      PROVE  z.src \in ended /\ Drawn(Line(z))
  <2>1. Line(z) # <<>> /\ CostVia(Head(Line(z)), z) <= CostVia(p, x)
    BY <1>2, <1>8
  <2>2. CostVia(p, x) = 0
    BY <1>4, <1>8, ExtendDear
  <2>3. Head(Line(z)) \in Costly
    BY <1>3, <2>1
  <2>4. Head(Line(z)).kind = "none"
    <3> DEFINE c == CostVia(Head(Line(z)), z)
    <3>1. c \in Nat /\ (Head(Line(z)).kind # "none" => c > 0)
      BY <2>3, ExtendDear
    <3>2. c <= 0
      BY <2>1, <2>2
    <3> HIDE DEF c
    <3>3. QED
      BY <3>1, <3>2
  <2>5. QED
    BY <1>1, <1>7, <2>1, <2>4
<1>9. ASSUME p.kind # "none" PROVE x.dst \notin ended
  BY <1>1, <1>2, <1>7, <1>9
<1>a. PICK new : new = IF p.kind = "none" THEN ended \cup {x.dst} ELSE ended
  OBVIOUS
<1> HIDE DEF E, p
<1>10. ASSUME NEW y \in Edges \cup {Out}
       PROVE  /\ NoneLast(Line(y)')
              /\ HasNone(Line(y)') => y.src \in new
              /\ Drawn(Line(y)) /\ (p.kind # "none" => y.src # x.dst) => Drawn(Line(y)')
  <2>1. CASE y = x
    BY <1>1, <1>2, <1>7, <1>a, <2>1
  <2>2. CASE y # x /\ y.src = x.dst
    <3>1. Merged(Line(y)', Append(Line(y), E))
      BY <1>2, <2>2
    <3>2. E.kind # "none" => ~HasNone(Line(y))
      BY <1>1, <1>5, <1>9, <2>2
    <3>3. NoneLast(Append(Line(y), E)) /\ (HasNone(Append(Line(y), E)) => HasNone(Line(y)) \/ E.kind = "none")
      BY <1>1, <1>3, <1>4, <3>2, AppendDrawn
    <3>4. NoneLast(Line(y)') /\ (HasNone(Line(y)') => HasNone(Line(y)) \/ E.kind = "none")
      BY <3>1, <3>3, MergedDrawn
    <3>5. Drawn(Line(y)) /\ p.kind = "none" => Drawn(Line(y)')
      BY <1>3, <1>4, <1>5, <3>1, AppendDrawn, MergedDrawn
    <3>6. QED
      BY <1>1, <1>5, <1>a, <2>2, <3>4, <3>5
  <2>3. CASE y # x /\ y.src # x.dst
    <3>1. Merged(Line(y)', Line(y))
      BY <1>2, <2>3
    <3>2. QED
      BY <1>1, <1>a, <3>1, MergedDrawn
  <2>4. QED
    BY <2>1, <2>2, <2>3
<1>11. ASSUME NEW z \in Edges, z.dst \in new
       PROVE  z.src \in new /\ Drawn(Line(z)')
  <2>1. z.src \in ended /\ Drawn(Line(z))
    <3>1. CASE z.dst \in ended
      BY <1>1, <3>1
    <3>2. CASE z.dst \notin ended
      BY <1>8, <1>11, <1>a, <3>2
    <3>3. QED
      BY <3>1, <3>2
  <2>2. p.kind # "none" => z.src # x.dst
    BY <1>9, <2>1
  <2>3. QED
    BY <1>10, <1>a, <2>1, <2>2
<1>12. done = TRUE /\ index < count => FinNd \in new /\ Drawn(Line(Out)')
  <2>1. SUFFICES ASSUME done = TRUE, index < count PROVE FinNd \in new /\ Drawn(Line(Out)')
    OBVIOUS
  <2>2. FinNd \in ended /\ Drawn(Line(Out))
    BY <1>1, <2>1
  <2>3. p.kind # "none" => Out.src # x.dst
    BY <1>6, <1>9, <2>2
  <2>4. QED
    BY <1>6, <1>10, <1>a, <2>2, <2>3
<1>13. new \subseteq Nodes
  BY <1>1, <1>6, <1>a
<1>14. Drained(new)'
  BY <1>10, <1>11, <1>12, <1>13 DEF Drained, Drawn, NoneLast, HasNone
<1>15. QED
  BY <1>14

\* The last `none' ends the search, if not the number of paths asked for.
LEMMA DrainedReport ==
  ASSUME TypeInv, Tidy, NEW ended, Drained(ended), Reports, index \in Nat, count \in Nat
  PROVE  Drained(ended)'
<1> DEFINE s == Line(Out)
           p == Head(s)
<1>1. /\ s # <<>> /\ s' = Tail(s) /\ \A z \in Edges : Line(z)' = Line(z)
      /\ index' \in {index, index + 1} /\ count' = count
      /\ done' = (done \/ index' >= count \/ p.kind = "none")
  BY DEF Reports
<1>2. /\ ended \subseteq Nodes
      /\ \A z \in Edges : z.dst \in ended => z.src \in ended /\ Drawn(Line(z))
      /\ \A y \in Edges \cup {Out} : NoneLast(Line(y)) /\ (HasNone(Line(y)) => y.src \in ended)
      /\ done = TRUE /\ index < count => FinNd \in ended /\ Drawn(Line(Out))
  BY DEF Drained
<1>3. s \in Seq(Paths) /\ NoneLast(s) /\ (HasNone(s) => FinNd \in ended)
  BY <1>2, LineIs, SideIs
<1>4. done \in BOOLEAN
  BY DEF TypeInv
<1> HIDE DEF s
<1>5. /\ Drawn(s) => Drawn(Tail(s))
      /\ NoneLast(Tail(s))
      /\ p.kind = "none" => Drawn(s) /\ HasNone(s)
      /\ HasNone(Tail(s)) => HasNone(s)
  BY <1>1, <1>3, TailDrawn
<1>6. ASSUME done' = TRUE, index' < count PROVE FinNd \in ended /\ Drawn(s')
  <2>1. index < count /\ ~(index' >= count)
    BY <1>1, <1>6
  <2>2. done = TRUE \/ p.kind = "none"
    BY <1>1, <1>4, <1>6, <2>1
  <2>3. CASE done = TRUE
    BY <1>1, <1>2, <1>5, <2>1, <2>3 DEF s
  <2>4. CASE p.kind = "none"
    BY <1>1, <1>3, <1>5, <2>4
  <2>5. QED
    BY <2>2, <2>3, <2>4
<1>7. ASSUME NEW y \in Edges \cup {Out}
      PROVE  NoneLast(Line(y)') /\ (HasNone(Line(y)') => y.src \in ended)
  <2>1. CASE y \in Edges
    BY <1>1, <1>2, <2>1
  <2>2. CASE y = Out
    BY <1>1, <1>3, <1>5, <2>2, SideIs DEF s
  <2>3. QED
    BY <2>1, <2>2
<1>8. \A z \in Edges : z.dst \in ended => z.src \in ended /\ Drawn(Line(z)')
  BY <1>1, <1>2
<1>9. QED
  BY <1>1, <1>2, <1>6, <1>7, <1>8 DEF Drained, Drawn, NoneLast, HasNone, s

\* The last `none' was drawn everywhere when it was drawn at the last node.
LEMMA AllEnded ==
  ASSUME NEW ended, Drained(ended), FinNd \in ended
  PROVE  \A x \in Edges : Drawn(Line(x))
<1> DEFINE T == {m \in Nat : \A nd \in Nodes : nd + m >= FinNd => nd \in ended}
<1>1. FinNd \in Nat /\ Nodes = 1..FinNd
  BY GraphAssumption DEF Nodes
<1>2. 0 \in T
  <2>1. \A nd \in Nodes : nd + 0 >= FinNd => nd = FinNd
    BY <1>1
  <2>2. QED
    BY <2>1
<1>3. ASSUME NEW m \in Nat, m \in T PROVE m + 1 \in T
  <2>1. ASSUME NEW nd \in Nodes, nd + (m + 1) >= FinNd PROVE nd \in ended
    <3>1. CASE nd = FinNd
      BY <3>1
    <3>2. CASE nd # FinNd
      <4>1. PICK x \in Edges : x.src = nd
        BY <3>2, GraphAssumption
      <4>2. x.dst \in Nodes /\ nd < x.dst
        BY <4>1, EdgeIs
      <4>3. x.dst + m >= FinNd
        BY <1>1, <2>1, <4>2
      <4>4. x.dst \in ended
        BY <1>3, <4>2, <4>3
      <4>5. QED
        BY <4>1, <4>4 DEF Drained
    <3>3. QED
      BY <3>1, <3>2
  <2>2. QED
    BY <2>1
<1> HIDE DEF T
<1>4. Nat \subseteq T
  BY <1>2, <1>3, Induction
<1>5. ASSUME NEW x \in Edges PROVE x.dst \in ended
  <2>1. x.dst \in Nodes /\ x.dst + FinNd >= FinNd
    BY <1>1, EdgeIs
  <2>2. QED
    BY <1>1, <1>4, <2>1 DEF T
<1>6. QED
  BY <1>5 DEF Drained

-----------------------------------------------------------------------------
(* All paths are accounted for                                             *)

\* What was drawn from each line, and what waits, is what arrived.
Exact(drawn) ==
  /\ drawn \in [Edges \cup {Out} -> Nat]
  /\ \A y \in Edges \cup {Out} : Weight(Line(y)) + drawn[y] = Arrived(drawn, y.src)
  /\ drawn[Out] = hidden + Len(shown)

\* what is counted, and -c
Counted == hidden \in Nat /\ index = Len(shown) /\ count \in Nat

\* Zeros add up to zero.
LEMMA SumZero ==
  ASSUME NEW s \in Seq(Nat), \A i \in 1..Len(s) : s[i] = 0
  PROVE  SumSeq(s) = 0
<1> DEFINE n == Len(s)
<1>1. PICK G : Sums(s, G) /\ SumSeq(s) = G[n]
  BY SumSteps, Zenon
<1>2. n \in Nat /\ G[0] = 0 /\ \A u \in 0..n - 1 : G[u + 1] = G[u] + s[u + 1] /\ u + 1 \in 1..n
  BY <1>1 DEF Sums
<1> HIDE DEF n
<1> DEFINE T == {u \in 0..n : G[u] = 0}
<1>3. 0..n \subseteq T
  <2>1. 0 \in T
    BY <1>2
  <2>2. ASSUME NEW u \in 0..n - 1, u \in T PROVE u + 1 \in T
    <3>1. s[u + 1] = 0
      BY <1>2 DEF n
    <3>2. QED
      BY <1>2, <2>2, <3>1
  <2> HIDE DEF T
  <2>3. QED
    BY <1>2, <2>1, <2>2, InductionUpTo
<1>4. n \in 0..n
  BY <1>2
<1>5. QED
  BY <1>1, <1>3, <1>4

\* Only what is drawn from edges arrives at nodes.
LEMMA ArrivedSame ==
  ASSUME NEW f, NEW g, \A x \in Edges : f[x] = g[x], NEW nd
  PROVE  Arrived(f, nd) = Arrived(g, nd)
<1>1. \A i \in 1..Len(Links) : f[Links[i]] = g[Links[i]]
  BY LinksAre
<1>2. Onto(f, nd) = Onto(g, nd)
  BY <1>1 DEF Onto
<1>3. QED
  BY <1>2 DEF Arrived, Into

\* At first nothing was drawn, and one path waits behind the first node.
LEMMA ExactInit ==
  ASSUME Init
  PROVE  Counted /\ \E drawn : Exact(drawn)
<1>a. PICK drawn : drawn = [y \in Edges \cup {Out} |-> 0]
  OBVIOUS
<1>1. drawn \in [Edges \cup {Out} -> Nat] /\ \A y \in Edges \cup {Out} : drawn[y] = 0
  BY <1>a
<1>2. hidden = 0 /\ shown = <<>> /\ index = 0 /\ count \in Nat
  BY CountsAssumption DEF Init
<1>3. ASSUME NEW nd PROVE Into(drawn, nd) = 0
  <2> DEFINE s == Onto(drawn, nd)
  <2>1. s \in Seq(Nat) /\ Len(s) = Len(Links)
    BY <1>1, OntoIs
  <2>2. \A i \in 1..Len(Links) : drawn[Links[i]] = 0
    BY <1>1, LinksAre
  <2>3. \A i \in 1..Len(s) : s[i] = 0
    BY <2>1, <2>2 DEF Onto
  <2> HIDE DEF s
  <2>4. SumSeq(s) = 0
    BY <2>1, <2>3, SumZero
  <2>5. QED
    BY <2>4 DEF Into, s
<1>4. ASSUME NEW y \in Edges \cup {Out}
      PROVE  Weight(Line(y)) + drawn[y] = Arrived(drawn, y.src)
  <2>1. CASE y.src = 1
    <3>1. Line(y) = <<Start, None>> /\ <<Start, None>> = <<Start>> \o <<None>>
      BY <2>1, LineInit
    <3>2. Start \in Paths /\ None \in Paths /\ Stands(Start) = 1 /\ Stands(None) = 0
      BY StartIs
    <3>3. <<Start>> \in Seq(Paths) /\ <<None>> \in Seq(Paths)
      BY <3>2
    <3>4. Weight(<<Start>>) = 1 /\ Weight(<<None>>) = 0
      BY <3>2, WeightShort
    <3>5. Weight(Line(y)) = 1 + 0
      BY <3>1, <3>3, <3>4, WeightConcat
    <3>6. QED
      BY <1>1, <2>1, <3>5 DEF Arrived
  <2>2. CASE y.src # 1
    <3>1. Line(y) = <<>>
      BY <2>2, LineInit
    <3>2. QED
      BY <1>1, <1>3, <2>2, <3>1, WeightShort DEF Arrived
  <2>3. QED
    BY <2>1, <2>2
<1>5. Exact(drawn)
  BY <1>1, <1>2, <1>4, SideIs DEF Exact
<1>6. QED
  BY <1>2, <1>5 DEF Counted

\* Merging keeps the number of paths.
LEMMA ExactQuiet ==
  ASSUME NEW drawn, Exact(drawn), hidden' = hidden, shown' = shown,
         \A y \in Edges \cup {Out} : Merged(Line(y)', Line(y))
  PROVE  Exact(drawn)'
<1>1. ASSUME NEW y \in Edges \cup {Out} PROVE Weight(Line(y)') + drawn[y] = Arrived(drawn, y.src)
  <2>1. Weight(Line(y)') = Weight(Line(y))
    BY DEF Merged
  <2>2. Weight(Line(y)) + drawn[y] = Arrived(drawn, y.src)
    BY DEF Exact
  <2>3. QED
    BY <2>1, <2>2
<1>2. drawn \in [Edges \cup {Out} -> Nat] /\ drawn[Out] = hidden + Len(shown)
  BY DEF Exact
<1>3. QED
  BY <1>1, <1>2 DEF Exact, Weight, Standing, Arrived

\* What is drawn arrives at the next node, and waits behind it.
LEMMA ExactDraw ==
  ASSUME TypeInv, Tidy, NEW drawn, Exact(drawn), NEW x \in Edges, Draws(x),
         hidden' = hidden, shown' = shown
  PROVE  \E new : Exact(new)'
<1> DEFINE p == Head(Line(x))
           E == Extend(p, x, dead)
<1>1. drawn \in [Edges \cup {Out} -> Nat] /\ drawn[Out] = hidden + Len(shown)
  BY DEF Exact
<1>2. /\ Line(x) # <<>> /\ Line(x)' = Tail(Line(x))
      /\ \A y \in Edges \cup {Out} :
           y # x => Merged(Line(y)', IF y.src = x.dst THEN Append(Line(y), E) ELSE Line(y))
  BY DEF Draws
<1>3. \A y \in Edges \cup {Out} : Line(y) \in Seq(Paths) /\ Weight(Line(y)) \in Nat
  BY LineIs, WeightNat
<1>4. p \in Paths /\ Weight(Line(x)) = Stands(p) + Weight(Tail(Line(x)))
  <2> DEFINE s == Line(x)
  <2>1. s \in Seq(Paths) /\ s # <<>>
    BY <1>2, <1>3
  <2> HIDE DEF s
  <2>2. Head(s) \in Paths /\ Weight(s) = Stands(Head(s)) + Weight(Tail(s))
    BY <2>1, Beheaded
  <2>3. QED
    BY <2>2 DEF s
<1> HIDE DEF p
<1>5. E \in Paths /\ Stands(E) = Stands(p)
  BY <1>4, ExtendIs
<1> HIDE DEF E
<1>a. PICK c : c = Stands(p)
  OBVIOUS
<1>b. PICK new : new = [drawn EXCEPT ![x] = @ + c]
  OBVIOUS
<1>6. c \in Nat
  BY <1>4, <1>a, StandsNat
<1>7. /\ x.src # x.dst /\ x # Out /\ x.dst # 1 /\ Out \in Edges \cup {Out}
  BY EdgeIs, SideIs
<1>8. /\ new \in [Edges \cup {Out} -> Nat] /\ new[x] = drawn[x] + c
      /\ \A y \in Edges \cup {Out} : y # x => new[y] = drawn[y]
  BY <1>1, <1>6, <1>b
<1>d. drawn \in [Edges \cup {Out} -> Nat]
  BY <1>1
<1>9. \A nd : Arrived(new, nd) = Arrived(drawn, nd) + (IF nd = x.dst THEN c ELSE 0)
  <2>1. \A nd : Into(new, nd) = Into(drawn, nd) + (IF x.dst = nd THEN c ELSE 0)
    <3>1. \A nd : Into([drawn EXCEPT ![x] = @ + c], nd) = Into(drawn, nd) + (IF x.dst = nd THEN c ELSE 0)
      BY <1>d, <1>6, IntoGrows
    <3>2. QED
      BY <1>b, <3>1
  <2>2. QED
    BY <1>6, <1>7, <2>1 DEF Arrived
<1>10. ASSUME NEW y \in Edges \cup {Out} PROVE Weight(Line(y)') + new[y] = Arrived(new, y.src)
  <2>1. Weight(Line(y)) + drawn[y] = Arrived(drawn, y.src) /\ drawn[y] \in Nat /\ Weight(Line(y)) \in Nat
    BY <1>1, <1>3 DEF Exact
  <2>2. CASE y = x
    <3>1. Weight(Line(y)') + c = Weight(Line(y))
      <4>1. Weight(Tail(Line(x))) \in Nat
        <5>1. Tail(Line(x)) \in Seq(Paths)
          BY <1>2, <1>3
        <5>2. QED
          BY <5>1, WeightNat
      <4>2. Line(y)' = Tail(Line(x))
        BY <1>2, <2>2
      <4>3. Weight(Line(y)') = Weight(Tail(Line(x)))
        BY <4>2
      <4>4. PICK a : a = Weight(Tail(Line(x)))
        OBVIOUS
      <4>5. Weight(Line(y)) = c + a
        BY <1>4, <1>a, <2>2, <4>4
      <4>6. a + c = c + a
        BY <1>6, <4>1, <4>4
      <4>7. QED
        BY <4>3, <4>4, <4>5, <4>6
    <3>2. Weight(Line(y)') \in Nat
      <4>1. Tail(Line(x)) \in Seq(Paths)
        BY <1>2, <1>3
      <4>2. QED
        BY <1>2, <2>2, <4>1, WeightNat
    <3>3. Arrived(new, y.src) = Arrived(drawn, y.src)
      BY <1>7, <1>9, <2>1, <2>2
    <3>4. new[y] = drawn[y] + c
      BY <1>8, <2>2
    <3>5. QED
      BY <1>6, <2>1, <3>1, <3>2, <3>3, <3>4
  <2>3. CASE y # x /\ y.src = x.dst
    <3>1. Weight(Line(y)') = Weight(Append(Line(y), E))
      BY <1>2, <2>3 DEF Merged
    <3>2. Weight(Append(Line(y), E)) = Weight(Line(y)) + Weight(<<E>>)
      <4> DEFINE s == Line(y)
      <4>1. s \in Seq(Paths) /\ <<E>> \in Seq(Paths)
        BY <1>3, <1>5
      <4> HIDE DEF s
      <4>2. Append(s, E) = s \o <<E>>
        BY <4>1
      <4>3. QED
        BY <4>1, <4>2, WeightConcat DEF s
    <3>3. Weight(<<E>>) = c
      BY <1>5, <1>a, WeightShort
    <3>4. Arrived(new, y.src) = Arrived(drawn, y.src) + c /\ new[y] = drawn[y]
      BY <1>8, <1>9, <2>3
    <3>5. QED
      BY <1>6, <2>1, <3>1, <3>2, <3>3, <3>4
  <2>4. CASE y # x /\ y.src # x.dst
    <3>1. Weight(Line(y)') = Weight(Line(y))
      BY <1>2, <2>4 DEF Merged
    <3>2. Arrived(new, y.src) = Arrived(drawn, y.src) /\ new[y] = drawn[y]
      BY <1>8, <1>9, <2>1, <2>4
    <3>3. QED
      BY <2>1, <3>1, <3>2
  <2>5. QED
    BY <2>2, <2>3, <2>4
<1>11. new[Out] = drawn[Out]
  BY <1>7, <1>8
<1>12. Exact(new)'
  BY <1>1, <1>8, <1>10, <1>11 DEF Exact, Weight, Standing, Arrived
<1>13. QED
  BY <1>12

\* What is drawn from the last node is reported, or counted.
LEMMA ExactReport ==
  ASSUME TypeInv, Tidy, Known, ShownOk, Counted, NEW drawn, Exact(drawn), Reports
  PROVE  Counted' /\ \E new : Exact(new)'
<1> DEFINE s == Line(Out)
           p == Head(s)
           sat == p.kind = "possible" /\ Feasible(p.via)
<1>1. drawn \in [Edges \cup {Out} -> Nat] /\ drawn[Out] = hidden + Len(shown)
  BY DEF Exact
<1>2. /\ s # <<>> /\ s' = Tail(s) /\ \A y \in Edges : Line(y)' = Line(y)
      /\ index' = (IF sat THEN index + 1 ELSE index)
      /\ shown' = (IF sat THEN Append(shown, p.via) ELSE shown)
      /\ hidden' = (IF sat \/ p.kind = "none" THEN hidden ELSE hidden + p.count)
      /\ count' = count
  BY DEF Reports
<1>3. s \in Seq(Paths) /\ s \in Seq(Knowing(Out))
  BY LineIs DEF Known
<1>c. p \in Knowing(Out)
  BY <1>2, <1>3
<1> HIDE DEF s
<1>4. /\ p \in Paths /\ Weight(s) = Stands(p) + Weight(Tail(s)) /\ Tail(s) \in Seq(Paths)
  BY <1>2, <1>3, Beheaded
<1>5. p.kind = "possible" => p.count = 1
  BY <1>c DEF Knowing
<1>a. PICK c : c = Stands(p)
  OBVIOUS
<1>b. PICK new : new = [drawn EXCEPT ![Out] = @ + c]
  OBVIOUS
<1>6. c \in Nat /\ p.count \in Nat /\ c = IF p.kind = "none" THEN 0 ELSE p.count
  BY <1>4, <1>a, StandsNat DEF Stands, Paths, PathType
<1>7. /\ new \in [Edges \cup {Out} -> Nat] /\ new[Out] = drawn[Out] + c
      /\ \A y \in Edges : new[y] = drawn[y]
  BY <1>1, <1>6, <1>b, SideIs
<1>8. \A nd : Arrived(new, nd) = Arrived(drawn, nd)
  BY <1>7, ArrivedSame
<1>9. Len(shown) \in Nat /\ Len(shown') = IF sat THEN Len(shown) + 1 ELSE Len(shown)
  BY <1>2 DEF ShownOk
<1>10. hidden \in Nat /\ index = Len(shown) /\ count \in Nat
  BY DEF Counted
<1>11. hidden' \in Nat /\ hidden' + Len(shown') = (hidden + Len(shown)) + c
  <2>1. CASE sat
    <3>1. p.kind = "possible"
      BY <2>1
    <3>2. c = 1
      BY <1>5, <1>6, <3>1
    <3>3. hidden' = hidden /\ Len(shown') = Len(shown) + 1
      BY <1>2, <1>9, <2>1
    <3>4. QED
      BY <1>9, <1>10, <3>2, <3>3
  <2>2. CASE ~sat
    <3>1. CASE p.kind = "none"
      BY <1>2, <1>6, <1>9, <1>10, <2>2, <3>1
    <3>2. CASE p.kind # "none"
      <4>1. hidden' = hidden + p.count /\ c = p.count /\ Len(shown') = Len(shown)
        BY <1>2, <1>6, <1>9, <2>2, <3>2, SMTT(30)
      <4>2. QED
        BY <1>6, <1>9, <1>10, <4>1, SMTT(30)
    <3>3. QED
      BY <3>1, <3>2
  <2>3. QED
    BY <2>1, <2>2
<1>12. Counted'
  BY <1>2, <1>9, <1>10, <1>11 DEF Counted
<1>13. ASSUME NEW y \in Edges \cup {Out} PROVE Weight(Line(y)') + new[y] = Arrived(new, y.src)
  <2>1. Weight(Line(y)) + drawn[y] = Arrived(drawn, y.src)
    BY DEF Exact
  <2>2. CASE y \in Edges
    BY <1>2, <1>7, <1>8, <2>1, <2>2
  <2>3. CASE y = Out
    <3>1. Weight(s') = Weight(Tail(s)) /\ Weight(Tail(s)) \in Nat /\ drawn[Out] \in Nat
      BY <1>1, <1>2, <1>4, WeightNat
    <3>2. Weight(s) + drawn[Out] = Arrived(new, y.src)
      BY <1>8, <2>1, <2>3 DEF s
    <3>3. Weight(s) = c + Weight(s')
      BY <1>2, <1>4, <1>a
    <3>4. Weight(s') + new[Out] = Arrived(new, y.src)
      BY <1>6, <1>7, <3>1, <3>2, <3>3
    <3>5. QED
      BY <2>3, <3>4 DEF s
  <2>4. QED
    BY <2>2, <2>3
<1>14. new[Out] = hidden' + Len(shown')
  BY <1>1, <1>7, <1>11
<1>15. Exact(new)'
  BY <1>7, <1>13, <1>14 DEF Exact, Weight, Standing, Arrived
<1>16. QED
  BY <1>12, <1>15

-----------------------------------------------------------------------------
(* Counting                                                                *)

\* What only holds `none' stands for no path.
LEMMA DrawnWeight ==
  ASSUME NEW s \in Seq(Paths), Drawn(s)
  PROVE  Weight(s) = 0
<1>1. Standing(s) \in Seq(Nat) /\ Len(Standing(s)) = Len(s)
  BY StandingIs
<1>2. \A i \in 1..Len(s) : Standing(s)[i] = 0
  BY DEF Drawn, Standing, Stands
<1>3. QED
  BY <1>1, <1>2, SumZero DEF Weight

\* The elements of sets that have none in common are counted set by set.
LEMMA CountParts ==
  ASSUME NEW s \in Seq(Nat), NEW P,
         \A i \in 1..Len(s) : IsFiniteSet(P[i]) /\ Cardinality(P[i]) = s[i],
         \A i, j \in 1..Len(s) : i # j => P[i] \cap P[j] = {}
  PROVE  LET all == UNION {P[i] : i \in 1..Len(s)}
         IN  IsFiniteSet(all) /\ Cardinality(all) = SumSeq(s)
<1> DEFINE n == Len(s)
           upto(u) == UNION {P[i] : i \in 1..u}
<1>1. PICK G : Sums(s, G) /\ SumSeq(s) = G[n]
  BY SumSteps, Zenon
<1>2. n \in Nat /\ G[0] = 0 /\ \A u \in 0..n - 1 : G[u + 1] = G[u] + s[u + 1] /\ u + 1 \in 1..n
  BY <1>1 DEF Sums
<1>3. /\ \A i \in 1..n : IsFiniteSet(P[i]) /\ Cardinality(P[i]) = s[i]
      /\ \A i, j \in 1..n : i # j => P[i] \cap P[j] = {}
  OBVIOUS
<1>4. upto(0) = {}
  OBVIOUS
<1>5. ASSUME NEW u \in 0..n - 1 PROVE upto(u + 1) = upto(u) \cup P[u + 1] /\ upto(u) \cap P[u + 1] = {}
  <2> HIDE DEF n
  <2>1. /\ u \in Nat /\ u + 1 \in 1..n
        /\ \A i \in 1..u + 1 : i \in 1..u \/ i = u + 1
        /\ \A i \in 1..u : i \in 1..u + 1 /\ i \in 1..n /\ i # u + 1
        /\ u + 1 \in 1..u + 1
    BY <1>2
  <2>2. upto(u + 1) = upto(u) \cup P[u + 1]
    BY <2>1
  <2>3. upto(u) \cap P[u + 1] = {}
    BY <1>3, <2>1
  <2>4. QED
    BY <2>2, <2>3
<1> HIDE DEF n, upto
<1> DEFINE T == {u \in 0..n : IsFiniteSet(upto(u)) /\ Cardinality(upto(u)) = G[u]}
<1>6. 0..n \subseteq T
  <2>1. 0 \in T
    <3>1. IsFiniteSet(upto(0)) /\ Cardinality(upto(0)) = 0
      BY <1>4, FS_EmptySet, Zenon
    <3>2. 0 \in 0..n
      BY <1>2
    <3>3. QED
      BY <1>2, <3>1, <3>2
  <2>2. ASSUME NEW u \in 0..n - 1, u \in T PROVE u + 1 \in T
    <3>1. /\ IsFiniteSet(upto(u)) /\ Cardinality(upto(u)) = G[u]
          /\ IsFiniteSet(P[u + 1]) /\ Cardinality(P[u + 1]) = s[u + 1]
          /\ u + 1 \in 0..n /\ G[u + 1] = G[u] + s[u + 1]
      BY <1>2, <1>3, <2>2
    <3>2. /\ IsFiniteSet(upto(u) \cup P[u + 1])
          /\ Cardinality(upto(u) \cup P[u + 1])
               = Cardinality(upto(u)) + Cardinality(P[u + 1]) - Cardinality(upto(u) \cap P[u + 1])
      BY <3>1, FS_Union
    <3>3. Cardinality(upto(u) \cap P[u + 1]) = 0
      BY <1>5, FS_EmptySet
    <3>4. Cardinality(upto(u)) \in Nat /\ Cardinality(P[u + 1]) \in Nat
      BY <3>1, FS_CardinalityType
    <3>a. IsFiniteSet(upto(u + 1))
      BY <1>5, <3>2
    <3>b. Cardinality(upto(u + 1)) = Cardinality(upto(u)) + Cardinality(P[u + 1])
      <4>1. Cardinality(upto(u + 1))
              = Cardinality(upto(u)) + Cardinality(P[u + 1]) - Cardinality(upto(u) \cap P[u + 1])
        BY <1>5, <3>2
      <4>2. QED
        BY <3>3, <3>4, <4>1
    <3>5. IsFiniteSet(upto(u + 1)) /\ Cardinality(upto(u + 1)) = G[u + 1]
      BY <3>1, <3>a, <3>b
    <3>6. QED
      BY <3>1, <3>5
  <2> HIDE DEF T
  <2>3. QED
    BY <1>2, <2>1, <2>2, InductionUpTo
<1>7. n \in 0..n
  BY <1>2
<1>8. IsFiniteSet(upto(n)) /\ Cardinality(upto(n)) = SumSeq(s)
  BY <1>1, <1>6, <1>7
<1>9. QED
  BY <1>8 DEF n, upto

\* the ways W, and one more edge
Along(W, x) == {Append(w, x) : w \in W}

\* Along one more edge lead as many ways as lead to its source.
LEMMA CountLonger ==
  ASSUME NEW S, NEW W, W \subseteq Seq(S), IsFiniteSet(W), NEW x \in S
  PROVE  IsFiniteSet(Along(W, x)) /\ Cardinality(Along(W, x)) = Cardinality(W)
<1> DEFINE more == {Append(w, x) : w \in W}
           f == [w \in W |-> Append(w, x)]
<1>1. ASSUME NEW v \in W, NEW w \in W, Append(v, x) = Append(w, x) PROVE v = w
  <2>1. v \in Seq(S) /\ w \in Seq(S)
    OBVIOUS
  <2>2. Front(Append(v, x)) = v /\ Front(Append(w, x)) = w
    BY <2>1, Longer
  <2>3. QED
    BY <1>1, <2>2
<1>2. f \in Bijection(W, more)
  <2>1. f \in [W -> more]
    OBVIOUS
  <2>2. \A v, w \in W : f[v] = f[w] => v = w
    BY <1>1
  <2>3. \A t \in more : \E w \in W : f[w] = t
    OBVIOUS
  <2> HIDE DEF f, more
  <2>4. QED
    BY <2>1, <2>2, <2>3 DEF Bijection, Injection, Surjection, IsInjective
<1> HIDE DEF f, more
<1>3. ExistsBijection(W, more)
  BY <1>2 DEF ExistsBijection
<1>4. QED
  BY <1>3, FS_Bijection DEF more, Along

\* The ways to a node are as many as those to the sources of its edges.
LEMMA CountStep ==
  ASSUME NEW f, \A x \in Edges : f[x] \in Nat, NEW nd \in Nodes, nd # 1,
         \A x \in Edges : x.dst = nd =>
           IsFiniteSet(WaysTo(x.src)) /\ Cardinality(WaysTo(x.src)) = f[x]
  PROVE  IsFiniteSet(WaysTo(nd)) /\ Cardinality(WaysTo(nd)) = Into(f, nd)
<1> DEFINE Via(x) == Along(WaysTo(x.src), x)
           n == Len(Links)
           s == Onto(f, nd)
           P == [i \in 1..n |-> IF Links[i].dst = nd THEN Via(Links[i]) ELSE {}]
<1>1. s \in Seq(Nat) /\ Len(s) = n
  BY OntoIs
<1>2. \A i \in 1..n : s[i] = IF Links[i].dst = nd THEN f[Links[i]] ELSE 0
  BY DEF Onto
<1>3. ASSUME NEW x \in Edges, x.dst = nd PROVE IsFiniteSet(Via(x)) /\ Cardinality(Via(x)) = f[x]
  <2>1. /\ WaysTo(x.src) \subseteq Seq(Edges \cup {Entry}) /\ x \in Edges \cup {Entry}
        /\ IsFiniteSet(WaysTo(x.src)) /\ Cardinality(WaysTo(x.src)) = f[x]
    BY <1>3 DEF WaysTo
  <2>2. QED
    BY <2>1, CountLonger
<1>4. ASSUME NEW x \in Edges, NEW y \in Edges, x # y PROVE Via(x) \cap Via(y) = {}
  <2>1. ASSUME NEW z \in Edges, NEW v \in Via(z) PROVE Last(v) = z
    <3>1. PICK w \in WaysTo(z.src) : v = Append(w, z)
      BY DEF Along
    <3>2. w \in Seq(Edges \cup {Entry}) /\ z \in Edges \cup {Entry}
      BY DEF WaysTo
    <3> HIDE DEF Via
    <3>3. QED
      BY <3>1, <3>2, Longer
  <2> HIDE DEF Via
  <2>2. QED
    BY <1>4, <2>1
<1> HIDE DEF Via, s
<1>5. \A i \in 1..n : P[i] = IF Links[i].dst = nd THEN Via(Links[i]) ELSE {}
  OBVIOUS
<1>6. WaysTo(nd) = UNION {P[i] : i \in 1..n}
  <2>1. WaysTo(nd) = UNION {Via(x) : x \in ToSet(Pred(nd))}
    BY WaysStep DEF Via, Along
  <2>2. ToSet(Pred(nd)) = {x \in Edges : x.dst = nd}
    BY PredIs
  <2>3. /\ \A i \in 1..n : Links[i] \in Edges
        /\ \A x \in Edges : \E i \in 1..n : Links[i] = x
    BY LinksAre
  <2> HIDE DEF P, n
  <2>4. \A v \in WaysTo(nd) : \E i \in 1..n : v \in P[i]
    BY <1>5, <2>1, <2>2, <2>3
  <2>5. \A i \in 1..n : P[i] \subseteq WaysTo(nd)
    BY <1>5, <2>1, <2>2, <2>3
  <2>6. QED
    BY <2>4, <2>5
<1>7. ASSUME NEW i \in 1..n PROVE IsFiniteSet(P[i]) /\ Cardinality(P[i]) = s[i]
  <2> HIDE DEF P
  <2>1. Links[i] \in Edges
    BY LinksAre
  <2>2. CASE Links[i].dst = nd
    BY <1>2, <1>3, <1>5, <2>1, <2>2
  <2>3. CASE Links[i].dst # nd
    <3>1. P[i] = {} /\ s[i] = 0
      BY <1>2, <1>5, <2>3
    <3>2. QED
      BY <3>1, FS_EmptySet, Zenon
  <2>4. QED
    BY <2>2, <2>3
<1>8. ASSUME NEW i \in 1..n, NEW j \in 1..n, i # j PROVE P[i] \cap P[j] = {}
  <2> HIDE DEF P
  <2>1. Links[i] \in Edges /\ Links[j] \in Edges /\ Links[i] # Links[j]
    BY <1>8, LinksAre
  <2>2. QED
    BY <1>4, <1>5, <2>1
<1> HIDE DEF P, n
<1>9. IsFiniteSet(UNION {P[i] : i \in 1..n}) /\ Cardinality(UNION {P[i] : i \in 1..n}) = SumSeq(s)
  <2>1. /\ \A i \in 1..Len(s) : IsFiniteSet(P[i]) /\ Cardinality(P[i]) = s[i]
        /\ \A i, j \in 1..Len(s) : i # j => P[i] \cap P[j] = {}
    BY <1>1, <1>7, <1>8
  <2>2. QED
    BY <1>1, <2>1, CountParts, SMTT(30)
<1>10. QED
  BY <1>6, <1>9 DEF Into, s

\* If all that arrived was drawn from each edge, then each node was reached
\* once by every way to it.
LEMMA CountWays ==
  ASSUME NEW f, \A x \in Edges : f[x] \in Nat /\ f[x] = Arrived(f, x.src)
  PROVE  \A nd \in Nodes : IsFiniteSet(WaysTo(nd)) /\ Cardinality(WaysTo(nd)) = Arrived(f, nd)
<1> DEFINE Right(nd) == IsFiniteSet(WaysTo(nd)) /\ Cardinality(WaysTo(nd)) = Arrived(f, nd)
           T == {n \in Nat : \A nd \in Nodes : nd <= n => Right(nd)}
<1>1. 0 \in T
  BY GraphAssumption DEF Nodes
<1>2. ASSUME NEW n \in Nat, n \in T PROVE n + 1 \in T
  <2> HIDE DEF Right
  <2>1. ASSUME NEW nd \in Nodes, nd <= n + 1 PROVE Right(nd)
    <3>1. CASE nd = 1
      <4>1. IsFiniteSet({<<Entry>>}) /\ Cardinality({<<Entry>>}) = 1
        BY FS_Singleton, Zenon
      <4>2. QED
        BY <3>1, <4>1, FirstWay DEF Right, Arrived
    <3>2. CASE nd # 1
      <4>1. ASSUME NEW x \in Edges, x.dst = nd PROVE IsFiniteSet(WaysTo(x.src)) /\ Cardinality(WaysTo(x.src)) = f[x]
        <5>1. x.src \in Nodes /\ x.src < nd /\ x.src \in Nat /\ nd \in Nat
          BY <4>1, EdgeIs, GraphAssumption DEF Nodes
        <5>2. x.src <= n
          BY <2>1, <5>1
        <5>3. Right(x.src)
          BY <1>2, <5>1, <5>2
        <5>4. QED
          BY <5>3 DEF Right
      <4>2. IsFiniteSet(WaysTo(nd)) /\ Cardinality(WaysTo(nd)) = Into(f, nd)
        BY <3>2, <4>1, CountStep
      <4>3. QED
        BY <3>2, <4>2 DEF Right, Arrived
    <3>3. QED
      BY <3>1, <3>2
  <2>2. QED
    BY <2>1
<1> HIDE DEF T, Right
<1>3. Nat \subseteq T
  BY <1>1, <1>2, Induction
<1>4. ASSUME NEW nd \in Nodes PROVE Right(nd)
  <2>1. nd \in Nat /\ nd <= nd
    BY GraphAssumption DEF Nodes
  <2>2. QED
    BY <1>3, <2>1 DEF T
<1>5. QED
  BY <1>4 DEF Right

\* A sequence without repetitions has as many elements as places.
LEMMA CountOnce ==
  ASSUME NEW S, NEW s \in Seq(S), \A i, j \in 1..Len(s) : i < j => s[i] # s[j]
  PROVE  IsFiniteSet(ToSet(s)) /\ Cardinality(ToSet(s)) = Len(s)
<1> DEFINE n == Len(s)
<1>1. n \in Nat /\ DOMAIN s = 1..n
  OBVIOUS
<1>2. s \in [1..n -> ToSet(s)] /\ \A t \in ToSet(s) : \E i \in 1..n : s[i] = t
  BY <1>1, SeqFunction DEF ToSet
<1> HIDE DEF n
<1>3. \A i, j \in 1..n : s[i] = s[j] => i = j
  <2>1. ASSUME NEW i \in 1..n, NEW j \in 1..n, i # j PROVE s[i] # s[j]
    <3>1. i < j \/ j < i
      BY <1>1, <2>1
    <3>2. CASE i < j
      BY <3>2 DEF n
    <3>3. CASE j < i
      BY <3>3 DEF n
    <3>4. QED
      BY <3>1, <3>2, <3>3
  <2>2. QED
    BY <2>1
<1>4. s \in Bijection(1..n, ToSet(s))
  BY <1>1, <1>2, <1>3 DEF Bijection, Injection, Surjection, IsInjective
<1>5. ExistsBijection(1..n, ToSet(s))
  BY <1>4 DEF ExistsBijection
<1>6. Cardinality(ToSet(s)) = n
  BY <1>1, <1>5, FS_CountingElements
<1>7. IsFiniteSet(1..n)
  BY <1>1, FS_Interval
<1>8. IsFiniteSet(ToSet(s))
  BY <1>5, <1>7, FS_Bijection
<1>9. QED
  BY <1>6, <1>8 DEF n

\* The reports are counted, and so are the paths not reported.
LEMMA CountedNext ==
  ASSUME FewPaths, Inv, Tidy, Known, ShownOk, Counted, [Next]_vars,
         NEW drawn, Exact(drawn)
  PROVE  Counted'
<1>1. TypeInv
  BY DEF Inv
<1>2. CASE index' = index /\ count' = count /\ shown' = shown /\ hidden' = hidden
  BY <1>2 DEF Counted
<1>3. CASE Reports
  BY <1>1, <1>3, ExactReport
<1>4. QED
  BY <1>2, <1>3, Steps DEF Quiet, Drawing, Stops

-----------------------------------------------------------------------------
(* Every path is accounted for                                             *)

\* Nothing got lost and nothing was counted twice so far.
Settled ==
  /\ Kept
  /\ \E seen : Once(seen)
  /\ \E ended : Drained(ended)
  /\ \E drawn : Exact(drawn)

\* A step that does not end the search loses nothing.
LEMMA SettledNext ==
  ASSUME FewPaths, Inv, Tidy, Known, DeadOk, Dear, ShownOk, Counted, Settled, [Next]_vars
  PROVE  Settled' \/ Stops
<1>1. TypeInv
  BY DEF Inv
<1>2. PICK seen : Once(seen)
  BY DEF Settled
<1>3. PICK ended : Drained(ended)
  BY DEF Settled
<1>4. PICK drawn : Exact(drawn)
  BY DEF Settled
<1>5. index \in Nat /\ count \in Nat
  <2>1. Len(shown) \in Nat
    BY DEF ShownOk
  <2>2. QED
    BY <2>1 DEF Counted
<1>6. Kept' \/ Stops
  <2>1. shown \in Seq(Seq(Edges \cup {Entry}))
    <3> DEFINE G == {v \in WaysTo(FinNd) : Feasible(v)}
    <3>1. G \subseteq Seq(Edges \cup {Entry}) /\ shown \in Seq(G)
      BY DEF ShownOk, WaysTo
    <3> HIDE DEF G
    <3>2. QED
      BY <3>1, SeqWider
  <2>2. QED
    BY <2>1, KeptNext DEF Settled
<1>7. CASE Quiet
  <2>1. /\ \A y \in Edges \cup {Out} : Merged(Line(y)', Line(y))
        /\ count' = count /\ index' = index /\ done' = done /\ shown' = shown /\ hidden' = hidden
    BY <1>7 DEF Quiet
  <2>2. Once(seen)'
    BY <1>2, <2>1, OnceQuiet
  <2>3. Drained(ended)'
    BY <1>3, <2>1, DrainedQuiet
  <2>4. Exact(drawn)'
    BY <1>4, <2>1, ExactQuiet
  <2>5. (\E s : Once(s))' /\ (\E s : Drained(s))' /\ (\E s : Exact(s))'
    BY <2>2, <2>3, <2>4
  <2>6. QED
    BY <1>6, <2>5 DEF Settled
<1>8. ASSUME NEW x \in Edges, Drawing(x) PROVE Settled' \/ Stops
  <2>1. Draws(x) /\ count' = count /\ index' = index /\ done' = done /\ shown' = shown /\ hidden' = hidden
    BY <1>8 DEF Drawing
  <2>2. \E new : Once(new)'
    BY <1>1, <1>2, <2>1, OnceDraw
  <2>3. \E new : Drained(new)'
    BY <1>1, <1>3, <2>1, DrainedDraw
  <2>4. \E new : Exact(new)'
    BY <1>1, <1>4, <2>1, ExactDraw
  <2>5. QED
    BY <1>6, <2>2, <2>3, <2>4 DEF Settled
<1>9. CASE Reports
  <2>1. Once(seen)'
    BY <1>1, <1>2, <1>9, OnceReport
  <2>2. Drained(ended)'
    BY <1>1, <1>3, <1>5, <1>9, DrainedReport
  <2>3. \E new : Exact(new)'
    BY <1>1, <1>4, <1>9, ExactReport
  <2>4. (\E s : Once(s))' /\ (\E s : Drained(s))'
    BY <2>1, <2>2
  <2>5. QED
    BY <1>6, <2>3, <2>4 DEF Settled
<1>10. QED
  BY <1>7, <1>8, <1>9, Steps

\* Once all was drawn, nothing that can be taken waits.
LEMMA NoneWaits ==
  ASSUME NEW ended, Drained(ended), FinNd \in ended, Drawn(Line(Out)), NEW v \in WaysTo(FinNd)
  PROVE  ~Waiting(v)
<1>1. SUFFICES ASSUME NEW n \in 1..Len(v), Holds(Line(At(v, n + 1)), SubSeq(v, 1, n))
               PROVE  FALSE
  BY DEF Waiting
<1>2. At(v, n + 1) \in Edges \cup {Out}
  BY WayIs
<1>3. Drawn(Line(At(v, n + 1)))
  BY <1>2, AllEnded
<1>4. QED
  BY <1>1, <1>3 DEF Holds, Drawn

\* Then as many paths were reported or counted as there are.
LEMMA AllCounted ==
  ASSUME TypeInv, Tidy, NEW ended, Drained(ended), FinNd \in ended, Drawn(Line(Out)),
         NEW drawn, Exact(drawn)
  PROVE  IsFiniteSet(WaysTo(FinNd)) /\ Cardinality(WaysTo(FinNd)) = hidden + Len(shown)
<1>1. /\ drawn \in [Edges \cup {Out} -> Nat] /\ drawn[Out] = hidden + Len(shown)
      /\ \A y \in Edges \cup {Out} : Weight(Line(y)) + drawn[y] = Arrived(drawn, y.src)
  BY DEF Exact
<1>2. ASSUME NEW y \in Edges \cup {Out} PROVE drawn[y] \in Nat /\ drawn[y] = Arrived(drawn, y.src)
  <2>1. Line(y) \in Seq(Paths)
    BY LineIs
  <2>2. Drawn(Line(y))
    BY AllEnded
  <2>3. Weight(Line(y)) = 0
    BY <2>1, <2>2, DrawnWeight
  <2>4. drawn[y] \in Nat /\ 0 + drawn[y] = Arrived(drawn, y.src)
    BY <1>1, <2>3
  <2>5. QED
    BY <2>4
<1>3. \A x \in Edges : drawn[x] \in Nat /\ drawn[x] = Arrived(drawn, x.src)
  BY <1>2
<1>4. FinNd \in Nodes /\ Out \in Edges \cup {Out} /\ Out.src = FinNd
  BY GraphAssumption DEF Nodes, Out
<1>5. IsFiniteSet(WaysTo(FinNd)) /\ Cardinality(WaysTo(FinNd)) = Arrived(drawn, FinNd)
  BY <1>3, <1>4, CountWays
<1>6. QED
  BY <1>1, <1>2, <1>4, <1>5

\* The search ends by itself: every path was reported, or counted.
LEMMA AllThere ==
  ASSUME TypeInv, Tidy, Settled, ShownOk, Counted, done = TRUE, index < count
  PROVE  /\ ToSet(shown) = {v \in AllPaths : Feasible(v)}
         /\ Len(shown) = Cardinality(ToSet(shown))
         /\ hidden = Cardinality({v \in AllPaths : ~Feasible(v)})
<1> DEFINE all == WaysTo(FinNd)
           good == {v \in all : Feasible(v)}
           bad == {v \in all : ~Feasible(v)}
<1>1. PICK seen : Once(seen)
  BY DEF Settled
<1>2. PICK ended : Drained(ended)
  BY DEF Settled
<1>3. PICK drawn : Exact(drawn)
  BY DEF Settled
<1>4. FinNd \in ended /\ Drawn(Line(Out))
  BY <1>2 DEF Drained
<1>5. \A v \in all : ~Waiting(v)
  BY <1>2, <1>4, NoneWaits
<1>6. shown \in Seq(good)
  BY DEF ShownOk
<1>7. ToSet(shown) = good
  <2>1. good \subseteq ToSet(shown)
    BY <1>5 DEF Settled, Kept
  <2> HIDE DEF good
  <2>2. ToSet(shown) \subseteq good
    BY <1>6 DEF ToSet
  <2>3. QED
    BY <2>1, <2>2
<1>8. Cardinality(ToSet(shown)) = Len(shown)
  <2>1. \A i, j \in 1..Len(shown) : i < j => shown[i] # shown[j]
    BY <1>1 DEF Once
  <2> HIDE DEF good
  <2>2. QED
    BY <1>6, <2>1, CountOnce
<1>9. IsFiniteSet(all) /\ Cardinality(all) = hidden + Len(shown)
  BY <1>2, <1>3, <1>4, AllCounted
<1>10. bad = all \ good /\ all \cap good = good
  OBVIOUS
<1> HIDE DEF all, good, bad
<1>11. Cardinality(bad) = Cardinality(all) - Cardinality(good)
  <2>1. IsFiniteSet(all)
    BY <1>9
  <2>2. Cardinality(all \ good) = Cardinality(all) - Cardinality(all \cap good)
    BY <2>1, FS_Difference, Zenon
  <2>3. QED
    BY <1>10, <2>2
<1>12. hidden \in Nat /\ Len(shown) \in Nat
  BY <1>6 DEF Counted
<1>13. hidden = Cardinality(bad)
  BY <1>7, <1>8, <1>9, <1>11, <1>12
<1>14. AllPaths = all
  BY AllPathsIs DEF all
<1>15. QED
  BY <1>7, <1>8, <1>13, <1>14 DEF good, bad

\* Nothing got lost, until the search ends; then all is there.
AccountInv ==
  /\ Inv /\ Tidy /\ Known /\ DeadOk /\ Dear /\ ShownOk
  /\ Counted /\ Complete
  /\ Settled \/ pc = "over"

\* At first nothing was lost.
LEMMA AccountInit == Init => AccountInv
<1>1. SUFFICES ASSUME Init PROVE AccountInv
  OBVIOUS
<1>2. shown = <<>> /\ index = 0 /\ (pc = "over" => count = 0)
  <2>1. shown = <<>> /\ index = 0 /\ pc = IF count = 0 THEN "over" ELSE "pull"
    BY <1>1, Zenon DEF Init
  <2>2. QED
    BY <2>1
<1>3. ShownOk
  BY <1>2 DEF ShownOk
<1>4. Complete
  BY <1>2 DEF Complete
<1>5. Kept /\ DeadOk
  BY <1>1, KeptInit
<1>6. /\ \E seen : Once(seen)
      /\ \E ended : Drained(ended)
      /\ Counted /\ \E drawn : Exact(drawn)
  BY <1>1, OnceInit, DrainedInit, ExactInit, Zenon
<1>7. Settled
  BY <1>5, <1>6 DEF Settled
<1>8. Inv /\ Tidy /\ Known /\ Dear
  BY <1>1, InitInv, TidyInit, KnownInit, DearInit
<1>9. QED
  BY <1>3, <1>4, <1>5, <1>6, <1>7, <1>8 DEF AccountInv

\* What holds while the search goes on holds after it.
LEMMA AccountNext ==
  ASSUME FewPaths
  PROVE  AccountInv /\ [Next]_vars => AccountInv'
<1>1. SUFFICES ASSUME AccountInv, [Next]_vars PROVE AccountInv'
  OBVIOUS
<1>2. /\ Inv /\ Tidy /\ Known /\ DeadOk /\ Dear /\ ShownOk
      /\ Counted /\ Complete
      /\ Settled \/ pc = "over"
      /\ TypeInv
  BY <1>1 DEF AccountInv, Inv
<1>3. Inv' /\ Tidy' /\ Known' /\ DeadOk' /\ Dear' /\ ShownOk'
  BY <1>1, <1>2, NextInv, TidyNext, KnownNext, DeadNext, DearNext, ShownNext
<1>4. CASE pc = "over"
  <2>1. UNCHANGED vars
    BY <1>1, <1>4 DEF Next, Begin, Ascend, Descend, Draw, Sweep, Delegate, Check, Report, Close, Prune,
                      Swept, NextRound, Finished
  <2>2. /\ pc' = "over" /\ shown' = shown /\ hidden' = hidden /\ index' = index /\ count' = count
    BY <1>4, <2>1 DEF vars, search, round
  <2>3. Complete'
    BY <1>2, <1>4, <2>2 DEF Complete
  <2>4. Counted'
    BY <1>2, <2>2 DEF Counted
  <2>5. QED
    BY <1>3, <2>2, <2>3, <2>4 DEF AccountInv
<1>5. CASE pc # "over"
  <2>1. Settled
    BY <1>2, <1>5
  <2>2. Counted'
    BY <1>1, <1>2, <2>1, CountedNext DEF Settled
  <2>3. CASE Stops
    <3>1. /\ pc' = "over" /\ done = TRUE
          /\ shown' = shown /\ hidden' = hidden /\ index' = index /\ count' = count
      BY <2>3 DEF Stops
    <3>2. Complete'
      BY <1>2, <2>1, <3>1, AllThere DEF Complete
    <3>3. QED
      BY <1>3, <2>2, <3>1, <3>2 DEF AccountInv
  <2>4. CASE ~Stops
    <3>1. pc' # "over"
      BY <1>1, <1>2, <1>5, <2>4, Steps DEF Quiet, Drawing, Reports
    <3>2. Settled'
      BY <1>1, <1>2, <2>1, <2>4, SettledNext
    <3>3. Complete'
      BY <3>1 DEF Complete
    <3>4. QED
      BY <1>3, <2>2, <3>2, <3>3 DEF AccountInv
  <2>5. QED
    BY <2>3, <2>4
<1>6. QED
  BY <1>4, <1>5

\* When the search ends by itself, before -c paths were found, every path of
\* the program was accounted for exactly once: those a packet can take were
\* reported, the others counted (cfg::enumerate_by_packetrate).  No Steady here:
\* the costs decide on the order, not on what is found.
THEOREM NothingIsLost == ASSUME FewPaths PROVE Spec => []Complete
<1>1. AccountInv => Complete
  BY DEF AccountInv
<1>2. AccountInv /\ [Next]_vars => AccountInv'
  BY AccountNext
<1>3. QED
  BY <1>1, <1>2, AccountInit, PTL DEF Spec
=============================================================================
