-------------------------- MODULE CycleBoundProofs --------------------------
(***************************************************************************)
(* For every set of loop-free programs, "max cycles" is an upper bound of  *)
(* "cycles".  Comparing the two infos component by component does not work *)
(* as an induction: a waiting memory access that the analysis prices too   *)
(* high makes the condition codes look older than they are.  What is kept  *)
(* is weaker for cc (only whether it is zero matters) and exact enough for *)
(* mem, because only memory accesses depend on it and they reset it.       *)
(***************************************************************************)
EXTENDS CycleBound, TLAPS

\* i promises no more than what j finds
Sound(i, j) == i.mem <= j.mem /\ (i.cc > 0 => j.cc > 0)

Elapsed == [cc |-> sumcycles - lastcc, mem |-> sumcycles - lastmem]

\* what an instruction leaves behind when the path goes branchtrue
AfterOn(i, n, branchtrue) ==
  [cc  |-> IF n.writescc THEN 0 ELSE i.cc + Cycles(n, i, branchtrue),
   mem |-> IF n.type = "MEM" THEN 0 ELSE i.mem + Cycles(n, i, branchtrue)]

Weaker(i, j) == i.cc <= j.cc /\ i.mem <= j.mem

\* The edges the analysis is done with are closed under "earlier in the
\* topological order", the one it works on is the next one.
Ordered ==
  /\ \A e \in done : \A o \in Places(prog) : o.src < e.src => o \in done
  /\ ~Analysed => /\ edge \notin done
                  /\ \A o \in Places(prog) : o.src < edge.src => o \in done

\* Behind an edge that is done, each info follows from the one in front of it.
Chained(e, last) ==
  \A n \in 1..last - 1 : info[e][n + 1] = After(info[e][n], Code(prog, e)[n])

ChainsDone ==
  /\ \A e \in done : Chained(e, Len(Code(prog, e)))
  /\ ~Analysed => Chained(edge, pos)

\* No successor edge starts with more than the edge in front of it left.
LinksDone ==
  \A e \in done : \A s \in Out(prog, e.dst) :
    LET l == Len(Code(prog, e))
    IN  Weaker(info[s][1], After(info[e][l], Code(prog, e)[l]))

StartFresh == info[Entry][1] = Fresh

PathSound ==
  /\ sumcycles <= summaxcycles
  /\ Analysed => Sound(info[edge][pos], Elapsed)
  /\ ~Analysed => lastcc = sumcycles /\ lastmem = sumcycles

IInv == TypeOK /\ Ordered /\ ChainsDone /\ LinksDone /\ StartFresh /\ PathSound

-----------------------------------------------------------------------------
(* Costs                                                                   *)

\* A worse info never makes an instruction cheaper.
LEMMA CostMonotone ==
  ASSUME NEW n \in Instr, NEW b \in BOOLEAN,
         NEW i \in Info, NEW j \in Info, Sound(i, j)
  PROVE  /\ Cycles(n, j, b) <= Cycles(n, i, b)
         /\ Cycles(n, i, b) \in Nat /\ Cycles(n, j, b) \in Nat
BY DEF Instr, Info, Sound, Cycles, CostTrueEarly, CostTrue, CostFalse

\* The analysis does not know which way a branch goes and assumes the
\* cheaper one; that keeps the info sound for both.
LEMMA AfterSound ==
  ASSUME NEW n \in Instr, NEW b \in BOOLEAN,
         NEW i \in Info, NEW j \in Info, Sound(i, j)
  PROVE  Sound(After(i, n), AfterOn(j, n, b))
BY DEF Instr, Info, Sound, After, AfterOn, Cycles, CostTrueEarly, CostTrue, CostFalse

LEMMA AfterType ==
  ASSUME NEW n \in Instr, NEW i \in Info
  PROVE  After(i, n) \in Info
BY DEF Instr, Info, After, Cycles, CostTrueEarly, CostTrue, CostFalse

LEMMA MergeWeaker ==
  ASSUME NEW i \in Info, NEW j \in Info
  PROVE  /\ Merge(i, j) \in Info
         /\ Weaker(Merge(i, j), i) /\ Weaker(Merge(i, j), j)
BY DEF Info, Merge, Least, Weaker

LEMMA WeakerSound ==
  ASSUME NEW i \in Info, NEW j \in Info, NEW k \in Info, Weaker(i, j), Sound(j, k)
  PROVE  Sound(i, k)
BY DEF Info, Weaker, Sound

\* what IsProgram says of the instruction the cursor is at
LEMMA HereType ==
  ASSUME TypeOK
  PROVE  /\ Here \in Instr
         /\ info[edge][pos] \in Info
         /\ Len(Code(prog, edge)) \in Nat \ {0}
         /\ Elapsed \in Info
<1> IsProgram(prog)
  BY ProgramsAssumption DEF TypeOK
<1>1. edge.dst \in 1..prog.size
  BY DEF TypeOK, Places, Entry, IsProgram
<1>2. Code(prog, edge) \in Seq(Instr)
  BY <1>1 DEF Code, IsProgram
<1>3. info[edge] \in Seq(Info) /\ Len(info[edge]) = Len(Code(prog, edge))
  BY DEF TypeOK
<1>4. Elapsed \in Info
  BY DEF TypeOK, Elapsed, Info
<1>5. Code(prog, edge) # <<>>
  BY <1>1 DEF Code, IsProgram
<1> QED
  BY <1>2, <1>3, <1>4, <1>5 DEF TypeOK, Here

\* The places of a program, and how long the code behind them is.
LEMMA CodeType ==
  ASSUME NEW p \in Programs, NEW e \in Places(p)
  PROVE  /\ Code(p, e) \in Seq(Instr)
         /\ Len(Code(p, e)) \in Nat \ {0}
         /\ e.src \in Nat /\ e.dst \in Nat /\ e.src < e.dst
<1> IsProgram(p)
  BY ProgramsAssumption
<1>1. e.dst \in 1..p.size /\ e.src \in Nat /\ e.dst \in Nat /\ e.src < e.dst
  BY DEF Places, Entry, IsProgram
<1>2. Code(p, e) \in Seq(Instr) /\ Code(p, e) # <<>>
  BY <1>1 DEF Code, IsProgram
<1> QED
  BY <1>1, <1>2

-----------------------------------------------------------------------------
(* The invariant                                                           *)

LEMMA InitIInv == Init => IInv
<1> SUFFICES ASSUME Init PROVE IInv
  OBVIOUS
<1> USE NumbersAssumption DEF Init
<1>1. Entry \in Places(prog) /\ \A e \in Places(prog) : e.src \in Nat
  BY CodeType DEF Places
<1>2. \A e \in Places(prog) : /\ info[e] \in Seq(Info)
                              /\ Len(info[e]) = Len(Code(prog, e))
  <2> TAKE e \in Places(prog)
  <2>1. Len(Code(prog, e)) \in Nat
    BY CodeType
  <2>2. Fresh \in Info /\ Never \in Info
    BY DEF Fresh, Never, Info
  <2> DEFINE s == [n \in 1..Len(Code(prog, e)) |-> IF e = Entry THEN Fresh ELSE Never]
  <2>3. s \in Seq(Info) /\ Len(s) = Len(Code(prog, e))
    BY <2>1, <2>2
  <2> QED
    BY <2>3
<1>3. Len(Code(prog, Entry)) \in Nat \ {0}
  BY CodeType, <1>1
<1>4. TypeOK
  <2>1. info \in [Places(prog) -> Seq(Info)]
    BY <1>2
  <2> QED
    BY <1>1, <1>2, <1>3, <2>1 DEF TypeOK
<1>5. Ordered
  BY <1>1, <1>4, CodeType DEF Ordered, Entry
<1>6. ChainsDone
  BY DEF ChainsDone, Chained
<1>7. LinksDone /\ StartFresh
  BY <1>1, <1>3 DEF LinksDone, StartFresh
<1>8. ~Analysed
  BY <1>1 DEF Analysed
<1> QED
  BY <1>4, <1>5, <1>6, <1>7, <1>8 DEF IInv, PathSound

\* an instruction further on behind the same edge
LEMMA PropagateIInv == IInv /\ Propagate => IInv'
<1> SUFFICES ASSUME IInv, Propagate PROVE IInv'
  OBVIOUS
<1> USE DEF IInv
<1>1. /\ After(info[edge][pos], Here) \in Info
      /\ Len(Code(prog, edge)) \in Nat \ {0}
  BY HereType, AfterType
<1>2. pos + 1 \in 1..Len(Code(prog, edge))
  BY <1>1 DEF TypeOK, Propagate, IsLast
<1>3. info[edge] \in Seq(Info) /\ Len(info[edge]) = Len(Code(prog, edge))
  BY DEF TypeOK
<1>4. /\ info'[edge] \in Seq(Info) /\ Len(info'[edge]) = Len(Code(prog, edge))
      /\ info'[edge][pos + 1] = After(info[edge][pos], Here)
      /\ \A n \in 1..Len(Code(prog, edge)) : n # pos + 1 => info'[edge][n] = info[edge][n]
  BY <1>1, <1>2, <1>3 DEF TypeOK, Propagate
<1>5. \A e \in Places(prog) : e # edge => info'[e] = info[e]
  BY DEF TypeOK, Propagate
<1>6. UNCHANGED <<prog, done, edge, sums>> /\ pos' = pos + 1 /\ ~Analysed /\ ~Analysed'
  BY DEF Propagate, Analysed
<1>7. TypeOK'
  <2>1. info' \in [Places(prog) -> Seq(Info)]
    BY <1>4, <1>5 DEF TypeOK, Propagate
  <2> QED
    BY <2>1, <1>2, <1>4, <1>5, <1>6 DEF TypeOK, sums
<1>8. Ordered'
  BY <1>6 DEF Ordered
<1>9. ChainsDone'
  <2>1. \A e \in done : Chained(e, Len(Code(prog, e)))'
    BY <1>5, <1>6 DEF ChainsDone, Chained, Ordered, TypeOK
  <2>2. Chained(edge, pos)'
    BY <1>2, <1>4, <1>6 DEF ChainsDone, Chained, Here, TypeOK
  <2> QED
    BY <2>1, <2>2, <1>6 DEF ChainsDone
<1>10. LinksDone' /\ StartFresh'
  <2>1. \A e \in Places(prog) : info'[e][1] = info[e][1]
    BY <1>2, <1>4, <1>5, <1>1, SMTT(30) DEF TypeOK
  <2>2. \A e \in done : info'[e] = info[e]
    BY <1>5, <1>6 DEF Ordered, TypeOK
  <2>3. \A e \in done : \A s \in Out(prog, e.dst) : info'[s][1] = info[s][1]
    BY <2>1 DEF Out, Places
  <2>4. info'[Entry][1] = info[Entry][1]
    BY <2>1 DEF Places
  <2> QED
    BY <2>2, <2>3, <2>4, <1>6 DEF LinksDone, StartFresh
<1>11. PathSound'
  BY <1>6 DEF PathSound, sums
<1> QED
  BY <1>7, <1>8, <1>9, <1>10, <1>11

\* the edges that follow an edge
LEMMA SpreadIInv == IInv /\ Spread => IInv'
<1> SUFFICES ASSUME IInv, Spread PROVE IInv'
  OBVIOUS
<1> USE DEF IInv
<1> DEFINE last == After(info[edge][pos], Here)
           Succ == Out(prog, edge.dst)
<1>1. last \in Info /\ info[edge][pos] \in Info
  BY HereType, AfterType
<1>2. /\ \A e \in Places(prog) : /\ info[e] \in Seq(Info)
                                /\ Len(info[e]) = Len(Code(prog, e))
                                /\ Len(Code(prog, e)) \in Nat \ {0}
                                /\ e.src \in Nat /\ e.dst \in Nat /\ e.src < e.dst
      /\ edge \in Places(prog) /\ Entry \in Places(prog)
      /\ \A e \in Places(prog) : e \in Succ => e.src = edge.dst
  BY CodeType DEF TypeOK, Places, Out
<1>3. /\ \A e \in Places(prog) \ Succ : info'[e] = info[e]
      /\ \A e \in Succ : /\ e \in Places(prog)
                          /\ info'[e] \in Seq(Info) /\ Len(info'[e]) = Len(info[e])
                          /\ info'[e][1] = Merge(info[e][1], last)
                          /\ \A n \in 2..Len(info[e]) : info'[e][n] = info[e][n]
  <2>1. \A e \in Places(prog) \ Succ : info'[e] = info[e]
    BY DEF Spread
  <2>2. ASSUME NEW e \in Succ
        PROVE  /\ e \in Places(prog)
               /\ info'[e] \in Seq(Info) /\ Len(info'[e]) = Len(info[e])
               /\ info'[e][1] = Merge(info[e][1], last)
               /\ \A n \in 2..Len(info[e]) : info'[e][n] = info[e][n]
    <3>1. e \in Places(prog)
      BY DEF Out, Places
    <3>2. info'[e] = [info[e] EXCEPT ![1] = Merge(info[e][1], last)]
      BY <3>1 DEF Spread
    <3>3. info[e][1] \in Info /\ 1 \in 1..Len(info[e]) /\ info[e] \in Seq(Info)
      BY <3>1, <1>2
    <3>4. Merge(info[e][1], last) \in Info
      BY <3>3, <1>1, MergeWeaker
    <3> QED
      BY <3>1, <3>2, <3>3, <3>4
  <2> QED
    BY <2>1, <2>2
<1>4. /\ prog' = prog /\ UNCHANGED sums /\ done' = done \cup {edge} /\ pos' = 1
      /\ edge \notin done /\ pos = Len(Code(prog, edge))
      /\ ~Analysed
  BY DEF Spread, IsLast, Ordered
<1>5. edge' \in Places(prog)
  BY <1>2 DEF Spread
\* the topological order at work: no edge that is done is touched again
<1>6. \A e \in done' : e \notin Succ
  <2> SUFFICES ASSUME NEW e \in done', e \in Succ PROVE FALSE
    OBVIOUS
  <2>1. e \in Places(prog) /\ e.src = edge.dst
    BY <1>3, <1>2
  <2>2. edge.src < e.src
    BY <2>1, <1>2
  <2>3. e # edge
    BY <2>2, <1>2
  <2> QED
    BY <2>2, <2>3, <1>2, <1>4 DEF Ordered
<1>7. TypeOK'
  <2>1. \A e \in Places(prog) : info'[e] \in Seq(Info) /\ Len(info'[e]) = Len(Code(prog, e))
    BY <1>2, <1>3
  <2>2. info' \in [Places(prog) -> Seq(Info)]
    BY <2>1 DEF Spread
  <2>3. pos' \in 1..Len(Code(prog, edge'))
    BY <1>2, <1>4, <1>5
  <2> QED
    BY <2>1, <2>2, <2>3, <1>2, <1>4, <1>5 DEF TypeOK, sums
<1>8. Ordered'
  <2>1. \A e \in done' : \A o \in Places(prog) : o.src < e.src => o \in done'
    BY <1>4 DEF Ordered
  <2>2. ASSUME done' # Places(prog)
        PROVE  edge' \notin done' /\ \A o \in Places(prog) : o.src < edge'.src => o \in done'
    <3>1. edge' \in Places(prog) \ done' /\ \A e \in Places(prog) \ done' : edge'.src <= e.src
      BY <2>2 DEF Spread
    <3> QED
      BY <3>1, <1>2
  <2> QED
    BY <2>1, <2>2, <1>4 DEF Ordered, Analysed
<1>9. ChainsDone'
  <2>1. \A e \in done' : info'[e] = info[e]
    BY <1>3, <1>4, <1>6, <1>2 DEF TypeOK
  <2>2. \A e \in done' : Chained(e, Len(Code(prog, e)))'
    BY <2>1, <1>4 DEF ChainsDone, Chained
  <2>3. Chained(edge, pos)'
    <3>1. pos' = 1
      BY DEF Spread
    <3> QED
      BY <3>1 DEF Chained
  <2> QED
    BY <2>2, <2>3, <1>4 DEF ChainsDone, Chained
<1>10. LinksDone'
  <2> SUFFICES ASSUME NEW e \in done', NEW s \in Out(prog, e.dst)
               PROVE  LET l == Len(Code(prog, e))
                      IN  Weaker(info'[s][1], After(info'[e][l], Code(prog, e)[l]))
    BY <1>4 DEF LinksDone
  <2> DEFINE l == Len(Code(prog, e))
             a == After(info[e][l], Code(prog, e)[l])
  <2>1. e \in Places(prog) /\ s \in Places(prog) /\ info'[e] = info[e]
    BY <1>2, <1>3, <1>4, <1>6 DEF TypeOK, Out, Places
  <2>2. info[s][1] \in Info
    BY <2>1, <1>2
  <2>3. CASE e = edge
    <3>1. a = last /\ s \in Succ
      BY <2>3, <1>4 DEF Here
    <3>2. Weaker(Merge(info[s][1], last), last)
      BY <2>2, <1>1, MergeWeaker
    <3> QED
      BY <3>1, <3>2, <1>3, <2>1
  <2>4. CASE e # edge
    <3>1. Weaker(info[s][1], a)
      BY <2>4, <1>4 DEF LinksDone
    <3>2. a \in Info
      <4>1. Code(prog, e) \in Seq(Instr)
        BY <2>1, CodeType DEF TypeOK
      <4>2. info[e][l] \in Info /\ Code(prog, e)[l] \in Instr
        BY <4>1, <2>1, <1>2
      <4> QED
        BY <4>2, AfterType
    <3>3. Weaker(info'[s][1], info[s][1]) /\ info'[s][1] \in Info
      <4>1. CASE s \in Succ
        BY <4>1, <2>2, <1>1, <1>3, MergeWeaker
      <4>2. CASE s \notin Succ
        <5>1. info'[s] = info[s]
          BY <4>2, <2>1, <1>3
        <5> QED
          BY <5>1, <2>2 DEF Weaker, Info
      <4> QED
        BY <4>1, <4>2
    <3>4. Weaker(info'[s][1], a)
      BY <3>1, <3>2, <3>3, <2>2, SMTT(30) DEF Weaker, Info
    <3> QED
      BY <3>4, <2>1
  <2> QED
    BY <2>3, <2>4
<1>11. StartFresh'
  <2>1. Entry \notin Succ
    BY <1>2 DEF Entry
  <2> QED
    BY <2>1, <1>2, <1>3 DEF StartFresh
<1>12. PathSound'
  <2>1. UNCHANGED <<summaxcycles, sumcycles, lastcc, lastmem>>
    BY <1>4 DEF sums
  <2>2. CASE done' = Places(prog)
    <3>1. edge' = Entry /\ pos' = 1
      BY <2>2 DEF Spread
    <3>2. info'[edge'][pos'] = Fresh
      BY <3>1, <1>11 DEF StartFresh
    <3> QED
      BY <3>2, <2>1, <1>4 DEF PathSound, Sound, Fresh, Elapsed, TypeOK
  <2>3. CASE done' # Places(prog)
    BY <2>1, <2>3, <1>4 DEF PathSound, Analysed
  <2> QED
    BY <2>2, <2>3
<1> QED
  BY <1>7, <1>8, <1>9, <1>10, <1>11, <1>12

\* What Apply does to the exact side: the infos it compares move as AfterOn
\* says, and the bound grows by no less than the exact sum.
LEMMA ApplySound ==
  ASSUME IInv, Analysed, NEW b \in BOOLEAN, Apply(Here, info[edge][pos], b)
  PROVE  /\ summaxcycles' \in Nat /\ sumcycles' \in Nat
         /\ lastcc' \in 0..sumcycles' /\ lastmem' \in 0..sumcycles'
         /\ sumcycles' <= summaxcycles'
         /\ Elapsed' \in Info
         /\ Sound(After(info[edge][pos], Here), Elapsed')
<1> USE DEF IInv
<1> DEFINE n == Here
           i == info[edge][pos]
           max == Cycles(n, i, b)
           c == Cycles(n, Elapsed, b)
<1>1. n \in Instr /\ i \in Info /\ Elapsed \in Info /\ Sound(i, Elapsed)
  BY HereType DEF PathSound
<1>2. c <= max /\ c \in Nat /\ max \in Nat
  BY <1>1, CostMonotone
<1>3. /\ summaxcycles' = summaxcycles + max
      /\ sumcycles' = sumcycles + c
      /\ lastmem' = IF n.type = "MEM" THEN sumcycles' ELSE lastmem
      /\ lastcc' = IF n.writescc THEN sumcycles' ELSE lastcc
  BY DEF Apply, Elapsed
<1> HIDE DEF n, i, c, max
<1>4. /\ summaxcycles \in Nat /\ sumcycles \in Nat
      /\ lastcc \in 0..sumcycles /\ lastmem \in 0..sumcycles
      /\ sumcycles <= summaxcycles
  BY DEF TypeOK, PathSound
<1>5. /\ summaxcycles' \in Nat /\ sumcycles' \in Nat
      /\ lastcc' \in 0..sumcycles' /\ lastmem' \in 0..sumcycles'
      /\ sumcycles' <= summaxcycles'
  BY <1>2, <1>3, <1>4
<1>6. Elapsed' = AfterOn(Elapsed, n, b)
  <2>1. sumcycles' - lastcc' = IF n.writescc THEN 0 ELSE (sumcycles - lastcc) + c
    BY <1>2, <1>3, <1>4
  <2>2. sumcycles' - lastmem' = IF n.type = "MEM" THEN 0 ELSE (sumcycles - lastmem) + c
    BY <1>2, <1>3, <1>4
  <2> QED
    BY <2>1, <2>2 DEF Elapsed, AfterOn, c
<1>7. Sound(After(i, n), Elapsed')
  BY <1>1, <1>6, AfterSound
<1>8. Elapsed' \in Info
  <2>1. \A now \in Nat : \A last \in 0..now : now - last \in Nat
    OBVIOUS
  <2>2. sumcycles' - lastcc' \in Nat /\ sumcycles' - lastmem' \in Nat
    BY <1>5, <2>1
  <2> QED
    BY <2>2 DEF Elapsed, Info
<1> QED
  BY <1>5, <1>7, <1>8 DEF n, i

LEMMA StepIInv == IInv /\ Step => IInv'
<1> SUFFICES ASSUME IInv, Step PROVE IInv'
  OBVIOUS
<1> USE DEF IInv
<1>1. UNCHANGED <<prog, info, done, edge>> /\ pos' = pos + 1 /\ Analysed /\ Analysed'
  BY DEF Step, Analysed, analysis
<1>2. pos + 1 \in 1..Len(Code(prog, edge)) /\ pos \in 1..Len(Code(prog, edge)) - 1
  BY HereType DEF TypeOK, Step, IsLast
<1>3. /\ summaxcycles' \in Nat /\ sumcycles' \in Nat
      /\ lastcc' \in 0..sumcycles' /\ lastmem' \in 0..sumcycles'
      /\ sumcycles' <= summaxcycles'
      /\ Sound(After(info[edge][pos], Here), Elapsed')
  BY ApplySound DEF Step
<1>4. info[edge][pos + 1] = After(info[edge][pos], Here)
  BY <1>1, <1>2 DEF ChainsDone, Chained, Here, Analysed, TypeOK
<1>5. TypeOK'
  BY <1>1, <1>2, <1>3 DEF TypeOK
<1>6. Ordered' /\ ChainsDone' /\ LinksDone' /\ StartFresh'
  BY <1>1 DEF Ordered, ChainsDone, Chained, LinksDone, StartFresh
<1>7. PathSound'
  BY <1>1, <1>3, <1>4 DEF PathSound
<1> QED
  BY <1>5, <1>6, <1>7

LEMMA ExtendIInv == IInv /\ (\E e \in prog.edges : Extend(e)) => IInv'
<1> SUFFICES ASSUME IInv, NEW e \in prog.edges, Extend(e) PROVE IInv'
  OBVIOUS
<1> USE DEF IInv
<1>1. /\ UNCHANGED <<prog, info, done>> /\ edge' = e /\ pos' = 1
      /\ Analysed /\ Analysed' /\ pos = Len(Code(prog, edge))
      /\ e \in Out(prog, edge.dst) /\ e \in Places(prog)
  BY DEF Extend, Analysed, analysis, IsLast, Places
<1>2. e.taken \in BOOLEAN
  BY ProgramsAssumption DEF TypeOK, IsProgram
<1>3. /\ summaxcycles' \in Nat /\ sumcycles' \in Nat
      /\ lastcc' \in 0..sumcycles' /\ lastmem' \in 0..sumcycles'
      /\ sumcycles' <= summaxcycles'
      /\ Elapsed' \in Info
      /\ Sound(After(info[edge][pos], Here), Elapsed')
  BY <1>2, ApplySound DEF Extend
<1>4. Weaker(info[e][1], After(info[edge][pos], Here))
  BY <1>1 DEF LinksDone, Here, Analysed, TypeOK
<1>5. /\ Len(Code(prog, e)) \in Nat \ {0}
      /\ info[e][1] \in Info /\ After(info[edge][pos], Here) \in Info
  BY <1>1, CodeType, HereType, AfterType DEF TypeOK
<1>6. Sound(info[e][1], Elapsed')
  BY <1>3, <1>4, <1>5, WeakerSound
<1>7. TypeOK'
  BY <1>1, <1>3, <1>5 DEF TypeOK
<1>8. Ordered' /\ ChainsDone' /\ LinksDone' /\ StartFresh'
  BY <1>1 DEF Ordered, ChainsDone, Chained, LinksDone, StartFresh
<1>9. PathSound'
  BY <1>1, <1>3, <1>6 DEF PathSound
<1> QED
  BY <1>7, <1>8, <1>9

LEMMA RestartIInv == IInv /\ Restart => IInv'
<1> SUFFICES ASSUME IInv, Restart PROVE IInv'
  OBVIOUS
<1> USE NumbersAssumption DEF IInv
<1>1. /\ UNCHANGED <<prog, info, done>> /\ edge' = Entry /\ pos' = 1
      /\ Analysed /\ Analysed' /\ Entry \in Places(prog)
  BY DEF Restart, Analysed, analysis, Places
<1>2. TypeOK'
  <2>1. Len(Code(prog, Entry)) \in Nat \ {0}
    BY <1>1, CodeType DEF TypeOK
  <2> QED
    BY <1>1, <2>1 DEF TypeOK, Restart
<1>3. Ordered' /\ ChainsDone' /\ LinksDone' /\ StartFresh'
  BY <1>1 DEF Ordered, ChainsDone, Chained, LinksDone, StartFresh
<1>4. PathSound'
  BY <1>1 DEF Restart, PathSound, Sound, StartFresh, Fresh, Elapsed
<1> QED
  BY <1>2, <1>3, <1>4

-----------------------------------------------------------------------------
(* The theorems                                                            *)

THEOREM Invariance == Spec => []IInv
<1>1. Init => IInv
  BY InitIInv
<1>2. IInv /\ [Next]_vars => IInv'
  <2>1. IInv /\ UNCHANGED vars => IInv'
    BY DEF vars, analysis, sums, IInv, TypeOK, Ordered, ChainsDone, Chained, LinksDone,
           StartFresh, PathSound, Sound, Elapsed, Analysed
  <2> QED
    BY <2>1, PropagateIInv, SpreadIInv, StepIInv, ExtendIInv, RestartIInv DEF Next
<1> QED
  BY <1>1, <1>2, PTL DEF Spec

\* The variables of the analysis and of a path keep their types: no last
\* write lies in the future, so the unsigned differences never wrap.
THEOREM TypeCorrect == Spec => []TypeOK
BY Invariance, PTL DEF IInv

\* For every loop-free program, "max cycles" of every path and prefix is at
\* least its exact "cycles" (cfg::overestimate_cycles, state::exec::apply).
THEOREM BoundSound == Spec => []Overestimate
<1>1. IInv => Overestimate
  BY DEF IInv, PathSound, Overestimate
<1> QED
  BY <1>1, Invariance, PTL

\* For every instruction behind every edge, the info computed by
\* overestimate_cycles() claims no more elapsed time than any path finds.
THEOREM InfosSound == Spec => []InfoSound
<1>1. IInv => InfoSound
  <2> SUFFICES ASSUME IInv, Analysed PROVE InfoSound
    BY DEF InfoSound
  <2> QED
    BY DEF IInv, PathSound, Sound, Elapsed, InfoSound, TypeOK
<1> QED
  BY <1>1, Invariance, PTL
=============================================================================
