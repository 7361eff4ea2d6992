---------------------- MODULE OrderedCompletionProofs ----------------------
(***************************************************************************)
(* Ordered completion for any finite set of workers, any number of jobs,   *)
(* items and scopes.  The pool's own invariant is taken over: every step   *)
(* of the composition is a step of the pool.  On top of it, the argument   *)
(* is that the index of an item is in one place only, as the jobs are:     *)
(* ahead of sync() with an item on its way, among the stored callbacks, or *)
(* behind `completed'.  Hence the one that finds index = completed is the  *)
(* only one, and a scope without anything on its way has delivered all.    *)
(***************************************************************************)
EXTENDS OrderedCompletion, ThreadPoolProofs

\* The places of a body are those of the pool's jobs, and of Main's inline
\* items; the one in its callback holds the guard.
Bodily ==
  /\ \A w \in Workers : body[w] # "none" <=> pc[w] = "run"
  /\ pc[Main] = "run" => body[Main] # "none"
  /\ body[Main] # "none" => pc[Main] \in {"idle", "run"}
  /\ \A t \in Threads : body[t] = "callback" <=> guard = t

\* nothing is on its way
Quiet ==
  /\ f = NoJob
  /\ \A t \in Threads : pc[t] \notin {"taken", "run"} /\ body[t] = "none"

Phases ==
  /\ phase = "open" =>
       pc[Main] \in {"idle", "run", "store", "kick", "slot", "slotwait"}
  /\ phase = "waiting" => \/ pc[Main] \in {"drain", "drainwait"}
                          \/ pc[Main] = "idle" /\ Quiet
  /\ phase = "closed" =>
       pc[Main] \in {"idle", "kickall", "join", "gone"} /\ Quiet
  /\ phase # "closed" => scope >= 1

\* A job that has not been run belongs to the scope that is open, and no two
\* jobs of one scope have the same index.
Captured ==
  /\ Len(closure) = submitted
  /\ \A j \in 1..submitted :
       /\ closure[j].scope <= scope
       /\ InFlight(j) => closure[j].scope = scope
       /\ closure[j].scope = scope => closure[j].index < started
  /\ \A j, k \in 1..submitted :
       j # k /\ closure[j].scope = closure[k].scope
         => closure[j].index # closure[k].index

\* an index whose callback is still to come and is not stored
Fresh(i) ==
  /\ completed <= i /\ i < started
  /\ i \notin DOMAIN results
  /\ guard # Nobody => i # completed

\* a job that has not passed sync()
Pending(j) ==
  /\ InFlight(j)
  /\ \A t \in Threads : job[t] = j => body[t] \in {"none", "compute", "sync"}

PendingFresh == \A j \in 1..submitted : Pending(j) => Fresh(closure[j].index)

\* Main's inline item: it will draw, or has drawn, an index of its own
Inline == pc[Main] = "idle" /\ body[Main] = "sync"

InlineFresh ==
  /\ pc[Main] = "idle" /\ body[Main] = "compute" => started < MaxItems
  /\ Inline =>
       /\ started >= 1 /\ Fresh(started - 1)
       /\ \A j \in 1..submitted :
            closure[j].scope = scope => closure[j].index < started - 1

\* what was delivered, is being delivered and is stored
Delivered ==
  /\ completed <= started
  /\ guard # Nobody => completed < started
  /\ \A i \in DOMAIN results :
       /\ results[i] = i
       /\ completed <= i /\ i < started
       /\ guard = Nobody => completed < i
  /\ Len(log) = completed + (IF guard = Nobody THEN 0 ELSE 1)
  /\ \A k \in 1..Len(log) : log[k] = [item |-> k - 1, arg |-> k - 1]

\* no index gets lost
Conserved ==
  \A i \in 0..MaxItems : completed <= i /\ i < started =>
    \/ i \in DOMAIN results
    \/ guard # Nobody /\ i = completed
    \/ \E j \in 1..submitted : Pending(j) /\ closure[j].scope = scope /\ closure[j].index = i
    \/ Inline /\ i = started - 1

OIInv ==
  /\ IInv /\ OCTypeOK /\ Bodily /\ Phases /\ Captured
  /\ PendingFresh /\ InlineFresh /\ Delivered /\ Conserved

-----------------------------------------------------------------------------

\* Whatever the composition does, the pool does one of its own steps.
LEMMA PoolSteps == [OCNext]_allVars => [Next]_vars
BY DEF OCNext, OCWorker, OCMain, Body, PoolOnly, StartJob, Compute, Sync,
       Callback, Return, Close, Open, IssueJob, IssueInline, WaitAll,
       DestroyPool, allVars, Next, Worker, MainInCall, Call, Threads

\* The completion state starts closed and the pool idle.
LEMMA InitOIInv == OCInit => OIInv
<1> SUFFICES ASSUME OCInit PROVE OIInv
  OBVIOUS
<1>1. IInv
  BY InitIInv DEF OCInit
<1>2. OCTypeOK
  BY <1>1, ItemsAssumption DEF IInv, OCInit, OCTypeOK, Bodies
<1>3. Bodily /\ Phases
  BY WorkersAssumption, NobodyAssumption
  DEF OCInit, Init, Bodily, Phases, Quiet, Threads
<1>4. Captured /\ PendingFresh /\ Delivered /\ Conserved
  BY DEF OCInit, Init, Captured, PendingFresh, Delivered, Conserved
<1>5. InlineFresh
  BY DEF OCInit, InlineFresh, Inline, Threads
<1>6. QED
  BY <1>1, <1>2, <1>3, <1>4, <1>5 DEF OIInv

-----------------------------------------------------------------------------
(* Steps of the pool alone                                                 *)


PoolStep ==
  \/ \E w \in Workers : PoolOnly(Enter(w)) \/ PoolOnly(Perform(w))
  \/ PoolOnly(Store) \/ PoolOnly(Kick) \/ PoolOnly(AwaitSlot)
  \/ PoolOnly(AwaitPerformed) \/ PoolOnly(KickAll) \/ PoolOnly(Join)
  \/ \E t \in Threads : PoolOnly(SpuriousWakeup(t))
  \/ DestroyPool

\* A job on its way stays on its way, and nobody starts or ends a body.
PoolFrame ==
  /\ UNCHANGED <<submitted, ocVars>>
  /\ \A t \in Threads : pc'[t] = "run" <=> pc[t] = "run"
  /\ pc[Main] = "idle" /\ phase # "closed" => pc'[Main] = "idle"
  /\ pc'[Main] = "idle" /\ pc[Main] # "idle" => body[Main] = "none"
  /\ \A j \in 1..submitted : InFlight(j)' <=> InFlight(j)
  /\ \A j \in 1..submitted : Pending(j)' <=> Pending(j)

\* No step of the pool loses or duplicates an item of the completion state.
LEMMA PoolStepFrame ==
  ASSUME OIInv, PoolStep
  PROVE  PoolFrame
<1>1. UNCHANGED <<submitted, ocVars>>
  BY DEF PoolStep, PoolOnly, DestroyPool, Enter, Perform, Store, Kick,
         AwaitSlot, AwaitPerformed, KickAll, Join, SpuriousWakeup, Destroy
<1>2. /\ \A t \in Threads : pc'[t] = "run" <=> pc[t] = "run"
      /\ pc[Main] = "idle" /\ phase # "closed" => pc'[Main] = "idle"
      /\ pc'[Main] = "idle" /\ pc[Main] # "idle" => body[Main] = "none"
  BY WorkersAssumption
  DEF OIInv, IInv, TypeOK, Bodily, PoolStep, PoolOnly, DestroyPool, Enter,
      Perform, AwaitJob, WakeMain, Store, Kick, AwaitSlot, AwaitPerformed,
      KickAll, Join, SpuriousWakeup, Destroy, Goto, Threads
<1>3. ASSUME NEW j \in 1..submitted
      PROVE  (InFlight(j)' <=> InFlight(j)) /\ (Pending(j)' <=> Pending(j))
  <2>1. j # NoJob /\ body' = body
    BY <1>1 DEF OIInv, IInv, TypeOK, NoJob, ocVars
  <2>2. ASSUME NEW w \in Workers, Enter(w) \/ Perform(w)
        PROVE  (InFlight(j)' <=> InFlight(j)) /\ (Pending(j)' <=> Pending(j))
    <3>1. /\ job[w] = NoJob /\ body[w] = "none"
          /\ pc'[Main] = "store" <=> pc[Main] = "store"
      BY <2>2, WorkersAssumption
      DEF OIInv, IInv, TypeOK, HasJob, Bodily, Enter, Perform, AwaitJob,
          WakeMain, Threads
    <3>2. CASE UNCHANGED <<f, job>>
      BY <1>1, <2>1, <3>1, <3>2 DEF InFlight, Pending
    <3>3. CASE f' = NoJob /\ job' = [job EXCEPT ![w] = f]
      BY <1>1, <2>1, <3>1, <3>3
      DEF OIInv, IInv, TypeOK, Distinct, InFlight, Pending, Threads
    <3>4. QED
      BY <2>2, <3>2, <3>3 DEF Enter, Perform, AwaitJob
  <2>3. CASE Store
    BY <1>1, <2>1, <2>3
    DEF OIInv, IInv, TypeOK, Slot, InFlight, Pending, Store, Goto, Threads
  <2>4. ASSUME \/ Kick \/ AwaitSlot \/ AwaitPerformed \/ KickAll \/ Join
               \/ Destroy \/ \E t \in Threads : SpuriousWakeup(t)
        PROVE  (InFlight(j)' <=> InFlight(j)) /\ (Pending(j)' <=> Pending(j))
    <3>1. /\ UNCHANGED <<f, job, submitted, body>>
          /\ pc'[Main] = "store" <=> pc[Main] = "store"
      BY <1>1, <2>1, <2>4, WorkersAssumption
      DEF OIInv, IInv, TypeOK, Kick, AwaitSlot, AwaitPerformed, KickAll, Join,
          Destroy, SpuriousWakeup, Goto, Threads
    <3>2. QED
      BY <3>1 DEF InFlight, Pending
  <2>5. QED
    BY <2>2, <2>3, <2>4 DEF PoolStep, PoolOnly, DestroyPool
<1>4. QED
  BY <1>1, <1>2, <1>3 DEF PoolFrame

\* The scope is closed only while nothing is on its way, and wait() is what
\* makes sure of it.
LEMMA PoolStepPhases ==
  ASSUME OIInv, PoolStep
  PROVE  Phases'
<1>1. UNCHANGED <<phase, scope, body>>
  BY DEF PoolStep, PoolOnly, DestroyPool, ocVars
<1>2. phase # "open" /\ Quiet => Quiet'
  BY <1>1, WorkersAssumption
  DEF OIInv, IInv, TypeOK, OCTypeOK, Phases, Quiet, PoolStep, PoolOnly, DestroyPool,
      Enter, Perform, AwaitJob, WakeMain, Store, Kick, AwaitSlot,
      AwaitPerformed, KickAll, Join, SpuriousWakeup, Destroy, Goto, Threads
<1>3. CASE phase = "open"
  <2>1. pc'[Main] \in {"idle", "run", "store", "kick", "slot", "slotwait"}
    BY <1>3, WorkersAssumption
    DEF OIInv, IInv, TypeOK, Phases, PoolStep, PoolOnly, DestroyPool, Enter,
        Perform, AwaitJob, WakeMain, Store, Kick, AwaitSlot, AwaitPerformed,
        KickAll, Join, SpuriousWakeup, Goto, Threads
  <2>2. QED
    BY <1>1, <1>3, <2>1 DEF OIInv, Phases
<1>4. CASE phase = "closed"
  <2>1. pc'[Main] \in {"idle", "kickall", "join", "gone"}
    BY <1>4, WorkersAssumption
    DEF OIInv, IInv, TypeOK, Phases, PoolStep, PoolOnly, DestroyPool, Enter,
        Perform, AwaitJob, WakeMain, Store, Kick, AwaitSlot, AwaitPerformed,
        KickAll, Join, SpuriousWakeup, Destroy, Goto, Threads
  <2>2. QED
    BY <1>1, <1>2, <1>4, <2>1 DEF OIInv, Phases
<1>5. CASE phase = "waiting"
  <2>1. CASE pc'[Main] \in {"drain", "drainwait"}
    BY <1>1, <1>5, <2>1 DEF OIInv, Phases
  <2>2. CASE pc[Main] = "idle" /\ Quiet
    <3>1. pc'[Main] = "idle"
      BY <1>5, <2>2, PoolStepFrame DEF PoolFrame
    <3>2. QED
      BY <1>1, <1>2, <1>5, <2>2, <3>1 DEF OIInv, Phases
  <2>3. CASE pc[Main] \in {"drain", "drainwait"} /\ pc'[Main] \notin {"drain", "drainwait"}
    <3>1. AwaitPerformed /\ pc'[Main] = "idle" /\ delegated = performed
      BY <1>5, <2>3, WorkersAssumption
      DEF OIInv, IInv, TypeOK, PoolStep, PoolOnly, DestroyPool, Enter,
          Perform, AwaitJob, WakeMain, Store, Kick, AwaitSlot, AwaitPerformed,
          KickAll, Join, SpuriousWakeup, Goto, Threads
    <3>2. Uncounted = {} /\ f = NoJob
      BY <3>1, UncountedFinite DEF OIInv, IInv, TypeOK, Accounting
    <3>3. Quiet'
      <4>1. UNCHANGED f /\ \A w \in Workers : pc'[w] = pc[w]
        BY <3>1, WorkersAssumption
        DEF OIInv, IInv, TypeOK, AwaitPerformed, Goto, Threads
      <4>2. \A w \in Workers : pc[w] \notin {"taken", "run"} /\ body[w] = "none"
        BY <3>2 DEF OIInv, Bodily, Uncounted
      <4>3. body[Main] = "none"
        BY <2>3 DEF OIInv, Bodily
      <4>4. QED
        BY <1>1, <3>1, <3>2, <4>1, <4>2, <4>3 DEF Quiet, Threads
    <3>4. QED
      BY <1>1, <1>5, <3>1, <3>3 DEF OIInv, Phases
  <2>4. QED
    BY <1>5, <2>1, <2>2, <2>3 DEF OIInv, Phases
<1>6. QED
  BY <1>3, <1>4, <1>5 DEF OIInv, OCTypeOK

\* What the pool does on its own leaves the completion state in order.
LEMMA PoolStepOIInv ==
  ASSUME OIInv, IInv', PoolStep
  PROVE  OIInv'
<1>1. PoolFrame
  BY PoolStepFrame
<1>2. OCTypeOK'
  BY <1>1 DEF OIInv, IInv, OCTypeOK, PoolFrame, ocVars
<1>3. Bodily'
  BY <1>1 DEF OIInv, Bodily, PoolFrame, ocVars, Threads, Phases, Quiet
<1>4. Phases'
  BY PoolStepPhases
<1>5. Captured'
  BY <1>1 DEF OIInv, Captured, PoolFrame, ocVars
<1>6. PendingFresh'
  BY <1>1 DEF OIInv, PendingFresh, Fresh, PoolFrame, ocVars
<1>7. InlineFresh' /\ (Inline' <=> Inline)
  <2>1. body[Main] # "none" => (pc'[Main] = "idle" <=> pc[Main] = "idle")
    BY <1>1 DEF OIInv, PoolFrame, Phases, Quiet, Threads
  <2>2. UNCHANGED <<submitted, started, completed, results, guard, closure, body, scope>>
    BY <1>1 DEF PoolFrame, ocVars
  <2>3. QED
    BY <2>1, <2>2 DEF OIInv, InlineFresh, Inline, Fresh
<1>8. Delivered'
  BY <1>1 DEF OIInv, Delivered, PoolFrame, ocVars
<1>9. Conserved'
  BY <1>1, <1>7 DEF OIInv, Conserved, PoolFrame, ocVars
<1>10. QED
  BY <1>2, <1>3, <1>4, <1>5, <1>6, <1>7, <1>8, <1>9 DEF OIInv

-----------------------------------------------------------------------------
(* The loop: a scope is opened, issues items, waits and is closed          *)

\* An element of a sequence is in the set the sequence is over.
LEMMA ElementIn ==
  ASSUME NEW S, NEW s \in Seq(S), NEW i \in 1..Len(s)
  PROVE  s[i] \in S
OBVIOUS

\* Each job submitted has a closure, with a scope and an index.
LEMMA ClosureTypes ==
  ASSUME OIInv
  PROVE  /\ submitted \in Nat /\ 1..submitted \subseteq Jobs
         /\ closure \in Seq(Captures) /\ Len(closure) = submitted
         /\ \A j \in 1..submitted :
              closure[j].scope \in Nat /\ closure[j].index \in Nat
<1>1. submitted \in Nat /\ 1..submitted \subseteq Jobs
  BY MaxJobsAssumption DEF OIInv, IInv, TypeOK, Jobs
<1>2. closure \in Seq(Captures) /\ Len(closure) = submitted
  BY DEF OIInv, OCTypeOK, Captured
<1>3. \A j \in 1..submitted : closure[j] \in Captures
  BY <1>2, ElementIn
<1>4. \A c \in Captures : c.scope \in Nat /\ c.index \in Nat
  BY ItemsAssumption DEF Captures
<1>5. QED
  BY <1>1, <1>2, <1>3, <1>4

\* Before the first scope nothing is on its way, and so is it after each.
LEMMA QuietFacts ==
  ASSUME OIInv, Quiet
  PROVE  /\ guard = Nobody
         /\ \A j \in Jobs : pc[Main] # "store" => ~InFlight(j)
<1>1. \A t \in Threads : job[t] = NoJob
  BY DEF OIInv, IInv, HasJob, Quiet
<1>2. guard = Nobody
  BY DEF OIInv, OCTypeOK, Bodily, Quiet
<1>3. QED
  BY <1>1, <1>2 DEF Quiet, InFlight, Jobs, NoJob

\* Open a scope: what the old ones issued is gone.
LEMMA OpenOIInv ==
  ASSUME OIInv, IInv', Open
  PROVE  OIInv'
<1> USE DEF Open
<1>1. /\ phase = "closed" /\ Quiet /\ guard = Nobody /\ pc[Main] = "idle"
      /\ body[Main] = "none" /\ submitted \in Nat /\ UNCHANGED vars
      /\ \A j \in 1..submitted : ~InFlight(j)
  <2>1. phase = "closed" /\ Quiet /\ pc[Main] = "idle" /\ body[Main] = "none"
    BY DEF OIInv, Phases, InCaller
  <2>2. submitted \in Nat /\ 1..submitted \subseteq Jobs
    BY MaxJobsAssumption DEF OIInv, IInv, TypeOK, Jobs
  <2>3. QED
    BY <2>1, <2>2, QuietFacts
<1>2. OCTypeOK'
  BY ItemsAssumption DEF OIInv, IInv, OCTypeOK
<1>3. Bodily' /\ Phases'
  BY <1>1 DEF OIInv, OCTypeOK, Bodily, Phases, vars
<1>4. \A j \in 1..submitted : ~InFlight(j)'
  BY <1>1 DEF InFlight, vars
<1>5. Captured'
  <2>1. UNCHANGED <<closure, submitted>> /\ Len(closure) = submitted
    BY DEF OIInv, Captured, vars
  <2>2. \A j \in 1..submitted : closure[j].scope \in Nat
    BY ClosureTypes
  <2>3. \A j \in 1..submitted : closure[j].scope <= scope'
    BY <2>2 DEF OIInv, OCTypeOK, Captured
  <2>4. \A j \in 1..submitted : closure[j].scope # scope'
    BY <2>2 DEF OIInv, OCTypeOK, Captured
  <2>5. QED
    BY <1>4, <2>1, <2>3, <2>4 DEF OIInv, Captured
<1>6. PendingFresh' /\ InlineFresh' /\ Delivered' /\ Conserved'
  BY <1>1, <1>4
  DEF PendingFresh, Pending, InlineFresh, Inline, Delivered, Conserved, vars
<1>7. QED
  BY <1>2, <1>3, <1>5, <1>6 DEF OIInv

\* The loop goes to wait(), and leaves the scope when it is back.
LEMMA WaitCloseOIInv ==
  ASSUME OIInv, IInv', WaitAll \/ Close
  PROVE  OIInv'
<1> USE DEF WaitAll, Close
<1>1. /\ UNCHANGED <<scope, started, completed, results, guard, closure, body, log>>
      /\ UNCHANGED <<f, job, submitted>>
      /\ body[Main] = "none" /\ pc[Main] = "idle"
      /\ pc'[Main] \in {"idle", "drain"}
      /\ \A w \in Workers : pc'[w] = pc[w]
  BY WorkersAssumption
  DEF OIInv, IInv, TypeOK, InCaller, Wait, Goto, vars, Threads
<1>2. OCTypeOK'
  BY <1>1 DEF OIInv, IInv, OCTypeOK
<1>3. Bodily'
  BY <1>1 DEF OIInv, Bodily, Threads
<1>4. Phases'
  <2>1. CASE WaitAll
    BY <1>1, <2>1 DEF OIInv, IInv, TypeOK, Phases, Wait, Goto, Threads
  <2>2. CASE Close
    BY <1>1, <2>2 DEF OIInv, Phases, Quiet, vars
  <2>3. QED
    BY <2>1, <2>2
<1>5. \A j \in 1..submitted : (InFlight(j)' <=> InFlight(j)) /\ (Pending(j)' <=> Pending(j))
  BY <1>1 DEF InFlight, Pending
<1>6. Captured' /\ PendingFresh'
  BY <1>1, <1>5 DEF OIInv, Captured, PendingFresh, Fresh
<1>7. InlineFresh' /\ ~Inline /\ ~Inline'
  BY <1>1 DEF InlineFresh, Inline
<1>8. Delivered' /\ Conserved'
  BY <1>1, <1>5, <1>7 DEF OIInv, Delivered, Conserved
<1>9. QED
  BY <1>2, <1>3, <1>4, <1>6, <1>7, <1>8 DEF OIInv

\* delegate(): the new job gets the next index, which no other job of the
\* scope has.  The index range is what the loop's items have to fit in.
LEMMA IssueJobOIInv ==
  ASSUME OIInv, IInv', IssueJob
  PROVE  OIInv'
<1>1. /\ phase = "open" /\ pc[Main] = "idle" /\ body[Main] = "none"
      /\ started < MaxItems /\ submitted' = submitted + 1 /\ started' = started + 1
      /\ submitted \in Nat /\ started \in Nat /\ scope \in 1..MaxScopes
      /\ job[Main] = NoJob /\ Main \in Threads
      /\ UNCHANGED <<phase, scope, completed, results, guard, log, f>>
  <2>1. phase = "open" /\ pc[Main] = "idle" /\ body[Main] = "none" /\ Main \in Threads
    BY DEF IssueJob, InCaller, Threads
  <2>2. submitted \in Nat /\ started \in Nat /\ scope \in 1..MaxScopes
    BY <2>1, ItemsAssumption, ClosureTypes DEF OIInv, OCTypeOK, Phases
  <2>3. job[Main] = NoJob
    BY <2>1 DEF OIInv, IInv, HasJob
  <2>4. QED
    BY <2>1, <2>2, <2>3 DEF IssueJob, Delegate
<1>2. NextIndex = started
  BY <1>1, ItemsAssumption DEF NextIndex
<1>3. /\ Len(closure) = submitted /\ Len(closure') = submitted'
      /\ closure' \in Seq(Captures)
      /\ closure'[submitted'] = [scope |-> scope, index |-> started]
      /\ \A j \in 1..submitted : closure'[j] = closure[j]
  <2>1. [scope |-> scope, index |-> started] \in Captures
    BY <1>1, ItemsAssumption DEF Captures
  <2>2. Len(closure) = submitted
    BY DEF OIInv, Captured
  <2>3. closure' = Append(closure, [scope |-> scope, index |-> started])
    BY <1>2 DEF IssueJob
  <2>4. QED
    BY <1>1, <2>1, <2>2, <2>3, ClosureTypes
<1>4. /\ body' \in [Threads -> Bodies]
      /\ \A t \in Workers : pc'[t] = pc[t] /\ job'[t] = job[t] /\ body'[t] = body[t]
      /\ \/ pc'[Main] = "run" /\ job'[Main] = submitted' /\ body'[Main] = "compute"
         \/ pc'[Main] = "store" /\ job'[Main] = NoJob /\ body'[Main] = "none"
  <2>1. /\ pc \in [Threads -> WorkerLabels \cup MainLabels]
        /\ job \in [Threads -> Jobs \cup {NoJob}] /\ body \in [Threads -> Bodies]
    BY DEF OIInv, IInv, TypeOK, OCTypeOK
  <2>2. body' \in [Threads -> Bodies]
    BY <2>1 DEF IssueJob, Bodies
  <2>3. QED
    BY <1>1, <2>1, <2>2, WorkersAssumption DEF IssueJob, Delegate, Goto, Threads
<1>5. OCTypeOK'
  <2>1. started' \in 0..MaxItems
    BY <1>1, ItemsAssumption
  <2>2. QED
    BY <1>1, <1>3, <1>4, <2>1 DEF OIInv, IInv, OCTypeOK, Captures
<1>6. Bodily'
  <2>1. Main \notin Workers /\ guard # Main
    BY <1>1, WorkersAssumption DEF OIInv, Bodily
  <2>2. QED
    BY <1>1, <1>4, <2>1 DEF OIInv, Bodily, Threads
<1>7. Phases'
  BY <1>1, <1>4 DEF OIInv, IInv, TypeOK, Phases
<1>8. \A j \in 1..submitted :
        (InFlight(j)' <=> InFlight(j)) /\ (Pending(j)' <=> Pending(j))
  <2> SUFFICES ASSUME NEW j \in 1..submitted
               PROVE  (InFlight(j)' <=> InFlight(j)) /\ (Pending(j)' <=> Pending(j))
    OBVIOUS
  <2>1. j # NoJob /\ j # submitted'
    BY <1>1 DEF NoJob
  <2>2. \A t \in Threads : job'[t] = j <=> job[t] = j
    BY <1>1, <1>4, <2>1 DEF Threads
  <2>3. \A t \in Threads : job[t] = j => body'[t] = body[t]
    BY <1>1, <1>4, <2>1 DEF Threads
  <2>4. QED
    BY <1>1, <2>1, <2>2, <2>3 DEF InFlight, Pending
<1>9. Captured'
  <2>1. \A j \in 1..submitted' :
          /\ closure'[j].scope <= scope'
          /\ InFlight(j)' => closure'[j].scope = scope'
          /\ closure'[j].scope = scope' => closure'[j].index < started'
    <3> SUFFICES ASSUME NEW j \in 1..submitted'
                 PROVE  /\ closure'[j].scope <= scope'
                        /\ InFlight(j)' => closure'[j].scope = scope'
                        /\ closure'[j].scope = scope' => closure'[j].index < started'
      OBVIOUS
    <3>1. CASE j \in 1..submitted
      BY <1>1, <1>3, <1>8, <3>1, ClosureTypes DEF OIInv, Captured
    <3>2. CASE j = submitted'
      BY <1>1, <1>3, <3>2
    <3>3. QED
      BY <1>1, <3>1, <3>2
  <2>2. \A j \in 1..submitted :
          closure[j].scope = scope => closure[j].index # started
    BY <1>1, ClosureTypes DEF OIInv, Captured
  <2>3. \A j, k \in 1..submitted' :
          j # k /\ closure'[j].scope = closure'[k].scope
            => closure'[j].index # closure'[k].index
    BY <1>1, <1>3, <2>2 DEF OIInv, Captured
  <2>4. QED
    BY <1>3, <2>1, <2>3 DEF Captured
<1>10. PendingFresh'
  <2> SUFFICES ASSUME NEW j \in 1..submitted', Pending(j)'
               PROVE  Fresh(closure[j].index)'
    BY DEF PendingFresh
  <2>1. CASE j \in 1..submitted
    BY <1>1, <1>3, <1>8, <2>1, ClosureTypes DEF OIInv, PendingFresh, Fresh
  <2>2. CASE j = submitted'
    <3>1. closure'[j].index = started
      BY <1>3, <2>2
    <3>2. /\ completed' <= started /\ started < started'
          /\ started \notin DOMAIN results'
          /\ guard' # Nobody => started # completed'
      BY <1>1 DEF OIInv, OCTypeOK, Delivered
    <3>3. QED
      BY <3>1, <3>2 DEF Fresh
  <2>3. QED
    BY <1>1, <2>1, <2>2
<1>11. InlineFresh' /\ ~Inline /\ ~Inline'
  BY <1>1, <1>4 DEF OIInv, IInv, TypeOK, InlineFresh, Inline
<1>12. Delivered'
  BY <1>1 DEF OIInv, OCTypeOK, Delivered
<1>13. Conserved'
  <2> SUFFICES ASSUME NEW i \in 0..MaxItems, completed' <= i, i < started'
               PROVE  \/ i \in DOMAIN results'
                      \/ guard' # Nobody /\ i = completed'
                      \/ \E j \in 1..submitted' : /\ Pending(j)'
                                                  /\ closure'[j].scope = scope'
                                                  /\ closure'[j].index = i
    BY DEF Conserved
  <2>1. CASE i < started
    BY <1>1, <1>3, <1>8, <1>11, <2>1 DEF OIInv, Conserved
  <2>2. CASE i = started
    <3>1. Pending(submitted)'
      <4>1. InFlight(submitted)'
        BY <1>1, <1>4 DEF InFlight
      <4>2. \A t \in Threads : job'[t] = submitted' => t = Main /\ body'[t] \in {"none", "compute"}
        BY <1>1, <1>4 DEF OIInv, IInv, Distinct, NoJob, Threads
      <4>3. QED
        BY <4>1, <4>2 DEF Pending
    <3>2. QED
      BY <1>1, <1>3, <2>2, <3>1
  <2>3. QED
    BY <1>1, <2>1, <2>2
<1>14. QED
  BY <1>5, <1>6, <1>7, <1>9, <1>10, <1>11, <1>12, <1>13 DEF OIInv

\* may_delegate() with may = false: Main computes the item itself.
LEMMA IssueInlineOIInv ==
  ASSUME OIInv, IInv', IssueInline
  PROVE  OIInv'
<1>1. /\ phase = "open" /\ pc[Main] = "idle" /\ body[Main] = "none"
      /\ started < MaxItems /\ job[Main] = NoJob
      /\ UNCHANGED <<vars, phase, scope, started, completed, results, guard, closure, log>>
  BY DEF OIInv, IInv, HasJob, IssueInline, InCaller, Threads
<1>2. /\ body \in [Threads -> Bodies] /\ body' \in [Threads -> Bodies]
      /\ body'[Main] = "compute" /\ \A w \in Workers : body'[w] = body[w]
  BY WorkersAssumption DEF OIInv, OCTypeOK, IssueInline, Bodies, Threads
<1>3. OCTypeOK'
  BY <1>1, <1>2 DEF OIInv, IInv, OCTypeOK
<1>4. Bodily' /\ Phases'
  BY <1>1, <1>2 DEF OIInv, Bodily, Phases, vars, Threads
<1>5. \A j \in 1..submitted :
        (InFlight(j)' <=> InFlight(j)) /\ (Pending(j)' <=> Pending(j))
  BY <1>1, <1>2 DEF InFlight, Pending, vars, Threads, NoJob
<1>6. Captured' /\ PendingFresh'
  BY <1>1, <1>5 DEF OIInv, Captured, PendingFresh, Fresh, vars
<1>7. InlineFresh' /\ ~Inline /\ ~Inline'
  BY <1>1, <1>2 DEF InlineFresh, Inline
<1>8. Delivered' /\ Conserved'
  BY <1>1, <1>5, <1>7 DEF OIInv, Delivered, Conserved, vars
<1>9. QED
  BY <1>3, <1>4, <1>6, <1>7, <1>8 DEF OIInv

-----------------------------------------------------------------------------
(* The body of an item                                                     *)

\* A worker starts the job it took.
LEMMA StartJobOIInv ==
  ASSUME OIInv, IInv', NEW w \in Workers, StartJob(w)
  PROVE  OIInv'
<1>1. /\ pc[w] = "taken" /\ body[w] = "none" /\ w \in Threads /\ w # Main
      /\ UNCHANGED <<phase, scope, started, completed, results, guard, closure, log>>
      /\ UNCHANGED <<f, job, submitted>>
  BY WorkersAssumption DEF OIInv, Bodily, StartJob, AckTaken, Threads
<1>2. /\ body' \in [Threads -> Bodies]
      /\ body'[w] = "compute" /\ \A t \in Threads : t # w => body'[t] = body[t]
  BY <1>1 DEF OIInv, OCTypeOK, StartJob, Bodies
<1>3. /\ pc'[w] = "run" /\ \A t \in Workers : t # w => pc'[t] = pc[t]
      /\ \/ pc'[Main] = pc[Main]
         \/ pc[Main] = "slotwait" /\ pc'[Main] = "slot"
  BY <1>1, WorkersAssumption
  DEF OIInv, IInv, TypeOK, StartJob, AckTaken, WakeMain, Threads
<1>4. OCTypeOK'
  BY <1>1, <1>2 DEF OIInv, IInv, OCTypeOK
<1>5. Bodily'
  BY <1>1, <1>2, <1>3 DEF OIInv, Bodily, Threads
<1>6. Phases'
  <2>1. ~Quiet
    BY <1>1 DEF Quiet
  <2>2. QED
    BY <1>1, <1>3, <2>1 DEF OIInv, Phases
<1>7. \A j \in 1..submitted :
        (InFlight(j)' <=> InFlight(j)) /\ (Pending(j)' <=> Pending(j))
  BY <1>1, <1>2, <1>3 DEF InFlight, Pending
<1>8. Captured' /\ PendingFresh'
  BY <1>1, <1>7 DEF OIInv, Captured, PendingFresh, Fresh
<1>9. InlineFresh' /\ (Inline' <=> Inline)
  BY <1>1, <1>2, <1>3 DEF OIInv, Fresh, InlineFresh, Inline, Threads
<1>10. Delivered' /\ Conserved'
  BY <1>1, <1>7, <1>9 DEF OIInv, Delivered, Conserved
<1>11. QED
  BY <1>4, <1>5, <1>6, <1>8, <1>9, <1>10 DEF OIInv

\* An inline item draws its index only when d() has returned; Main has not
\* issued anything meanwhile, so that it is the youngest one.
LEMMA ComputeOIInv ==
  ASSUME OIInv, IInv', NEW t \in Threads, Compute(t)
  PROVE  OIInv'
<1>1. /\ body[t] = "compute"
      /\ UNCHANGED <<vars, phase, scope, completed, results, guard, closure, log>>
      /\ started \in Nat /\ Main \in Threads
  BY DEF OIInv, OCTypeOK, Compute, Threads
<1>2. /\ body' \in [Threads -> Bodies]
      /\ body'[t] = "sync" /\ \A u \in Threads : u # t => body'[u] = body[u]
  BY DEF OIInv, OCTypeOK, Compute, Bodies
<1>3. pc[t] # "run" => t = Main /\ pc[Main] = "idle" /\ started < MaxItems
  BY <1>1, WorkersAssumption DEF OIInv, Bodily, InlineFresh, Threads
<1>4. started' = IF pc[t] = "run" THEN started ELSE started + 1
  BY DEF Compute
<1>5. OCTypeOK'
  <2>1. started' \in 0..MaxItems
    BY <1>1, <1>3, <1>4, ItemsAssumption DEF OIInv, OCTypeOK
  <2>2. QED
    BY <1>1, <1>2, <2>1 DEF OIInv, IInv, OCTypeOK
<1>6. Bodily'
  BY <1>1, <1>2 DEF OIInv, Bodily, vars, Threads
<1>7. Phases'
  BY <1>1 DEF OIInv, Phases, Quiet, vars
<1>8. \A j \in 1..submitted :
        (InFlight(j)' <=> InFlight(j)) /\ (Pending(j)' <=> Pending(j))
  BY <1>1, <1>2 DEF InFlight, Pending, vars
<1>9. Captured'
  BY <1>1, <1>4, <1>8, ClosureTypes DEF OIInv, Captured, vars
<1>10. PendingFresh'
  BY <1>1, <1>4, <1>8, ClosureTypes DEF OIInv, PendingFresh, Fresh, vars
<1>11. CASE pc[t] = "run"
  <2>1. InlineFresh' /\ (Inline' <=> Inline)
    BY <1>1, <1>2, <1>4, <1>11 DEF OIInv, Fresh, InlineFresh, Inline, vars
  <2>2. Delivered' /\ Conserved'
    BY <1>1, <1>4, <1>8, <1>11, <2>1 DEF OIInv, Delivered, Conserved, vars
  <2>3. QED
    BY <1>5, <1>6, <1>7, <1>9, <1>10, <2>1, <2>2 DEF OIInv
<1>12. CASE pc[t] # "run"
  <2>1. /\ t = Main /\ pc[Main] = "idle" /\ started' = started + 1
        /\ UNCHANGED <<pc, submitted>>
    BY <1>1, <1>3, <1>4, <1>12 DEF vars
  <2>2. Delivered'
    BY <1>1, <2>1 DEF OIInv, OCTypeOK, Delivered
  <2>3. InlineFresh' /\ Inline' /\ ~Inline
    <3>1. Inline' /\ ~Inline /\ body'[Main] # "compute"
      BY <1>1, <1>2, <2>1 DEF Inline
    <3>2. Fresh(started - 1)'
      BY <1>1, <2>1 DEF OIInv, OCTypeOK, Delivered, Fresh
    <3>3. \A j \in 1..submitted : closure[j].scope = scope => closure[j].index < started
      BY DEF OIInv, Captured
    <3>4. QED
      BY <1>1, <2>1, <3>1, <3>2, <3>3 DEF InlineFresh, Fresh
  <2>4. Conserved'
    <3> SUFFICES ASSUME NEW i \in 0..MaxItems, completed <= i, i < started
                 PROVE  \/ i \in DOMAIN results
                        \/ guard # Nobody /\ i = completed
                        \/ \E j \in 1..submitted :
                             Pending(j) /\ closure[j].scope = scope /\ closure[j].index = i
      BY <1>1, <1>8, <2>1, <2>3 DEF Conserved
    <3>1. QED
      BY <2>3 DEF OIInv, Conserved
  <2>5. QED
    BY <1>5, <1>6, <1>7, <1>9, <1>10, <2>2, <2>3, <2>4 DEF OIInv
<1>13. QED
  BY <1>11, <1>12

\* The body is over; its index has been settled before.
LEMMA ReturnOIInv ==
  ASSUME OIInv, IInv', NEW t \in Threads, Return(t)
  PROVE  OIInv'
<1>1. /\ body[t] = "returned"
      /\ UNCHANGED <<phase, scope, started, completed, results, guard, closure, log>>
      /\ UNCHANGED <<f, submitted>>
  BY DEF Return, Run, vars
<1>2. /\ body' \in [Threads -> Bodies]
      /\ body'[t] = "none" /\ \A u \in Threads : u # t => body'[u] = body[u]
  BY DEF OIInv, OCTypeOK, Return, Bodies
<1>3. \/ /\ pc[t] = "run" /\ job'[t] = NoJob
         /\ pc'[t] = (IF t = Main THEN "idle" ELSE "done")
         /\ \A u \in Threads : u # t => pc'[u] = pc[u] /\ job'[u] = job[u]
      \/ t = Main /\ pc[Main] = "idle" /\ UNCHANGED <<pc, job>>
  BY <1>1, WorkersAssumption
  DEF OIInv, IInv, TypeOK, Bodily, Return, Run, Goto, vars, Threads
<1>4. OCTypeOK'
  BY <1>1, <1>2 DEF OIInv, IInv, OCTypeOK
<1>5. Bodily'
  BY <1>1, <1>2, <1>3, WorkersAssumption DEF OIInv, Bodily, Threads
<1>6. Phases'
  <2>1. ~Quiet
    BY <1>1 DEF Quiet
  <2>2. pc'[Main] = pc[Main] \/ (pc[Main] = "run" /\ pc'[Main] = "idle")
    BY <1>3 DEF Threads
  <2>3. QED
    BY <1>1, <2>1, <2>2 DEF OIInv, Phases
<1>7. \A j \in 1..submitted : InFlight(j)' => InFlight(j)
  BY <1>1, <1>3 DEF InFlight, Threads, NoJob
<1>8. \A j \in 1..submitted : Pending(j)' <=> Pending(j)
  <2> SUFFICES ASSUME NEW j \in 1..submitted PROVE Pending(j)' <=> Pending(j)
    OBVIOUS
  <2>1. j # NoJob
    BY ClosureTypes DEF NoJob, Jobs
  <2>2. CASE job[t] # j
    BY <1>1, <1>2, <1>3, <2>1, <2>2 DEF Pending, InFlight, Threads
  <2>3. CASE job[t] = j
    <3>1. ~Pending(j)
      BY <1>1, <2>3 DEF Pending
    <3>2. job'[t] = NoJob /\ \A u \in Threads : u # t => job'[u] # j
      BY <1>3, <2>1, <2>3 DEF OIInv, IInv, HasJob, Distinct, Threads
    <3>3. f # j /\ ~(pc'[Main] = "store" /\ submitted = j)
      BY <1>3, <2>1, <2>3, WorkersAssumption DEF OIInv, IInv, Distinct, Threads
    <3>4. ~InFlight(j)'
      BY <1>1, <2>1, <3>2, <3>3 DEF InFlight
    <3>5. QED
      BY <3>1, <3>4 DEF Pending
  <2>4. QED
    BY <2>2, <2>3
<1>9. Captured' /\ PendingFresh'
  BY <1>1, <1>7, <1>8 DEF OIInv, Captured, PendingFresh, Fresh
<1>10. InlineFresh' /\ (Inline' <=> Inline)
  BY <1>1, <1>2, <1>3 DEF OIInv, Fresh, InlineFresh, Inline, Threads
<1>11. Delivered' /\ Conserved'
  BY <1>1, <1>8, <1>10 DEF OIInv, Delivered, Conserved
<1>12. QED
  BY <1>4, <1>5, <1>6, <1>9, <1>10, <1>11 DEF OIInv

\* The index that reaches sync() is fresh, and no other item on its way has it.
LEMMA OwnIndex ==
  ASSUME OIInv, NEW t \in Threads, body[t] = "sync"
  PROVE  /\ Item(t) \in 0..MaxItems /\ Fresh(Item(t))
         /\ \A k \in 1..submitted :
              Pending(k) /\ job[t] # k => closure[k].index # Item(t)
         /\ \A k \in 1..submitted :
              Pending(k) /\ job[t] = k => closure[k].index = Item(t)
         /\ Inline => (started - 1 = Item(t) <=> t = Main)
<1>1. CASE pc[t] = "run"
  <2> DEFINE j == job[t]
  <2>1. j \in 1..submitted
    <3>1. j \in Jobs /\ j <= submitted
      BY <1>1 DEF OIInv, IInv, TypeOK, HasJob, Distinct
    <3>2. QED
      BY <3>1, ClosureTypes DEF Jobs
  <2>2. Pending(j)
    <3>1. \A u \in Threads : job[u] = j => u = t
      BY <1>1 DEF OIInv, IInv, HasJob, Distinct
    <3>2. QED
      BY <3>1 DEF Pending, InFlight
  <2>3. Item(t) = closure[j].index
    BY <1>1 DEF Item
  <2>4. Fresh(closure[j].index) /\ closure[j].index \in Nat
    BY <2>1, <2>2, ClosureTypes DEF OIInv, PendingFresh
  <2>5. closure[j].scope = scope /\ closure[j].index \in 0..MaxItems
    BY <2>1, <2>2, <2>4, ItemsAssumption, SMTT(30) DEF OIInv, OCTypeOK, Captured, Pending, Fresh
  <2>6. \A k \in 1..submitted :
          Pending(k) /\ job[t] # k => closure[k].index # closure[j].index
    BY <2>1, <2>5 DEF OIInv, Captured, Pending
  <2>7. Inline => closure[j].index < started - 1
    BY <2>1, <2>5 DEF OIInv, InlineFresh
  <2>8. Inline => started - 1 # closure[j].index
    BY <2>4, <2>7 DEF OIInv, OCTypeOK
  <2>9. Inline => t # Main
    BY <1>1 DEF Inline
  <2>10. QED
    BY <2>3, <2>4, <2>5, <2>6, <2>8, <2>9
<1>2. CASE pc[t] # "run"
  <2>1. t = Main /\ Inline
    BY <1>2 DEF OIInv, Bodily, Inline, Threads
  <2>2. /\ started \in 1..MaxItems /\ Fresh(started - 1)
        /\ \A k \in 1..submitted : Pending(k) => closure[k].index < started - 1
    BY <2>1, ItemsAssumption DEF OIInv, OCTypeOK, InlineFresh, Captured, Pending
  <2>3. (started - 1) % IndexRange = started - 1
    BY <2>2, ItemsAssumption
  <2>4. Item(t) = started - 1
    BY <1>2, <2>3 DEF Item
  <2>5. job[t] = NoJob
    BY <2>1 DEF OIInv, IInv, HasJob, Inline, Threads
  <2>6. \A k \in 1..submitted :
          job[t] # k /\ (Pending(k) => closure[k].index # started - 1)
    BY <2>2, <2>5, ClosureTypes DEF NoJob, Jobs
  <2>7. QED
    BY <2>1, <2>2, <2>4, <2>6, ItemsAssumption
<1>3. QED
  BY <1>1, <1>2

\* Once an item has passed sync(), its job is no longer pending; the others
\* are not concerned.
LEMMA PassedSync ==
  ASSUME OIInv, NEW t \in Threads, body[t] = "sync",
         UNCHANGED <<vars, closure, scope>>,
         body' \in [Threads -> Bodies], body'[t] \in {"returned", "callback"},
         \A u \in Threads : u # t => body'[u] = body[u]
  PROVE  /\ \A k \in 1..submitted : InFlight(k)' <=> InFlight(k)
         /\ \A k \in 1..submitted :
              Pending(k)' <=> Pending(k) /\ closure[k].index # Item(t)
         /\ Inline' <=> Inline /\ t # Main
<1>1. \A k \in 1..submitted : InFlight(k)' <=> InFlight(k)
  BY DEF InFlight, vars
<1>2. \A k \in 1..submitted : Pending(k)' <=> (Pending(k) /\ job[t] # k)
  BY <1>1 DEF Pending, vars
<1>3. Inline' <=> Inline /\ t # Main
  BY DEF Inline, vars, Threads
<1>4. QED
  BY <1>1, <1>2, <1>3, OwnIndex

\* A log that numbers its entries goes on doing so.
LEMMA Numbered ==
  ASSUME NEW S, NEW l \in Seq(S), NEW n \in Nat, Len(l) = n,
         \A k \in 1..n : l[k] = [item |-> k - 1, arg |-> k - 1]
  PROVE  /\ Len(Append(l, [item |-> n, arg |-> n])) = n + 1
         /\ \A k \in 1..n + 1 :
              Append(l, [item |-> n, arg |-> n])[k] = [item |-> k - 1, arg |-> k - 1]
<1> DEFINE e == [item |-> n, arg |-> n]
<1>1. Len(Append(l, e)) = n + 1
  OBVIOUS
<1>2. \A k \in 1..n + 1 : Append(l, e)[k] = IF k <= n THEN l[k] ELSE e
  OBVIOUS
<1>3. QED
  BY <1>1, <1>2

\* sync() keeps the callback for later, or finds that it is its turn.
LEMMA SyncOIInv ==
  ASSUME OIInv, IInv', NEW t \in Threads, Sync(t)
  PROVE  OIInv'
<1> DEFINE i == Item(t)
<1>1. /\ body[t] = "sync" /\ guard = Nobody
      /\ UNCHANGED <<vars, phase, scope, started, completed, closure>>
  BY DEF Sync
<1>2. /\ i \in 0..MaxItems /\ Fresh(i)
      /\ completed \in Nat /\ started \in Nat /\ submitted \in Nat /\ Nobody # t
  BY <1>1, OwnIndex, ClosureTypes, NobodyAssumption DEF OIInv, OCTypeOK
<1>3. /\ body' \in [Threads -> Bodies] /\ body'[t] \in {"returned", "callback"}
      /\ \A u \in Threads : u # t => body'[u] = body[u]
      /\ body'[t] = "callback" <=> i <= completed
  BY <1>2 DEF OIInv, OCTypeOK, Sync, Bodies
<1> HIDE DEF i
<1>4. /\ \A k \in 1..submitted : InFlight(k)' <=> InFlight(k)
      /\ \A k \in 1..submitted : Pending(k)' <=> Pending(k) /\ closure[k].index # i
      /\ Inline' <=> Inline /\ t # Main
  BY <1>1, <1>3, PassedSync DEF i
<1>5. Inline' => started - 1 # i
  BY <1>1, <1>4, OwnIndex DEF i
<1>6. \/ /\ i > completed /\ guard' = guard /\ log' = log
         /\ DOMAIN results' = DOMAIN results \cup {i}
         /\ \A k \in DOMAIN results' : results'[k] = IF k = i THEN i ELSE results[k]
      \/ /\ i = completed /\ guard' = t /\ results' = results
         /\ log' = Append(log, [item |-> i, arg |-> i])
  BY <1>2 DEF Sync, Call_, Fresh, i
<1>7. OCTypeOK'
  <2>1. DOMAIN results' \subseteq 1..MaxItems
    BY <1>2, <1>6 DEF OIInv, OCTypeOK
  <2>2. log' \in Seq([item : 0..MaxItems, arg : 0..MaxItems])
    <3> DEFINE R == [item : 0..MaxItems, arg : 0..MaxItems]
    <3>1. [item |-> i, arg |-> i] \in R
      BY <1>2
    <3>2. log \in Seq(R)
      BY DEF OIInv, OCTypeOK
    <3> HIDE DEF R
    <3>3. log' \in Seq(R)
      BY <1>6, <3>1, <3>2
    <3>4. QED
      BY <3>3 DEF R
  <2>3. guard' \in Threads \cup {Nobody}
    BY <1>1, <1>6
  <2>4. QED
    BY <1>1, <1>3, <2>1, <2>2, <2>3 DEF OIInv, IInv, OCTypeOK
<1>8. Bodily'
  BY <1>1, <1>2, <1>3, <1>6, NobodyAssumption
  DEF OIInv, Bodily, vars, Threads
<1>9. Phases'
  <2>1. ~Quiet
    BY <1>1 DEF Quiet
  <2>2. QED
    BY <1>1, <2>1 DEF OIInv, Phases, vars
<1>10. Captured'
  BY <1>1, <1>4 DEF OIInv, Captured, vars
<1>11. PendingFresh'
  <2> SUFFICES ASSUME NEW k \in 1..submitted, Pending(k), closure[k].index # i
               PROVE  Fresh(closure[k].index)'
    BY <1>1, <1>4 DEF PendingFresh, vars
  <2>1. Fresh(closure[k].index)
    BY DEF OIInv, PendingFresh
  <2>2. QED
    BY <1>1, <1>6, <2>1 DEF Fresh
<1>12. InlineFresh'
  <2>1. pc[Main] = "idle" /\ body'[Main] = "compute" => body[Main] = "compute"
    BY <1>3 DEF Threads
  <2>2. Inline' => Fresh(started - 1)'
    BY <1>1, <1>4, <1>5, <1>6 DEF OIInv, InlineFresh, Fresh
  <2>3. QED
    BY <1>1, <1>4, <2>1, <2>2 DEF OIInv, InlineFresh, vars
<1>13. Delivered'
  <2>1. log \in Seq([item : 0..MaxItems, arg : 0..MaxItems])
    BY DEF OIInv, OCTypeOK
  <2>2. Len(log) = completed /\ \A k \in 1..completed : log[k] = [item |-> k - 1, arg |-> k - 1]
    BY <1>1, <1>2 DEF OIInv, Delivered
  <2>3. /\ Len(log') = completed' + (IF guard' = Nobody THEN 0 ELSE 1)
        /\ \A k \in 1..Len(log') : log'[k] = [item |-> k - 1, arg |-> k - 1]
    <3>1. CASE log' = log /\ guard' = guard
      BY <1>1, <1>2, <2>2, <3>1
    <3>2. CASE i = completed /\ guard' = t /\ log' = Append(log, [item |-> i, arg |-> i])
      BY <1>1, <1>2, <2>1, <2>2, <3>2, Numbered
    <3>3. QED
      BY <1>6, <3>1, <3>2
  <2>4. QED
    BY <1>1, <1>2, <1>6, <2>3 DEF OIInv, Delivered, Fresh
<1>14. Conserved'
  <2> SUFFICES ASSUME NEW k \in 0..MaxItems, completed <= k, k < started
               PROVE  \/ k \in DOMAIN results'
                      \/ guard' # Nobody /\ k = completed
                      \/ \E j \in 1..submitted :
                           Pending(j)' /\ closure[j].scope = scope /\ closure[j].index = k
                      \/ Inline' /\ k = started - 1
    BY <1>1 DEF Conserved, vars
  <2>1. CASE k = i
    BY <1>2, <1>6, <2>1
  <2>2. CASE k # i
    <3>1. \/ k \in DOMAIN results
          \/ \E j \in 1..submitted :
               Pending(j) /\ closure[j].scope = scope /\ closure[j].index = k
          \/ Inline /\ k = started - 1
      BY <1>1 DEF OIInv, Conserved
    <3>2. Inline /\ k = started - 1 => Inline'
      BY <1>1, <1>4, <2>2, OwnIndex DEF i
    <3>3. QED
      BY <1>4, <1>6, <2>2, <3>1, <3>2
  <2>3. QED
    BY <2>1, <2>2
<1>15. QED
  BY <1>7, <1>8, <1>9, <1>10, <1>11, <1>12, <1>13, <1>14 DEF OIInv

\* The thread under the guard counts its callback and goes on with the next
\* stored one, or leaves when there is none whose turn it is.
LEMMA CallbackOIInv ==
  ASSUME OIInv, IInv', NEW t \in Threads, Callback(t)
  PROVE  OIInv'
<1> DEFINE due == completed + 1
<1> DEFINE rest == DOMAIN results \ {completed}
<1>1. /\ body[t] = "callback" /\ guard = t /\ t # Nobody
      /\ completed' = due
      /\ DOMAIN results' = rest /\ \A k \in rest : results'[k] = results[k]
      /\ UNCHANGED <<vars, phase, scope, started, closure>>
  BY NobodyAssumption DEF OIInv, Bodily, Callback
<1>2. completed \in Nat /\ started \in 0..MaxItems /\ completed < started
  BY <1>1 DEF OIInv, OCTypeOK, Delivered
<1>3. \A k \in DOMAIN results : k \in 1..MaxItems /\ results[k] = k /\ completed <= k /\ k < started
  BY DEF OIInv, OCTypeOK, Delivered
<1>4. \/ /\ due \in rest /\ guard' = guard /\ body' = body
         /\ log' = Append(log, [item |-> due, arg |-> due])
      \/ /\ due \notin rest /\ guard' = Nobody /\ log' = log
         /\ body' = [body EXCEPT ![t] = "returned"]
  BY <1>3 DEF Callback, Call_
<1>5. /\ body' \in [Threads -> Bodies] /\ body'[t] \in {"returned", "callback"}
      /\ body'[t] = "callback" <=> guard' = t
      /\ \A u \in Threads : u # t => body'[u] = body[u]
  BY <1>1, <1>4 DEF OIInv, OCTypeOK, Bodies
<1>6. \A k \in 1..submitted :
        (InFlight(k)' <=> InFlight(k)) /\ (Pending(k)' <=> Pending(k))
  BY <1>1, <1>5 DEF InFlight, Pending, vars
<1>7. Inline' <=> Inline
  BY <1>1, <1>5 DEF Inline, vars, Threads
<1>8. ASSUME NEW i \in Nat, Fresh(i) PROVE Fresh(i)'
  BY <1>1, <1>2, <1>4, <1>8 DEF Fresh
<1>9. OCTypeOK'
  <2>1. completed' \in 0..MaxItems /\ DOMAIN results' \subseteq 1..MaxItems
    BY <1>1, <1>2, <1>3, ItemsAssumption
  <2>2. log' \in Seq([item : 0..MaxItems, arg : 0..MaxItems])
    <3> DEFINE R == [item : 0..MaxItems, arg : 0..MaxItems]
    <3>1. [item |-> due, arg |-> due] \in R
      BY <1>2, ItemsAssumption
    <3>2. log \in Seq(R)
      BY DEF OIInv, OCTypeOK
    <3> HIDE DEF R
    <3>3. log' \in Seq(R)
      BY <1>4, <3>1, <3>2
    <3>4. QED
      BY <3>3 DEF R
  <2>3. guard' \in Threads \cup {Nobody}
    BY <1>1, <1>4
  <2>4. QED
    BY <1>1, <1>5, <2>1, <2>2, <2>3 DEF OIInv, IInv, OCTypeOK
<1>10. Bodily'
  BY <1>1, <1>4, <1>5, NobodyAssumption DEF OIInv, Bodily, vars, Threads
<1>11. Phases'
  <2>1. ~Quiet
    BY <1>1 DEF Quiet
  <2>2. QED
    BY <1>1, <2>1 DEF OIInv, Phases, vars
<1>12. Captured' /\ PendingFresh'
  BY <1>1, <1>6, <1>8, ClosureTypes DEF OIInv, Captured, PendingFresh, vars
<1>13. InlineFresh'
  <2>1. pc[Main] = "idle" /\ body'[Main] = "compute" => body[Main] = "compute"
    BY <1>5 DEF Threads
  <2>2. Inline => started - 1 \in Nat /\ Fresh(started - 1)
    BY <1>2 DEF OIInv, InlineFresh
  <2>3. Inline => Fresh(started - 1)'
    BY <1>1, <1>2, <1>4, <2>2 DEF Fresh
  <2>4. QED
    BY <1>1, <1>7, <2>1, <2>3 DEF OIInv, InlineFresh, vars
<1>14. Delivered'
  <2>1. /\ log \in Seq([item : 0..MaxItems, arg : 0..MaxItems])
        /\ Len(log) = due
        /\ \A k \in 1..due : log[k] = [item |-> k - 1, arg |-> k - 1]
    BY <1>1, <1>2 DEF OIInv, OCTypeOK, Delivered
  <2>2. /\ Len(log') = completed' + (IF guard' = Nobody THEN 0 ELSE 1)
        /\ \A k \in 1..Len(log') : log'[k] = [item |-> k - 1, arg |-> k - 1]
    <3>1. CASE guard' = guard /\ log' = Append(log, [item |-> due, arg |-> due])
      BY <1>1, <1>2, <2>1, <3>1, Numbered
    <3>2. CASE guard' = Nobody /\ log' = log
      BY <1>1, <1>2, <2>1, <3>2
    <3>3. QED
      BY <1>4, <3>1, <3>2
  <2>3. guard' # Nobody => due \in rest
    BY <1>4
  <2>4. completed' <= started' /\ (guard' # Nobody => completed' < started')
    BY <1>1, <1>2, <1>3, <2>3
  <2>5. \A k \in DOMAIN results' :
          /\ results'[k] = k /\ completed' <= k /\ k < started'
          /\ guard' = Nobody => completed' < k
    BY <1>1, <1>2, <1>3, <1>4
  <2>6. QED
    BY <2>2, <2>4, <2>5 DEF Delivered
<1>15. Conserved'
  <2> SUFFICES ASSUME NEW k \in 0..MaxItems, due <= k, k < started
               PROVE  \/ k \in rest
                      \/ \E j \in 1..submitted :
                           Pending(j) /\ closure[j].scope = scope /\ closure[j].index = k
                      \/ Inline /\ k = started - 1
    BY <1>1, <1>6, <1>7 DEF Conserved, vars
  <2>1. completed < k /\ k # completed
    BY <1>2
  <2>2. QED
    BY <1>2, <2>1 DEF OIInv, Conserved
<1>16. QED
  BY <1>9, <1>10, <1>11, <1>12, <1>13, <1>14, <1>15 DEF OIInv

-----------------------------------------------------------------------------

\* Every step of the composition keeps each index in one place.
LEMMA OCNextOIInv == OIInv /\ [OCNext]_allVars => OIInv'
<1> SUFFICES ASSUME OIInv, [OCNext]_allVars PROVE OIInv'
  OBVIOUS
<1>1. IInv'
  BY PoolSteps, NextIInv DEF OIInv
<1>2. CASE PoolStep
  BY <1>1, <1>2, PoolStepOIInv
<1>3. ASSUME NEW t \in Threads, Body(t) PROVE OIInv'
  BY <1>1, <1>3, ComputeOIInv, SyncOIInv, CallbackOIInv, ReturnOIInv DEF Body
<1>4. ASSUME NEW w \in Workers, StartJob(w) PROVE OIInv'
  BY <1>1, <1>4, StartJobOIInv
<1>5. CASE Open \/ IssueJob \/ IssueInline \/ WaitAll \/ Close
  BY <1>1, <1>5, OpenOIInv, IssueJobOIInv, IssueInlineOIInv, WaitCloseOIInv
<1>6. CASE UNCHANGED allVars
  BY <1>6
  DEF allVars, vars, ocVars, OIInv, IInv, TypeOK, HasJob, Staffed, Slot,
      Distinct, Placement, InFlight, Accounting, Uncounted, Joined, OCTypeOK,
      Bodily, Phases, Quiet, Captured, PendingFresh, Pending, Fresh,
      InlineFresh, Inline, Delivered, Conserved
<1>7. QED
  BY <1>2, <1>3, <1>4, <1>5, <1>6
  DEF OCNext, OCWorker, OCMain, PoolStep, PoolOnly, Finished, allVars, Threads

THEOREM OCInvariance == OCSpec => []OIInv
BY InitOIInv, OCNextOIInv, PTL DEF OCSpec

\* The loops of cfg.cpp use the pool the way the pool is specified: one thread
\* calls it, one call at a time.
THEOREM PoolUsed == OCSpec => Init /\ [][Next]_vars
<1>1. OCInit => Init
  BY DEF OCInit
<1>2. QED
  BY <1>1, PoolSteps, PTL DEF OCSpec

\* sync() never leaves a callback behind whose turn has come.
THEOREM NoneStranded == OCSpec => []NoStrandedCallback
<1>1. OIInv => NoStrandedCallback
  BY DEF OIInv, OCTypeOK, Delivered, NoStrandedCallback
<1>2. QED
  BY <1>1, OCInvariance, PTL

\* Nothing of a scope is around once its ordered completion is destroyed.
THEOREM NoneAfterScope == OCSpec => []NoUseAfterScope
<1>1. OIInv => NoUseAfterScope
  <2> SUFFICES ASSUME OIInv, NEW t \in Threads,
                      pc[t] \in {"taken", "run"} \/ body[t] # "none"
               PROVE  /\ phase # "closed"
                      /\ pc[t] \in {"taken", "run"} => closure[job[t]].scope = scope
    BY DEF NoUseAfterScope
  <2>1. phase # "closed"
    BY DEF OIInv, Phases, Quiet
  <2>2. ASSUME pc[t] \in {"taken", "run"} PROVE closure[job[t]].scope = scope
    <3>1. job[t] \in 1..submitted
      BY <2>2, ClosureTypes DEF OIInv, IInv, TypeOK, HasJob, Distinct, Jobs
    <3>2. InFlight(job[t])
      BY DEF InFlight
    <3>3. QED
      BY <3>1, <3>2 DEF OIInv, Captured
  <2>3. QED
    BY <2>1, <2>2
<1>2. QED
  BY <1>1, OCInvariance, PTL

\* A scope that is closed has delivered all it issued.
LEMMA ClosedMeansDelivered ==
  ASSUME OIInv, phase = "closed", pc[Main] = "idle"
  PROVE  Len(log) = started
<1>1. Quiet /\ guard = Nobody /\ ~Inline
  BY QuietFacts DEF OIInv, Phases, Quiet, Inline, Threads
<1>2. \A j \in 1..submitted : ~Pending(j)
  BY <1>1, QuietFacts, ClosureTypes DEF Pending
<1>3. completed \in 0..MaxItems /\ started \in 0..MaxItems /\ completed <= started
  BY DEF OIInv, OCTypeOK, Delivered
<1>4. ~(completed < started)
  BY <1>1, <1>2, <1>3 DEF OIInv, Conserved, Delivered
<1>5. QED
  BY <1>1, <1>3, <1>4 DEF OIInv, Delivered

\* sync() delivers in the order of issue, each index once, to its own
\* callback, and a scope is left only when all of its items were delivered.
THEOREM DeliversInOrder ==
  OCSpec => Delivery!Init /\ [][Delivery!Next]_<<started, log>>
<1>1. OCInit => Delivery!Init
  BY DEF OCInit, Delivery!Init
<1>2. OIInv /\ OIInv' /\ [OCNext]_allVars => [Delivery!Next]_<<started, log>>
  <2> SUFFICES ASSUME OIInv, OIInv', [OCNext]_allVars, <<started, log>>' # <<started, log>>
               PROVE  Delivery!Next
    OBVIOUS
  <2>1. CASE Open
    <3>1. Len(log) = started
      BY <2>1, ClosedMeansDelivered DEF Open, InCaller
    <3>2. QED
      BY <2>1, <3>1 DEF Open, Delivery!Next, Delivery!Reopen
  <2>2. CASE IssueJob \/ \E t \in Threads : Compute(t)
    BY <2>2 DEF IssueJob, Compute, Delivery!Next, Delivery!Issue
  <2>3. CASE \E t \in Threads : Sync(t) \/ Callback(t)
    <3>1. started' = started
      BY <2>3 DEF Sync, Callback
    <3>2. \E i \in Nat : log' = Append(log, [item |-> i, arg |-> i])
      <4>1. ASSUME NEW t \in Threads, Sync(t)
            PROVE  \E i \in Nat : log' = Append(log, [item |-> i, arg |-> i])
        BY <3>1, <4>1, OwnIndex DEF Sync, Call_
      <4>2. ASSUME NEW t \in Threads, Callback(t)
            PROVE  \E i \in Nat : log' = Append(log, [item |-> i, arg |-> i])
        <5>1. completed + 1 \in DOMAIN results
          BY <3>1, <4>2 DEF Callback
        <5>2. results[completed + 1] = completed + 1 /\ completed \in Nat
          BY <5>1 DEF OIInv, OCTypeOK, Delivered
        <5>3. QED
          BY <3>1, <4>2, <5>2 DEF Callback, Call_
      <4>3. QED
        BY <2>3, <4>1, <4>2
    <3>3. PICK i \in Nat : log' = Append(log, [item |-> i, arg |-> i])
      BY <3>2
    <3>4. log \in Seq([item : 0..MaxItems, arg : 0..MaxItems])
      BY DEF OIInv, OCTypeOK
    <3>5. Len(log') = Len(log) + 1 /\ log'[Len(log')] = [item |-> i, arg |-> i]
      BY <3>3, <3>4
    <3>6. log'[Len(log')] = [item |-> Len(log), arg |-> Len(log)]
      BY <3>4, <3>5 DEF OIInv, Delivered
    <3>7. i = Len(log)
      BY <3>5, <3>6
    <3>8. Len(log') <= started'
      BY DEF OIInv, OCTypeOK, Delivered
    <3>9. Len(log) < started
      BY <3>1, <3>4, <3>5, <3>8 DEF OIInv, OCTypeOK
    <3>10. QED
      BY <3>1, <3>3, <3>7, <3>9 DEF Delivery!Next, Delivery!Deliver
  <2>4. QED
    BY <2>1, <2>2, <2>3
    DEF OCNext, OCWorker, OCMain, Body, PoolOnly, StartJob, Return, Close,
        IssueInline, WaitAll, DestroyPool, Finished, allVars, ocVars, Threads
<1>3. QED
  BY <1>1, <1>2, OCInvariance, PTL DEF OCSpec
=============================================================================
