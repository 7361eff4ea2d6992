-------------------------- MODULE ThreadPoolProofs --------------------------
(***************************************************************************)
(* Proofs about ThreadPool for any finite set of workers and any number of *)
(* jobs.  The inductive invariant says where every submitted job is: in    *)
(* Main's hands, in the slot, with exactly one thread, or run.             *)
(***************************************************************************)
EXTENDS ThreadPool, FiniteSetTheorems, TLAPS

\* a thread has a job exactly while it is between taking and finishing it
HasJob == \A t \in Threads : job[t] # NoJob <=> pc[t] \in {"taken", "run"}

\* the pool's threads are the ones that move
Staffed == \A w \in Workers : w \in threads <=> pc[w] # "absent"

\* The slot is full only while its delegate() call is under way; a pool
\* without threads never uses it.
Slot ==
  /\ f # NoJob => pc[Main] \in {"kick", "slot", "slotwait"} /\ f = submitted
  /\ pc[Main] = "store" => submitted # 0
  /\ pc[Main] = "run" => job[Main] = submitted

\* no two places hold the same job, and all of them were submitted
Distinct ==
  /\ \A t \in Threads : job[t] <= submitted
  /\ \A t, u \in Threads : job[t] # NoJob /\ job[t] = job[u] => t = u
  /\ \A t \in Threads : job[t] # NoJob =>
       /\ job[t] # f
       /\ pc[Main] = "store" => job[t] # submitted

\* where a job can be while it has been submitted and has not been run
InFlight(j) ==
  \/ f = j
  \/ \E t \in Threads : job[t] = j
  \/ pc[Main] = "store" /\ submitted = j

Placement ==
  \A j \in Jobs : ran[j] = IF j <= submitted /\ ~InFlight(j) THEN 1 ELSE 0

\* once everybody left, everybody really did
Joined == pc[Main] = "gone" => \A w \in threads : pc[w] = "exited"

IInv ==
  /\ TypeOK /\ HasJob /\ Staffed /\ Slot /\ Distinct /\ Placement
  /\ Accounting /\ Joined

-----------------------------------------------------------------------------

\* One worker joins, leaves or keeps its place among the uncounted ones.
LEMMA UncountedSteps ==
  ASSUME NEW U \in SUBSET Workers, NEW w \in Workers
  PROVE  /\ Cardinality(U) \in Nat
         /\ w \notin U => Cardinality(U \cup {w}) = Cardinality(U) + 1
         /\ w \in U => Cardinality(U \ {w}) = Cardinality(U) - 1
         /\ Cardinality(U) = 0 => U = {}
<1>1. IsFiniteSet(U)
  BY WorkersAssumption, FS_Subset
<1>2. QED
  BY <1>1, FS_CardinalityType, FS_AddElement, FS_RemoveElement, FS_EmptySet

\* There are finitely many of them, whatever the state.
LEMMA UncountedFinite ==
  /\ Uncounted \in SUBSET Workers
  /\ Cardinality(Uncounted) \in Nat
  /\ Cardinality(Uncounted) = 0 => Uncounted = {}
<1>1. Uncounted \in SUBSET Workers
  BY DEF Uncounted
<1>2. QED
  BY <1>1, WorkersAssumption, FS_Subset, FS_CardinalityType, FS_EmptySet

\* The constructor leaves nothing in flight.
LEMMA InitIInv == Init => IInv
<1> SUFFICES ASSUME Init PROVE IInv
  OBVIOUS
<1>1. TypeOK
  <2>1. pc \in [Threads -> WorkerLabels \cup MainLabels]
    BY DEF Init, WorkerLabels, MainLabels
  <2>2. pc[Main] \in MainLabels /\ \A w \in Workers : pc[w] \in WorkerLabels
    BY WorkersAssumption DEF Init, Threads, WorkerLabels, MainLabels
  <2>3. ran \in [Jobs -> Nat] /\ job \in [Threads -> Jobs \cup {NoJob}]
    BY DEF Init
  <2>4. submitted \in 0..MaxJobs
    BY MaxJobsAssumption DEF Init
  <2>5. QED
    BY <2>1, <2>2, <2>3, <2>4 DEF Init, TypeOK
<1>2. HasJob /\ Staffed /\ Slot /\ Distinct /\ Joined
  BY WorkersAssumption
  DEF Init, HasJob, Staffed, Slot, Distinct, Joined, Threads, NoJob
<1>3. Placement
  BY DEF Init, Placement, Jobs, InFlight
<1>4. Accounting
  <2>1. Uncounted = {}
    BY WorkersAssumption DEF Init, Uncounted, Threads
  <2>2. QED
    BY <2>1, FS_EmptySet DEF Init, Accounting, NoJob
<1>5. QED
  BY <1>1, <1>2, <1>3, <1>4 DEF IInv

\* Holding the mutex, a worker takes the job, leaves or goes to sleep.  What
\* Main and the other threads hold is untouched.
LEMMA EnterIInv ==
  ASSUME IInv, NEW w \in Workers, Enter(w)
  PROVE  IInv'
<1> USE DEF Threads, NoJob
<1>1. TypeOK'
  BY WorkersAssumption DEF IInv, TypeOK, Enter, AwaitJob, WorkerLabels, MainLabels
<1>2. HasJob'
  BY WorkersAssumption DEF IInv, TypeOK, HasJob, Enter, AwaitJob, Jobs
<1>3. Staffed'
  BY WorkersAssumption DEF IInv, TypeOK, Staffed, Enter, AwaitJob
<1>4. Slot'
  BY WorkersAssumption DEF IInv, TypeOK, Slot, Enter, AwaitJob
<1>5. Distinct'
  BY WorkersAssumption, SMTT(30) DEF IInv, TypeOK, Slot, Distinct, HasJob, Enter, AwaitJob, Jobs
<1>6. Placement'
  BY WorkersAssumption
  DEF IInv, TypeOK, HasJob, Placement, InFlight, Enter, AwaitJob, Jobs
<1>7. Accounting'
  <2>1. Uncounted \in SUBSET Workers /\ w \notin Uncounted
    BY DEF Enter, Uncounted
  <2>2. CASE ~quit /\ f # NoJob
    <3>1. Uncounted' = Uncounted \cup {w}
      BY <2>2, WorkersAssumption DEF IInv, TypeOK, Uncounted, Enter, AwaitJob
    <3>2. QED
      BY <2>1, <2>2, <3>1, UncountedSteps
      DEF IInv, TypeOK, Accounting, Enter, AwaitJob
  <2>3. CASE ~(~quit /\ f # NoJob)
    <3>1. Uncounted' = Uncounted
      BY <2>3, WorkersAssumption DEF IInv, TypeOK, Uncounted, Enter, AwaitJob
    <3>2. QED
      BY <2>3, <3>1 DEF IInv, Accounting, Enter, AwaitJob
  <2>4. QED
    BY <2>2, <2>3
<1>8. Joined'
  BY WorkersAssumption DEF IInv, TypeOK, Joined, Enter, AwaitJob
<1>9. QED
  BY <1>1, <1>2, <1>3, <1>4, <1>5, <1>6, <1>7, <1>8 DEF IInv

\* The notification of cd moves the worker and at most Main.
LEMMA AckTakenIInv ==
  ASSUME IInv, NEW w \in Workers, AckTaken(w)
  PROVE  IInv'
<1> USE DEF Threads, NoJob
<1>1. TypeOK'
  BY WorkersAssumption DEF IInv, TypeOK, AckTaken, WakeMain, WorkerLabels, MainLabels
<1>2. HasJob'
  BY WorkersAssumption DEF IInv, TypeOK, HasJob, AckTaken, WakeMain, Jobs
<1>3. Staffed'
  BY WorkersAssumption DEF IInv, TypeOK, Staffed, AckTaken, WakeMain
<1>4. Slot'
  BY WorkersAssumption DEF IInv, TypeOK, Slot, AckTaken, WakeMain, Jobs
<1>5. Distinct'
  BY WorkersAssumption DEF IInv, TypeOK, Slot, Distinct, HasJob, AckTaken, WakeMain, Jobs
<1>6. Placement'
  BY WorkersAssumption
  DEF IInv, TypeOK, HasJob, Slot, Distinct, Placement, InFlight, AckTaken, WakeMain, Jobs
<1>7. Accounting'
  <2>1. Uncounted' = Uncounted
    BY WorkersAssumption DEF IInv, TypeOK, Uncounted, AckTaken, WakeMain
  <2>2. QED
    BY <2>1 DEF IInv, Accounting, AckTaken, WakeMain
<1>8. Joined'
  BY WorkersAssumption DEF IInv, TypeOK, Staffed, Joined, AckTaken, WakeMain
<1>9. QED
  BY <1>1, <1>2, <1>3, <1>4, <1>5, <1>6, <1>7, <1>8 DEF IInv

\* The job a thread held is placed in ran, and nowhere else.
LEMMA RunIInv ==
  ASSUME IInv, NEW t \in Threads, Run(t)
  PROVE  IInv'
<1> USE DEF Threads, NoJob
<1>1. TypeOK'
  <2>1. job[t] \in Jobs
    BY DEF IInv, TypeOK, HasJob, Run, Goto
  <2>2. QED
    BY <2>1, WorkersAssumption
    DEF IInv, TypeOK, Run, Goto, WorkerLabels, MainLabels
<1>2. HasJob'
  BY WorkersAssumption DEF IInv, TypeOK, HasJob, Run, Goto, Jobs
<1>3. Staffed'
  BY WorkersAssumption DEF IInv, TypeOK, Staffed, Run, Goto
<1>4. Slot'
  BY WorkersAssumption DEF IInv, TypeOK, Slot, Run, Goto, Jobs
<1>5. Distinct'
  BY WorkersAssumption DEF IInv, TypeOK, Slot, Distinct, HasJob, Run, Goto, Jobs
<1>6. Placement'
  BY WorkersAssumption
  DEF IInv, TypeOK, HasJob, Slot, Distinct, Placement, InFlight, Run, Goto, Jobs
<1>7. Accounting'
  <2>1. Uncounted' = Uncounted
    BY WorkersAssumption DEF IInv, TypeOK, Uncounted, Run, Goto
  <2>2. QED
    BY <2>1 DEF IInv, Accounting, Run, Goto
<1>8. Joined'
  BY WorkersAssumption DEF IInv, TypeOK, Staffed, Joined, Run, Goto
<1>9. QED
  BY <1>1, <1>2, <1>3, <1>4, <1>5, <1>6, <1>7, <1>8 DEF IInv

\* The worker is counted and may take the next job in the same section.
LEMMA PerformIInv ==
  ASSUME IInv, NEW w \in Workers, Perform(w)
  PROVE  IInv'
<1> USE DEF Threads, NoJob
<1>1. TypeOK'
  BY WorkersAssumption DEF IInv, TypeOK, Perform, AwaitJob, WakeMain, WorkerLabels, MainLabels
<1>2. HasJob'
  BY WorkersAssumption DEF IInv, TypeOK, HasJob, Perform, AwaitJob, WakeMain, Jobs
<1>3. Staffed'
  BY WorkersAssumption DEF IInv, TypeOK, Staffed, Perform, AwaitJob, WakeMain
<1>4. Slot'
  BY WorkersAssumption DEF IInv, TypeOK, Slot, Perform, AwaitJob, WakeMain, Jobs
<1>5. Distinct'
  BY WorkersAssumption DEF IInv, TypeOK, Slot, Distinct, HasJob, Perform, AwaitJob, WakeMain, Jobs
<1>6. Placement'
  BY WorkersAssumption
  DEF IInv, TypeOK, HasJob, Slot, Distinct, Placement, InFlight, Perform, AwaitJob, WakeMain, Jobs
<1>7. Accounting'
  <2>1. Uncounted \in SUBSET Workers /\ w \in Uncounted
    BY DEF Perform, Uncounted
  <2>2. CASE ~quit /\ f # NoJob
    <3>1. Uncounted' = Uncounted
      BY <2>2, WorkersAssumption
      DEF IInv, TypeOK, Uncounted, Perform, AwaitJob, WakeMain
    <3>2. f' = NoJob /\ performed' = performed + 1 /\ delegated' = delegated
      BY <2>2 DEF Perform, AwaitJob
    <3>3. delegated = performed + Cardinality(Uncounted) + 1
      BY <2>2 DEF IInv, Accounting
    <3>4. Cardinality(Uncounted) \in Nat /\ performed \in Nat
      BY <2>1, UncountedSteps DEF IInv, TypeOK
    <3>5. QED
      BY <3>1, <3>2, <3>3, <3>4 DEF Accounting
  <2>3. CASE ~(~quit /\ f # NoJob)
    <3>1. Uncounted' = Uncounted \ {w}
      BY <2>3, WorkersAssumption
      DEF IInv, TypeOK, Uncounted, Perform, AwaitJob, WakeMain
    <3>2. QED
      BY <2>1, <2>3, <3>1, UncountedSteps
      DEF IInv, TypeOK, Accounting, Perform, AwaitJob
  <2>4. QED
    BY <2>2, <2>3
<1>8. Joined'
  BY WorkersAssumption DEF IInv, TypeOK, Staffed, Joined, Perform, AwaitJob, WakeMain
<1>9. QED
  BY <1>1, <1>2, <1>3, <1>4, <1>5, <1>6, <1>7, <1>8 DEF IInv

\* A new job is in Main's hands: to be stored, or to be run by Main itself.
LEMMA DelegateIInv ==
  ASSUME IInv, Delegate
  PROVE  IInv'
<1> USE DEF Threads, NoJob
<1>1. TypeOK'
  <2>1. submitted' \in Jobs /\ submitted' \in 0..MaxJobs
    BY MaxJobsAssumption DEF IInv, TypeOK, Delegate, Jobs
  <2>2. QED
    BY <2>1, WorkersAssumption
    DEF IInv, TypeOK, Delegate, Goto, WorkerLabels, MainLabels
<1>2. HasJob'
  BY WorkersAssumption DEF IInv, TypeOK, HasJob, Delegate, Goto, Jobs
<1>3. Staffed'
  BY WorkersAssumption DEF IInv, TypeOK, Staffed, Delegate, Goto
<1>4. Slot'
  BY WorkersAssumption DEF IInv, TypeOK, Slot, Delegate, Goto, Jobs
<1>5. Distinct'
  BY WorkersAssumption DEF IInv, TypeOK, Slot, Distinct, HasJob, Delegate, Goto, Jobs
<1>6. Placement'
  BY WorkersAssumption
  DEF IInv, TypeOK, HasJob, Slot, Distinct, Placement, InFlight, Delegate, Goto, Jobs
<1>7. Accounting'
  <2>1. Uncounted' = Uncounted
    BY WorkersAssumption DEF IInv, TypeOK, Uncounted, Delegate, Goto
  <2>2. QED
    BY <2>1 DEF IInv, Accounting, Delegate, Goto
<1>8. Joined'
  BY WorkersAssumption DEF IInv, TypeOK, Staffed, Joined, Delegate, Goto
<1>9. QED
  BY <1>1, <1>2, <1>3, <1>4, <1>5, <1>6, <1>7, <1>8 DEF IInv

\* The job moves from Main's hands to the slot and is counted.
LEMMA StoreIInv ==
  ASSUME IInv, Store
  PROVE  IInv'
<1> USE DEF Threads, NoJob
<1>1. TypeOK'
  <2>1. f' \in Jobs
    BY MaxJobsAssumption DEF IInv, TypeOK, Slot, Store, Goto, Jobs
  <2>2. QED
    BY <2>1, WorkersAssumption
    DEF IInv, TypeOK, Store, Goto, WorkerLabels, MainLabels
<1>2. HasJob'
  BY WorkersAssumption DEF IInv, TypeOK, HasJob, Store, Goto, Jobs
<1>3. Staffed'
  BY WorkersAssumption DEF IInv, TypeOK, Staffed, Store, Goto
<1>4. Slot'
  BY WorkersAssumption DEF IInv, TypeOK, Slot, Store, Goto, Jobs
<1>5. Distinct'
  BY WorkersAssumption DEF IInv, TypeOK, Slot, Distinct, HasJob, Store, Goto, Jobs
<1>6. Placement'
  BY WorkersAssumption
  DEF IInv, TypeOK, HasJob, Slot, Distinct, Placement, InFlight, Store, Goto, Jobs
<1>7. Accounting'
  <2>1. Uncounted' = Uncounted
    BY WorkersAssumption DEF IInv, TypeOK, Uncounted, Store, Goto
  <2>2. f = NoJob /\ f' # NoJob
    BY DEF IInv, TypeOK, Slot, Store, Goto
  <2>3. Cardinality(Uncounted) \in Nat /\ performed \in Nat
    BY UncountedFinite DEF IInv, TypeOK
  <2>4. delegated = performed + Cardinality(Uncounted)
    BY <2>2, <2>3 DEF IInv, Accounting
  <2>5. QED
    BY <2>1, <2>2, <2>3, <2>4 DEF Accounting, Store
<1>8. Joined'
  BY WorkersAssumption DEF IInv, TypeOK, Staffed, Joined, Store, Goto
<1>9. QED
  BY <1>1, <1>2, <1>3, <1>4, <1>5, <1>6, <1>7, <1>8 DEF IInv

\* Notifications of cf wake sleeping workers and move nothing else.
LEMMA KickIInv ==
  ASSUME IInv, Kick \/ KickAll
  PROVE  IInv'
<1> USE DEF Threads, NoJob
<1>1. TypeOK'
  BY WorkersAssumption DEF IInv, TypeOK, Kick, KickAll, WorkerLabels, MainLabels
<1>2. HasJob'
  BY WorkersAssumption DEF IInv, TypeOK, HasJob, Kick, KickAll, Jobs
<1>3. Staffed'
  BY WorkersAssumption DEF IInv, TypeOK, Staffed, Kick, KickAll
<1>4. Slot'
  BY WorkersAssumption DEF IInv, TypeOK, Slot, Kick, KickAll, Jobs
<1>5. Distinct'
  BY WorkersAssumption DEF IInv, TypeOK, Slot, Distinct, HasJob, Kick, KickAll, Jobs
<1>6. Placement'
  <2>1. \A j \in Jobs : InFlight(j)' <=> InFlight(j)
    BY WorkersAssumption DEF IInv, TypeOK, InFlight, Kick, KickAll
  <2>2. QED
    BY <2>1 DEF IInv, Placement, Kick, KickAll
<1>7. Accounting'
  <2>1. Uncounted' = Uncounted
    BY WorkersAssumption DEF IInv, TypeOK, Uncounted, Kick, KickAll
  <2>2. QED
    BY <2>1 DEF IInv, Accounting, Kick, KickAll
<1>8. Joined'
  BY WorkersAssumption DEF IInv, TypeOK, Staffed, Joined, Kick, KickAll
<1>9. QED
  BY <1>1, <1>2, <1>3, <1>4, <1>5, <1>6, <1>7, <1>8 DEF IInv

\* Main's own steps from one blocking point to the next.
LEMMA MainIInv ==
  ASSUME IInv, AwaitSlot \/ Wait \/ AwaitPerformed \/ Destroy \/ Join
  PROVE  IInv'
<1> USE DEF Threads, NoJob
<1>1. TypeOK'
  BY WorkersAssumption DEF IInv, TypeOK, AwaitSlot, Wait, AwaitPerformed, Destroy, Join, Goto, WorkerLabels, MainLabels
<1>2. HasJob'
  BY WorkersAssumption DEF IInv, TypeOK, HasJob, AwaitSlot, Wait, AwaitPerformed, Destroy, Join, Goto, Jobs
<1>3. Staffed'
  BY WorkersAssumption DEF IInv, TypeOK, Staffed, AwaitSlot, Wait, AwaitPerformed, Destroy, Join, Goto
<1>4. Slot'
  BY WorkersAssumption DEF IInv, TypeOK, Slot, AwaitSlot, Wait, AwaitPerformed, Destroy, Join, Goto, Jobs
<1>5. Distinct'
  BY WorkersAssumption DEF IInv, TypeOK, Slot, Distinct, HasJob, AwaitSlot, Wait, AwaitPerformed, Destroy, Join, Goto, Jobs
<1>6. Placement'
  <2>1. \A j \in Jobs : InFlight(j)' <=> InFlight(j)
    BY DEF IInv, TypeOK, InFlight, AwaitSlot, Wait, AwaitPerformed, Destroy,
           Join, Goto
  <2>2. QED
    BY <2>1 DEF IInv, Placement, AwaitSlot, Wait, AwaitPerformed, Destroy, Join
<1>7. Accounting'
  <2>1. Uncounted' = Uncounted
    BY WorkersAssumption DEF IInv, TypeOK, Uncounted, AwaitSlot, Wait, AwaitPerformed, Destroy, Join, Goto
  <2>2. QED
    BY <2>1 DEF IInv, Accounting, AwaitSlot, Wait, AwaitPerformed, Destroy, Join, Goto
<1>8. Joined'
  BY WorkersAssumption DEF IInv, TypeOK, Staffed, Joined, AwaitSlot, Wait, AwaitPerformed, Destroy, Join, Goto
<1>9. QED
  BY <1>1, <1>2, <1>3, <1>4, <1>5, <1>6, <1>7, <1>8 DEF IInv

\* A spurious wakeup only makes a thread look at its predicate again.
LEMMA SpuriousIInv ==
  ASSUME IInv, NEW t \in Threads, SpuriousWakeup(t)
  PROVE  IInv'
<1> USE DEF Threads, NoJob
<1>1. TypeOK'
  BY WorkersAssumption DEF IInv, TypeOK, SpuriousWakeup, Goto, WorkerLabels, MainLabels
<1>2. HasJob'
  BY WorkersAssumption DEF IInv, TypeOK, HasJob, SpuriousWakeup, Goto, Jobs
<1>3. Staffed'
  BY WorkersAssumption DEF IInv, TypeOK, Staffed, SpuriousWakeup, Goto
<1>4. Slot'
  BY WorkersAssumption DEF IInv, TypeOK, Slot, SpuriousWakeup, Goto, Jobs
<1>5. Distinct'
  BY WorkersAssumption DEF IInv, TypeOK, Slot, Distinct, HasJob, SpuriousWakeup, Goto, Jobs
<1>6. Placement'
  BY WorkersAssumption
  DEF IInv, TypeOK, HasJob, Slot, Distinct, Placement, InFlight, SpuriousWakeup, Goto, Jobs
<1>7. Accounting'
  <2>1. Uncounted' = Uncounted
    BY WorkersAssumption DEF IInv, TypeOK, Uncounted, SpuriousWakeup, Goto
  <2>2. QED
    BY <2>1 DEF IInv, Accounting, SpuriousWakeup, Goto
<1>8. Joined'
  BY WorkersAssumption DEF IInv, TypeOK, Staffed, Joined, SpuriousWakeup, Goto
<1>9. QED
  BY <1>1, <1>2, <1>3, <1>4, <1>5, <1>6, <1>7, <1>8 DEF IInv

-----------------------------------------------------------------------------

\* Every step of the pool keeps each job in exactly one place.
LEMMA NextIInv == IInv /\ [Next]_vars => IInv'
<1> SUFFICES ASSUME IInv, [Next]_vars PROVE IInv'
  OBVIOUS
<1>1. ASSUME NEW w \in Workers, Worker(w) PROVE IInv'
  BY <1>1, EnterIInv, AckTakenIInv, RunIInv, PerformIInv DEF Worker, Threads
<1>2. CASE MainInCall
  BY <1>2, StoreIInv, KickIInv, MainIInv, RunIInv DEF MainInCall, Threads
<1>3. CASE Call
  BY <1>3, DelegateIInv, MainIInv DEF Call
<1>4. ASSUME NEW t \in Threads, SpuriousWakeup(t) PROVE IInv'
  BY <1>4, SpuriousIInv
<1>5. CASE UNCHANGED vars
  BY <1>5 DEF vars, IInv, TypeOK, HasJob, Staffed, Slot, Distinct, Placement,
              InFlight, Accounting, Uncounted, Joined
<1>6. QED
  BY <1>1, <1>2, <1>3, <1>4, <1>5 DEF Next, Finished

THEOREM Invariance == Spec => []IInv
BY InitIInv, NextIInv, PTL DEF Spec

\* The state of the pool has its types.
THEOREM TypeCorrect == Spec => []TypeOK
<1>1. IInv => TypeOK
  BY DEF IInv
<1>2. QED
  BY <1>1, Invariance, PTL

\* thread_handler() and delegate() never run a job twice, nor an empty slot.
THEOREM RunsAtMostOnce == Spec => []AtMostOnce
<1>1. IInv => AtMostOnce
  BY DEF IInv, TypeOK, Placement, AtMostOnce, Jobs
<1>2. QED
  BY <1>1, Invariance, PTL

\* delegated and performed account for every job a worker holds.
THEOREM CountersExact == Spec => []Accounting
<1>1. IInv => Accounting
  BY DEF IInv
<1>2. QED
  BY <1>1, Invariance, PTL

\* Once all jobs are counted and Main holds none, all of them have been run.
LEMMA CountedMeansRun ==
  ASSUME IInv, delegated = performed, pc[Main] \notin {"store", "run"}
  PROVE  \A j \in 1..submitted : ran[j] = 1
<1>1. Uncounted = {} /\ f = NoJob
  BY UncountedFinite DEF IInv, TypeOK, Accounting
<1>2. \A t \in Threads : job[t] = NoJob
  BY <1>1 DEF IInv, TypeOK, HasJob, Uncounted, Threads, MainLabels
<1>3. \A j \in Jobs : ~InFlight(j)
  BY <1>1, <1>2 DEF InFlight, Jobs, NoJob
<1>4. 1..submitted \subseteq Jobs
  BY MaxJobsAssumption DEF IInv, TypeOK, Jobs
<1>5. QED
  BY <1>3, <1>4 DEF IInv, Placement

\* wait() returns to its caller only when every job has returned.
THEOREM WaitSound == Spec => WaitCompletes
<1>1. IInv /\ [Next]_vars
        => [pc[Main] = "drain" /\ pc'[Main] = "idle"
              => \A j \in 1..submitted : ran[j] = 1]_vars
  <2> SUFFICES ASSUME IInv, [Next]_vars, pc[Main] = "drain", pc'[Main] = "idle"
               PROVE  \A j \in 1..submitted : ran[j] = 1
    OBVIOUS
  <2>1. AwaitPerformed
    BY WorkersAssumption
    DEF IInv, TypeOK, Next, Worker, Enter, AckTaken, Run, Perform, AwaitJob,
        WakeMain, MainInCall, Store, Kick, AwaitSlot, KickAll, Join, Call,
        Delegate, Wait, Destroy, SpuriousWakeup, Finished, Goto, vars, Threads
  <2>2. delegated = performed
    BY <2>1 DEF AwaitPerformed, Goto, IInv, TypeOK, Threads
  <2>3. QED
    BY <2>2, CountedMeansRun
<1>2. QED
  BY <1>1, Invariance, PTL DEF Spec, WaitCompletes

\* delegate() finds the slot empty when it assigns it.
THEOREM SlotSound == Spec => SlotNotOverwritten
<1>1. IInv /\ [Next]_vars => [f # NoJob => f' = NoJob]_f
  <2> SUFFICES ASSUME IInv, [Next]_vars, f # NoJob, f' # f
               PROVE  f' = NoJob
    OBVIOUS
  <2>1. ~Store
    BY DEF IInv, Slot, Store, Goto
  <2>2. QED
    BY <2>1
    DEF Next, Worker, Enter, AckTaken, Run, Perform, AwaitJob, MainInCall,
        Kick, AwaitSlot, AwaitPerformed, KickAll, Join, Call, Delegate, Wait,
        Destroy, SpuriousWakeup, Finished, vars
<1>2. QED
  BY <1>1, Invariance, PTL DEF Spec, SlotNotOverwritten

\* The destructor, which tells the workers to leave even if there is a job,
\* never makes the pool drop one.
THEOREM QuitSound == Spec => []QuitLosesNoJob
<1>1. IInv => QuitLosesNoJob
  <2> SUFFICES ASSUME IInv, pc[Main] = "gone"
               PROVE  \A j \in 1..submitted : ran[j] = 1
    BY DEF QuitLosesNoJob
  <2>1. \A t \in Threads : job[t] = NoJob
    BY DEF IInv, TypeOK, HasJob, Staffed, Joined, Threads
  <2>2. f = NoJob
    BY DEF IInv, Slot
  <2>3. \A j \in Jobs : ~InFlight(j)
    BY <2>1, <2>2 DEF InFlight, Jobs, NoJob
  <2>4. 1..submitted \subseteq Jobs
    BY MaxJobsAssumption DEF IInv, TypeOK, Jobs
  <2>5. QED
    BY <2>3, <2>4 DEF IInv, Placement
<1>2. QED
  BY <1>1, Invariance, PTL
=============================================================================
