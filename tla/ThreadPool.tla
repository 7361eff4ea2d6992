----------------------------- MODULE ThreadPool -----------------------------
(***************************************************************************)
(* The worker pool of the estimator (src/estimator/thread_pool.cpp): one   *)
(* caller hands jobs to a set of threads through a slot that holds one     *)
(* job, waits for all of them, and at the end stops and joins the threads. *)
(*                                                                         *)
(* Every access to f, quit, delegated and performed happens under `mutex', *)
(* so a critical section is one step here and the mutex is not a variable. *)
(* What is done outside of it (cf.notify_one, cd.notify_one, the job) is a *)
(* step of its own.  A thread blocked in a condition variable is at an     *)
(* "...wait" or "asleep" label; a notification, or a spurious wakeup,      *)
(* moves it to the label at which it takes the mutex and evaluates the     *)
(* predicate again.                                                        *)
(***************************************************************************)
EXTENDS Naturals, FiniteSets

CONSTANTS
  Workers,    \* the threads a pool may be constructed with
  Main,       \* the only thread that calls the pool
  MaxJobs     \* bound on the number of calls of delegate()

ASSUME WorkersAssumption == IsFiniteSet(Workers) /\ Main \notin Workers
ASSUME MaxJobsAssumption == MaxJobs \in Nat

VARIABLES
  threads,    \* the threads of this pool, fixed by the constructor
  f,          \* the slot: a job or NoJob (an empty std::function)
  quit,
  delegated,
  performed,
  pc,         \* where each thread is
  job,        \* the job a thread has in its local variable
  submitted,  \* history: calls of delegate() so far; the n-th call's job is n
  ran         \* history: how often each job's body has returned

vars == <<threads, f, quit, delegated, performed, pc, job, submitted, ran>>

Threads == Workers \cup {Main}
Jobs    == 1..MaxJobs
NoJob   == 0

WorkerLabels == {"absent", "enter", "asleep", "taken", "run", "done", "exited"}
MainLabels   == {"idle", "run", "store", "kick", "slot", "slotwait",
                 "drain", "drainwait", "kickall", "join", "gone"}

Init ==
  /\ threads \in SUBSET Workers
  /\ f = NoJob
  /\ quit = FALSE
  /\ delegated = 0
  /\ performed = 0
  /\ pc = [t \in Threads |-> IF t = Main THEN "idle"
                             ELSE IF t \in threads THEN "enter" ELSE "absent"]
  /\ job = [t \in Threads |-> NoJob]
  /\ submitted = 0
  /\ ran = [j \in Jobs |-> 0]

Goto(t, from, to) == pc[t] = from /\ pc' = [pc EXCEPT ![t] = to]

\* Operators named Faulty... are what a plausible bug would make of the
\* definition behind them; no action uses one.
FaultyWakeMain(from, to) == pc    \* the notification is forgotten

\* notify_one on cd or cw: only Main ever sleeps there
WakeMain(from, to) == IF pc[Main] = from THEN [pc EXCEPT ![Main] = to] ELSE pc

-----------------------------------------------------------------------------
(* The worker threads: thread_handler()                                    *)

FaultyAwaitJob(w, p) ==           \* the slot is copied, not swapped
  /\ ~quit /\ f # NoJob
  /\ job' = [job EXCEPT ![w] = f]
  /\ pc' = [p EXCEPT ![w] = "taken"]
  /\ UNCHANGED f

\* Holding the mutex: leave on quit, else take the job, else sleep on cf.
\* p is pc after the effects of the same critical section so far.
AwaitJob(w, p) ==
  \/ /\ quit
     /\ pc' = [p EXCEPT ![w] = "exited"]
     /\ UNCHANGED <<f, job>>
  \/ /\ ~quit /\ f # NoJob
     /\ job' = [job EXCEPT ![w] = f]
     /\ f' = NoJob
     /\ pc' = [p EXCEPT ![w] = "taken"]
  \/ /\ ~quit /\ f = NoJob
     /\ pc' = [p EXCEPT ![w] = "asleep"]
     /\ UNCHANGED <<f, job>>

\* the thread starts, or was woken up in cf.wait()
Enter(w) ==
  /\ pc[w] = "enter"
  /\ AwaitJob(w, pc)
  /\ UNCHANGED <<threads, quit, delegated, performed, submitted, ran>>

\* cd.notify_one() after the mutex was released
AckTaken(w) ==
  /\ pc[w] = "taken"
  /\ pc' = [WakeMain("slotwait", "slot") EXCEPT ![w] = "run"]
  /\ UNCHANGED <<threads, f, quit, delegated, performed, job, submitted, ran>>

\* f() returns; a pool without threads runs the job in Main
Run(t) ==
  /\ Goto(t, "run", IF t = Main THEN "idle" ELSE "done")
  /\ ran' = [ran EXCEPT ![job[t]] = @ + 1]
  /\ job' = [job EXCEPT ![t] = NoJob]
  /\ UNCHANGED <<threads, f, quit, delegated, performed, submitted>>

\* back under the mutex: count, notify cw, and look for the next job
Perform(w) ==
  /\ pc[w] = "done"
  /\ performed' = performed + 1
  /\ AwaitJob(w, WakeMain("drainwait", "drain"))
  /\ UNCHANGED <<threads, quit, delegated, submitted, ran>>

-----------------------------------------------------------------------------
(* The caller: delegate(), wait() and the destructor                       *)

Delegate ==
  /\ submitted < MaxJobs
  /\ submitted' = submitted + 1
  /\ IF threads = {}
     THEN /\ Goto(Main, "idle", "run")
          /\ job' = [job EXCEPT ![Main] = submitted']
     ELSE /\ Goto(Main, "idle", "store")
          /\ UNCHANGED job
  /\ UNCHANGED <<threads, f, quit, delegated, performed, ran>>

FaultyStore ==                    \* the number of the next job is stored
  /\ Goto(Main, "store", "kick")
  /\ delegated' = delegated + 1
  /\ f' = submitted + 1
  /\ UNCHANGED <<threads, quit, performed, job, submitted, ran>>

Store ==
  /\ Goto(Main, "store", "kick")
  /\ delegated' = delegated + 1
  /\ f' = submitted
  /\ UNCHANGED <<threads, quit, performed, job, submitted, ran>>

FaultyKick ==                     \* notify_one() is forgotten
  /\ Goto(Main, "kick", "slot")
  /\ UNCHANGED <<threads, f, quit, delegated, performed, job, submitted, ran>>

\* cf.notify_one(): wakes one sleeping worker, if there is one
Kick ==
  /\ pc[Main] = "kick"
  /\ LET asleep == {w \in threads : pc[w] = "asleep"}
     IN  \/ /\ asleep = {}
            /\ pc' = [pc EXCEPT ![Main] = "slot"]
         \/ \E w \in asleep :
              pc' = [pc EXCEPT ![Main] = "slot", ![w] = "enter"]
  /\ UNCHANGED <<threads, f, quit, delegated, performed, job, submitted, ran>>

FaultyAwaitSlot ==                \* delegate() does not wait
  /\ Goto(Main, "slot", "idle")
  /\ UNCHANGED <<threads, f, quit, delegated, performed, job, submitted, ran>>

\* cd.wait(): delegate() returns once the slot is empty
AwaitSlot ==
  /\ Goto(Main, "slot", IF f = NoJob THEN "idle" ELSE "slotwait")
  /\ UNCHANGED <<threads, f, quit, delegated, performed, job, submitted, ran>>

Wait ==
  /\ Goto(Main, "idle", "drain")
  /\ UNCHANGED <<threads, f, quit, delegated, performed, job, submitted, ran>>

FaultyAwaitPerformed ==           \* an empty slot is taken for an idle pool
  /\ Goto(Main, "drain", IF f = NoJob THEN "idle" ELSE "drainwait")
  /\ UNCHANGED <<threads, f, quit, delegated, performed, job, submitted, ran>>

\* cw.wait(): wait() returns once every delegated job was performed
AwaitPerformed ==
  /\ Goto(Main, "drain", IF delegated = performed THEN "idle" ELSE "drainwait")
  /\ UNCHANGED <<threads, f, quit, delegated, performed, job, submitted, ran>>

Destroy ==
  /\ Goto(Main, "idle", "kickall")
  /\ quit' = TRUE
  /\ UNCHANGED <<threads, f, delegated, performed, job, submitted, ran>>

KickAll ==
  /\ pc[Main] = "kickall"
  /\ pc' = [t \in Threads |-> IF t = Main THEN "join"
                              ELSE IF pc[t] = "asleep" THEN "enter" ELSE pc[t]]
  /\ UNCHANGED <<threads, f, quit, delegated, performed, job, submitted, ran>>

Join ==
  /\ \A w \in threads : pc[w] = "exited"
  /\ Goto(Main, "join", "gone")
  /\ UNCHANGED <<threads, f, quit, delegated, performed, job, submitted, ran>>

-----------------------------------------------------------------------------

\* std::condition_variable::wait may return without a notification
SpuriousWakeup(t) ==
  /\ \/ Goto(t, "asleep", "enter")
     \/ Goto(t, "slotwait", "slot")
     \/ Goto(t, "drainwait", "drain")
  /\ UNCHANGED <<threads, f, quit, delegated, performed, job, submitted, ran>>

\* the pool is gone: nothing is left to do
Finished == pc[Main] = "gone" /\ UNCHANGED vars

Worker(w) == Enter(w) \/ AckTaken(w) \/ Run(w) \/ Perform(w)

\* what Main does inside of a call; the calls themselves are its choice
MainInCall == Store \/ Kick \/ AwaitSlot \/ AwaitPerformed \/ KickAll \/ Join
              \/ Run(Main)

Call == Delegate \/ Wait \/ Destroy

Next ==
  \/ \E w \in Workers : Worker(w)
  \/ MainInCall
  \/ Call
  \/ \E t \in Threads : SpuriousWakeup(t)
  \/ Finished

\* A runnable thread is scheduled and a free mutex is eventually acquired;
\* jobs terminate.  No call and no spurious wakeup is promised.
Fairness == WF_vars(MainInCall) /\ \A w \in Workers : WF_vars(Worker(w))

Spec == Init /\ [][Next]_vars /\ Fairness

-----------------------------------------------------------------------------

TypeOK ==
  /\ threads \in SUBSET Workers
  /\ f \in Jobs \cup {NoJob}
  /\ quit \in BOOLEAN
  /\ delegated \in Nat
  /\ performed \in Nat
  /\ pc \in [Threads -> WorkerLabels \cup MainLabels]
  /\ pc[Main] \in MainLabels
  /\ \A w \in Workers : pc[w] \in WorkerLabels
  /\ job \in [Threads -> Jobs \cup {NoJob}]
  /\ submitted \in 0..MaxJobs
  /\ ran \in [Jobs -> Nat]

\* A job is never run twice, and one that has not been submitted never runs:
\* the slot is swapped out and the workers never share a job.
AtMostOnce == \A j \in Jobs : ran[j] <= IF j <= submitted THEN 1 ELSE 0

\* delegate() line 52 assigns the slot without looking at it: it never
\* replaces a job no worker has taken yet.
SlotNotOverwritten == [][f # NoJob => f' = NoJob]_f

\* When wait() returns to the caller, the body of every job delegated before
\* has returned: the callers then destroy what the jobs reference.
WaitCompletes ==
  [][pc[Main] = "drain" /\ pc'[Main] = "idle"
       => \A j \in 1..submitted : ran[j] = 1]_vars

\* The counters never drift from what is in flight: a job is in the slot, or
\* a worker has it and has not yet counted it.
Uncounted == {w \in Workers : pc[w] \in {"taken", "run", "done"}}
Accounting ==
  delegated = performed + Cardinality(Uncounted) + (IF f = NoJob THEN 0 ELSE 1)

\* A worker leaves on quit even if the slot is full (line 16), yet a destroyed
\* pool has run every job it was given, without an intervening wait().
QuitLosesNoJob ==
  pc[Main] = "gone" => \A j \in 1..submitted : ran[j] = 1

\* No lost wakeup: every delegated job is run, with nobody but the pool moving.
EveryJobRuns == \A j \in Jobs : submitted >= j ~> ran[j] = 1

\* No lost wakeup on the caller's side: delegate(), wait() and the destructor
\* return.
CallsReturn == pc[Main] \notin {"idle", "gone"} ~> pc[Main] \in {"idle", "gone"}
=============================================================================
