-------------------------- MODULE OrderedCompletion --------------------------
(***************************************************************************)
(* thread_pool::orderered_completion_state (thread_pool.hpp) on top of the *)
(* pool, used the way the enumeration loops of cfg.cpp use it: open a      *)
(* scope, issue work through delegate() or may_delegate(), call            *)
(* pool.wait(), leave the scope.  The body of a pool job is                *)
(*     compute (d)  ->  sync: callbacks under `guard'  ->  return.         *)
(* Main runs the same body itself when may_delegate() is called with       *)
(* may = false, and when the pool has no threads.                          *)
(***************************************************************************)
EXTENDS ThreadPool, Sequences

CONSTANTS
  MaxScopes,    \* bound on the number of scopes opened one after the other
  MaxItems,     \* bound on the items issued in one scope
  IndexRange    \* an index is an unsigned int: 2^32 values in the code

ASSUME ItemsAssumption ==
  /\ MaxScopes \in Nat /\ MaxItems \in Nat /\ IndexRange \in Nat
  /\ MaxItems <= IndexRange

VARIABLES
  phase,      \* Main's place in its loop: "closed", "open", "waiting"
  scope,      \* history: which orderered_completion_state this is
  started,
  completed,
  results,    \* index |-> the item whose callback is stored
  guard,      \* holder of the completion state's mutex
  closure,    \* per job: the scope and the index its lambda captured
  body,       \* per thread: where it is in the body of an item
  log         \* history: the callbacks called in this scope, in order

ocVars == <<phase, scope, started, completed, results, guard, closure, body, log>>
allVars == <<vars, ocVars>>

Nobody == "nobody"
ASSUME NobodyAssumption == Nobody \notin Threads
Bodies == {"none", "compute", "sync", "callback", "returned"}

OCInit ==
  /\ Init
  /\ phase = "closed"
  /\ scope = 0
  /\ started = 0
  /\ completed = 0
  /\ results = <<>>
  /\ guard = Nobody
  /\ closure = <<>>
  /\ body = [t \in Threads |-> "none"]
  /\ log = <<>>

\* The item t works on: the index its job captured, or, for the inline item of
\* may_delegate(), the one Main drew last.
Item(t) == IF pc[t] = "run" THEN closure[job[t]].index
                            ELSE (started - 1) % IndexRange

Call_(item, arg) == log' = Append(log, [item |-> item, arg |-> arg])

\* the index a delegated item captures
NextIndex == started % IndexRange

InCaller == pc[Main] = "idle" /\ body[Main] = "none"

-----------------------------------------------------------------------------
(* Main: the loops of cfg.cpp                                              *)

Open ==
  /\ phase = "closed" /\ InCaller
  /\ scope < MaxScopes
  /\ phase' = "open"
  /\ scope' = scope + 1
  /\ started' = 0 /\ completed' = 0 /\ results' = <<>> /\ log' = <<>>
  /\ UNCHANGED <<vars, guard, closure, body>>

IssueJob ==
  /\ phase = "open" /\ InCaller
  /\ started < MaxItems
  /\ Delegate
  /\ started' = started + 1
  /\ closure' = Append(closure, [scope |-> scope, index |-> NextIndex])
  /\ body' = [body EXCEPT ![Main] = IF threads = {} THEN "compute" ELSE "none"]
  /\ UNCHANGED <<phase, scope, completed, results, guard, log>>

IssueInline ==
  /\ phase = "open" /\ InCaller
  /\ started < MaxItems
  /\ body' = [body EXCEPT ![Main] = "compute"]
  /\ UNCHANGED <<vars, phase, scope, started, completed, results, guard, closure, log>>

\* Operators named Faulty... are what a plausible bug would make of the
\* definition behind them; no action uses one.
FaultyWaitAll ==                  \* the loop does not wait for its jobs
  /\ phase = "open" /\ InCaller
  /\ phase' = "waiting"
  /\ UNCHANGED <<vars, scope, started, completed, results, guard, closure, body, log>>

WaitAll ==
  /\ phase = "open" /\ InCaller
  /\ Wait
  /\ phase' = "waiting"
  /\ UNCHANGED <<scope, started, completed, results, guard, closure, body, log>>

\* wait() has returned: the completion state goes out of scope
Close ==
  /\ phase = "waiting" /\ InCaller
  /\ phase' = "closed"
  /\ UNCHANGED <<vars, scope, started, completed, results, guard, closure, body, log>>

DestroyPool ==
  /\ phase = "closed" /\ InCaller
  /\ Destroy
  /\ UNCHANGED ocVars

-----------------------------------------------------------------------------
(* The body of an item                                                     *)

FaultyStartJob(w) ==              \* the job runs before the caller is told
  /\ Goto(w, "taken", "run")
  /\ body' = [body EXCEPT ![w] = "compute"]
  /\ UNCHANGED <<threads, f, quit, delegated, performed, job, submitted, ran>>
  /\ UNCHANGED <<phase, scope, started, completed, results, guard, closure, log>>

StartJob(w) ==
  /\ AckTaken(w)
  /\ body' = [body EXCEPT ![w] = "compute"]
  /\ UNCHANGED <<phase, scope, started, completed, results, guard, closure, log>>

\* d() returns; an inline item draws its index only now
Compute(t) ==
  /\ body[t] = "compute"
  /\ body' = [body EXCEPT ![t] = "sync"]
  /\ started' = IF pc[t] = "run" THEN started ELSE started + 1
  /\ UNCHANGED <<vars, phase, scope, completed, results, guard, closure, log>>

\* sync(c, index) has the guard: keep c for later, or call it
Sync(t) ==
  /\ body[t] = "sync" /\ guard = Nobody
  /\ IF Item(t) > completed
     THEN /\ results' = [i \in DOMAIN results \cup {Item(t)} |->
                           IF i = Item(t) THEN Item(t) ELSE results[i]]
          /\ body' = [body EXCEPT ![t] = "returned"]
          /\ UNCHANGED <<guard, log>>
     ELSE /\ Call_(Item(t), Item(t))
          /\ guard' = t
          /\ body' = [body EXCEPT ![t] = "callback"]
          /\ UNCHANGED results
  /\ UNCHANGED <<vars, phase, scope, started, completed, closure>>

FaultyCallback(t) ==              \* stored callbacks are left to others
  /\ body[t] = "callback"
  /\ completed' = completed + 1
  /\ results' = [i \in DOMAIN results \ {completed} |-> results[i]]
  /\ guard' = Nobody
  /\ body' = [body EXCEPT ![t] = "returned"]
  /\ UNCHANGED <<vars, phase, scope, started, closure, log>>

\* A callback returns under the guard: count it, drop its entry if it had
\* one, and call the first stored callback if its turn has come.
Callback(t) ==
  LET rest == DOMAIN results \ {completed}
      due  == completed + 1
  IN  /\ body[t] = "callback"
      /\ completed' = due
      /\ results' = [i \in rest |-> results[i]]
      /\ IF due \in rest
         THEN /\ Call_(results[due], due)
              /\ UNCHANGED <<guard, body>>
         ELSE /\ guard' = Nobody
              /\ body' = [body EXCEPT ![t] = "returned"]
              /\ UNCHANGED log
      /\ UNCHANGED <<vars, phase, scope, started, closure>>

\* the body is over: the pool's f() returns, or Main's inline item is done
Return(t) ==
  /\ body[t] = "returned"
  /\ body' = [body EXCEPT ![t] = "none"]
  /\ IF pc[t] = "run" THEN Run(t) ELSE UNCHANGED vars
  /\ UNCHANGED <<phase, scope, started, completed, results, guard, closure, log>>

Body(t) == Compute(t) \/ Sync(t) \/ Callback(t) \/ Return(t)

-----------------------------------------------------------------------------

\* what the pool does with nothing of the completion state involved
PoolOnly(A) == A /\ UNCHANGED ocVars

OCWorker(w) ==
  PoolOnly(Enter(w)) \/ StartJob(w) \/ Body(w) \/ PoolOnly(Perform(w))

OCMain ==
  \/ PoolOnly(Store) \/ PoolOnly(Kick) \/ PoolOnly(AwaitSlot)
  \/ PoolOnly(AwaitPerformed) \/ PoolOnly(KickAll) \/ PoolOnly(Join)
  \/ Body(Main) \/ Close

OCNext ==
  \/ \E w \in Workers : OCWorker(w)
  \/ OCMain
  \/ Open \/ IssueJob \/ IssueInline \/ WaitAll \/ DestroyPool
  \/ \E t \in Threads : PoolOnly(SpuriousWakeup(t))
  \/ PoolOnly(Finished)

\* Threads are scheduled and mutexes are acquired eventually; d() and the
\* callbacks return.
OCSpec ==
  OCInit /\ [][OCNext]_allVars
         /\ WF_allVars(OCMain) /\ \A w \in Workers : WF_allVars(OCWorker(w))

-----------------------------------------------------------------------------

Captures == [scope : 1..MaxScopes, index : 0..IndexRange - 1]

OCTypeOK ==
  /\ TypeOK
  /\ phase \in {"closed", "open", "waiting"}
  /\ scope \in 0..MaxScopes
  /\ started \in 0..MaxItems
  /\ completed \in 0..MaxItems
  /\ DOMAIN results \subseteq 1..MaxItems
  /\ guard \in Threads \cup {Nobody}
  /\ closure \in Seq(Captures)
  /\ body \in [Threads -> Bodies]
  /\ log \in Seq([item : 0..MaxItems, arg : 0..MaxItems])

\* A stored callback whose turn has come is never left behind by the thread
\* that releases the guard: nobody else would ever call it.
NoStrandedCallback == guard = Nobody => \A i \in DOMAIN results : i > completed

\* Jobs and callbacks reference the completion state and the caller's locals:
\* none of them is around once the scope is left.
NoUseAfterScope ==
  \A t \in Threads : pc[t] \in {"taken", "run"} \/ body[t] # "none" =>
    /\ phase # "closed"
    /\ pc[t] \in {"taken", "run"} => closure[job[t]].scope = scope

\* The loop promises its body in-order delivery.
Delivery == INSTANCE InOrderDelivery WITH issued <- started, delivered <- log
InOrder == Delivery!Spec

\* The composition uses the pool as the pool may be used.
UsesPool == Spec

\* A loop that has reached wait() gets past it.
LoopEnds == phase = "waiting" ~> phase = "closed"
=============================================================================
