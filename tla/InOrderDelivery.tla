--------------------------- MODULE InOrderDelivery ---------------------------
(***************************************************************************)
(* What thread_pool::ordered_completion() promises to a loop that issues   *)
(* work: however the work is scheduled, the callbacks come one at a time,  *)
(* in the order of issue, each once and with its own index, and closing    *)
(* the loop's scope leaves none of them behind.                            *)
(***************************************************************************)
EXTENDS Naturals, Sequences

VARIABLES
  issued,     \* how many items the current scope has issued
  delivered   \* the callbacks called so far: [item |-> ..., arg |-> ...]

Init == issued = 0 /\ delivered = <<>>

Issue == issued' = issued + 1 /\ UNCHANGED delivered

Deliver ==
  /\ Len(delivered) < issued
  /\ delivered' = Append(delivered, [item |-> Len(delivered), arg |-> Len(delivered)])
  /\ UNCHANGED issued

Reopen == Len(delivered) = issued /\ issued' = 0 /\ delivered' = <<>>

Next == Issue \/ Deliver \/ Reopen

\* Whatever has been issued is delivered; issuing is up to the caller.
Spec == Init /\ [][Next]_<<issued, delivered>> /\ WF_<<issued, delivered>>(Deliver)
=============================================================================
