--------------------------- MODULE DeliveryCycle ---------------------------
(***************************************************************************)
(* What the Job's consumer relies on when it calls Processor.Process: each *)
(* recipient is settled at most once, a settled one is never reopened, and *)
(* when the call returns nothing changes any more.  JobConsumer's actions  *)
(* Resolve and Processed are this cycle, one recipient at a time.          *)
(***************************************************************************)
CONSTANT Recipient

VARIABLES outcome, returned

vars == <<outcome, returned>>

Terminal == {"enqueued", "duplicate", "offline"}

Init ==
    /\ outcome = [u \in Recipient |-> "unresolved"]
    /\ returned = FALSE

Settle ==
    /\ ~returned
    /\ \E S \in SUBSET {u \in Recipient : outcome[u] = "unresolved"} :
         \E o \in [S -> Terminal] :
            outcome' = [u \in Recipient |-> IF u \in S THEN o[u] ELSE outcome[u]]
    /\ UNCHANGED returned

Return ==
    /\ ~returned
    /\ returned' = TRUE
    /\ UNCHANGED outcome

Next == Settle \/ Return

SafeSpec == Init /\ [][Next]_vars

=============================================================================
