------------------------- MODULE JobProcessorProofs -------------------------
(***************************************************************************)
(* ProcessorInv is inductive, for any recipients, instances and number of  *)
(* rounds, and every step of a call is a step of DeliveryCycle.            *)
(***************************************************************************)
EXTENDS JobProcessor, TLAPS

LEMMA InitInv == Init => ProcessorInv
  <1> SUFFICES ASSUME Init PROVE ProcessorInv
    OBVIOUS
  <1> USE DEF Init
  <1>1. ProcessorTypeOK
    <2>1. attempt \in 0..MaxRounds /\ copies \in [Recipient -> Nat] /\ repairs \in Nat
      BY ProcessorConstants
    <2>2. /\ dated \in [Recipient -> BOOLEAN] /\ repair \in [Recipient -> BOOLEAN]
          /\ stopped \in [Recipient -> BOOLEAN] /\ repaired \in BOOLEAN /\ over \in BOOLEAN
      OBVIOUS
    <2> QED
      BY <2>1, <2>2 DEF ProcessorTypeOK
  <1>2. ResultsAreTrue
    BY DEF ResultsAreTrue
  <1>3. RepairsCounted
    BY DEF RepairsCounted
  <1>4. AtMostTwoCopies /\ CopiesPaidFor
    BY DEF AtMostTwoCopies, CopiesPaidFor
  <1> QED
    BY <1>1, <1>2, <1>3, <1>4 DEF ProcessorInv

\* One route repair is spent at most: whoever could ask for another is given up.
LEMMA SpendOnce ==
    ASSUME ProcessorInv, SpendRepair
    PROVE  /\ repaired' \in BOOLEAN
           /\ repaired => repaired'
           /\ repairs' = IF repaired' THEN 1 ELSE 0
           /\ \A u \in ToLook : repair[u] => repaired' /\ ~repaired
  <1>0. repaired \in BOOLEAN /\ repairs = IF repaired THEN 1 ELSE 0
    BY DEF ProcessorInv, ProcessorTypeOK, RepairsCounted
  <1>1. \A u \in ToLook : repair[u] => ~repaired /\ u \in Repairing
    BY DEF ToLook, GivenUp, Repairing
  <1>2. CASE Repairing = {}
    <2>1. repaired' = repaired /\ repairs' = repairs
      BY <1>0, <1>2 DEF SpendRepair
    <2> QED
      BY <1>0, <1>1, <1>2, <2>1
  <1>3. CASE Repairing # {}
    <2>1. repaired' = TRUE /\ repairs' = repairs + 1 /\ ~repaired
      BY <1>0, <1>1, <1>3 DEF SpendRepair, Repairing
    <2> QED
      BY <1>0, <1>1, <2>1
  <1> QED
    BY <1>2, <1>3

\* What a step has to keep, recipient by recipient.
Kept(u) ==
    LET finished == outcome[u] # "unresolved" \/ stopped[u] \/ repair[u]
    IN  /\ outcome[u] = "enqueued" => copies[u] > 0
        /\ outcome[u] = "offline" => u \in gone
        /\ repair[u] => route[u] = Nil
        /\ copies[u] <= 2
        /\ copies[u] >= 1 => finished \/ repaired
        /\ copies[u] = 2 => finished /\ repaired

LEMMA KeptIsInv ==
    ProcessorInv <=> /\ ProcessorTypeOK
                     /\ repairs = IF repaired THEN 1 ELSE 0
                     /\ \A u \in Recipient : Kept(u)
  BY DEF ProcessorInv, ResultsAreTrue, RepairsCounted, AtMostTwoCopies, CopiesPaidFor, Kept

LEMMA StepInv == ProcessorInv /\ [Next]_vars => ProcessorInv'
  <1> SUFFICES ASSUME ProcessorInv, [Next]_vars PROVE ProcessorInv'
    OBVIOUS
  <1>0. /\ ProcessorTypeOK
        /\ repairs = IF repaired THEN 1 ELSE 0
        /\ \A u \in Recipient : Kept(u)
    BY KeptIsInv
  <1> USE <1>0
  <1>1. ASSUME UNCHANGED recipientVars, UNCHANGED history, repaired' = repaired,
               attempt' \in 0..MaxRounds,
               pc' \in {"loop", "lookup", "resolve", "deliver", "returned"},
               todo' \in SUBSET Instance, leases' \in SUBSET Instance, over' \in BOOLEAN
        PROVE  ProcessorInv'
    BY <1>1 DEF ProcessorInv, ProcessorTypeOK, ResultsAreTrue, RepairsCounted, AtMostTwoCopies,
       CopiesPaidFor, recipientVars, history
  <1>2. CASE Timeout \/ NewRound \/ Return \/ NothingRouted \/ RoundCut
    <2>1. CASE Timeout
      BY <1>1, <2>1 DEF Timeout, roundVars, ProcessorTypeOK
    <2>2. CASE NewRound
      <3>1. attempt' \in 0..MaxRounds
        BY <2>2, ProcessorConstants DEF NewRound, ProcessorTypeOK
      <3> QED
        BY <1>1, <2>2, <3>1 DEF NewRound, ProcessorTypeOK
    <2>3. CASE Return \/ NothingRouted \/ RoundCut
      BY <1>1, <2>3 DEF Return, NothingRouted, RoundCut, ProcessorTypeOK
    <2> QED
      BY <1>2, <2>1, <2>2, <2>3
  <1>3. CASE Resolved
    <2>1. {route[u] : u \in Routed} \in SUBSET Instance
      BY DEF ProcessorTypeOK, Routed, Open
    <2> QED
      BY <1>1, <1>3, <2>1 DEF Resolved, ProcessorTypeOK
  <1>4. CASE SkipLookup
    <2>1. stopped' \in [Recipient -> BOOLEAN] /\ \A u \in Recipient : stopped[u] => stopped'[u]
      BY <1>4 DEF Assign, SkipLookup, ProcessorTypeOK
    <2>2. \A u \in Recipient : Kept(u)'
      BY <1>4, <2>1 DEF SkipLookup, Kept, history
    <2>3. ProcessorTypeOK'
      BY <1>4, <2>1 DEF SkipLookup, ProcessorTypeOK, history
    <2> QED
      BY <1>4, <2>2, <2>3 DEF ProcessorInv, ResultsAreTrue, RepairsCounted, AtMostTwoCopies,
         CopiesPaidFor, Kept, SkipLookup, history
  <1>5. CASE LookupAnswered
    <2>1. PICK found \in [ToLook -> Instance \cup {Nil}] :
            LET online == {u \in ToLook : found[u] # Nil}
            IN  /\ route' = [u \in Recipient |-> IF u \in online THEN found[u] ELSE route[u]]
                /\ dated' = Assign(dated, online, TRUE)
                /\ repair' = Assign(repair, online, FALSE)
                /\ outcome' = Assign(outcome, ToLook \ online, "offline")
                /\ gone' = gone \cup (ToLook \ online)
                /\ stopped' = Assign(stopped, GivenUp \cup (Repairing \ online), TRUE)
      BY <1>5 DEF LookupAnswered
    <2> DEFINE online == {u \in ToLook : found[u] # Nil}
    <2>2. /\ copies' = copies /\ attempt' = attempt /\ todo' = todo /\ leases' = leases
          /\ over' = over /\ pc' = "resolve"
      BY <1>5 DEF LookupAnswered
    <2>3. /\ repaired' \in BOOLEAN /\ (repaired => repaired')
          /\ repairs' = IF repaired' THEN 1 ELSE 0
          /\ \A u \in ToLook : repair[u] => repaired' /\ ~repaired
      BY <1>5, SpendOnce DEF LookupAnswered
    <2>4. /\ dated' \in [Recipient -> BOOLEAN]
          /\ repair' \in [Recipient -> BOOLEAN]
          /\ stopped' \in [Recipient -> BOOLEAN]
          /\ outcome' \in [Recipient -> {"unresolved", "enqueued", "duplicate", "offline"}]
          /\ \A u \in Recipient :
                /\ repair'[u] = IF u \in online THEN FALSE ELSE repair[u]
                /\ outcome'[u] = IF u \in ToLook \ online THEN "offline" ELSE outcome[u]
                /\ stopped[u] => stopped'[u]
      BY <2>1 DEF Assign, ProcessorTypeOK
    <2>5. route' \in [Recipient -> Instance \cup {Nil}]
      BY <2>1 DEF ProcessorTypeOK
    <2>6. ProcessorTypeOK'
      <3>1. ToLook \subseteq Recipient
        BY DEF ToLook, Unrouted, Open
      <3> QED
        BY <2>1, <2>2, <2>3, <2>4, <2>5, <3>1 DEF ProcessorTypeOK
    <2>7. ASSUME NEW u \in Recipient PROVE Kept(u)'
      <3>1. Kept(u) /\ copies[u] \in Nat /\ repair[u] \in BOOLEAN
        BY DEF ProcessorTypeOK
      <3>2. u \in ToLook => outcome[u] = "unresolved" /\ ~stopped[u]
        BY DEF ToLook, Unrouted, Open
      <3>3. CASE u \in online
        BY <2>1, <2>2, <2>3, <2>4, <3>1, <3>2, <3>3 DEF Kept
      <3>4. CASE u \in ToLook \ online
        BY <2>1, <2>2, <2>3, <2>4, <3>1, <3>2, <3>4 DEF Kept
      <3>5. CASE u \notin ToLook
        BY <2>1, <2>2, <2>3, <2>4, <3>1, <3>5 DEF Kept
      <3> QED
        BY <3>3, <3>4, <3>5
    <2> QED
      BY <2>3, <2>6, <2>7 DEF ProcessorInv, ResultsAreTrue, RepairsCounted, AtMostTwoCopies,
         CopiesPaidFor, Kept
  <1>6. ASSUME NEW kind \in LogicFailure, LookupFailed(kind)
        PROVE  ProcessorInv'
    <2>1. /\ repaired' \in BOOLEAN /\ (repaired => repaired')
          /\ repairs' = IF repaired' THEN 1 ELSE 0
      BY <1>6, SpendOnce DEF LookupFailed
    <2>2. stopped' \in [Recipient -> BOOLEAN] /\ \A u \in Recipient : stopped[u] => stopped'[u]
      BY <1>6 DEF Assign, LookupFailed, ProcessorTypeOK
    <2>3. ProcessorTypeOK'
      BY <1>6, <2>1, <2>2 DEF LookupFailed, ProcessorTypeOK
    <2>4. \A u \in Recipient : Kept(u)'
      BY <1>6, <2>1, <2>2 DEF LookupFailed, Kept
    <2> QED
      BY <2>1, <2>3, <2>4 DEF ProcessorInv, ResultsAreTrue, RepairsCounted, AtMostTwoCopies,
         CopiesPaidFor, Kept
  <1>7. ASSUME NEW kind \in LogicFailure, ResolveFailed(kind)
        PROVE  ProcessorInv'
    <2>1. stopped' \in [Recipient -> BOOLEAN] /\ \A u \in Recipient : stopped[u] => stopped'[u]
      BY <1>7 DEF Assign, ResolveFailed, Failure, ProcessorTypeOK
    <2>2. ProcessorTypeOK'
      BY <1>7, <2>1 DEF ResolveFailed, Failure, ProcessorTypeOK, history
    <2>3. \A u \in Recipient : Kept(u)'
      BY <1>7, <2>1 DEF ResolveFailed, Failure, Kept, history
    <2> QED
      BY <1>7, <2>2, <2>3 DEF ProcessorInv, ResultsAreTrue, RepairsCounted, AtMostTwoCopies,
         CopiesPaidFor, Kept, ResolveFailed, history
  <1>8. ASSUME NEW i \in Instance, NEW S, Repair(S), NextInstance(i), UNCHANGED history
        PROVE  ProcessorInv'
    <2>1. /\ route' \in [Recipient -> Instance \cup {Nil}]
          /\ dated' \in [Recipient -> BOOLEAN] /\ repair' \in [Recipient -> BOOLEAN]
          /\ \A u \in Recipient :
                /\ repair'[u] = IF u \in S THEN TRUE ELSE repair[u]
                /\ route'[u] = IF u \in S THEN Nil ELSE route[u]
      BY <1>8 DEF Assign, Repair, ProcessorTypeOK
    <2>2. ProcessorTypeOK'
      BY <1>8, <2>1 DEF Repair, NextInstance, ProcessorTypeOK, history
    <2>3. \A u \in Recipient : Kept(u)'
      BY <1>8, <2>1 DEF Repair, NextInstance, Kept, history
    <2> QED
      BY <1>8, <2>2, <2>3 DEF ProcessorInv, ResultsAreTrue, RepairsCounted, AtMostTwoCopies,
         CopiesPaidFor, Kept, NextInstance, history
  <1>9. ASSUME NEW i \in Instance, NEW expired \in SUBSET Recipient,
               NEW taken \in SUBSET Recipient, NEW answer \in {"results", "refresh", "permanent"},
               Delivered(i, expired, taken, answer)
        PROVE  ProcessorInv'
    <2> DEFINE batch   == Batch(i) \ expired
               settled == IF answer = "results" THEN taken ELSE {}
               again   == LoseRoute(i, expired, taken, answer)
    <2>1. /\ taken \subseteq batch /\ expired \subseteq Batch(i)
          /\ answer = "permanent" => taken = {}
          /\ copies' = [u \in Recipient |-> IF u \in taken THEN copies[u] + 1 ELSE copies[u]]
          /\ outcome' = Assign(outcome, settled, "enqueued")
          /\ route' = Assign(route, again, Nil)
          /\ dated' = Assign(dated, again, FALSE)
          /\ repair' = Assign(repair, again, TRUE)
          /\ stopped' = IF answer = "permanent" THEN Assign(stopped, batch, TRUE) ELSE stopped
          /\ NextInstance(i) /\ gone' = gone /\ repairs' = repairs
      BY <1>9 DEF Delivered
    <2>a. /\ outcome' \in [Recipient -> {"unresolved", "enqueued", "duplicate", "offline"}]
          /\ \A u \in Recipient : outcome'[u] = IF u \in settled THEN "enqueued" ELSE outcome[u]
      <3> HIDE DEF settled
      <3> QED
        BY <2>1 DEF Assign, ProcessorTypeOK
    <2>b. /\ route' \in [Recipient -> Instance \cup {Nil}]
          /\ dated' \in [Recipient -> BOOLEAN] /\ repair' \in [Recipient -> BOOLEAN]
          /\ \A u \in Recipient : /\ route'[u] = IF u \in again THEN Nil ELSE route[u]
                                  /\ repair'[u] = IF u \in again THEN TRUE ELSE repair[u]
      <3> HIDE DEF again
      <3> QED
        BY <2>1 DEF Assign, ProcessorTypeOK
    <2>c. /\ stopped' \in [Recipient -> BOOLEAN]
          /\ \A u \in Recipient : stopped[u] => stopped'[u]
      <3> HIDE DEF batch
      <3>1. CASE answer = "permanent"
        BY <2>1, <3>1 DEF Assign, ProcessorTypeOK
      <3>2. CASE answer # "permanent"
        BY <2>1, <3>2 DEF ProcessorTypeOK
      <3> QED
        BY <3>1, <3>2
    <2>d. copies' \in [Recipient -> Nat]
      BY <2>1 DEF ProcessorTypeOK
    <2>2. /\ outcome' \in [Recipient -> {"unresolved", "enqueued", "duplicate", "offline"}]
          /\ route' \in [Recipient -> Instance \cup {Nil}]
          /\ dated' \in [Recipient -> BOOLEAN] /\ repair' \in [Recipient -> BOOLEAN]
          /\ stopped' \in [Recipient -> BOOLEAN] /\ copies' \in [Recipient -> Nat]
          /\ \A u \in Recipient :
                /\ outcome'[u] = IF u \in settled THEN "enqueued" ELSE outcome[u]
                /\ route'[u] = IF u \in again THEN Nil ELSE route[u]
                /\ repair'[u] = IF u \in again THEN TRUE ELSE repair[u]
                /\ stopped[u] => stopped'[u]
      BY <2>a, <2>b, <2>c, <2>d
    <2>3. ProcessorTypeOK'
      BY <2>1, <2>2 DEF NextInstance, ProcessorTypeOK
    <2>4. ASSUME NEW u \in Recipient PROVE Kept(u)'
      <3>1. Kept(u) /\ copies[u] \in Nat /\ repaired' = repaired
        BY <2>1 DEF NextInstance, ProcessorTypeOK
      <3>2. CASE u \in taken
        <4>1. /\ outcome[u] = "unresolved" /\ ~stopped[u] /\ route[u] # Nil /\ u \in Batch(i)
          BY <2>1, <3>2 DEF Batch, Routed, Open
        <4>2. ~repair[u] /\ (copies[u] = 0 \/ (copies[u] = 1 /\ repaired))
          BY <3>1, <4>1 DEF Kept
        <4>3. copies'[u] = copies[u] + 1
          BY <2>1, <3>2
        <4>4. outcome'[u] = "enqueued" \/ (repair'[u] /\ route'[u] = Nil /\ outcome'[u] = "unresolved")
          BY <2>1, <2>2, <3>2, <4>1 DEF LoseRoute
        <4>5. repair'[u] => route'[u] = Nil
          BY <2>2, <3>1 DEF Kept
        <4>6. copies'[u] \in {1, 2} /\ (copies'[u] = 2 => repaired')
          BY <3>1, <4>2, <4>3
        <4>7. outcome'[u] # "offline" /\ (outcome'[u] # "unresolved" \/ repair'[u])
          BY <4>4
        <4> QED
          BY <4>5, <4>6, <4>7 DEF Kept
      <3>3. CASE u \notin taken
        <4>1. copies'[u] = copies[u] /\ outcome'[u] = outcome[u]
          BY <2>1, <2>2, <3>3
        <4> QED
          BY <2>1, <2>2, <3>1, <4>1 DEF Kept
      <3> QED
        BY <3>2, <3>3
    <2> QED
      BY <2>1, <2>3, <2>4 DEF ProcessorInv, ResultsAreTrue, RepairsCounted, AtMostTwoCopies,
         CopiesPaidFor, Kept, NextInstance
  <1>10. CASE UNCHANGED vars
    BY <1>1, <1>10 DEF vars, roundVars, ProcessorTypeOK
  <1> QED
    BY <1>2, <1>3, <1>4, <1>5, <1>6, <1>7, <1>8, <1>9, <1>10 DEF Next, NoLease, NotSent

\* The inductive invariant of a call to Process holds in every behaviour.
THEOREM ProcessorInvariant == Spec => []ProcessorInv
  BY InitInv, StepInv, PTL DEF Spec

\* However many recipients, instances and rounds, a call enqueues no message more
\* than twice for one recipient (routing.go: repair, rpcFailure).
THEOREM CopiesBounded == Spec => []AtMostTwoCopies
  <1>1. ProcessorInv => AtMostTwoCopies
    BY DEF ProcessorInv
  <1> QED
    BY <1>1, ProcessorInvariant, PTL

\* What the consumer commits on is what Comet did and what Logic said.
THEOREM ResultsStayTrue == Spec => []ResultsAreTrue
  <1>1. ProcessorInv => ResultsAreTrue
    BY DEF ProcessorInv
  <1> QED
    BY <1>1, ProcessorInvariant, PTL

-----------------------------------------------------------------------------
(* the refinement *)

\* Settling the members of S, all of them unresolved, is a step of the cycle.
LEMMA SettleStep ==
    ASSUME ProcessorTypeOK, pc # "returned", pc' # "returned",
           NEW S \in SUBSET {u \in Recipient : outcome[u] = "unresolved"},
           NEW x \in {"enqueued", "offline"},
           outcome' = Assign(outcome, S, x)
    PROVE  Cycle!Next
  <1> DEFINE o == [u \in S |-> x]
  <1>1. o \in [S -> Cycle!Terminal]
    BY DEF Cycle!Terminal
  <1>2. outcome' = [u \in Recipient |-> IF u \in S THEN o[u] ELSE outcome[u]]
    BY DEF Assign, ProcessorTypeOK
  <1> HIDE DEF o
  <1>3. \E f \in [S -> Cycle!Terminal] :
          outcome' = [u \in Recipient |-> IF u \in S THEN f[u] ELSE outcome[u]]
    BY <1>1, <1>2
  <1>4. Cycle!Settle
    BY <1>3 DEF Cycle!Settle
  <1> QED
    BY <1>4 DEF Cycle!Next

LEMMA CycleStep ==
    ASSUME ProcessorInv, [Next]_vars
    PROVE  [Cycle!Next]_(Cycle!vars)
  <1>0. ProcessorTypeOK
    BY DEF ProcessorInv
  <1>1. ASSUME outcome' = outcome, pc # "returned", pc' # "returned"
        PROVE  UNCHANGED Cycle!vars
    BY <1>1 DEF Cycle!vars
  <1>2. CASE Return
    BY <1>2 DEF Return, recipientVars, Cycle!Next, Cycle!Return
  <1>3. CASE LookupAnswered
    <2>1. PICK found \in [ToLook -> Instance \cup {Nil}] :
            outcome' = Assign(outcome, ToLook \ {u \in ToLook : found[u] # Nil}, "offline")
      BY <1>3 DEF LookupAnswered
    <2> DEFINE S == ToLook \ {u \in ToLook : found[u] # Nil}
    <2>2. S \in SUBSET {u \in Recipient : outcome[u] = "unresolved"}
      BY DEF ToLook, Unrouted, Open
    <2>3. pc # "returned" /\ pc' # "returned"
      BY <1>3 DEF LookupAnswered
    <2> HIDE DEF S
    <2>4. outcome' = Assign(outcome, S, "offline")
      BY <2>1 DEF S
    <2> QED
      BY <1>0, <2>2, <2>3, <2>4, SettleStep
  <1>4. ASSUME NEW i \in Instance, NEW expired \in SUBSET Recipient,
               NEW taken \in SUBSET Recipient, NEW answer \in {"results", "refresh", "permanent"},
               Delivered(i, expired, taken, answer)
        PROVE  Cycle!Next
    <2> DEFINE S == IF answer = "results" THEN taken ELSE {}
    <2>1. taken \subseteq Batch(i)
      BY <1>4 DEF Delivered
    <2>2. S \in SUBSET {u \in Recipient : outcome[u] = "unresolved"}
      BY <2>1 DEF Batch, Routed, Open
    <2>3. outcome' = Assign(outcome, S, "enqueued")
      BY <1>4 DEF Delivered
    <2>4. pc # "returned" /\ pc' # "returned"
      BY <1>4 DEF Delivered, NextInstance
    <2> HIDE DEF S
    <2> QED
      BY <1>0, <2>2, <2>3, <2>4, SettleStep
  <1>5. CASE UNCHANGED vars
    BY <1>5 DEF vars, recipientVars, roundVars, Cycle!vars
  <1>6. CASE Timeout
    BY <1>1, <1>6 DEF Timeout, recipientVars, roundVars
  <1>7. CASE NewRound \/ SkipLookup \/ NothingRouted \/ Resolved \/ RoundCut
    BY <1>1, <1>7 DEF NewRound, SkipLookup, NothingRouted, Resolved, RoundCut, recipientVars
  <1>8. ASSUME NEW kind \in LogicFailure, LookupFailed(kind) \/ ResolveFailed(kind)
        PROVE  UNCHANGED Cycle!vars
    BY <1>1, <1>8 DEF LookupFailed, ResolveFailed, Failure
  <1>9. ASSUME NEW i \in Instance, NEW expired \in SUBSET Recipient,
               NoLease(i) \/ NotSent(i, expired)
        PROVE  UNCHANGED Cycle!vars
    BY <1>1, <1>9 DEF NoLease, NotSent, Repair, NextInstance
  <1> QED
    BY <1>2, <1>3, <1>4, <1>5, <1>6, <1>7, <1>8, <1>9 DEF Next

\* A call of Process implements the cycle the consumer relies on: no result is
\* ever taken back or changed, and none appears after the call has returned.
THEOREM ProcessImplementsCycle == Spec => ImplementsCycle
  <1>1. Init => Cycle!Init
    BY DEF Init, Cycle!Init
  <1>2. ProcessorInv /\ [Next]_vars => [Cycle!Next]_(Cycle!vars)
    BY CycleStep
  <1> QED
    BY <1>1, <1>2, ProcessorInvariant, PTL DEF Spec, ImplementsCycle, Cycle!SafeSpec

=============================================================================
