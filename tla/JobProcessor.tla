---------------------------- MODULE JobProcessor ----------------------------
(***************************************************************************)
(* One call of Processor.Process (internal/job/processor.go, routing.go):  *)
(* at most three rounds, each of which looks up the recipients that have   *)
(* no route, resolves the instances of the others, and sends one Deliver   *)
(* to every instance.  Logic and the Comets answer as their code does; any *)
(* answer may be lost after it took effect, and the budget of the call may *)
(* run out at any moment.                                                  *)
(***************************************************************************)
EXTENDS Integers, FiniteSets

CONSTANTS
    Recipient,    \* the recipients in scope of the task
    Instance,     \* the Comet instances a route may name
    MaxRounds,    \* 3
    Nil

ASSUME ProcessorConstants ==
    /\ MaxRounds \in Nat
    /\ Nil \notin Instance

VARIABLES
    outcome,      \* RecipientResult.Outcome
    route,        \* the instance of recipient.route, or Nil
    dated,        \* recipient.routeDeadline is known: the route is not a hint
    repair,       \* recipient.repair
    stopped,      \* recipient.stopped
    repaired,     \* the one route repair of the call is used up
    attempt,      \* Result.Attempts
    pc,           \* where the call is
    todo,         \* the instances of this round that are still to be served
    leases,       \* those of them that Logic resolved to a live lease
    over,         \* the context is done: budget or caller
    copies,       \* history: how often a Comet enqueued the message
    gone,         \* history: the recipients Logic said are offline
    repairs       \* history: the lookups made for a repair

recipientVars == <<outcome, route, dated, repair, stopped>>
roundVars     == <<repaired, attempt, pc, todo, leases>>
history       == <<copies, gone, repairs>>
vars          == <<recipientVars, roundVars, over, history>>

ProcessorTypeOK ==
    /\ outcome \in [Recipient -> {"unresolved", "enqueued", "duplicate", "offline"}]
    /\ route \in [Recipient -> Instance \cup {Nil}]
    /\ dated \in [Recipient -> BOOLEAN]
    /\ repair \in [Recipient -> BOOLEAN]
    /\ stopped \in [Recipient -> BOOLEAN]
    /\ repaired \in BOOLEAN
    /\ attempt \in 0..MaxRounds
    /\ pc \in {"loop", "lookup", "resolve", "deliver", "returned"}
    /\ todo \in SUBSET Instance
    /\ leases \in SUBSET Instance
    /\ over \in BOOLEAN
    /\ copies \in [Recipient -> Nat]
    /\ gone \in SUBSET Recipient
    /\ repairs \in Nat

\* A task carries hints for some recipients; a replay carries none.
Init ==
    /\ outcome = [u \in Recipient |-> "unresolved"]
    /\ route \in [Recipient -> Instance \cup {Nil}]
    /\ dated = [u \in Recipient |-> FALSE]
    /\ repair = [u \in Recipient |-> FALSE]
    /\ stopped = [u \in Recipient |-> FALSE]
    /\ repaired = FALSE
    /\ attempt = 0
    /\ pc = "loop"
    /\ todo = {} /\ leases = {}
    /\ over = FALSE
    /\ copies = [u \in Recipient |-> 0]
    /\ gone = {}
    /\ repairs = 0

-----------------------------------------------------------------------------

\* Mutant: recipients that have their result are tried again.
OpenIgnoresOutcome == {u \in Recipient : ~stopped[u]}

\* Unresolved recipients that may still be tried in this call.
Open == {u \in Recipient : outcome[u] = "unresolved" /\ ~stopped[u]}

Runnable == \E u \in Open : ~(repair[u] /\ repaired)

\* f with the value x at every member of S.
Assign(f, S, x) == [u \in DOMAIN f |-> IF u \in S THEN x ELSE f[u]]

\* repairWithReason: the route is dropped and has to be looked up again.
Repair(S) ==
    /\ route' = Assign(route, S, Nil)
    /\ dated' = Assign(dated, S, FALSE)
    /\ repair' = Assign(repair, S, TRUE)
    /\ UNCHANGED <<outcome, stopped>>

\* rpcFailure: the answer forbids a retry, or allows the same request.
Failure(S, kind) ==
    /\ stopped' = IF kind = "permanent" THEN Assign(stopped, S, TRUE) ELSE stopped
    /\ UNCHANGED <<outcome, route, dated, repair>>

\* What Logic's mapError can answer to LookupRoutes and ResolveComets; a lost
\* answer and an answer that fails validation count as "same".
LogicFailure == {"permanent", "same"}

\* The context of the call ends: 10 seconds are over, or the worker is cancelled.
Timeout ==
    /\ pc # "returned"
    /\ ~over
    /\ over' = TRUE
    /\ UNCHANGED <<recipientVars, roundVars, history>>

\* The head of the loop in Process, and the pause before a later round.
NewRound ==
    /\ pc = "loop"
    /\ ~over
    /\ attempt < MaxRounds
    /\ Runnable
    /\ attempt' = attempt + 1
    /\ pc' = "lookup"
    /\ UNCHANGED <<recipientVars, repaired, todo, leases, over, history>>

\* Mutant: the end of the context does not end the loop.
ReturnIgnoresContext ==
    /\ pc = "loop"
    /\ attempt >= MaxRounds \/ ~Runnable
    /\ pc' = "returned"
    /\ UNCHANGED <<recipientVars, repaired, attempt, todo, leases, over, history>>

Return ==
    /\ pc = "loop"
    /\ over \/ attempt >= MaxRounds \/ ~Runnable
    /\ pc' = "returned"
    /\ UNCHANGED <<recipientVars, repaired, attempt, todo, leases, over, history>>

-----------------------------------------------------------------------------
(* round: the lookup *)

Unrouted  == {u \in Open : route[u] = Nil}
GivenUp   == {u \in Unrouted : repair[u] /\ repaired}
ToLook    == Unrouted \ GivenUp
Repairing == {u \in ToLook : repair[u]}

SpendRepair ==
    /\ repaired' = (repaired \/ Repairing # {})
    /\ repairs' = IF Repairing # {} THEN repairs + 1 ELSE repairs

SkipLookup ==
    /\ pc = "lookup"
    /\ ToLook = {}
    /\ stopped' = Assign(stopped, GivenUp, TRUE)
    /\ pc' = "resolve"
    /\ UNCHANGED <<outcome, route, dated, repair, repaired, attempt, todo, leases, over, history>>

\* Logic answers every id with a route or with the reason it is offline.
LookupAnswered ==
    /\ pc = "lookup"
    /\ ToLook # {}
    /\ ~over
    /\ SpendRepair
    /\ \E found \in [ToLook -> Instance \cup {Nil}] :
          LET online == {u \in ToLook : found[u] # Nil}
          IN  /\ route' = [u \in Recipient |-> IF u \in online THEN found[u] ELSE route[u]]
              /\ dated' = Assign(dated, online, TRUE)
              /\ repair' = Assign(repair, online, FALSE)
              /\ outcome' = Assign(outcome, ToLook \ online, "offline")
              /\ gone' = gone \cup (ToLook \ online)
              /\ stopped' = Assign(stopped, GivenUp \cup (Repairing \ online), TRUE)
    /\ pc' = "resolve"
    /\ UNCHANGED <<attempt, todo, leases, over, copies>>

\* Mutant: a failed lookup is taken for an offline answer.
LookupFailedOffline(kind) ==
    /\ pc = "lookup"
    /\ ToLook # {}
    /\ SpendRepair
    /\ outcome' = Assign(outcome, ToLook, "offline")
    /\ pc' = "resolve"
    /\ UNCHANGED <<route, dated, repair, stopped, attempt, todo, leases, over, copies, gone>>

\* The lookup fails.  A recipient under repair gets no second one.
LookupFailed(kind) ==
    /\ pc = "lookup"
    /\ ToLook # {}
    /\ SpendRepair
    /\ stopped' = Assign(stopped, GivenUp \cup Repairing \cup
                               (IF kind = "permanent" THEN ToLook ELSE {}), TRUE)
    /\ pc' = "resolve"
    /\ UNCHANGED <<outcome, route, dated, repair, attempt, todo, leases, over, copies, gone>>

-----------------------------------------------------------------------------
(* round: ResolveComets and Deliver *)

Routed == {u \in Open : route[u] # Nil}

Batch(i) == {u \in Routed : route[u] = i}

NothingRouted ==
    /\ pc = "resolve"
    /\ Routed = {} \/ over
    /\ pc' = "loop"
    /\ UNCHANGED <<recipientVars, repaired, attempt, todo, leases, over, history>>

Resolved ==
    /\ pc = "resolve"
    /\ Routed # {} /\ ~over
    /\ todo' = {route[u] : u \in Routed}
    /\ leases' \in SUBSET {route[u] : u \in Routed}
    /\ pc' = "deliver"
    /\ UNCHANGED <<recipientVars, repaired, attempt, over, history>>

ResolveFailed(kind) ==
    /\ pc = "resolve"
    /\ Routed # {}
    /\ Failure(Routed, kind)
    /\ pc' = "loop"
    /\ UNCHANGED <<repaired, attempt, todo, leases, over, history>>

\* The round goes on with the other instances, or is over.
NextInstance(i) ==
    /\ todo' = todo \ {i}
    /\ pc' = IF todo = {i} THEN "loop" ELSE "deliver"
    /\ UNCHANGED <<repaired, attempt, leases, over>>

RoundCut ==
    /\ pc = "deliver"
    /\ over
    /\ pc' = "loop"
    /\ UNCHANGED <<recipientVars, repaired, attempt, todo, leases, over, history>>

\* The instance is not registered any more, or its lease has run out.
NoLease(i) ==
    /\ pc = "deliver" /\ i \in todo /\ ~over
    /\ Repair(Batch(i))
    /\ NextInstance(i)
    /\ UNCHANGED history

\* eligible() drops the recipients whose known route deadline has passed; then no
\* client could be had, or the context ended before the call.
NotSent(i, expired) ==
    /\ pc = "deliver" /\ i \in todo \cap leases /\ ~over
    /\ expired \subseteq {u \in Batch(i) : dated[u]}
    /\ Repair(expired)
    /\ NextInstance(i)
    /\ UNCHANGED history

\* Mutant: an uncertain Deliver is simply repeated.
LoseRouteNever(i, expired, taken, answer) ==
    IF answer = "results" THEN Batch(i) \ taken ELSE expired

\* The recipients that lose their route: all that were not enqueued for certain.
LoseRoute(i, expired, taken, answer) ==
    CASE answer = "results"   -> Batch(i) \ taken
      [] answer = "refresh"   -> Batch(i)
      [] answer = "permanent" -> expired

\* The Comet applies the Deliver to taken, the targets it can enqueue; answer
\* says what the caller hears: the results, an error that asks for a fresh route
\* (the context ended, a stale boot, an invalid answer), or a lasting refusal,
\* which Comet gives only before it has applied anything.
Delivered(i, expired, taken, answer) ==
    LET batch == Batch(i) \ expired
    IN  /\ pc = "deliver" /\ i \in todo \cap leases /\ ~over
        /\ expired \subseteq {u \in Batch(i) : dated[u]}
        /\ batch # {}
        /\ taken \subseteq batch
        /\ answer = "permanent" => taken = {}
        /\ copies' = [u \in Recipient |-> IF u \in taken THEN copies[u] + 1 ELSE copies[u]]
        /\ LET settled == IF answer = "results" THEN taken ELSE {}
               again   == LoseRoute(i, expired, taken, answer)
           IN  /\ outcome' = Assign(outcome, settled, "enqueued")
               /\ route' = Assign(route, again, Nil)
               /\ dated' = Assign(dated, again, FALSE)
               /\ repair' = Assign(repair, again, TRUE)
               /\ stopped' = IF answer = "permanent" THEN Assign(stopped, batch, TRUE) ELSE stopped
        /\ NextInstance(i)
        /\ UNCHANGED <<gone, repairs>>

Next ==
    \/ Timeout
    \/ NewRound
    \/ Return
    \/ SkipLookup
    \/ LookupAnswered
    \/ \E kind \in LogicFailure : LookupFailed(kind) \/ ResolveFailed(kind)
    \/ NothingRouted
    \/ Resolved
    \/ RoundCut
    \/ \E i \in Instance :
          \/ NoLease(i)
          \/ \E expired \in SUBSET Recipient :
                \/ NotSent(i, expired)
                \/ \E taken \in SUBSET Recipient, answer \in {"results", "refresh", "permanent"} :
                      Delivered(i, expired, taken, answer)

Spec == Init /\ [][Next]_vars /\ WF_vars(Next)

-----------------------------------------------------------------------------

\* A result the consumer will commit on is true: enqueued means a Comet did
\* enqueue the message, offline means Logic said so; a failed, lost or invalid
\* answer of either is never taken for a result (round and lookup).
ResultsAreTrue ==
    \A u \in Recipient :
        /\ outcome[u] = "enqueued" => copies[u] > 0
        /\ outcome[u] = "offline" => u \in gone

\* A call makes one route repair at most, however many recipients, instances and
\* rounds ask for one.
OneRepair == repairs <= 1

\* A recipient is enqueued at most twice in a call: every uncertain Deliver drops
\* the route, and only the one repair can bring another.
AtMostTwoCopies == \A u \in Recipient : copies[u] <= 2

Cycle == INSTANCE DeliveryCycle WITH returned <- (pc = "returned")

\* The call is a delivery cycle: no later round, repair or failure changes or
\* takes back the result of a recipient.
ImplementsCycle == Cycle!SafeSpec

\* The call returns: it ends by itself after its rounds, and at once when the
\* context is done.
CallReturns == <>(pc = "returned")

-----------------------------------------------------------------------------
(* What makes the invariants above inductive. *)

\* A recipient under repair has no route; the repair is spent when it was made.
RepairsCounted ==
    /\ repairs = IF repaired THEN 1 ELSE 0
    /\ \A u \in Recipient : repair[u] => route[u] = Nil

\* Whoever was enqueued once is tried again only through the repair, and whoever
\* was enqueued twice is not tried again.
CopiesPaidFor ==
    \A u \in Recipient :
        LET finished == outcome[u] # "unresolved" \/ stopped[u] \/ repair[u]
        IN  /\ copies[u] >= 1 => finished \/ repaired
            /\ copies[u] = 2 => finished /\ repaired

ProcessorInv ==
    /\ ProcessorTypeOK
    /\ ResultsAreTrue
    /\ RepairsCounted
    /\ AtMostTwoCopies
    /\ CopiesPaidFor

=============================================================================
