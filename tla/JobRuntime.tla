----------------------------- MODULE JobRuntime -----------------------------
(***************************************************************************)
(* The Job process: Run (internal/job/app/runtime.go), which owns the      *)
(* clients and the probes; runConsumer (kafka.go), which follows the       *)
(* generations of the consumer group and starts a worker for every         *)
(* partition; the sockets of the group (network.go) and the pool of RPC    *)
(* clients (rpc.go).  What a worker does with its records is JobConsumer;  *)
(* here it only uses the clients, reports progress and ends.               *)
(*                                                                         *)
(* The coordinator goroutine of kafka-go is modelled as runConsumer uses   *)
(* it: a generation ends when the group rebalances or when one of its      *)
(* functions returns, and the next one is offered when the functions it    *)
(* counts have returned.  A function started after the end of its          *)
(* generation runs all the same, and is not counted.                       *)
(***************************************************************************)
EXTENDS Integers, FiniteSets

CONSTANTS
    Partition,
    Assignment,      \* the sets of partitions the group may assign to this member
    MaxGeneration,   \* bound: generations the coordinator offers
    PoolLimit        \* limit of newRPCPool

ASSUME RuntimeConstants ==
    /\ Assignment \subseteq SUBSET Partition
    /\ MaxGeneration \in Nat \ {0} /\ PoolLimit \in Nat \ {0}

VARIABLES
    main,        \* Run: select, shutdown, await, sink, pool, returned
    stopped,     \* the context of Run is cancelled
    cancelled,   \* the context of runConsumer is cancelled
    cons,        \* runConsumer
    failed, errorsInRow,
    state,       \* runtimeState: generation, partitions, joined, alive
    group,       \* the coordinator: joining, offered, open, draining, closed
    closing,     \* ConsumerGroup.Close was called
    cur,         \* the latest generation
    ended,       \* generations whose context is done
    assigned,    \* their partitions
    gen,         \* the generation Next returned last
    todo,        \* its partitions whose worker is still to be started
    watch,       \* the watcher of each generation
    worker,      \* the worker of each partition in each generation
    counted,     \* functions the coordinator waits for
    socket,      \* the coordinator's socket: none, dialing, open
    netClosed,   \* kafkaNetwork.closed
    clients      \* how many RPC clients the pool holds

runVars   == <<main, stopped>>
loopVars  == <<cons, failed, errorsInRow, gen, todo>>
groupVars == <<group, closing, cur, ended, assigned, counted>>
netVars   == <<socket, netClosed>>
workVars  == <<watch, worker>>
jobVars   == <<runVars, cancelled, loopVars, state, groupVars, netVars, workVars, clients>>

Generation == 1..MaxGeneration
Function   == Generation \X (Partition \cup {"watcher"})
Live       == {"running", "calling", "failing"}

\* What the partitions of a generation have reported, and runtimeState.
Reports == UNION {[P -> 0..MaxGeneration] : P \in SUBSET Partition}

State ==
    [generation : 0..MaxGeneration, joined : BOOLEAN, alive : BOOLEAN, partitions : Reports]

JobTypeOK ==
    /\ main \in {"select", "shutdown", "await", "sink", "pool", "returned"}
    /\ cons \in {"check", "next", "got", "assign", "start", "workers", "defers", "closing", "left", "done"}
    /\ stopped \in BOOLEAN /\ cancelled \in BOOLEAN /\ failed \in BOOLEAN
    /\ closing \in BOOLEAN /\ netClosed \in BOOLEAN
    /\ errorsInRow \in 0..3
    /\ state \in State
    /\ group \in {"joining", "offered", "open", "draining", "closed"}
    /\ cur \in 0..MaxGeneration /\ ended \subseteq Generation
    /\ assigned \in [Generation -> SUBSET Partition]
    /\ gen \in 0..MaxGeneration /\ todo \subseteq Partition
    /\ watch \in [Generation -> {"none", "waiting", "done"}]
    /\ worker \in [Generation -> [Partition -> {"none", "done"} \cup Live]]
    /\ counted \subseteq Function
    /\ socket \in {"none", "dialing", "open"}
    /\ clients \in 0..PoolLimit

Nobody == [p \in {} |-> 0]

\* Nothing of the consumer has happened yet.
JobBlank ==
    /\ stopped = FALSE /\ cancelled = FALSE
    /\ failed = FALSE /\ errorsInRow = 0 /\ gen = 0 /\ todo = {}
    /\ state = [generation |-> 0, joined |-> FALSE, alive |-> TRUE, partitions |-> Nobody]
    /\ closing = FALSE /\ cur = 0 /\ ended = {}
    /\ assigned = [g \in Generation |-> {}] /\ counted = {}
    /\ watch = [g \in Generation |-> "none"]
    /\ worker = [g \in Generation |-> [p \in Partition |-> "none"]]
    /\ socket = "none" /\ netClosed = FALSE /\ clients = 1

\* The process has its pool with the client of Logic, and starts the consumer.
JobInit == JobBlank /\ main = "select" /\ cons = "check" /\ group = "joining"

\* The context of runConsumer is derived from that of Run.
Done == stopped \/ cancelled

-----------------------------------------------------------------------------
(* runtimeState *)

assign(g, P) ==
    state' = [state EXCEPT !.generation = g, !.partitions = [p \in P |-> 0], !.joined = TRUE]

\* Mutant: the generation is not compared.
releaseUnfenced(g) ==
    state' = [state EXCEPT !.partitions = Nobody, !.joined = FALSE]

release(g) ==
    state' = IF state.generation = g
             THEN [state EXCEPT !.partitions = Nobody, !.joined = FALSE] ELSE state

\* setLag and progress: an entry is written if its generation owns it.
progress(g, p) ==
    state' = IF state.generation = g /\ p \in DOMAIN state.partitions
             THEN [state EXCEPT !.partitions[p] = g] ELSE state

\* What /readyz answers, the dependencies and Blocked apart.
Ready == state.alive /\ state.joined

-----------------------------------------------------------------------------
(* the coordinator of kafka-go *)

Open(f) == IF f[2] = "watcher" THEN watch[f[1]] = "waiting" ELSE worker[f[1]][f[2]] \in Live

Dial ==
    /\ group = "joining" /\ socket = "none" /\ ~closing /\ ~netClosed
    /\ socket' = "dialing"
    /\ UNCHANGED <<runVars, cancelled, loopVars, state, groupVars, netClosed, workVars, clients>>

\* Mutant: dial does not look at closed again.
DialReturnsLate ==
    /\ socket = "dialing"
    /\ socket' \in {"none", "open"}
    /\ UNCHANGED <<runVars, cancelled, loopVars, state, groupVars, netClosed, workVars, clients>>

\* dial: a connection that comes up after closeSockets is closed at once.
DialReturns ==
    /\ socket = "dialing"
    /\ socket' \in IF netClosed THEN {"none"} ELSE {"none", "open"}
    /\ UNCHANGED <<runVars, cancelled, loopVars, state, groupVars, netClosed, workVars, clients>>

Offer ==
    /\ group = "joining" /\ socket = "open" /\ ~closing
    /\ cur < MaxGeneration
    /\ \E P \in Assignment : assigned' = [assigned EXCEPT ![cur + 1] = P]
    /\ group' = "offered"
    /\ cur' = cur + 1
    /\ UNCHANGED <<runVars, cancelled, loopVars, state, closing, ended, counted,
                   netVars, workVars, clients>>

\* A rebalance, a lost heartbeat, Close, or a function that has returned.
GenerationEnds ==
    /\ group = "open"
    /\ group' = "draining"
    /\ ended' = ended \cup {cur}
    /\ UNCHANGED <<runVars, cancelled, loopVars, state, closing, cur, assigned, counted,
                   netVars, workVars, clients>>

\* The counted functions of the generation have returned.
Drained ==
    /\ group = "draining"
    /\ \A f \in counted : ~Open(f)
    /\ group' = "joining"
    /\ UNCHANGED <<runVars, cancelled, loopVars, state, closing, cur, ended, assigned, counted, netVars, workVars, clients>>

\* Close takes effect at once, or when the JoinGroup read returns because its
\* socket was closed; the read deadline is not relied on.
GroupCloses ==
    /\ closing
    /\ group = "offered" \/ (group = "joining" /\ socket = "none")
    /\ group' = "closed"
    /\ ended' = IF group = "offered" THEN ended \cup {cur} ELSE ended
    /\ UNCHANGED <<runVars, cancelled, loopVars, state, closing, cur, assigned, counted,
                   netVars, workVars, clients>>

-----------------------------------------------------------------------------
(* runConsumer *)

Check ==
    /\ cons = "check"
    /\ cons' = IF Done \/ failed THEN "defers" ELSE "next"
    /\ UNCHANGED <<runVars, cancelled, failed, errorsInRow, gen, todo, state, groupVars, netVars,
                   workVars, clients>>

NextGeneration ==
    /\ cons = "next" /\ group = "offered"
    /\ group' = "open"
    /\ gen' = cur
    /\ cons' = "got"
    /\ UNCHANGED <<runVars, cancelled, failed, errorsInRow, todo, state, closing, cur, ended,
                   assigned, counted, netVars, workVars, clients>>

\* Next returns an error: the context is done, or the coordinator reports one;
\* a rebalance is not counted.
NextError ==
    /\ cons = "next"
    /\ Done \/ group = "joining"
    /\ state' = [state EXCEPT !.joined = FALSE]
    /\ IF Done THEN cons' = "defers" /\ UNCHANGED errorsInRow
       ELSE \/ cons' = "check" /\ UNCHANGED errorsInRow
            \/ /\ errorsInRow' = errorsInRow + 1
               /\ cons' = IF errorsInRow' >= 3 THEN "defers" ELSE "check"
    /\ UNCHANGED <<runVars, cancelled, failed, gen, todo, groupVars, netVars, workVars, clients>>

\* Mutant: the generation Next returned is taken without another look.
GotUnchecked ==
    /\ cons = "got"
    /\ cons' = "assign"
    /\ errorsInRow' = 0
    /\ UNCHANGED <<runVars, cancelled, failed, gen, todo, state, groupVars, netVars, workVars, clients>>

Got ==
    /\ cons = "got"
    /\ cons' = IF failed THEN "defers" ELSE "assign"
    /\ errorsInRow' = IF failed THEN errorsInRow ELSE 0
    /\ UNCHANGED <<runVars, cancelled, failed, gen, todo, state, groupVars, netVars, workVars, clients>>

Assign ==
    /\ cons = "assign"
    /\ assign(gen, assigned[gen])
    /\ cons' = "start"
    /\ UNCHANGED <<runVars, cancelled, failed, errorsInRow, gen, todo, groupVars, netVars, workVars, clients>>

\* Generation.Start: what starts after the end is not counted.
Starts(f) == counted' = IF f[1] \in ended THEN counted ELSE counted \cup {f}

StartWatcher ==
    /\ cons = "start"
    /\ watch' = [watch EXCEPT ![gen] = "waiting"]
    /\ Starts(<<gen, "watcher">>)
    /\ todo' = assigned[gen]
    /\ cons' = "workers"
    /\ UNCHANGED <<runVars, cancelled, failed, errorsInRow, gen, state, group, closing, cur, ended,
                   assigned, netVars, worker, clients>>

StartWorker(p) ==
    /\ cons = "workers" /\ p \in todo
    /\ worker' = [worker EXCEPT ![gen][p] = "running"]
    /\ Starts(<<gen, p>>)
    /\ todo' = todo \ {p}
    /\ UNCHANGED <<runVars, cancelled, cons, failed, errorsInRow, gen, state, group, closing, cur,
                   ended, assigned, netVars, watch, clients>>

WorkersStarted ==
    /\ cons = "workers" /\ todo = {}
    /\ cons' = "check"
    /\ UNCHANGED <<runVars, cancelled, failed, errorsInRow, gen, todo, state, groupVars, netVars,
                   workVars, clients>>

\* closeSockets: kafkaNetwork.Close, and the AfterFunc of its context.
CloseSockets ==
    /\ netClosed' = TRUE
    /\ socket' = IF socket = "open" THEN "none" ELSE socket

AfterDone ==
    /\ Done /\ ~netClosed
    /\ CloseSockets
    /\ UNCHANGED <<runVars, cancelled, loopVars, state, groupVars, workVars, clients>>

AfterDoneClose ==
    /\ Done /\ ~closing
    /\ closing' = TRUE
    /\ UNCHANGED <<runVars, cancelled, loopVars, state, group, cur, ended, assigned, counted, netVars, workVars, clients>>

Defers ==
    /\ cons = "defers"
    /\ cancelled' = TRUE
    /\ CloseSockets
    /\ closing' = TRUE
    /\ cons' = "closing"
    /\ UNCHANGED <<runVars, failed, errorsInRow, gen, todo, state, group, cur, ended, assigned,
                   counted, workVars, clients>>

\* group.Close has returned and workers.Wait too.
NoWorkers == \A g \in Generation, p \in Partition : worker[g][p] \notin Live

Leave ==
    /\ cons = "closing"
    /\ group = "closed"
    /\ NoWorkers
    /\ cons' = "left"
    /\ UNCHANGED <<runVars, cancelled, failed, errorsInRow, gen, todo, state, groupVars, netVars,
                   workVars, clients>>

ConsumerDone ==
    /\ cons = "left"
    /\ state' = [state EXCEPT !.alive = FALSE, !.joined = FALSE]
    /\ cons' = "done"
    /\ UNCHANGED <<runVars, cancelled, failed, errorsInRow, gen, todo, groupVars, netVars, workVars, clients>>

-----------------------------------------------------------------------------
(* the functions of a generation *)

WorkerDone(g) == Done \/ g \in ended

Becomes(g, p, w) == worker' = [worker EXCEPT ![g][p] = w]

Release(g) ==
    /\ watch[g] = "waiting" /\ g \in ended
    /\ release(g)
    /\ watch' = [watch EXCEPT ![g] = "done"]
    /\ UNCHANGED <<runVars, cancelled, loopVars, groupVars, netVars, worker, clients>>

\* The partition's reader, its sampler and its commits report.
Report(g, p) ==
    /\ worker[g][p] = "running"
    /\ progress(g, p)
    /\ state' # state
    /\ UNCHANGED <<runVars, cancelled, loopVars, groupVars, netVars, workVars, clients>>

\* rpcPool.get: a client that is there already, or a new one below the limit.
Get(g, p) ==
    /\ worker[g][p] = "running" /\ ~WorkerDone(g)
    /\ clients' \in {clients, clients + 1} \cap 0..PoolLimit
    /\ Becomes(g, p, "calling")
    /\ UNCHANGED <<runVars, cancelled, loopVars, state, groupVars, netVars, watch>>

CallReturns(g, p) ==
    /\ worker[g][p] = "calling"
    /\ Becomes(g, p, "running")
    /\ UNCHANGED <<runVars, cancelled, loopVars, state, groupVars, netVars, watch, clients>>

\* The function returns; a counted one ends its generation.
Ends(g, p) ==
    /\ Becomes(g, p, "done")
    /\ ended' = IF <<g, p>> \in counted THEN ended \cup {g} ELSE ended

WorkerStops(g, p) ==
    /\ worker[g][p] = "running" /\ WorkerDone(g)
    /\ Ends(g, p)
    /\ UNCHANGED <<runVars, cancelled, loopVars, state, group, closing, cur, assigned, counted, netVars, watch, clients>>

\* RunPartition gives up with its context alive: fail() in two steps.
WorkerFails(g, p) ==
    /\ worker[g][p] = "running" /\ ~WorkerDone(g)
    /\ failed' = TRUE
    /\ Becomes(g, p, "failing")
    /\ UNCHANGED <<runVars, cancelled, cons, errorsInRow, gen, todo, state, groupVars, netVars, watch, clients>>

Fail(g, p) ==
    /\ worker[g][p] = "failing"
    /\ state' = [state EXCEPT !.joined = FALSE]
    /\ cancelled' = TRUE
    /\ Ends(g, p)
    /\ UNCHANGED <<runVars, loopVars, group, closing, cur, assigned, counted, netVars,
                   watch, clients>>

-----------------------------------------------------------------------------
(* Run *)

Stop ==
    /\ main = "select" /\ ~stopped
    /\ stopped' = TRUE
    /\ UNCHANGED <<main, cancelled, loopVars, state, groupVars, netVars, workVars, clients>>

\* The select: cancelled, the consumer has returned, or the probes have.
Select(httpDone) ==
    /\ main = "select"
    /\ stopped \/ cons = "done" \/ httpDone
    /\ main' = "shutdown"
    /\ stopped' = TRUE
    /\ UNCHANGED <<cancelled, loopVars, state, groupVars, netVars, workVars, clients>>

\* The probes are shut down, within the grace period or by Close.
Shutdown ==
    /\ main = "shutdown"
    /\ main' = "await"
    /\ UNCHANGED <<stopped, cancelled, loopVars, state, groupVars, netVars, workVars, clients>>

Await ==
    /\ main = "await" /\ cons = "done"
    /\ main' = "sink"
    /\ UNCHANGED <<stopped, cancelled, loopVars, state, groupVars, netVars, workVars, clients>>

CloseSink ==
    /\ main = "sink"
    /\ main' = "pool"
    /\ state' = [state EXCEPT !.alive = FALSE]
    /\ UNCHANGED <<stopped, cancelled, loopVars, groupVars, netVars, workVars, clients>>

\* rpcPool.Close
ClosePool ==
    /\ main = "pool"
    /\ main' = "returned"
    /\ clients' = 0
    /\ UNCHANGED <<stopped, cancelled, loopVars, state, groupVars, netVars, workVars>>

Coordinator == Dial \/ DialReturns \/ Offer \/ GenerationEnds \/ Drained \/ GroupCloses

Loop ==
    \/ Check \/ NextGeneration \/ NextError \/ Got \/ Assign \/ StartWatcher \/ WorkersStarted
    \/ \E p \in Partition : StartWorker(p)
    \/ AfterDone \/ AfterDoneClose \/ Defers \/ Leave \/ ConsumerDone

Work(g, p) ==
    Report(g, p) \/ Get(g, p) \/ CallReturns(g, p) \/ WorkerStops(g, p)
      \/ WorkerFails(g, p) \/ Fail(g, p)

Main == (\E httpDone \in BOOLEAN : Select(httpDone)) \/ Shutdown \/ Await \/ CloseSink \/ ClosePool

JobNext ==
    \/ Coordinator \/ Loop \/ Main \/ Stop
    \/ \E g \in Generation : Release(g) \/ \E p \in Partition : Work(g, p)

\* Goroutines that can go on do.  A worker whose context is done leaves its
\* calls and its loop: every call of it takes that context or has a timeout.
JobFairness ==
    /\ WF_jobVars(Loop) /\ WF_jobVars(AfterDone) /\ WF_jobVars(AfterDoneClose)
    /\ WF_jobVars(DialReturns) /\ WF_jobVars(closing /\ GenerationEnds)
    /\ WF_jobVars(Drained) /\ WF_jobVars(GroupCloses)
    /\ WF_jobVars(stopped /\ Main)
    /\ \A g \in Generation :
         /\ WF_jobVars(Release(g))
         /\ \A p \in Partition : /\ WF_jobVars(CallReturns(g, p)) /\ WF_jobVars(Fail(g, p))
                                 /\ SF_jobVars(WorkerStops(g, p))

-----------------------------------------------------------------------------

\* Readiness and progress are those of the generation the process is in: no
\* sampler, commit or watcher of an earlier one, late as it may be, takes the
\* ownership back or gives it to itself ("a canceled sampler or deferred cleanup
\* can never resurrect/erase current ownership").
OwnershipFenced ==
    LET g == state.generation
    IN  /\ \A p \in DOMAIN state.partitions : state.partitions[p] \in {0, g}
        /\ g # 0 /\ watch[g] = "done" => state.partitions = Nobody
        /\ g # 0 /\ g \notin ended /\ cons # "done"
           => /\ DOMAIN state.partitions = assigned[g]
              /\ ~failed /\ ~Done => Ready

\* A failed worker takes the process out of the group for good ("without ever
\* starting a replacement generation"): it never becomes ready again.
NoReplacement == [][failed /\ ~state.joined => ~state.joined']_jobVars

\* The writer and the RPC clients are closed after the last worker has left
\* them, and when Run returns no socket of the group is left ("Shutdown cancels
\* generation work and waits before closing any owned clients").
JobClosesLast ==
    /\ main \in {"pool", "returned"} => NoWorkers
    /\ cons \in {"left", "done"} => socket = "none"

-----------------------------------------------------------------------------
(* What makes the invariants above inductive. *)

Serving == cons \notin {"defers", "closing", "left", "done"}

\* The generations follow each other: those before the one that is open, and
\* every one while the group is joined again, have ended.
GenerationsInOrder ==
    /\ gen <= cur /\ state.generation <= gen
    /\ group = "offered" => gen < cur
    /\ group = "open" => cur # 0
    /\ \A g \in 1..(cur - 1) : g \in ended
    /\ group \in {"joining", "draining", "closed"} => \A g \in 1..cur : g \in ended

\* A generation has no watcher and no worker before runConsumer has it, has
\* assigned it and starts them; the watcher is the first.
StartedInOrder ==
    /\ cons \in {"got", "assign", "start", "workers"} => gen # 0
    /\ cons \in {"got", "assign"} => state.generation < gen
    /\ cons = "start" => state.generation = gen
    /\ cons \in {"got", "assign", "start"} => watch[gen] = "none"
    /\ cons = "workers" => watch[gen] # "none"
    /\ \A g \in Generation : g > gen => watch[g] = "none"
    /\ \A g \in Generation, p \in Partition : worker[g][p] # "none" => watch[g] # "none"

\* No generation is assigned after a worker has failed.
NoneAfterFailure ==
    /\ cons = "assign" => ~failed
    /\ Serving => errorsInRow < 3

\* The consumer has left the group, its sockets and its workers when it returns,
\* and Run goes on to its clients after that.
LeftBehind ==
    /\ socket = "dialing" => group = "joining"
    /\ netClosed => socket # "open"
    /\ cons = "closing" => netClosed
    /\ cons \in {"left", "done"} => group = "closed" /\ socket = "none" /\ NoWorkers
    /\ cons # "done" => state.alive
    /\ main \in {"sink", "pool", "returned"} => cons = "done"

JobInv ==
    /\ JobTypeOK
    /\ GenerationsInOrder
    /\ StartedInOrder
    /\ NoneAfterFailure
    /\ LeftBehind
    /\ OwnershipFenced

=============================================================================
