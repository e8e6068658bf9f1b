---------------------------- MODULE JobConsumer ----------------------------
(***************************************************************************)
(* The Job role's Kafka side: the partition workers of                     *)
(* internal/job/consumer.go, started for every generation of the consumer  *)
(* group by internal/job/app/kafka.go.  A worker handles one record at a   *)
(* time: it processes the task, writes what is left unresolved to the dead *)
(* letter topic, commits the offset, and only then fetches the next one.   *)
(*                                                                         *)
(* The broker is external: it keeps the log, the committed offsets and the *)
(* dead letters, hands partitions to the members of a generation, and      *)
(* refuses commits of an earlier generation.  Its answers may be lost.     *)
(* What happens inside Process is module JobProcessor; here a task's       *)
(* recipients become resolved one by one, in any order.                    *)
(***************************************************************************)
EXTENDS Integers, Sequences

CONSTANTS
    Job,          \* the Job processes of the group
    Partition,
    Log,          \* the records of each partition; the first has offset 0
    Task,         \* decodable records: id, content, recipients, and the scope:
                  \* pending_recipients of a replay, otherwise all recipients
    TaskID,
    Recipient,
    Garbage,      \* a record DecodeTask refuses
    Raw,          \* what a dead letter keeps of a record that is not processed
    Attempts,     \* ConsumerOptions.Attempts
    IdentityCapacity,
    MaxFaults     \* bound: crashes, rebalances, failed and lost answers

Worker == Job \X Partition

ASSUME ConsumerConstants ==
    /\ Log \in [Partition -> Seq(Task \cup {Garbage})]
    /\ \A t \in Task : /\ t.id \in TaskID
                       /\ t.recipients \in SUBSET Recipient
                       /\ t.scope \in SUBSET t.recipients
    /\ Garbage \notin Task
    /\ Raw \notin Recipient
    /\ Attempts \in Nat \ {0}
    /\ IdentityCapacity \in Nat \ {0}
    /\ MaxFaults \in Nat

VARIABLES
    generation,   \* broker: the group's current generation
    committed,    \* broker: the next offset of each partition
    dlq,          \* broker: the dead letter topic
    job,          \* the life of a Job process in the group
    joined,       \* the generation a process works for
    cancelled,    \* the context of the process's current generation is done
    failed,       \* runConsumer's failed flag
    phase,        \* where a worker is in RunPartition
    pos,          \* the offset it fetches or handles
    progress,     \* the recipients its Process call has resolved
    dead,         \* the body of the dead letter it writes
    tries,        \* the failed attempts of the acknowledgement it is at
    identities,   \* Consumer.identities
    order,        \* Consumer.order
    next,         \* Consumer.next
    resolved,     \* history: the recipients some Process call resolved
    faults        \* the faults so far

brokerVars   == <<generation, committed, dlq>>
jobVars      == <<job, joined, cancelled, failed>>
workerVars   == <<phase, pos, progress, dead, tries>>
identityVars == <<identities, order, next>>
vars == <<brokerVars, jobVars, workerVars, identityVars, resolved, faults>>

Phase  == {"none", "fetch", "process", "dlq", "commit", "ended"}
Active == {"fetch", "process", "dlq", "commit"}

\* A dead letter keeps the pending recipients, or the raw bytes.
Body   == SUBSET (Recipient \cup {Raw})
Letter == [partition: Partition, offset: Nat, body: Body]

ConsumerTypeOK ==
    /\ generation \in Nat
    /\ committed \in [Partition -> Nat]
    /\ dlq \in SUBSET Letter
    /\ job \in [Job -> {"joining", "member", "down"}]
    /\ joined \in [Job -> Nat]
    /\ cancelled \in [Job -> BOOLEAN]
    /\ failed \in [Job -> BOOLEAN]
    /\ phase \in [Worker -> Phase]
    /\ pos \in [Worker -> Nat]
    /\ progress \in [Worker -> SUBSET Recipient]
    /\ dead \in [Worker -> Body]
    /\ tries \in [Worker -> Nat]
    /\ DOMAIN identities = Job
    /\ order \in [Job -> Seq(TaskID)]
    /\ next \in [Job -> Nat]
    /\ resolved \in SUBSET (Partition \X Nat \X Recipient)
    /\ faults \in Nat

\* The record at offset o, and whether there is one.
Record(q, o) == Log[q][o + 1]

Available(q, o) == o < Len(Log[q])

Init ==
    /\ generation = 0
    /\ committed = [q \in Partition |-> 0]
    /\ dlq = {}
    /\ job = [p \in Job |-> "joining"]
    /\ joined = [p \in Job |-> 0]
    /\ cancelled = [p \in Job |-> FALSE]
    /\ failed = [p \in Job |-> FALSE]
    /\ phase = [w \in Worker |-> "none"]
    /\ pos = [w \in Worker |-> 0]
    /\ progress = [w \in Worker |-> {}]
    /\ dead = [w \in Worker |-> {}]
    /\ tries = [w \in Worker |-> 0]
    /\ identities = [p \in Job |-> <<>>]
    /\ order = [p \in Job |-> <<>>]
    /\ next = [p \in Job |-> 1]
    /\ resolved = {}
    /\ faults = 0

-----------------------------------------------------------------------------
(* the group and the processes *)

Fault == faults < MaxFaults /\ faults' = faults + 1

\* Process p is a member of the group's current generation.
Current(p) == job[p] = "member" /\ joined[p] = generation

\* Every process that waits in group.Next joins the new generation, and one of
\* them is handed each partition, from its committed offset on.  A process that
\* still works for an earlier generation is no member any more, whether or not it
\* knows: that is a fault, as the coordinator first waits for the members.
NewGeneration ==
    LET members == {p \in Job : job[p] = "joining"}
    IN  /\ members # {}
        /\ IF \E p \in Job : Current(p) THEN Fault ELSE UNCHANGED faults
        /\ generation' = generation + 1
        /\ job' = [p \in Job |-> IF p \in members THEN "member" ELSE job[p]]
        /\ joined' = [p \in Job |-> IF p \in members THEN generation + 1 ELSE joined[p]]
        /\ \E owner \in [Partition -> members] :
              LET started == {w \in Worker : owner[w[2]] = w[1]}
              IN  /\ phase' = [w \in Worker |-> IF w \in started THEN "fetch" ELSE phase[w]]
                  /\ pos' = [w \in Worker |-> IF w \in started THEN committed[w[2]] ELSE pos[w]]
        /\ UNCHANGED <<committed, dlq, cancelled, failed, progress, dead, tries,
                       identityVars, resolved>>

\* The generation ends for this process: its heartbeat was refused because the
\* group has moved on, or the coordinator was lost, or the process is told to stop.
GenerationEnds(p) ==
    /\ job[p] = "member"
    /\ ~cancelled[p]
    /\ IF Current(p) THEN Fault ELSE UNCHANGED faults
    /\ cancelled' = [cancelled EXCEPT ![p] = TRUE]
    /\ UNCHANGED <<brokerVars, job, joined, failed, workerVars, identityVars, resolved>>

\* Every worker of the generation has returned: the process asks for the next
\* generation, or runConsumer returns because a worker had failed.
LeaveGeneration(p) ==
    /\ job[p] = "member"
    /\ cancelled[p]
    /\ \A q \in Partition : phase[<<p, q>>] \in {"none", "ended"}
    /\ job' = [job EXCEPT ![p] = IF failed[p] THEN "down" ELSE "joining"]
    /\ cancelled' = [cancelled EXCEPT ![p] = FALSE]
    /\ phase' = [w \in Worker |-> IF w[1] = p THEN "none" ELSE phase[w]]
    /\ tries' = [w \in Worker |-> IF w[1] = p THEN 0 ELSE tries[w]]
    /\ UNCHANGED <<brokerVars, joined, failed, pos, progress, dead, identityVars,
                   resolved, faults>>

Crash(p) ==
    /\ job[p] # "down"
    /\ Fault
    /\ job' = [job EXCEPT ![p] = "down"]
    /\ cancelled' = [cancelled EXCEPT ![p] = FALSE]
    /\ phase' = [w \in Worker |-> IF w[1] = p THEN "none" ELSE phase[w]]
    /\ tries' = [w \in Worker |-> IF w[1] = p THEN 0 ELSE tries[w]]
    /\ UNCHANGED <<brokerVars, joined, failed, pos, progress, dead, identityVars, resolved>>

\* The supervisor starts the process again: NewConsumer, an empty window.
Restart(p) ==
    /\ job[p] = "down"
    /\ job' = [job EXCEPT ![p] = "joining"]
    /\ failed' = [failed EXCEPT ![p] = FALSE]
    /\ identities' = [identities EXCEPT ![p] = <<>>]
    /\ order' = [order EXCEPT ![p] = <<>>]
    /\ next' = [next EXCEPT ![p] = 1]
    /\ UNCHANGED <<brokerVars, joined, cancelled, workerVars, resolved, faults>>

-----------------------------------------------------------------------------
(* Consumer.conflict: the window of recent task identities *)

\* ImmutableDigest: everything but the routes, the tracing and the replay scope.
Digest(t) == <<t.content, t.recipients>>

Known(p, t) == t.id \in DOMAIN identities[p]

Conflict(p, t) == Known(p, t) /\ identities[p][t.id] # Digest(t)

\* The window with one entry more; the oldest one is dropped when it is full.
Remember(p, t) ==
    IF Len(order[p]) < IdentityCapacity
    THEN /\ order' = [order EXCEPT ![p] = Append(@, t.id)]
         /\ identities' = [identities EXCEPT ![p] =
              [i \in DOMAIN @ \cup {t.id} |-> IF i = t.id THEN Digest(t) ELSE @[i]]]
         /\ next' = next
    ELSE /\ order' = [order EXCEPT ![p][next[p]] = t.id]
         /\ identities' = [identities EXCEPT ![p] =
              [i \in (DOMAIN @ \ {order[p][next[p]]}) \cup {t.id} |->
                 IF i = t.id THEN Digest(t) ELSE @[i]]]
         /\ next' = [next EXCEPT ![p] = (@ % Len(order[p])) + 1]

-----------------------------------------------------------------------------
(* one worker: RunPartition *)

Runs(w) == job[w[1]] = "member" /\ ~cancelled[w[1]]

\* Fetch, DecodeTask and conflict.
Fetch(w) ==
    LET p == w[1]
        r == Record(w[2], pos[w])
    IN  /\ Runs(w)
        /\ phase[w] = "fetch"
        /\ Available(w[2], pos[w])
        /\ tries' = [tries EXCEPT ![w] = 0]
        /\ progress' = [progress EXCEPT ![w] = {}]
        /\ \/ /\ r = Garbage
              /\ phase' = [phase EXCEPT ![w] = "dlq"]
              /\ dead' = [dead EXCEPT ![w] = {Raw}]
              /\ UNCHANGED identityVars
           \/ /\ r # Garbage
              /\ Conflict(p, r)
              /\ phase' = [phase EXCEPT ![w] = "dlq"]
              /\ dead' = [dead EXCEPT ![w] = {Raw}]
              /\ UNCHANGED identityVars
           \/ /\ r # Garbage
              /\ ~Conflict(p, r)
              /\ phase' = [phase EXCEPT ![w] = "process"]
              /\ dead' = [dead EXCEPT ![w] = {}]
              /\ IF Known(p, r) THEN UNCHANGED identityVars ELSE Remember(p, r)
        /\ UNCHANGED <<brokerVars, jobVars, pos, resolved, faults>>

\* The reader cannot be set up or gives up on the broker: fail() ends every worker
\* of the process.
FetchFailed(w) ==
    /\ Runs(w)
    /\ phase[w] = "fetch"
    /\ Fault
    /\ phase' = [phase EXCEPT ![w] = "ended"]
    /\ failed' = [failed EXCEPT ![w[1]] = TRUE]
    /\ cancelled' = [cancelled EXCEPT ![w[1]] = TRUE]
    /\ UNCHANGED <<brokerVars, job, joined, pos, progress, dead, tries, identityVars, resolved>>

\* Inside Process: a recipient is enqueued at its Comet, or found offline.  A
\* cancelled call may still have a delivery under way.
Resolve(w, u) ==
    /\ phase[w] = "process"
    /\ u \in Record(w[2], pos[w]).scope \ progress[w]
    /\ progress' = [progress EXCEPT ![w] = @ \cup {u}]
    /\ resolved' = resolved \cup {<<w[2], pos[w], u>>}
    /\ UNCHANGED <<brokerVars, jobVars, phase, pos, dead, tries, identityVars, faults>>

\* Mutant: the offset is committed although recipients are pending.
ProcessedIgnoresPending(w) ==
    /\ Runs(w)
    /\ phase[w] = "process"
    /\ phase' = [phase EXCEPT ![w] = "commit"]
    /\ UNCHANGED <<brokerVars, jobVars, pos, progress, dead, tries, identityVars, resolved, faults>>

\* Process returns; what it has not resolved becomes a dead letter.
Processed(w) ==
    LET pending == Record(w[2], pos[w]).scope \ progress[w]
    IN  /\ Runs(w)
        /\ phase[w] = "process"
        /\ dead' = [dead EXCEPT ![w] = pending]
        /\ phase' = [phase EXCEPT ![w] = IF pending = {} THEN "commit" ELSE "dlq"]
        /\ UNCHANGED <<brokerVars, jobVars, pos, progress, tries, identityVars, resolved, faults>>

\* The context is done: the worker returns where it stands.
Interrupted(w) ==
    /\ job[w[1]] = "member"
    /\ cancelled[w[1]]
    /\ phase[w] \in Active
    /\ phase' = [phase EXCEPT ![w] = "ended"]
    /\ UNCHANGED <<brokerVars, jobVars, pos, progress, dead, tries, identityVars, resolved, faults>>

\* Mutant: the worker ends and nobody is told.
AckFailedQuietly(w) ==
    /\ tries' = [tries EXCEPT ![w] = @ + 1]
    /\ phase' = IF tries[w] + 1 < Attempts THEN phase ELSE [phase EXCEPT ![w] = "ended"]
    /\ UNCHANGED <<failed, cancelled>>

\* ack: the attempt failed.  The last failure ends the worker and, through
\* fail(), the context of every worker of the process.
AckFailed(w) ==
    /\ tries' = [tries EXCEPT ![w] = @ + 1]
    /\ IF tries[w] + 1 < Attempts
       THEN UNCHANGED <<phase, failed, cancelled>>
       ELSE /\ phase' = [phase EXCEPT ![w] = "ended"]
            /\ failed' = [failed EXCEPT ![w[1]] = TRUE]
            /\ cancelled' = [cancelled EXCEPT ![w[1]] = TRUE]

\* DeadLetterSink.Write: stored and answered, or not answered, stored or not.
WriteDLQ(w, heard) ==
    /\ Runs(w)
    /\ phase[w] = "dlq"
    /\ dlq' = dlq \cup {[partition |-> w[2], offset |-> pos[w], body |-> dead[w]]}
    /\ IF heard
       THEN /\ phase' = [phase EXCEPT ![w] = "commit"]
            /\ tries' = [tries EXCEPT ![w] = 0]
            /\ UNCHANGED <<failed, cancelled, faults>>
       ELSE Fault /\ AckFailed(w)
    /\ UNCHANGED <<generation, committed, job, joined, pos, progress, dead, identityVars, resolved>>

DLQUnavailable(w) ==
    /\ Runs(w)
    /\ phase[w] = "dlq"
    /\ Fault
    /\ AckFailed(w)
    /\ UNCHANGED <<brokerVars, job, joined, pos, progress, dead, identityVars, resolved>>

\* Mutant: the broker's fencing is bypassed.
CommitUnfenced(w, heard) ==
    /\ Runs(w)
    /\ phase[w] = "commit"
    /\ committed' = [committed EXCEPT ![w[2]] = pos[w] + 1]
    /\ phase' = [phase EXCEPT ![w] = "fetch"]
    /\ pos' = [pos EXCEPT ![w] = @ + 1]
    /\ tries' = [tries EXCEPT ![w] = 0]
    /\ UNCHANGED <<generation, dlq, job, joined, progress, dead, identityVars, resolved,
                   failed, cancelled, faults>>

\* CommitOffsets with the generation the worker was started for.
Commit(w, heard) ==
    /\ Runs(w)
    /\ phase[w] = "commit"
    /\ joined[w[1]] = generation
    /\ committed' = [committed EXCEPT ![w[2]] = pos[w] + 1]
    /\ IF heard
       THEN /\ phase' = [phase EXCEPT ![w] = "fetch"]
            /\ pos' = [pos EXCEPT ![w] = @ + 1]
            /\ tries' = [tries EXCEPT ![w] = 0]
            /\ UNCHANGED <<failed, cancelled, faults>>
       ELSE Fault /\ AckFailed(w) /\ UNCHANGED pos
    /\ UNCHANGED <<generation, dlq, job, joined, progress, dead, identityVars, resolved>>

\* The broker refuses the commit of an earlier generation, or cannot be reached.
CommitRefused(w) ==
    /\ Runs(w)
    /\ phase[w] = "commit"
    /\ \/ joined[w[1]] # generation /\ UNCHANGED faults
       \/ joined[w[1]] = generation /\ Fault
    /\ AckFailed(w)
    /\ UNCHANGED <<brokerVars, job, joined, pos, progress, dead, identityVars, resolved>>

WorkerNext(w) ==
    \/ Fetch(w)
    \/ FetchFailed(w)
    \/ \E u \in Recipient : Resolve(w, u)
    \/ Processed(w)
    \/ Interrupted(w)
    \/ \E heard \in BOOLEAN : WriteDLQ(w, heard) \/ Commit(w, heard)
    \/ DLQUnavailable(w)
    \/ CommitRefused(w)

JobNext(p) ==
    \/ GenerationEnds(p)
    \/ LeaveGeneration(p)
    \/ Crash(p)
    \/ Restart(p)

Next ==
    \/ NewGeneration
    \/ \E p \in Job : JobNext(p)
    \/ \E w \in Worker : WorkerNext(w)

Spec == Init /\ [][Next]_vars

\* The goroutines of a process run, a process that is down is started again, the
\* coordinator forms a generation when nobody works, and the broker answers.
Fairness ==
    /\ WF_vars((\A p \in Job : ~Current(p)) /\ NewGeneration)
    /\ \A p \in Job :
          /\ WF_vars(~Current(p) /\ GenerationEnds(p))
          /\ WF_vars(LeaveGeneration(p))
          /\ WF_vars(Restart(p))
    /\ \A w \in Worker :
          /\ WF_vars(Fetch(w))
          /\ WF_vars(Processed(w))
          /\ WF_vars(Interrupted(w))
          /\ WF_vars(WriteDLQ(w, TRUE))
          /\ WF_vars(Commit(w, TRUE))

FairSpec == Spec /\ Fairness

-----------------------------------------------------------------------------

Lettered(q, o, x) == \E l \in dlq : l.partition = q /\ l.offset = o /\ x \in l.body

\* The record at offset o of q is taken care of: every recipient in its scope was
\* resolved or is in a dead letter, or its bytes are.
Handled(q, o) ==
    \/ Lettered(q, o, Raw)
    \/ /\ Record(q, o) # Garbage
       /\ \A u \in Record(q, o).scope : <<q, o, u>> \in resolved \/ Lettered(q, o, u)

\* A committed offset never skips a recipient: whatever crashes, rebalances,
\* lost acknowledgements and zombie workers come between, every record below it
\* has been delivered, found offline, or kept as a dead letter (RunPartition).
CommittedIsHandled ==
    \A q \in Partition : \A o \in 0..(committed[q] - 1) : Handled(q, o)

\* The group never goes back to a committed record: a worker of an earlier
\* generation, or one that repeats a commit whose answer was lost, cannot lower
\* the offset (one unacknowledged record per partition, and Commit's fencing).
CommitsAdvance == [][\A q \in Partition : committed'[q] >= committed[q]]_vars

\* The ring and the map of Consumer.conflict hold the same ids, each once, and
\* no more of them than the capacity.
IdentityWindow ==
    \A p \in Job :
        /\ Len(order[p]) <= IdentityCapacity
        /\ DOMAIN identities[p] = {order[p][k] : k \in 1..Len(order[p])}
        /\ \A j, k \in 1..Len(order[p]) : order[p][j] = order[p][k] => j = k
        /\ next[p] \in 1..IdentityCapacity
        /\ Len(order[p]) < IdentityCapacity => next[p] = 1

\* With finitely many faults every record is committed in the end: no failed
\* acknowledgement, refused commit or cancelled neighbour leaves a partition
\* without a worker for ever.
EveryRecordCommitted == \A q \in Partition : <>(committed[q] = Len(Log[q]))

\* A worker that is cancelled when its task is complete goes on to commit it.
FinishesCurrentTask ==
    [][\A w \in Worker :
          phase[w] = "process" /\ phase'[w] = "ended"
          => Record(w[2], pos[w]).scope \ progress[w] # {}]_vars

-----------------------------------------------------------------------------
(* What makes the invariants above inductive. *)

\* What a worker knows of the record it handles, at each phase.
RecordInHand(w) ==
    LET q == w[2]
        o == pos[w]
    IN  /\ phase[w] \in {"process", "dlq", "commit"} => Available(q, o)
        /\ phase[w] = "process" =>
              Record(q, o) # Garbage /\ \A u \in progress[w] : <<q, o, u>> \in resolved
        /\ phase[w] = "dlq" =>
              \/ dead[w] = {Raw}
              \/ /\ Record(q, o) # Garbage
                 /\ \A u \in Record(q, o).scope : <<q, o, u>> \in resolved \/ u \in dead[w]
        /\ phase[w] = "commit" => Handled(q, o)

\* A worker never has an unhandled record behind it.
WorkersHandle ==
    \A w \in Worker : phase[w] \in Active =>
        /\ RecordInHand(w)
        /\ \A o \in 0..(pos[w] - 1) : Handled(w[2], o)

\* Workers belong to members, and a partition has one worker per generation, at
\* the committed offset or one below it while the answer to the commit is missing.
OneWorkerPerPartition ==
    /\ \A p \in Job : joined[p] <= generation
    /\ \A w \in Worker : phase[w] # "none" => job[w[1]] = "member"
    /\ \A v, w \in Worker :
          /\ phase[v] # "none" /\ phase[w] # "none"
          /\ joined[v[1]] = generation /\ joined[w[1]] = generation
          /\ v[2] = w[2]
          => v = w
    /\ \A w \in Worker : phase[w] \in Active /\ joined[w[1]] = generation =>
          \/ committed[w[2]] = pos[w]
          \/ phase[w] = "commit" /\ committed[w[2]] = pos[w] + 1

ConsumerInv ==
    /\ ConsumerTypeOK
    /\ CommittedIsHandled
    /\ WorkersHandle
    /\ OneWorkerPerPartition
    /\ IdentityWindow

=============================================================================
