------------------------- MODULE JobConsumerProofs -------------------------
(***************************************************************************)
(* ConsumerInv is an inductive invariant of JobConsumer, for any number of *)
(* processes, partitions, records, attempts and faults.  Each of its parts *)
(* has a lemma that shows it preserved by every action.                    *)
(***************************************************************************)
EXTENDS JobConsumer, SequenceTheorems, TLAPS

\* What a worker's record is, as the constants say.
LEMMA RecordType ==
    ASSUME NEW q \in Partition, NEW o \in Nat, Available(q, o)
    PROVE  /\ Record(q, o) \in Task \cup {Garbage}
           /\ Record(q, o) # Garbage =>
                /\ Record(q, o).id \in TaskID
                /\ Record(q, o).scope \in SUBSET Recipient
  <1>1. Log[q] \in Seq(Task \cup {Garbage}) /\ o + 1 \in 1..Len(Log[q])
    BY ConsumerConstants DEF Available
  <1>2. Record(q, o) \in Task \cup {Garbage}
    BY <1>1 DEF Record
  <1> QED
    BY <1>2, ConsumerConstants

\* Dead letters and resolved recipients are never taken back.
LEMMA HandledStays ==
    ASSUME NEW q, NEW o, Handled(q, o), dlq \subseteq dlq', resolved \subseteq resolved'
    PROVE  Handled(q, o)'
  BY DEF Handled, Lettered, Record

\* Every step only adds dead letters and resolved recipients (RunPartition).
LEMMA OnlyAdds ==
    ASSUME [Next]_vars
    PROVE  dlq \subseteq dlq' /\ resolved \subseteq resolved'
  BY DEF Next, JobNext, WorkerNext, NewGeneration, GenerationEnds, LeaveGeneration, Crash,
         Restart, Fetch, Resolve, Processed, Interrupted, FetchFailed, WriteDLQ, DLQUnavailable, Commit,
         CommitRefused, brokerVars, vars

LEMMA InitInv == Init => ConsumerInv
  <1> SUFFICES ASSUME Init PROVE ConsumerInv
    OBVIOUS
  <1> USE DEF Init
  <1>1. ConsumerTypeOK
    BY ConsumerConstants DEF ConsumerTypeOK, Phase, Body, Letter
  <1>2. CommittedIsHandled
    BY DEF CommittedIsHandled
  <1>3. WorkersHandle
    BY DEF WorkersHandle, Active
  <1>4. OneWorkerPerPartition
    BY DEF OneWorkerPerPartition, Active, Worker
  <1>5. IdentityWindow
    <2> SUFFICES ASSUME NEW p \in Job
                 PROVE  /\ Len(order[p]) <= IdentityCapacity
                        /\ DOMAIN identities[p] = {order[p][k] : k \in 1..Len(order[p])}
                        /\ \A j, k \in 1..Len(order[p]) : order[p][j] = order[p][k] => j = k
                        /\ next[p] \in 1..IdentityCapacity
                        /\ Len(order[p]) < IdentityCapacity => next[p] = 1
      BY DEF IdentityWindow
    <2>1. order[p] = <<>> /\ identities[p] = <<>> /\ next[p] = 1
      OBVIOUS
    <2>2. Len(order[p]) = 0 /\ 1..Len(order[p]) = {}
      BY <2>1
    <2>3. DOMAIN identities[p] = {}
      BY <2>1
    <2> QED
      BY <2>1, <2>2, <2>3, ConsumerConstants
  <1> QED
    BY <1>1, <1>2, <1>3, <1>4, <1>5 DEF ConsumerInv

-----------------------------------------------------------------------------
(* types *)

\* A failed attempt touches the worker's phase and count and the process's flags.
LEMMA AckFailedType ==
    ASSUME ConsumerTypeOK, NEW w \in Worker, AckFailed(w)
    PROVE  /\ tries' \in [Worker -> Nat]
           /\ phase' \in [Worker -> Phase]
           /\ failed' \in [Job -> BOOLEAN]
           /\ cancelled' \in [Job -> BOOLEAN]
  <1>1. tries' \in [Worker -> Nat]
    BY DEF AckFailed, ConsumerTypeOK
  <1>2. CASE tries[w] + 1 < Attempts
    BY <1>1, <1>2 DEF AckFailed, ConsumerTypeOK
  <1>3. CASE ~(tries[w] + 1 < Attempts)
    BY <1>1, <1>3 DEF AckFailed, ConsumerTypeOK, Phase, Worker
  <1> QED
    BY <1>2, <1>3

\* The dead letter of a processed task names recipients.
LEMMA PendingType ==
    ASSUME ConsumerInv, NEW w \in Worker, phase[w] = "process"
    PROVE  /\ Record(w[2], pos[w]) # Garbage
           /\ Record(w[2], pos[w]).scope \in SUBSET Recipient
           /\ Record(w[2], pos[w]).id \in TaskID
  <1>1. w[2] \in Partition /\ pos[w] \in Nat
    BY DEF ConsumerInv, ConsumerTypeOK, Worker
  <1>2. Available(w[2], pos[w]) /\ Record(w[2], pos[w]) # Garbage
    BY DEF ConsumerInv, WorkersHandle, RecordInHand, Active
  <1> QED
    BY <1>1, <1>2, RecordType

LEMMA TypeStep ==
    ASSUME ConsumerInv, [Next]_vars
    PROVE  ConsumerTypeOK'
  <1> USE DEF ConsumerInv, ConsumerTypeOK, Phase
  <1>1. CASE NewGeneration
    <2> DEFINE members == {p \in Job : job[p] = "joining"}
    <2>1. PICK owner \in [Partition -> members] :
            LET started == {w \in Worker : owner[w[2]] = w[1]}
            IN  /\ phase' = [w \in Worker |-> IF w \in started THEN "fetch" ELSE phase[w]]
                /\ pos' = [w \in Worker |-> IF w \in started THEN committed[w[2]] ELSE pos[w]]
      BY <1>1 DEF NewGeneration
    <2>2. phase' \in [Worker -> Phase] /\ pos' \in [Worker -> Nat]
      BY <2>1 DEF Worker
    <2>3. job' \in [Job -> {"joining", "member", "down"}] /\ joined' \in [Job -> Nat]
      BY <1>1 DEF NewGeneration
    <2>4. faults' \in Nat /\ generation' \in Nat
      BY <1>1 DEF NewGeneration, Fault
    <2> QED
      BY <1>1, <2>2, <2>3, <2>4 DEF NewGeneration, identityVars
  <1>2. ASSUME NEW p \in Job, JobNext(p)
        PROVE  ConsumerTypeOK'
    <2>1. CASE GenerationEnds(p)
      BY <2>1 DEF GenerationEnds, Fault, brokerVars, workerVars, identityVars
    <2>2. CASE LeaveGeneration(p)
      BY <2>2 DEF LeaveGeneration, brokerVars, identityVars
    <2>3. CASE Crash(p)
      BY <2>3 DEF Crash, Fault, brokerVars, identityVars
    <2>4. CASE Restart(p)
      BY <2>4 DEF Restart, brokerVars, workerVars
    <2> QED
      BY <1>2, <2>1, <2>2, <2>3, <2>4 DEF JobNext
  <1>3. ASSUME NEW w \in Worker, WorkerNext(w)
        PROVE  ConsumerTypeOK'
    <2>0. w[1] \in Job /\ w[2] \in Partition
      BY DEF Worker
    <2>1. CASE Fetch(w)
      <3>1. DOMAIN identities' = Job /\ order' \in [Job -> Seq(TaskID)] /\ next' \in [Job -> Nat]
        <4>1. CASE UNCHANGED identityVars
          BY <4>1 DEF identityVars
        <4>2. CASE /\ Record(w[2], pos[w]) # Garbage
                   /\ Remember(w[1], Record(w[2], pos[w]))
          <5>1. Record(w[2], pos[w]).id \in TaskID
            BY <2>0, <2>1, <4>2, RecordType DEF Fetch
          <5>2. Len(order[w[1]]) \in Nat /\ next[w[1]] \in Nat /\ IdentityCapacity \in Nat \ {0}
            BY <2>0, ConsumerConstants
          <5>3. DOMAIN identities' = Job
            BY <4>2 DEF Remember
          <5>4. CASE Len(order[w[1]]) < IdentityCapacity
            <6>1. Append(order[w[1]], Record(w[2], pos[w]).id) \in Seq(TaskID)
              BY <2>0, <5>1
            <6> QED
              BY <4>2, <5>3, <5>4, <6>1 DEF Remember
          <5>5. CASE ~(Len(order[w[1]]) < IdentityCapacity)
            <6>0. next[w[1]] \in 1..Len(order[w[1]])
              BY <2>0, <5>2, <5>5 DEF IdentityWindow
            <6>1. [order[w[1]] EXCEPT ![next[w[1]]] = Record(w[2], pos[w]).id] \in Seq(TaskID)
              BY <2>0, <5>1, <6>0, ExceptSeq
            <6>2. (next[w[1]] % Len(order[w[1]])) + 1 \in Nat
              BY <5>2, <5>5
            <6>3. order' = [order EXCEPT ![w[1]] = [order[w[1]] EXCEPT ![next[w[1]]] = Record(w[2], pos[w]).id]]
              BY <4>2, <5>5 DEF Remember
            <6>4. next' = [next EXCEPT ![w[1]] = (next[w[1]] % Len(order[w[1]])) + 1]
              BY <4>2, <5>5 DEF Remember
            <6> QED
              BY <5>3, <6>1, <6>2, <6>3, <6>4
          <5> QED
            BY <5>4, <5>5
        <4> QED
          BY <2>1, <4>1, <4>2 DEF Fetch
      <3>2. dead' \in [Worker -> Body]
        BY <2>1 DEF Fetch, Body
      <3> QED
        BY <2>1, <3>1, <3>2 DEF Fetch, brokerVars, jobVars
    <2>2. ASSUME NEW u \in Recipient, Resolve(w, u)
          PROVE  ConsumerTypeOK'
      BY <2>0, <2>2 DEF Resolve, brokerVars, jobVars, identityVars
    <2>3. CASE Processed(w)
      BY <2>3, PendingType DEF Processed, Body, brokerVars, jobVars, identityVars
    <2>4. CASE Interrupted(w)
      BY <2>4 DEF Interrupted, brokerVars, jobVars, identityVars
    <2>4a. CASE FetchFailed(w)
      <3>1. phase' \in [Worker -> Phase] /\ faults' \in Nat
        BY <2>4a DEF FetchFailed, Fault
      <3>2. failed' \in [Job -> BOOLEAN] /\ cancelled' \in [Job -> BOOLEAN]
        BY <2>4a DEF FetchFailed
      <3>3. QED
        BY <2>4a, <3>1, <3>2 DEF FetchFailed, brokerVars, identityVars
    <2>5. ASSUME NEW heard \in BOOLEAN, WriteDLQ(w, heard)
          PROVE  ConsumerTypeOK'
      <3>1. dlq' \in SUBSET Letter
        BY <2>0, <2>5 DEF WriteDLQ, Letter
      <3>2. CASE heard
        <4>1. phase' \in [Worker -> Phase] /\ tries' \in [Worker -> Nat]
          BY <2>5, <3>2 DEF WriteDLQ
        <4> QED
          BY <2>5, <3>1, <3>2, <4>1 DEF WriteDLQ, identityVars
      <3>3. CASE ~heard
        BY <2>5, <3>1, <3>3, AckFailedType DEF WriteDLQ, Fault, identityVars
      <3> QED
        BY <3>2, <3>3
    <2>6. ASSUME NEW heard \in BOOLEAN, Commit(w, heard)
          PROVE  ConsumerTypeOK'
      <3>1. committed' \in [Partition -> Nat]
        BY <2>0, <2>6 DEF Commit
      <3>2. CASE heard
        <4>1. phase' = [phase EXCEPT ![w] = "fetch"] /\ tries' = [tries EXCEPT ![w] = 0]
          BY <2>6, <3>2 DEF Commit
        <4>2. pos' = [pos EXCEPT ![w] = pos[w] + 1]
          BY <2>6, <3>2 DEF Commit
        <4>3. /\ pos' \in [Worker -> Nat] /\ tries' \in [Worker -> Nat]
              /\ phase' \in [Worker -> Phase]
          BY <4>1, <4>2
        <4> QED
          BY <2>6, <3>1, <3>2, <4>3 DEF Commit, identityVars
      <3>3. CASE ~heard
        <4>1. AckFailed(w) /\ faults' \in Nat /\ pos' = pos
          BY <2>6, <3>3 DEF Commit, Fault
        <4>2. /\ tries' \in [Worker -> Nat] /\ phase' \in [Worker -> Phase]
              /\ failed' \in [Job -> BOOLEAN] /\ cancelled' \in [Job -> BOOLEAN]
          BY <4>1, AckFailedType
        <4> QED
          BY <2>6, <3>1, <4>1, <4>2 DEF Commit, identityVars
      <3> QED
        BY <3>2, <3>3
    <2>7. CASE DLQUnavailable(w)
      BY <2>7, AckFailedType DEF DLQUnavailable, Fault, brokerVars, identityVars
    <2>8. CASE CommitRefused(w)
      <3>1. faults' \in Nat
        BY <2>8 DEF CommitRefused, Fault
      <3> QED
        BY <2>8, <3>1, AckFailedType DEF CommitRefused, brokerVars, identityVars
    <2> QED
      BY <1>3, <2>1, <2>2, <2>3, <2>4, <2>4a, <2>5, <2>6, <2>7, <2>8 DEF WorkerNext
  <1>4. CASE UNCHANGED vars
    BY <1>4 DEF vars, brokerVars, jobVars, workerVars, identityVars
  <1> QED
    BY <1>1, <1>2, <1>3, <1>4 DEF Next

-----------------------------------------------------------------------------
(* what is committed *)

LEMMA CommittedStep ==
    ASSUME ConsumerInv, [Next]_vars
    PROVE  CommittedIsHandled'
  <1> SUFFICES ASSUME NEW q \in Partition, NEW o \in 0..(committed'[q] - 1)
               PROVE  Handled(q, o)'
    BY DEF CommittedIsHandled
  <1>1. dlq \subseteq dlq' /\ resolved \subseteq resolved'
    BY OnlyAdds
  <1>2. committed \in [Partition -> Nat]
    BY DEF ConsumerInv, ConsumerTypeOK
  <1>3. CASE committed' = committed
    <2>1. Handled(q, o)
      BY <1>3 DEF ConsumerInv, CommittedIsHandled
    <2> QED
      BY <1>1, <2>1, HandledStays
  <1>4. ASSUME NEW w \in Worker, NEW heard \in BOOLEAN, Commit(w, heard)
        PROVE  Handled(q, o)'
    <2>0. w[2] \in Partition /\ pos[w] \in Nat
      BY DEF ConsumerInv, ConsumerTypeOK, Worker
    <2>1. committed' = [committed EXCEPT ![w[2]] = pos[w] + 1] /\ phase[w] = "commit"
      BY <1>4 DEF Commit
    <2>2. CASE q = w[2]
      <3>1. o \in 0..(pos[w] - 1) \/ o = pos[w]
        BY <1>2, <2>0, <2>1, <2>2
      <3>2. Handled(w[2], o)
        BY <2>1, <3>1 DEF ConsumerInv, WorkersHandle, RecordInHand, Active
      <3> QED
        BY <1>1, <2>2, <3>2, HandledStays
    <2>3. CASE q # w[2]
      <3>1. committed'[q] = committed[q]
        BY <1>2, <2>1, <2>3
      <3>2. Handled(q, o)
        BY <3>1 DEF ConsumerInv, CommittedIsHandled
      <3> QED
        BY <1>1, <3>2, HandledStays
    <2> QED
      BY <2>2, <2>3
  <1> QED
    BY <1>3, <1>4 DEF Next, JobNext, WorkerNext, NewGeneration, GenerationEnds,
       LeaveGeneration, Crash, Restart, Fetch, Resolve, Processed, Interrupted, FetchFailed, WriteDLQ,
       DLQUnavailable, CommitRefused, brokerVars, vars

-----------------------------------------------------------------------------
(* the records in hand *)

\* A worker that keeps its phase, offset and record keeps what it knows of them.
LEMMA InHandStays ==
    ASSUME ConsumerInv, [Next]_vars, NEW v \in Worker, phase[v] \in Active,
           phase'[v] = phase[v], pos'[v] = pos[v], progress'[v] = progress[v],
           dead'[v] = dead[v]
    PROVE  /\ RecordInHand(v)'
           /\ \A o \in 0..(pos'[v] - 1) : Handled(v[2], o)'
  <1>1. dlq \subseteq dlq' /\ resolved \subseteq resolved'
    BY OnlyAdds
  <1>2. RecordInHand(v) /\ \A o \in 0..(pos[v] - 1) : Handled(v[2], o)
    BY DEF ConsumerInv, WorkersHandle
  <1>3. \A o \in 0..(pos'[v] - 1) : Handled(v[2], o)'
    BY <1>1, <1>2, HandledStays
  <1>4. phase[v] = "commit" => Handled(v[2], pos[v])'
    BY <1>1, <1>2, HandledStays DEF RecordInHand
  <1>5. RecordInHand(v)'
    BY <1>1, <1>2, <1>4 DEF RecordInHand, Available, Record, Handled, Lettered
  <1> QED
    BY <1>3, <1>5

LEMMA WorkersStep ==
    ASSUME ConsumerInv, [Next]_vars
    PROVE  WorkersHandle'
  <1> DEFINE Fine(v) == /\ RecordInHand(v)'
                        /\ \A o \in 0..(pos'[v] - 1) : Handled(v[2], o)'
  <1> SUFFICES ASSUME NEW v \in Worker, phase'[v] \in Active
               PROVE  Fine(v)
    BY DEF WorkersHandle
  <1> HIDE DEF Fine
  <1>0. /\ phase \in [Worker -> Phase] /\ pos \in [Worker -> Nat]
        /\ progress \in [Worker -> SUBSET Recipient] /\ dead \in [Worker -> Body]
        /\ committed \in [Partition -> Nat]
        /\ v[1] \in Job /\ v[2] \in Partition
    BY DEF ConsumerInv, ConsumerTypeOK, Worker
  <1>a. dlq \subseteq dlq' /\ resolved \subseteq resolved'
    BY OnlyAdds
  <1>b. ASSUME phase'[v] = phase[v], pos'[v] = pos[v], progress'[v] = progress[v],
               dead'[v] = dead[v]
        PROVE  Fine(v)
    BY <1>b, InHandStays DEF Fine
  <1>c. ASSUME pos'[v] = pos[v], phase[v] \in Active, RecordInHand(v)'
        PROVE  Fine(v)
    <2>1. \A o \in 0..(pos[v] - 1) : Handled(v[2], o)
      BY <1>c DEF ConsumerInv, WorkersHandle
    <2> QED
      BY <1>a, <1>c, <2>1, HandledStays DEF Fine
  <1>1. CASE NewGeneration
    <2>1. CASE phase'[v] = phase[v] /\ pos'[v] = pos[v]
      BY <1>1, <1>b, <2>1 DEF NewGeneration
    <2>2. CASE phase'[v] = "fetch" /\ pos'[v] = committed[v[2]]
      <3>1. \A o \in 0..(pos'[v] - 1) : Handled(v[2], o)
        BY <1>0, <2>2 DEF ConsumerInv, CommittedIsHandled
      <3>2. \A o \in 0..(pos'[v] - 1) : Handled(v[2], o)'
        BY <1>a, <3>1, HandledStays
      <3> QED
        BY <2>2, <3>2 DEF Fine, RecordInHand
    <2> QED
      BY <1>1, <2>1, <2>2 DEF NewGeneration
  <1>2. ASSUME NEW p \in Job, JobNext(p)
        PROVE  Fine(v)
    <2>1. phase'[v] = phase[v] /\ pos'[v] = pos[v] /\ progress' = progress /\ dead' = dead
      BY <1>2 DEF JobNext, GenerationEnds, LeaveGeneration, Crash, Restart, workerVars, Active
    <2> QED
      BY <1>b, <2>1
  <1>3. ASSUME NEW w \in Worker, WorkerNext(w)
        PROVE  Fine(v)
    <2>1. CASE v # w
      <3>1. /\ phase'[v] = phase[v] /\ pos'[v] = pos[v]
            /\ progress'[v] = progress[v] /\ dead'[v] = dead[v]
        BY <1>0, <1>3, <2>1 DEF WorkerNext, Fetch, Resolve, Processed, Interrupted, FetchFailed, WriteDLQ,
           DLQUnavailable, Commit, CommitRefused, AckFailed
      <3> QED
        BY <1>b, <3>1
    <2>2. CASE v = w
      <3> USE <2>2
      <3>1. CASE Fetch(v)
        <4>1. /\ phase[v] = "fetch" /\ pos' = pos /\ Available(v[2], pos[v])
              /\ \/ phase'[v] = "dlq" /\ dead'[v] = {Raw}
                 \/ /\ phase'[v] = "process" /\ progress'[v] = {}
                    /\ Record(v[2], pos[v]) # Garbage
          BY <1>0, <3>1 DEF Fetch
        <4>2. RecordInHand(v)'
          BY <4>1 DEF RecordInHand, Available, Record
        <4> QED
          BY <1>c, <4>1, <4>2 DEF Active
      <3>2. ASSUME NEW u \in Recipient, Resolve(v, u)
            PROVE  Fine(v)
        <4>1. /\ phase' = phase /\ pos' = pos /\ dead' = dead /\ phase[v] = "process"
              /\ progress'[v] = progress[v] \cup {u}
              /\ resolved' = resolved \cup {<<v[2], pos[v], u>>}
          BY <1>0, <3>2 DEF Resolve
        <4>2. RecordInHand(v)
          BY <4>1 DEF ConsumerInv, WorkersHandle, Active
        <4>3. RecordInHand(v)'
          BY <4>1, <4>2 DEF RecordInHand, Available, Record
        <4> QED
          BY <1>c, <4>1, <4>3 DEF Active
      <3>3. CASE Processed(v)
        <4> DEFINE pending == Record(v[2], pos[v]).scope \ progress[v]
        <4>1. /\ phase[v] = "process" /\ pos' = pos /\ progress' = progress
              /\ dead'[v] = pending /\ dlq' = dlq /\ resolved' = resolved
              /\ phase'[v] = IF pending = {} THEN "commit" ELSE "dlq"
          BY <1>0, <3>3 DEF Processed, brokerVars
        <4>2. RecordInHand(v)
          BY <4>1 DEF ConsumerInv, WorkersHandle, Active
        <4>3. RecordInHand(v)'
          BY <4>1, <4>2 DEF RecordInHand, Available, Record, Handled, Lettered
        <4> QED
          BY <1>c, <4>1, <4>3 DEF Active
      <3>4. CASE Interrupted(v) \/ FetchFailed(v)
        BY <1>0, <3>4 DEF Interrupted, FetchFailed, Active
      <3>5. ASSUME NEW heard \in BOOLEAN, WriteDLQ(v, heard)
            PROVE  Fine(v)
        <4>1. /\ phase[v] = "dlq" /\ pos' = pos /\ dead' = dead /\ progress' = progress
              /\ resolved' = resolved
              /\ dlq' = dlq \cup {[partition |-> v[2], offset |-> pos[v], body |-> dead[v]]}
          BY <3>5 DEF WriteDLQ
        <4>2. CASE heard
          <5>1. phase'[v] = "commit"
            BY <1>0, <3>5, <4>2 DEF WriteDLQ
          <5>2. RecordInHand(v)
            BY <4>1 DEF ConsumerInv, WorkersHandle, Active
          <5>3. \A x \in dead[v] : Lettered(v[2], pos[v], x)'
            <6> DEFINE l == [partition |-> v[2], offset |-> pos[v], body |-> dead[v]]
            <6>1. l \in dlq' /\ l.partition = v[2] /\ l.offset = pos[v] /\ l.body = dead[v]
              BY <4>1
            <6> HIDE DEF l
            <6> QED
              BY <4>1, <6>1 DEF Lettered
          <5>4. Handled(v[2], pos[v])'
            BY <4>1, <5>2, <5>3 DEF RecordInHand, Handled, Record
          <5>5. RecordInHand(v)'
            BY <4>1, <5>1, <5>2, <5>4 DEF RecordInHand, Available, Record, Handled, Lettered
          <5> QED
            BY <1>c, <4>1, <5>5 DEF Active
        <4>3. CASE ~heard
          <5>1. phase'[v] = phase[v]
            BY <1>0, <3>5, <4>3 DEF WriteDLQ, AckFailed, Active
          <5> QED
            BY <1>b, <4>1, <5>1
        <4> QED
          BY <4>2, <4>3
      <3>6. ASSUME NEW heard \in BOOLEAN, Commit(v, heard)
            PROVE  Fine(v)
        <4>1. phase[v] = "commit" /\ dead' = dead /\ progress' = progress
          BY <3>6 DEF Commit
        <4>2. CASE heard
          <5>1. phase'[v] = "fetch" /\ pos'[v] = pos[v] + 1
            BY <1>0, <3>6, <4>2 DEF Commit
          <5>2. \A o \in 0..(pos'[v] - 1) : Handled(v[2], o)
            BY <1>0, <4>1, <5>1 DEF ConsumerInv, WorkersHandle, RecordInHand, Active
          <5>3. \A o \in 0..(pos'[v] - 1) : Handled(v[2], o)'
            BY <1>a, <5>2, HandledStays
          <5> QED
            BY <5>1, <5>3 DEF Fine, RecordInHand
        <4>3. CASE ~heard
          <5>1. phase'[v] = phase[v] /\ pos' = pos
            BY <1>0, <3>6, <4>3 DEF Commit, AckFailed, Active
          <5> QED
            BY <1>b, <4>1, <5>1
        <4> QED
          BY <4>2, <4>3
      <3>7. CASE DLQUnavailable(v) \/ CommitRefused(v)
        <4>1. phase'[v] = phase[v] /\ pos' = pos /\ dead' = dead /\ progress' = progress
          BY <1>0, <3>7 DEF DLQUnavailable, CommitRefused, AckFailed, Active
        <4> QED
          BY <1>b, <4>1
      <3> QED
        BY <1>3, <3>1, <3>2, <3>3, <3>4, <3>5, <3>6, <3>7 DEF WorkerNext
    <2> QED
      BY <2>1, <2>2
  <1>4. CASE UNCHANGED vars
    BY <1>4, <1>b DEF vars, workerVars
  <1> QED
    BY <1>1, <1>2, <1>3, <1>4 DEF Next

-----------------------------------------------------------------------------
(* one worker per partition *)

LEMMA OneWorkerStep ==
    ASSUME ConsumerInv, [Next]_vars
    PROVE  OneWorkerPerPartition'
  <1>0. /\ generation \in Nat /\ committed \in [Partition -> Nat]
        /\ job \in [Job -> {"joining", "member", "down"}] /\ joined \in [Job -> Nat]
        /\ phase \in [Worker -> Phase] /\ pos \in [Worker -> Nat]
        /\ \A w \in Worker : w[1] \in Job /\ w[2] \in Partition
    BY DEF ConsumerInv, ConsumerTypeOK, Worker
  <1>1. OneWorkerPerPartition
    BY DEF ConsumerInv
  <1>2. CASE NewGeneration
    <2> DEFINE members == {p \in Job : job[p] = "joining"}
    <2>1. PICK owner \in [Partition -> members] :
            LET started == {w \in Worker : owner[w[2]] = w[1]}
            IN  /\ phase' = [w \in Worker |-> IF w \in started THEN "fetch" ELSE phase[w]]
                /\ pos' = [w \in Worker |-> IF w \in started THEN committed[w[2]] ELSE pos[w]]
      BY <1>2 DEF NewGeneration
    <2>2. /\ generation' = generation + 1 /\ committed' = committed
          /\ \A p \in Job : /\ job'[p] = (IF p \in members THEN "member" ELSE job[p])
                            /\ joined'[p] = (IF p \in members THEN generation + 1 ELSE joined[p])
      BY <1>2 DEF NewGeneration
    <2>3. \A p \in Job : joined'[p] <= generation'
      BY <1>0, <1>1, <2>2 DEF OneWorkerPerPartition
    <2>4. \A w \in Worker : phase'[w] # "none" => job'[w[1]] = "member"
      BY <1>0, <1>1, <2>1, <2>2 DEF OneWorkerPerPartition
    <2>5. ASSUME NEW w \in Worker, phase'[w] # "none", joined'[w[1]] = generation'
          PROVE  w[1] = owner[w[2]] /\ phase'[w] = "fetch" /\ pos'[w] = committed[w[2]]
      <3>1. w[1] \in members
        BY <1>0, <1>1, <2>2, <2>5 DEF OneWorkerPerPartition
      <3>2. phase[w] = "none"
        BY <1>0, <1>1, <3>1 DEF OneWorkerPerPartition
      <3> QED
        BY <2>1, <2>5, <3>2
    <2>6. \A v, w \in Worker :
            /\ phase'[v] # "none" /\ phase'[w] # "none"
            /\ joined'[v[1]] = generation' /\ joined'[w[1]] = generation'
            /\ v[2] = w[2]
            => v = w
      BY <2>5 DEF Worker
    <2> QED
      BY <2>2, <2>3, <2>4, <2>5, <2>6 DEF OneWorkerPerPartition, Active
  <1>3. ASSUME NEW p \in Job, JobNext(p)
        PROVE  OneWorkerPerPartition'
    <2>1. CASE GenerationEnds(p)
      BY <1>0, <1>1, <2>1 DEF GenerationEnds, OneWorkerPerPartition, brokerVars, workerVars
    <2>2. CASE LeaveGeneration(p) \/ Crash(p)
      <3>1. /\ generation' = generation /\ committed' = committed /\ joined' = joined
            /\ pos' = pos
            /\ \A w \in Worker : phase'[w] = (IF w[1] = p THEN "none" ELSE phase[w])
            /\ \A r \in Job : r # p => job'[r] = job[r]
        BY <1>0, <2>2 DEF LeaveGeneration, Crash, brokerVars
      <3>2. \A w \in Worker : phase'[w] # "none" => phase'[w] = phase[w] /\ w[1] # p
        BY <3>1
      <3> QED
        BY <1>0, <1>1, <3>1, <3>2 DEF OneWorkerPerPartition, Active
    <2>3. CASE Restart(p)
      <3>1. \A w \in Worker : phase[w] # "none" => w[1] # p
        BY <1>1, <2>3 DEF Restart, OneWorkerPerPartition
      <3>2. \A r \in Job : r # p => job'[r] = job[r]
        BY <1>0, <2>3 DEF Restart
      <3> QED
        BY <1>0, <1>1, <2>3, <3>1, <3>2 DEF Restart, OneWorkerPerPartition, brokerVars, workerVars
    <2> QED
      BY <1>3, <2>1, <2>2, <2>3 DEF JobNext
  <1>4. ASSUME NEW w \in Worker, WorkerNext(w)
        PROVE  OneWorkerPerPartition'
    <2>0. generation' = generation /\ job' = job /\ joined' = joined
      BY <1>4 DEF WorkerNext, Fetch, Resolve, Processed, Interrupted, FetchFailed, WriteDLQ, DLQUnavailable,
         Commit, CommitRefused, brokerVars, jobVars
    <2>1. ASSUME committed' = committed, pos' = pos, phase[w] \in Active,
                 \A v \in Worker : v # w => phase'[v] = phase[v],
                 phase'[w] \in {phase[w], "process", "dlq", "commit", "ended"},
                 phase[w] = "commit" => phase'[w] \in {"commit", "ended"}
          PROVE  OneWorkerPerPartition'
      <3>1. \A v \in Worker : phase'[v] # "none" => phase[v] # "none"
        BY <2>1 DEF Active
      <3>2. \A v \in Worker : phase'[v] \in Active => phase[v] \in Active
        BY <2>1
      <3>3. \A v \in Worker : phase[v] = "commit" /\ phase'[v] \in Active => phase'[v] = "commit"
        BY <2>1 DEF Active
      <3> QED
        BY <1>0, <1>1, <2>0, <2>1, <3>1, <3>2, <3>3 DEF OneWorkerPerPartition
    <2>2. CASE Fetch(w)
      BY <1>0, <2>1, <2>2 DEF Fetch, Active, brokerVars
    <2>3. ASSUME NEW u \in Recipient, Resolve(w, u)
          PROVE  OneWorkerPerPartition'
      BY <1>0, <2>1, <2>3 DEF Resolve, Active, brokerVars
    <2>4. CASE Processed(w)
      BY <1>0, <2>1, <2>4 DEF Processed, Active, brokerVars
    <2>5. CASE Interrupted(w) \/ FetchFailed(w)
      BY <1>0, <2>1, <2>5 DEF Interrupted, FetchFailed, Active, brokerVars
    <2>6. ASSUME NEW heard \in BOOLEAN, WriteDLQ(w, heard)
          PROVE  OneWorkerPerPartition'
      BY <1>0, <2>1, <2>6 DEF WriteDLQ, AckFailed, Active
    <2>7. CASE DLQUnavailable(w) \/ CommitRefused(w)
      BY <1>0, <2>1, <2>7 DEF DLQUnavailable, CommitRefused, AckFailed, Active, brokerVars
    <2>8. ASSUME NEW heard \in BOOLEAN, Commit(w, heard)
          PROVE  OneWorkerPerPartition'
      <3>1. /\ phase[w] = "commit" /\ joined[w[1]] = generation
            /\ committed' = [committed EXCEPT ![w[2]] = pos[w] + 1]
        BY <2>8 DEF Commit
      <3>2. \A v \in Worker : v # w => phase'[v] = phase[v] /\ pos'[v] = pos[v]
        BY <1>0, <2>8 DEF Commit, AckFailed
      <3>3. \/ phase'[w] = "fetch" /\ pos'[w] = pos[w] + 1
            \/ phase'[w] \in {"commit", "ended"} /\ pos'[w] = pos[w]
        BY <1>0, <2>8, <3>1 DEF Commit, AckFailed
      <3>4. \A v \in Worker : phase'[v] # "none" => phase[v] # "none"
        BY <3>1, <3>2
      <3>5. committed'[w[2]] = pos[w] + 1
        BY <1>0, <3>1
      <3>6. ASSUME NEW v \in Worker, v # w, phase'[v] \in Active, joined[v[1]] = generation
            PROVE  committed'[v[2]] = committed[v[2]]
        <4>1. v[2] # w[2]
          BY <1>1, <3>1, <3>2, <3>6 DEF OneWorkerPerPartition, Active
        <4> QED
          BY <1>0, <3>1, <4>1
      <3>7. \A v \in Worker : phase'[v] \in Active /\ joined'[v[1]] = generation' =>
              \/ committed'[v[2]] = pos'[v]
              \/ phase'[v] = "commit" /\ committed'[v[2]] = pos'[v] + 1
        BY <1>0, <1>1, <2>0, <3>2, <3>3, <3>5, <3>6 DEF OneWorkerPerPartition, Active
      <3> QED
        BY <1>1, <2>0, <3>4, <3>7 DEF OneWorkerPerPartition
    <2> QED
      BY <1>4, <2>2, <2>3, <2>4, <2>5, <2>6, <2>7, <2>8 DEF WorkerNext
  <1>5. CASE UNCHANGED vars
    BY <1>1, <1>5 DEF OneWorkerPerPartition, vars, brokerVars, jobVars, workerVars
  <1> QED
    BY <1>2, <1>3, <1>4, <1>5 DEF Next

-----------------------------------------------------------------------------
(* the window of recent identities *)

\* IdentityWindow for one process, as a predicate on its ring, map and index.
Window(ring, ids, n) ==
    /\ Len(ring) <= IdentityCapacity
    /\ DOMAIN ids = {ring[k] : k \in 1..Len(ring)}
    /\ \A j, k \in 1..Len(ring) : ring[j] = ring[k] => j = k
    /\ n \in 1..IdentityCapacity
    /\ Len(ring) < IdentityCapacity => n = 1

\* Remembering an id that is not in the window keeps the ring and the map in step.
LEMMA RememberKeepsWindow ==
    ASSUME ConsumerTypeOK, NEW p \in Job, Window(order[p], identities[p], next[p]),
           NEW t, t.id \in TaskID, ~Known(p, t), Remember(p, t)
    PROVE  Window(order'[p], identities'[p], next'[p])
  <1> DEFINE ring == order[p]
             new  == order'[p]
  <1>0. /\ ring \in Seq(TaskID) /\ Len(ring) \in Nat /\ next[p] \in Nat
        /\ DOMAIN identities = Job /\ DOMAIN order = Job /\ DOMAIN next = Job
        /\ IdentityCapacity \in Nat \ {0}
    BY ConsumerConstants DEF ConsumerTypeOK
  <1>1. \A k \in 1..Len(ring) : ring[k] # t.id
    BY DEF Known, Window
  <1>2. CASE Len(ring) < IdentityCapacity
    <2>1. /\ new = Append(ring, t.id)
          /\ next'[p] = next[p]
          /\ DOMAIN identities'[p] = DOMAIN identities[p] \cup {t.id}
      BY <1>0, <1>2 DEF Remember
    <2>2. /\ Len(new) = Len(ring) + 1
          /\ \A k \in 1..Len(ring) : new[k] = ring[k]
          /\ new[Len(ring) + 1] = t.id
      BY <1>0, <2>1, AppendProperties
    <2> HIDE DEF new, ring
    <2>3. \A k \in 1..Len(new) : k \in 1..Len(ring) \/ k = Len(ring) + 1
      BY <1>0, <2>2 DEF ring
    <2>4. DOMAIN identities'[p] = {new[k] : k \in 1..Len(new)}
      <3>1. DOMAIN identities[p] = {ring[k] : k \in 1..Len(ring)}
        BY DEF Window, ring
      <3>2. 1..Len(new) = (1..Len(ring)) \cup {Len(ring) + 1}
        BY <1>0, <2>2 DEF ring
      <3>3. {new[k] : k \in 1..Len(new)} = {ring[k] : k \in 1..Len(ring)} \cup {t.id}
        BY <2>2, <3>2
      <3> QED
        BY <2>1, <3>1, <3>3
    <2>5. \A j, k \in 1..Len(new) : new[j] = new[k] => j = k
      BY <1>0, <1>1, <2>2, <2>3 DEF Window, ring
    <2>6. next'[p] \in 1..IdentityCapacity /\ (Len(new) < IdentityCapacity => next'[p] = 1)
      BY <1>0, <1>2, <2>1 DEF Window, ring
    <2>7. Len(new) <= IdentityCapacity
      BY <1>0, <1>2, <2>2 DEF ring
    <2> QED
      BY <2>4, <2>5, <2>6, <2>7 DEF Window, new
  <1>3. CASE ~(Len(ring) < IdentityCapacity)
    <2>0. Len(ring) = IdentityCapacity /\ next[p] \in 1..Len(ring)
      BY <1>0, <1>3 DEF Window
    <2>1. /\ new = [ring EXCEPT ![next[p]] = t.id]
          /\ next'[p] = (next[p] % Len(ring)) + 1
          /\ DOMAIN identities'[p] = (DOMAIN identities[p] \ {ring[next[p]]}) \cup {t.id}
      BY <1>0, <1>3 DEF Remember
    <2>2. /\ Len(new) = Len(ring)
          /\ \A k \in 1..Len(ring) : new[k] = IF k = next[p] THEN t.id ELSE ring[k]
      BY <1>0, <2>0, <2>1, ExceptSeq
    <2> HIDE DEF new, ring
    <2>3. DOMAIN identities'[p] = {new[k] : k \in 1..Len(new)}
      <3>1. DOMAIN identities[p] = {ring[k] : k \in 1..Len(ring)}
        BY DEF Window, ring
      <3>2. ASSUME NEW x \in {new[k] : k \in 1..Len(new)}
            PROVE  x \in DOMAIN identities'[p]
        <4>1. PICK k \in 1..Len(ring) : x = new[k]
          BY <2>2
        <4>2. CASE k = next[p]
          BY <2>1, <2>2, <4>1, <4>2
        <4>3. CASE k # next[p]
          BY <2>0, <2>1, <2>2, <3>1, <4>1, <4>3 DEF Window, ring
        <4> QED
          BY <4>2, <4>3
      <3>3. ASSUME NEW x \in DOMAIN identities'[p]
            PROVE  x \in {new[k] : k \in 1..Len(new)}
        <4>1. CASE x = t.id
          BY <2>0, <2>2, <4>1
        <4>2. CASE x # t.id
          <5>1. PICK k \in 1..Len(ring) : x = ring[k] /\ k # next[p]
            BY <2>1, <3>1, <4>2
          <5> QED
            BY <2>2, <5>1
        <4> QED
          BY <4>1, <4>2
      <3> QED
        BY <3>2, <3>3
    <2>4. \A j, k \in 1..Len(new) : new[j] = new[k] => j = k
      BY <1>1, <2>0, <2>2 DEF Window, ring
    <2>5. next'[p] \in 1..IdentityCapacity
      BY <1>0, <2>0, <2>1
    <2> QED
      BY <1>0, <2>0, <2>2, <2>3, <2>4, <2>5 DEF Window, new
  <1> QED
    BY <1>2, <1>3

LEMMA IdentityStep ==
    ASSUME ConsumerInv, [Next]_vars
    PROVE  IdentityWindow'
  <1>0. /\ \A p \in Job : Window(order[p], identities[p], next[p])
        /\ DOMAIN identities = Job /\ order \in [Job -> Seq(TaskID)] /\ next \in [Job -> Nat]
        /\ IdentityCapacity \in Nat \ {0}
    BY ConsumerConstants DEF ConsumerInv, ConsumerTypeOK, IdentityWindow, Window
  <1> SUFFICES ASSUME NEW p \in Job
               PROVE  Window(order'[p], identities'[p], next'[p])
    BY DEF IdentityWindow, Window
  <1>1. CASE order'[p] = order[p] /\ identities'[p] = identities[p] /\ next'[p] = next[p]
    BY <1>0, <1>1
  <1>2. CASE Restart(p)
    <2>1. order'[p] = <<>> /\ identities'[p] = <<>> /\ next'[p] = 1
      BY <1>0, <1>2 DEF Restart
    <2>2. Len(<<>>) = 0 /\ 1..0 = {} /\ DOMAIN <<>> = {}
      OBVIOUS
    <2> QED
      BY <1>0, <2>1, <2>2 DEF Window
  <1>3. ASSUME NEW w \in Worker, Fetch(w), w[1] = p,
               Record(w[2], pos[w]) # Garbage, ~Known(p, Record(w[2], pos[w])),
               Remember(p, Record(w[2], pos[w]))
        PROVE  Window(order'[p], identities'[p], next'[p])
    <2>1. w[2] \in Partition /\ pos[w] \in Nat /\ ConsumerTypeOK
      BY DEF ConsumerInv, ConsumerTypeOK, Worker
    <2>2. Record(w[2], pos[w]).id \in TaskID
      BY <1>3, <2>1, RecordType DEF Fetch
    <2> QED
      BY <1>0, <1>3, <2>1, <2>2, RememberKeepsWindow
  <1>4. ASSUME NEW w \in Worker, Fetch(w)
        PROVE  Window(order'[p], identities'[p], next'[p])
    <2>1. CASE UNCHANGED identityVars
      BY <1>1, <2>1 DEF identityVars
    <2>2. CASE w[1] # p /\ Remember(w[1], Record(w[2], pos[w]))
      BY <1>0, <1>1, <2>2 DEF Remember
    <2> QED
      BY <1>3, <1>4, <2>1, <2>2 DEF Fetch
  <1>5. ASSUME NEW r \in Job, Restart(r), r # p
        PROVE  Window(order'[p], identities'[p], next'[p])
    BY <1>0, <1>1, <1>5 DEF Restart
  <1>6. CASE UNCHANGED identityVars
    BY <1>1, <1>6 DEF identityVars
  <1> QED
    BY <1>2, <1>4, <1>5, <1>6 DEF Next, JobNext, WorkerNext, NewGeneration, GenerationEnds,
       LeaveGeneration, Crash, Resolve, Processed, Interrupted, FetchFailed, WriteDLQ,
       DLQUnavailable, Commit, CommitRefused, identityVars, vars

-----------------------------------------------------------------------------
(* the theorems *)

LEMMA StepInv == ConsumerInv /\ [Next]_vars => ConsumerInv'
  BY TypeStep, CommittedStep, WorkersStep, OneWorkerStep, IdentityStep DEF ConsumerInv

\* The inductive invariant of the consumer holds in every behaviour.
THEOREM ConsumerInvariant == Spec => []ConsumerInv
  BY InitInv, StepInv, PTL DEF Spec

\* At-least-once: RunPartition and the fenced commit never let the group's offset
\* pass a record whose recipients are neither resolved nor kept as a dead letter.
THEOREM CommittedRecordsAreHandled == Spec => []CommittedIsHandled
  <1>1. ConsumerInv => CommittedIsHandled
    BY DEF ConsumerInv
  <1> QED
    BY <1>1, ConsumerInvariant, PTL

\* The ring and the map of Consumer.conflict stay in step at any capacity.
THEOREM WindowIsConsistent == Spec => []IdentityWindow
  <1>1. ConsumerInv => IdentityWindow
    BY DEF ConsumerInv
  <1> QED
    BY <1>1, ConsumerInvariant, PTL

\* No commit lowers the offset of a partition, whatever zombies and retries do.
THEOREM OffsetsOnlyAdvance == Spec => CommitsAdvance
  <1>1. ASSUME ConsumerInv, [Next]_vars
        PROVE  [\A q \in Partition : committed'[q] >= committed[q]]_vars
    <2>0. committed \in [Partition -> Nat] /\ pos \in [Worker -> Nat]
      BY <1>1 DEF ConsumerInv, ConsumerTypeOK
    <2>1. ASSUME NEW w \in Worker, NEW heard \in BOOLEAN, Commit(w, heard)
          PROVE  \A q \in Partition : committed'[q] >= committed[q]
      <3>1. committed[w[2]] \in {pos[w], pos[w] + 1}
        BY <1>1, <2>1 DEF ConsumerInv, OneWorkerPerPartition, Commit, Active
      <3>2. committed' = [committed EXCEPT ![w[2]] = pos[w] + 1]
        BY <2>1 DEF Commit
      <3> QED
        BY <2>0, <3>1, <3>2
    <2>2. CASE committed' = committed
      BY <2>0, <2>2
    <2> QED
      BY <1>1, <2>1, <2>2 DEF Next, JobNext, WorkerNext, NewGeneration, GenerationEnds,
         LeaveGeneration, Crash, Restart, Fetch, Resolve, Processed, Interrupted, FetchFailed, WriteDLQ,
         DLQUnavailable, CommitRefused, brokerVars, vars
  <1> QED
    BY <1>1, ConsumerInvariant, PTL DEF Spec, CommitsAdvance

=============================================================================
