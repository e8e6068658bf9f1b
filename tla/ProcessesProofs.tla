-------------------------- MODULE ProcessesProofs --------------------------
(***************************************************************************)
(* Proofs about the processes, for any partitions, assignments and number  *)
(* of generations, any requests and calls, any recipients and length of    *)
(* the topics.  The Job: generations end in order (GenerationsInOrder), so *)
(* a worker that can still fail belongs to the generation that was         *)
(* assigned last, and what a late watcher or worker writes is fenced by    *)
(* its number.  Comet and Logic: what is open is a prefix of what is to be *)
(* opened (OpenedInOrder), so a place in that order says what a user of it *)
(* needs.  The replay: the topics only grow, and every letter leads back   *)
(* to the record it is about (TopicsRefer).                                *)
(***************************************************************************)
EXTENDS Processes, SequenceTheorems, TLAPS

-----------------------------------------------------------------------------
(* the Job *)

LEMMA ReportsFacts ==
    ASSUME NEW P \in SUBSET Partition
    PROVE  /\ [p \in P |-> 0] \in Reports
           /\ \A f \in [P -> 0..MaxGeneration] : f \in Reports
  <1>1. \A f \in [P -> 0..MaxGeneration] : f \in Reports
    <2>1. [P -> 0..MaxGeneration] \in {[Q -> 0..MaxGeneration] : Q \in SUBSET Partition}
      OBVIOUS
    <2> QED
      BY <2>1 DEF Reports
  <1>2. [p \in P |-> 0] \in [P -> 0..MaxGeneration]
    BY RuntimeConstants
  <1> QED
    BY <1>1, <1>2

LEMMA JobInitInv == JobInit \/ NoJob => JobInv
  <1> SUFFICES ASSUME JobInit \/ NoJob PROVE JobInv
    OBVIOUS
  <1> USE RuntimeConstants DEF JobInit, NoJob, JobBlank, Generation, Nobody
  <1>1. JobTypeOK
    <2>1. Nobody \in Reports
      BY ReportsFacts
    <2> HIDE DEF Nobody, JobInit, NoJob
    <2>2. state = [generation |-> 0, joined |-> FALSE, alive |-> TRUE, partitions |-> Nobody]
      BY DEF JobInit, NoJob
    <2>3. state \in State
      BY <2>1, <2>2 DEF State
    <2> HIDE DEF JobBlank
    <2>7. /\ stopped \in BOOLEAN /\ cancelled \in BOOLEAN /\ failed \in BOOLEAN
          /\ closing \in BOOLEAN /\ netClosed \in BOOLEAN
      BY DEF JobBlank, JobInit, NoJob
    <2>4. /\ clients \in 0..PoolLimit /\ errorsInRow \in 0..3
          /\ gen \in 0..MaxGeneration /\ cur \in 0..MaxGeneration
          /\ ended \subseteq Generation /\ todo \subseteq Partition /\ counted \subseteq Function
          /\ socket \in {"none", "dialing", "open"}
      BY DEF JobBlank, JobInit, NoJob
    <2>5. /\ assigned \in [Generation -> SUBSET Partition]
          /\ watch \in [Generation -> {"none", "waiting", "done"}]
          /\ worker \in [Generation -> [Partition -> {"none", "done"} \cup Live]]
      BY DEF JobBlank, JobInit, NoJob
    <2>6. /\ main \in {"select", "returned"} /\ cons \in {"check", "done"}
          /\ group \in {"joining", "closed"}
      BY DEF JobInit, NoJob
    <2> HIDE DEF Generation
    <2> QED
      BY <2>3, <2>4, <2>5, <2>6, <2>7 DEF JobTypeOK
  <1>2. GenerationsInOrder /\ StartedInOrder /\ NoneAfterFailure
    BY DEF GenerationsInOrder, StartedInOrder, NoneAfterFailure, Serving
  <1>3. LeftBehind
    BY DEF LeftBehind, NoWorkers, Live
  <1>4. OwnershipFenced
    BY DEF OwnershipFenced
  <1> QED
    BY <1>1, <1>2, <1>3, <1>4 DEF JobInv

\* What the steps of the consumer do to runtimeState.
LEMMA StateFacts ==
    ASSUME JobTypeOK
    PROVE  /\ [state EXCEPT !.joined = FALSE] \in State
           /\ [state EXCEPT !.alive = FALSE] \in State
           /\ [state EXCEPT !.alive = FALSE, !.joined = FALSE] \in State
           /\ \A g \in Generation, P \in SUBSET Partition : assign(g, P) => state' \in State
           /\ \A g \in Generation : release(g) => state' \in State
           /\ \A g \in Generation, p \in Partition : progress(g, p) => state' \in State
  <1>0. state \in State
    BY DEF JobTypeOK
  <1>1. /\ [state EXCEPT !.joined = FALSE] \in State /\ [state EXCEPT !.alive = FALSE] \in State
        /\ [state EXCEPT !.alive = FALSE, !.joined = FALSE] \in State
    BY <1>0 DEF State
  <1>2. ASSUME NEW g \in Generation, NEW P \in SUBSET Partition, assign(g, P)
        PROVE  state' \in State
    <2>1. g \in 0..MaxGeneration
      BY RuntimeConstants DEF Generation
    <2>2. [p \in P |-> 0] \in Reports
      BY ReportsFacts
    <2> QED
      BY <1>0, <1>2, <2>1, <2>2 DEF assign, State
  <1>3. ASSUME NEW g \in Generation, release(g)
        PROVE  state' \in State
    <2>1. Nobody \in Reports
      BY ReportsFacts DEF Nobody
    <2> QED
      BY <1>0, <1>3, <2>1 DEF release, State
  <1>4. ASSUME NEW g \in Generation, NEW p \in Partition, progress(g, p)
        PROVE  state' \in State
    <2>1. CASE p \in DOMAIN state.partitions /\ state' = [state EXCEPT !.partitions[p] = g]
      <3> DEFINE f == [state.partitions EXCEPT ![p] = g]
      <3>1. PICK P \in SUBSET Partition : state.partitions \in [P -> 0..MaxGeneration]
        BY <1>0 DEF State, Reports
      <3>2. f \in [P -> 0..MaxGeneration]
        <4>1. g \in 0..MaxGeneration
          BY RuntimeConstants DEF Generation
        <4> QED
          BY <3>1, <4>1
      <3>3. f \in Reports
        BY <3>2, ReportsFacts
      <3>4. state' = [state EXCEPT !.partitions = f]
        BY <2>1
      <3> HIDE DEF f
      <3> QED
        BY <1>0, <3>3, <3>4 DEF State
    <2> QED
      BY <1>0, <1>4, <2>1 DEF progress
  <1> QED
    BY <1>1, <1>2, <1>3, <1>4

-----------------------------------------------------------------------------

\* Each conjunct of JobInv is kept by every step of the Job.
LEMMA JobTypeKept ==
    ASSUME JobInv, JobNext
    PROVE  JobTypeOK'
  <1> USE RuntimeConstants DEF Generation, runVars, loopVars, groupVars, netVars, workVars
  <1> USE DEF JobInv, JobTypeOK
  <1>1. CASE Dial \/ DialReturns \/ Drained \/ GenerationEnds \/ GroupCloses \/ Offer
    BY <1>1, StateFacts DEF Dial, DialReturns, Drained, GenerationEnds, GroupCloses, Offer,
                            GenerationsInOrder
  <1>2. CASE Check \/ NextGeneration
    BY <1>2, StateFacts DEF Check, NextGeneration, GenerationsInOrder
  <1>3. CASE NextError
    BY <1>3, StateFacts DEF NextError, NoneAfterFailure, Serving
  <1>4. CASE Got \/ WorkersStarted
    BY <1>4, StateFacts DEF Got, WorkersStarted
  <1>5. CASE Assign \/ StartWatcher
    BY <1>5, StateFacts DEF Assign, StartWatcher, Starts, StartedInOrder, Function
  <1>6. ASSUME NEW p \in Partition,
               StartWorker(p)
        PROVE  JobTypeOK'
    BY <1>6, StateFacts DEF StartWorker, Starts, StartedInOrder, Function, Live
  <1>7. CASE AfterDone
    BY <1>7, StateFacts DEF AfterDone, CloseSockets
  <1>8. CASE AfterDoneClose
    BY <1>8, StateFacts DEF AfterDoneClose
  <1>9. CASE Defers
    BY <1>9, StateFacts DEF Defers, CloseSockets
  <1>10. CASE Leave \/ ConsumerDone
    BY <1>10, StateFacts DEF Leave, ConsumerDone
  <1>11. CASE Shutdown \/ Await
    BY <1>11, StateFacts DEF Shutdown, Await
  <1>12. CASE CloseSink
    BY <1>12, StateFacts DEF CloseSink
  <1>13. CASE ClosePool
    BY <1>13, StateFacts DEF ClosePool
  <1>14. CASE Stop
    BY <1>14, StateFacts DEF Stop
  <1>15. ASSUME NEW httpDone \in BOOLEAN,
               Select(httpDone)
        PROVE  JobTypeOK'
    BY <1>15, StateFacts DEF Select
  <1>16. ASSUME NEW g \in Generation,
               Release(g)
        PROVE  JobTypeOK'
    BY <1>16, StateFacts DEF Release
  <1>17. ASSUME NEW g \in Generation, NEW p \in Partition,
               Report(g, p)
        PROVE  JobTypeOK'
    BY <1>17, StateFacts DEF Report
  <1>18. ASSUME NEW g \in Generation, NEW p \in Partition,
               Get(g, p)
        PROVE  JobTypeOK'
    BY <1>18, StateFacts DEF Get, Becomes, Live
  <1>19. ASSUME NEW g \in Generation, NEW p \in Partition,
               CallReturns(g, p)
        PROVE  JobTypeOK'
    BY <1>19, StateFacts DEF CallReturns, Becomes, Live
  <1>20. ASSUME NEW g \in Generation, NEW p \in Partition,
               WorkerStops(g, p)
        PROVE  JobTypeOK'
    BY <1>20, StateFacts DEF WorkerStops, Becomes, Ends, Live
  <1>21. ASSUME NEW g \in Generation, NEW p \in Partition,
               WorkerFails(g, p)
        PROVE  JobTypeOK'
    BY <1>21, StateFacts DEF WorkerFails, Becomes, Live
  <1>22. ASSUME NEW g \in Generation, NEW p \in Partition,
               Fail(g, p)
        PROVE  JobTypeOK'
    BY <1>22, StateFacts DEF Fail, Becomes, Ends, Live
  <1> QED
    BY <1>1, <1>2, <1>3, <1>4, <1>5, <1>6, <1>7, <1>8, <1>9, <1>10, <1>11, <1>12, <1>13, <1>14,
       <1>15, <1>16, <1>17, <1>18, <1>19, <1>20, <1>21, <1>22 DEF JobNext, Coordinator, Loop,
       Main, Work

LEMMA GenerationsKept ==
    ASSUME JobInv, JobNext
    PROVE  GenerationsInOrder'
  <1> USE RuntimeConstants DEF Generation, runVars, loopVars, groupVars, netVars, workVars
  <1> USE DEF JobInv, JobTypeOK, State, GenerationsInOrder
  <1>1. CASE Dial \/ DialReturns \/ Drained \/ GenerationEnds \/ GroupCloses \/ Offer
    BY <1>1 DEF Dial, DialReturns, Drained, GenerationEnds, GroupCloses, Offer
  <1>2. CASE Check \/ NextGeneration \/ NextError \/ Got \/ WorkersStarted
    BY <1>2 DEF Check, NextGeneration, NextError, Got, WorkersStarted
  <1>3. CASE Assign
    BY <1>3 DEF Assign, assign, StartedInOrder
  <1>4. CASE StartWatcher
    BY <1>4 DEF StartWatcher, Starts
  <1>5. ASSUME NEW p \in Partition,
               StartWorker(p)
        PROVE  GenerationsInOrder'
    BY <1>5 DEF StartWorker, Starts
  <1>6. CASE AfterDone \/ AfterDoneClose \/ Defers \/ Leave \/ ConsumerDone
    BY <1>6 DEF AfterDone, CloseSockets, AfterDoneClose, Defers, Leave, ConsumerDone
  <1>7. CASE Shutdown \/ Await \/ CloseSink \/ ClosePool \/ Stop
    BY <1>7 DEF Shutdown, Await, CloseSink, ClosePool, Stop
  <1>8. ASSUME NEW httpDone \in BOOLEAN,
               Select(httpDone)
        PROVE  GenerationsInOrder'
    BY <1>8 DEF Select
  <1>9. ASSUME NEW g \in Generation,
               Release(g)
        PROVE  GenerationsInOrder'
    BY <1>9 DEF Release, release
  <1>10. ASSUME NEW g \in Generation, NEW p \in Partition,
               Report(g, p)
        PROVE  GenerationsInOrder'
    BY <1>10 DEF Report, progress
  <1>11. ASSUME NEW g \in Generation, NEW p \in Partition,
               Get(g, p) \/ CallReturns(g, p) \/ WorkerStops(g, p) \/ WorkerFails(g, p) \/ Fail(g, p)
        PROVE  GenerationsInOrder'
    BY <1>11 DEF Get, Becomes, CallReturns, WorkerStops, Ends, WorkerFails, Fail
  <1> QED
    BY <1>1, <1>2, <1>3, <1>4, <1>5, <1>6, <1>7, <1>8, <1>9, <1>10, <1>11 DEF JobNext,
                                                                              Coordinator,
                                                                              Loop, Main, Work

LEMMA StartedKept ==
    ASSUME JobInv, JobNext
    PROVE  StartedInOrder'
  <1> USE RuntimeConstants DEF Generation, runVars, loopVars, groupVars, netVars, workVars
  <1> USE DEF JobInv, JobTypeOK, State, StartedInOrder
  <1>1. CASE Dial \/ DialReturns \/ Drained \/ GenerationEnds \/ GroupCloses \/ Offer
    BY <1>1 DEF Dial, DialReturns, Drained, GenerationEnds, GroupCloses, Offer
  <1>2. CASE Check \/ NextGeneration \/ NextError \/ Got \/ WorkersStarted
    BY <1>2 DEF Check, NextGeneration, NextError, Got, WorkersStarted, GenerationsInOrder
  <1>3. CASE Assign
    BY <1>3 DEF Assign, assign
  <1>4. CASE StartWatcher
    BY <1>4 DEF StartWatcher, Starts
  <1>5. ASSUME NEW p \in Partition,
               StartWorker(p)
        PROVE  StartedInOrder'
    BY <1>5 DEF StartWorker, Starts, Live
  <1>6. CASE AfterDone \/ AfterDoneClose \/ Defers \/ Leave \/ ConsumerDone
    BY <1>6 DEF AfterDone, CloseSockets, AfterDoneClose, Defers, Leave, ConsumerDone
  <1>7. CASE Shutdown \/ Await \/ CloseSink \/ ClosePool \/ Stop
    BY <1>7 DEF Shutdown, Await, CloseSink, ClosePool, Stop
  <1>8. ASSUME NEW httpDone \in BOOLEAN,
               Select(httpDone)
        PROVE  StartedInOrder'
    BY <1>8 DEF Select
  <1>9. ASSUME NEW g \in Generation,
               Release(g)
        PROVE  StartedInOrder'
    BY <1>9 DEF Release, release
  <1>10. ASSUME NEW g \in Generation, NEW p \in Partition,
               Report(g, p)
        PROVE  StartedInOrder'
    BY <1>10 DEF Report, progress
  <1>11. ASSUME NEW g \in Generation, NEW p \in Partition,
               Get(g, p)
        PROVE  StartedInOrder'
    BY <1>11 DEF Get, Becomes, Live
  <1>12. ASSUME NEW g \in Generation, NEW p \in Partition,
               CallReturns(g, p)
        PROVE  StartedInOrder'
    BY <1>12 DEF CallReturns, Becomes, Live
  <1>13. ASSUME NEW g \in Generation, NEW p \in Partition,
               WorkerStops(g, p)
        PROVE  StartedInOrder'
    BY <1>13 DEF WorkerStops, Becomes, Ends, Live
  <1>14. ASSUME NEW g \in Generation, NEW p \in Partition,
               WorkerFails(g, p)
        PROVE  StartedInOrder'
    BY <1>14 DEF WorkerFails, Becomes, Live
  <1>15. ASSUME NEW g \in Generation, NEW p \in Partition,
               Fail(g, p)
        PROVE  StartedInOrder'
    BY <1>15 DEF Fail, Becomes, Ends, Live
  <1> QED
    BY <1>1, <1>2, <1>3, <1>4, <1>5, <1>6, <1>7, <1>8, <1>9, <1>10, <1>11, <1>12, <1>13, <1>14,
       <1>15 DEF JobNext, Coordinator, Loop, Main, Work

\* A worker that can still fail belongs to the open generation, and that one has
\* been assigned.
LEMMA FailureKept ==
    ASSUME JobInv, JobNext
    PROVE  NoneAfterFailure'
  <1> USE RuntimeConstants DEF Generation, runVars, loopVars, groupVars, netVars, workVars
  <1> USE DEF JobInv, JobTypeOK, NoneAfterFailure, Serving
  <1>1. CASE Dial \/ DialReturns \/ Drained \/ GenerationEnds \/ GroupCloses \/ Offer
    BY <1>1 DEF Dial, DialReturns, Drained, GenerationEnds, GroupCloses, Offer
  <1>2. CASE Check \/ NextGeneration \/ NextError \/ Got \/ WorkersStarted
    BY <1>2 DEF Check, NextGeneration, NextError, Got, WorkersStarted
  <1>3. CASE Assign \/ StartWatcher
    BY <1>3 DEF Assign, assign, StartWatcher, Starts
  <1>4. ASSUME NEW p \in Partition,
               StartWorker(p)
        PROVE  NoneAfterFailure'
    BY <1>4 DEF StartWorker, Starts
  <1>5. CASE AfterDone \/ AfterDoneClose \/ Defers \/ Leave \/ ConsumerDone
    BY <1>5 DEF AfterDone, CloseSockets, AfterDoneClose, Defers, Leave, ConsumerDone
  <1>6. CASE Shutdown \/ Await \/ CloseSink \/ ClosePool \/ Stop
    BY <1>6 DEF Shutdown, Await, CloseSink, ClosePool, Stop
  <1>7. ASSUME NEW httpDone \in BOOLEAN,
               Select(httpDone)
        PROVE  NoneAfterFailure'
    BY <1>7 DEF Select
  <1>8. ASSUME NEW g \in Generation,
               Release(g)
        PROVE  NoneAfterFailure'
    BY <1>8 DEF Release, release
  <1>9. ASSUME NEW g \in Generation, NEW p \in Partition,
               Report(g, p)
        PROVE  NoneAfterFailure'
    BY <1>9 DEF Report, progress
  <1>10. ASSUME NEW g \in Generation, NEW p \in Partition,
               Get(g, p) \/ CallReturns(g, p) \/ WorkerStops(g, p) \/ WorkerFails(g, p) \/ Fail(g, p)
        PROVE  NoneAfterFailure'
    BY <1>10 DEF Get, Becomes, CallReturns, WorkerStops, Ends, WorkerFails, Fail,
                 GenerationsInOrder, StartedInOrder, WorkerDone
  <1> QED
    BY <1>1, <1>2, <1>3, <1>4, <1>5, <1>6, <1>7, <1>8, <1>9, <1>10 DEF JobNext, Coordinator,
                                                                       Loop, Main, Work

LEMMA LeftKept ==
    ASSUME JobInv, JobNext
    PROVE  LeftBehind'
  <1> USE RuntimeConstants DEF Generation, runVars, loopVars, groupVars, netVars, workVars
  <1> USE DEF JobInv, JobTypeOK, State, LeftBehind, NoWorkers, Live
  <1>1. CASE Dial \/ DialReturns \/ Drained \/ GenerationEnds \/ GroupCloses \/ Offer
    BY <1>1 DEF Dial, DialReturns, Drained, GenerationEnds, GroupCloses, Offer
  <1>2. CASE Check \/ NextGeneration \/ NextError \/ Got \/ WorkersStarted
    BY <1>2 DEF Check, NextGeneration, NextError, Got, WorkersStarted
  <1>3. CASE Assign
    BY <1>3 DEF Assign, assign
  <1>4. CASE StartWatcher
    BY <1>4 DEF StartWatcher, Starts
  <1>5. ASSUME NEW p \in Partition,
               StartWorker(p)
        PROVE  LeftBehind'
    BY <1>5 DEF StartWorker, Starts
  <1>6. CASE AfterDone \/ AfterDoneClose \/ Defers \/ Leave \/ ConsumerDone
    BY <1>6 DEF AfterDone, CloseSockets, AfterDoneClose, Defers, Leave, ConsumerDone
  <1>7. CASE Shutdown \/ Await \/ CloseSink \/ ClosePool \/ Stop
    BY <1>7 DEF Shutdown, Await, CloseSink, ClosePool, Stop
  <1>8. ASSUME NEW httpDone \in BOOLEAN,
               Select(httpDone)
        PROVE  LeftBehind'
    BY <1>8 DEF Select
  <1>9. ASSUME NEW g \in Generation,
               Release(g)
        PROVE  LeftBehind'
    BY <1>9 DEF Release, release
  <1>10. ASSUME NEW g \in Generation, NEW p \in Partition,
               Report(g, p)
        PROVE  LeftBehind'
    BY <1>10 DEF Report, progress
  <1>11. ASSUME NEW g \in Generation, NEW p \in Partition,
               Get(g, p) \/ CallReturns(g, p)
        PROVE  LeftBehind'
    BY <1>11 DEF Get, Becomes, CallReturns
  <1>12. ASSUME NEW g \in Generation, NEW p \in Partition,
               WorkerStops(g, p)
        PROVE  LeftBehind'
    BY <1>12 DEF WorkerStops, Becomes, Ends
  <1>13. ASSUME NEW g \in Generation, NEW p \in Partition,
               WorkerFails(g, p)
        PROVE  LeftBehind'
    BY <1>13 DEF WorkerFails, Becomes
  <1>14. ASSUME NEW g \in Generation, NEW p \in Partition,
               Fail(g, p)
        PROVE  LeftBehind'
    BY <1>14 DEF Fail, Becomes, Ends
  <1> QED
    BY <1>1, <1>2, <1>3, <1>4, <1>5, <1>6, <1>7, <1>8, <1>9, <1>10, <1>11, <1>12, <1>13,
       <1>14 DEF JobNext, Coordinator, Loop, Main, Work

\* A generation is assigned once, before its watcher starts; release and progress
\* of any other find another generation in the state.
LEMMA OwnershipKept ==
    ASSUME JobInv, JobNext
    PROVE  OwnershipFenced'
  <1> USE RuntimeConstants DEF Generation, runVars, loopVars, groupVars, netVars, workVars
  <1> USE DEF JobInv, JobTypeOK, State, OwnershipFenced, Ready, Done, Nobody
  <1>1. CASE Dial \/ DialReturns \/ Drained \/ GenerationEnds \/ GroupCloses \/ Offer
    BY <1>1 DEF Dial, DialReturns, Drained, GenerationEnds, GroupCloses, Offer, GenerationsInOrder
  <1>2. CASE Check \/ NextGeneration \/ NextError \/ Got \/ WorkersStarted
    BY <1>2 DEF Check, NextGeneration, NextError, Got, WorkersStarted, GenerationsInOrder
  <1>3. CASE Assign
    BY <1>3 DEF Assign, assign, StartedInOrder, LeftBehind
  <1>4. CASE StartWatcher
    BY <1>4 DEF StartWatcher, Starts, StartedInOrder
  <1>5. ASSUME NEW p \in Partition,
               StartWorker(p)
        PROVE  OwnershipFenced'
    BY <1>5 DEF StartWorker, Starts
  <1>6. CASE AfterDone \/ AfterDoneClose \/ Defers \/ Leave \/ ConsumerDone
    BY <1>6 DEF AfterDone, CloseSockets, AfterDoneClose, Defers, Leave, ConsumerDone
  <1>7. CASE Shutdown \/ Await \/ CloseSink \/ ClosePool \/ Stop
    BY <1>7 DEF Shutdown, Await, CloseSink, ClosePool, Stop, LeftBehind
  <1>8. ASSUME NEW httpDone \in BOOLEAN,
               Select(httpDone)
        PROVE  OwnershipFenced'
    BY <1>8 DEF Select
  <1>9. ASSUME NEW g \in Generation,
               Release(g)
        PROVE  OwnershipFenced'
    BY <1>9 DEF Release, release
  <1>10. ASSUME NEW g \in Generation, NEW p \in Partition,
               Report(g, p)
        PROVE  OwnershipFenced'
    BY <1>10 DEF Report, progress
  <1>11. ASSUME NEW g \in Generation, NEW p \in Partition,
               Get(g, p) \/ CallReturns(g, p) \/ WorkerStops(g, p) \/ WorkerFails(g, p) \/ Fail(g, p)
        PROVE  OwnershipFenced'
    BY <1>11 DEF Get, Becomes, CallReturns, WorkerStops, Ends, WorkerFails, Fail
  <1> QED
    BY <1>1, <1>2, <1>3, <1>4, <1>5, <1>6, <1>7, <1>8, <1>9, <1>10, <1>11 DEF JobNext,
                                                                              Coordinator,
                                                                              Loop, Main, Work

LEMMA JobStutters == ASSUME JobInv, UNCHANGED jobVars PROVE JobInv'
  <1> USE DEF JobInv, jobVars, runVars, loopVars, groupVars, netVars, workVars
  <1>1. JobTypeOK' /\ GenerationsInOrder' /\ StartedInOrder'
    BY DEF JobTypeOK, GenerationsInOrder, StartedInOrder
  <1>2. NoneAfterFailure' /\ LeftBehind'
    BY DEF NoneAfterFailure, LeftBehind, Serving, NoWorkers
  <1>3. OwnershipFenced'
    BY DEF OwnershipFenced, Ready, Done
  <1> QED
    BY <1>1, <1>2, <1>3

LEMMA JobKeeps == ASSUME JobInv, [JobNext]_jobVars PROVE JobInv'
  <1>1. CASE JobNext
    BY <1>1, JobTypeKept, GenerationsKept, StartedKept, FailureKept, LeftKept, OwnershipKept
       DEF JobInv
  <1> QED
    BY <1>1, JobStutters

\* Only Assign makes the process ready, and it is not reached after a failure.
LEMMA JoinedOnlyByAssign ==
    ASSUME JobInv, JobNext, failed, ~state.joined
    PROVE  ~state'.joined
  <1> USE DEF JobInv, JobTypeOK, State
  <1>1. CASE Assign
    BY <1>1 DEF Assign, NoneAfterFailure
  <1>2. CASE state' = state
    BY <1>2
  <1>3. CASE NextError \/ ConsumerDone \/ CloseSink
    BY <1>3 DEF NextError, ConsumerDone, CloseSink
  <1>4. ASSUME NEW g \in Generation, Release(g)
        PROVE  ~state'.joined
    BY <1>4 DEF Release, release
  <1>5. ASSUME NEW g \in Generation, NEW p \in Partition, Report(g, p) \/ Fail(g, p)
        PROVE  ~state'.joined
    BY <1>5 DEF Report, progress, Fail
  <1>6. \/ Assign \/ state' = state \/ NextError \/ ConsumerDone \/ CloseSink
        \/ \E g \in Generation :
              Release(g) \/ \E p \in Partition : Report(g, p) \/ Fail(g, p)
    BY DEF JobNext, Coordinator, Dial, DialReturns, Offer, GenerationEnds, Drained, GroupCloses,
           Loop, Check, NextGeneration, Got, StartWatcher, WorkersStarted, StartWorker, AfterDone,
           AfterDoneClose, Defers, Leave, Main, Select, Shutdown, Await, ClosePool, Stop, Work,
           Get, CallReturns, WorkerStops, WorkerFails
  <1> QED
    BY <1>1, <1>2, <1>3, <1>4, <1>5, <1>6

LEMMA JobInvCloses == JobInv => JobClosesLast
  BY DEF JobInv, LeftBehind, JobClosesLast

-----------------------------------------------------------------------------
(* Comet and Logic *)

LEMMA AtMostFive == ASSUME NEW n \in Nat, n <= 5 PROVE n \in 0..5
  OBVIOUS

LEMMA OneLess ==
    ASSUME NEW n \in Nat \ {0}
    PROVE  n - 1 = IF 1 <= n - 1 THEN n - 1 - 1 + 1 ELSE 0
  OBVIOUS

\* A deferred call takes the last thing away.
LEMMA FrontFacts ==
    ASSUME NEW s \in Seq(Resource), s # <<>>
    PROVE  /\ Front(s) \in Seq(Resource) /\ Len(s) \in Nat \ {0}
           /\ Len(Front(s)) = Len(s) - 1 /\ Last(s) = s[Len(s)]
           /\ \A i \in 1..(Len(s) - 1) : Front(s)[i] = s[i]
  <1>1. Len(s) \in Nat \ {0} /\ Len(s) - 1 \in Int
    OBVIOUS
  <1>2. SubSeq(s, 1, Len(s) - 1) \in Seq(Resource)
    BY <1>1, ElementOfSeq, SubSeqProperties
  <1>3. Len(SubSeq(s, 1, Len(s) - 1)) = IF 1 <= Len(s) - 1 THEN Len(s) - 1 - 1 + 1 ELSE 0
    BY <1>1, ElementOfSeq, SubSeqProperties
  <1>4. Len(SubSeq(s, 1, Len(s) - 1)) = Len(s) - 1
    BY <1>1, <1>3, OneLess, Zenon
  <1>5. \A i \in 1..(Len(s) - 1) : SubSeq(s, 1, Len(s) - 1)[i] = s[i]
    OBVIOUS
  <1> QED
    BY <1>1, <1>2, <1>4, <1>5 DEF Front, Last

LEMMA AppendFacts ==
    ASSUME NEW s \in Seq(Resource), NEW x \in Resource
    PROVE  /\ Append(s, x) \in Seq(Resource)
           /\ Len(Append(s, x)) = Len(s) + 1 /\ Append(s, x)[Len(s) + 1] = x
           /\ \A i \in 1..Len(s) : Append(s, x)[i] = s[i]
  OBVIOUS

LEMMA OpensFacts ==
    ASSUME NEW k \in {"comet", "logic"}
    PROVE  /\ \A i \in 1..5 : Opens[k][i] \in Resource
           /\ k = "comet" => /\ Opens[k][1] = "hub" /\ Opens[k][2] = "pool" /\ Opens[k][3] = "rpc"
                             /\ Opens[k][4] = "instance" /\ Opens[k][5] = "http"
           /\ k = "logic" => /\ Opens[k][1] = "database" /\ Opens[k][2] = "redis"
                             /\ Opens[k][3] = "publisher" /\ Opens[k][4] = "service"
                             /\ Opens[k][5] = "listeners"
  <1>1. CASE k = "comet"
    BY <1>1 DEF Opens, Resource
  <1>2. CASE k = "logic"
    BY <1>2 DEF Opens, Resource
  <1> QED
    BY <1>1, <1>2

\* What is opened next, and what was opened last.
LEMMA OpenedFacts ==
    ASSUME ServersTypeOK, OpenedInOrder
    PROVE  /\ Len(opened) \in 0..5
           /\ Len(opened) < 5 =>
                /\ Opens[kind][Len(opened) + 1] \in Resource
                /\ Len(opened) + 1 \in 1..5
           /\ opened # <<>> => Len(opened) \in 1..5 /\ Last(opened) = Opens[kind][Len(opened)]
  <1>0. opened \in Seq(Resource) /\ kind \in {"comet", "logic"}
    BY DEF ServersTypeOK
  <1>1. Len(opened) \in 0..5
    <2>1. Len(opened) \in Nat
      BY <1>0
    <2>2. Len(opened) <= 5
      BY DEF OpenedInOrder
    <2> QED
      BY <2>1, <2>2, AtMostFive, Zenon
  <1>2. Len(opened) < 5 => Opens[kind][Len(opened) + 1] \in Resource /\ Len(opened) + 1 \in 1..5
    BY <1>0, <1>1, OpensFacts
  <1>3. opened # <<>> => Len(opened) \in 1..5 /\ Last(opened) = Opens[kind][Len(opened)]
    <2>1. ASSUME opened # <<>>
          PROVE  Len(opened) \in 1..5 /\ Last(opened) = opened[Len(opened)]
      BY <1>0, <1>1, <2>1, FrontFacts
    <2>2. ASSUME Len(opened) \in 1..5
          PROVE  opened[Len(opened)] = Opens[kind][Len(opened)]
      <3>1. Len(opened) \in 1..Len(opened)
        BY <2>2
      <3> QED
        BY <3>1 DEF OpenedInOrder
    <2> QED
      BY <2>1, <2>2
  <1> QED
    BY <1>1, <1>2, <1>3

LEMMA ServersInitInv == ServersInit \/ NoServers => ServersInv
  <1> SUFFICES ASSUME ServersInit \/ NoServers PROVE ServersInv
    OBVIOUS
  <1> USE DEF ServersInit, NoServers, ServersBlank
  <1>1. ServersTypeOK
    <2>1. opened \in Seq(Resource)
      BY EmptySeq
    <2>2. told \in BOOLEAN /\ grace \in BOOLEAN /\ hub \in BOOLEAN
      OBVIOUS
    <2> QED
      BY <2>1, <2>2 DEF ServersTypeOK
  <1>2. OpenedInOrder
    BY DEF OpenedInOrder
  <1>3. ServedWhenUp /\ UsersAreTracked
    BY DEF ServedWhenUp, UsersAreTracked
  <1> QED
    BY <1>1, <1>2, <1>3 DEF ServersInv

LEMMA OpenNextFacts ==
    ASSUME ServersInv, OpenNext
    PROVE  /\ opened' \in Seq(Resource)
           /\ Len(opened) \in 0..4 /\ Len(opened') = Len(opened) + 1
           /\ \A i \in 1..Len(opened') : opened'[i] = Opens[kind][i]
           /\ kind' = kind
  <1>1. opened \in Seq(Resource) /\ Len(opened) \in 0..5 /\ Len(opened) < 5
    BY OpenedFacts DEF ServersInv, ServersTypeOK, OpenedInOrder, OpenNext
  <1> DEFINE r == Opens[kind][Len(opened) + 1]
  <1>2. opened' = Append(opened, r) /\ r \in Resource /\ kind' = kind
    BY <1>1, OpenedFacts DEF ServersInv, OpenNext
  <1> HIDE DEF r
  <1>3. /\ opened' \in Seq(Resource) /\ Len(opened') = Len(opened) + 1
        /\ opened'[Len(opened) + 1] = r
        /\ \A i \in 1..Len(opened) : opened'[i] = opened[i]
    BY <1>1, <1>2, AppendFacts
  <1>4. \A i \in 1..Len(opened) : opened'[i] = Opens[kind][i]
    BY <1>3 DEF ServersInv, OpenedInOrder
  <1>5. opened'[Len(opened) + 1] = Opens[kind][Len(opened) + 1]
    BY <1>3 DEF r
  <1>6. \A n \in 0..5 : \A i \in 1..(n + 1) : i \in 1..n \/ i = n + 1
    OBVIOUS
  <1>7. \A i \in 1..(Len(opened) + 1) : opened'[i] = Opens[kind][i]
    BY <1>1, <1>4, <1>5, <1>6, Zenon
  <1>8. \A n \in 0..5 : n < 5 => n \in 0..4
    OBVIOUS
  <1> QED
    BY <1>1, <1>2, <1>3, <1>7, <1>8, Zenon

\* The servers are up when the last thing is open; Comet's RPC is up before.
LEMMA OpenNextServes ==
    ASSUME ServersInv, OpenNext
    PROVE  /\ http' = IF Len(opened) = 4 THEN "up" ELSE http
           /\ kind = "logic" => rpc' = IF Len(opened) = 4 THEN "up" ELSE rpc
           /\ kind = "comet" => rpc' = IF Len(opened) = 2 THEN "up" ELSE rpc
           /\ kick' = IF kind = "logic" /\ Len(opened) = 3 THEN "idle" ELSE kick
           /\ pc' = IF Len(opened) = 4 THEN "select" ELSE "open"
  <1> DEFINE n == Len(opened)
             r == Opens[kind][n + 1]
  <1>1. /\ n \in 0..4 /\ kind \in {"comet", "logic"}
        /\ rpc' = IF r \in {"rpc", "listeners"} THEN "up" ELSE rpc
        /\ http' = IF r \in {"http", "listeners"} THEN "up" ELSE http
        /\ kick' = IF r = "service" THEN "idle" ELSE kick
        /\ pc' = IF n = 4 THEN "select" ELSE "open"
    BY OpenNextFacts DEF OpenNext, ServersInv, ServersTypeOK
  <1> HIDE DEF n
  <1>2. /\ http' = IF n = 4 THEN "up" ELSE http
        /\ kind = "logic" => rpc' = IF n = 4 THEN "up" ELSE rpc
        /\ kind = "comet" => rpc' = IF n = 2 THEN "up" ELSE rpc
        /\ kick' = IF kind = "logic" /\ n = 3 THEN "idle" ELSE kick
    <2>1. CASE kind = "comet"
      BY <1>1, <2>1, OpensFacts
    <2>2. CASE kind = "logic"
      BY <1>1, <2>2, OpensFacts
    <2> QED
      BY <1>1, <2>1, <2>2
  <1> QED
    BY <1>1, <1>2 DEF n

LEMMA DeferFacts ==
    ASSUME ServersInv, opened # <<>>
    PROVE  /\ Len(opened) \in 1..5
           /\ Last(opened) = "instance" <=> kind = "comet" /\ Len(opened) = 4
           /\ Last(opened) = "service" <=> kind = "logic" /\ Len(opened) = 4
           /\ Last(opened) = "rpc" <=> kind = "comet" /\ Len(opened) = 3
           /\ Front(opened) \in Seq(Resource) /\ Len(Front(opened)) = Len(opened) - 1
           /\ \A i \in 1..(Len(opened) - 1) : Front(opened)[i] = Opens[kind][i]
  <1>1. /\ opened \in Seq(Resource) /\ kind \in {"comet", "logic"} /\ Len(opened) \in 1..5
        /\ Last(opened) = Opens[kind][Len(opened)]
    BY OpenedFacts DEF ServersInv, ServersTypeOK
  <1>2. /\ Last(opened) = "instance" <=> kind = "comet" /\ Len(opened) = 4
        /\ Last(opened) = "service" <=> kind = "logic" /\ Len(opened) = 4
        /\ Last(opened) = "rpc" <=> kind = "comet" /\ Len(opened) = 3
    <2> DEFINE n == Len(opened)
               x == Last(opened)
    <2>1. n \in 1..5 /\ x = Opens[kind][n]
      BY <1>1
    <2> HIDE DEF n, x
    <2>2. /\ x = "instance" <=> kind = "comet" /\ n = 4
          /\ x = "service" <=> kind = "logic" /\ n = 4
          /\ x = "rpc" <=> kind = "comet" /\ n = 3
      <3>0. kind \in {"comet", "logic"}
        BY <1>1
      <3>1. CASE kind = "comet"
        BY <2>1, <3>0, <3>1, OpensFacts
      <3>2. CASE kind = "logic"
        BY <2>1, <3>0, <3>2, OpensFacts
      <3> QED
        BY <3>0, <3>1, <3>2
    <2> QED
      BY <2>2 DEF n, x
  <1>3. /\ Front(opened) \in Seq(Resource) /\ Len(Front(opened)) = Len(opened) - 1
        /\ \A i \in 1..(Len(opened) - 1) : Front(opened)[i] = opened[i]
    BY <1>1, FrontFacts
  <1>4. \A n \in 1..5 : \A i \in 1..(n - 1) : i \in 1..n
    OBVIOUS
  <1>5. \A i \in 1..(Len(opened) - 1) : Front(opened)[i] = Opens[kind][i]
    BY <1>1, <1>3, <1>4, Zenon DEF ServersInv, OpenedInOrder
  <1> QED
    BY <1>1, <1>2, <1>3, <1>5, Zenon

\* Each conjunct of ServersInv is kept by every step of Comet and Logic.
LEMMA ServersTypeKept ==
    ASSUME ServersInv, ServersNext
    PROVE  ServersTypeOK'
  <1> USE DEF ServersInv, ServersTypeOK
  <1>1. CASE OpenNext
    BY <1>1, OpenNextFacts, OpenNextServes DEF OpenNext
  <1>2. CASE Defer
    BY <1>2, DeferFacts DEF Defer
  <1>3. CASE OpenFails \/ HubCloses \/ DeferCancels \/ Returned
    BY <1>3 DEF OpenFails, HubCloses, DeferCancels, Returned
  <1>4. ASSUME NEW served \in BOOLEAN,
               SelectReturns(served)
        PROVE  ServersTypeOK'
    BY <1>4 DEF SelectReturns
  <1>5. CASE AwaitHttp \/ HandlersDone
    BY <1>5 DEF AwaitHttp, HandlersDone
  <1>6. CASE GraceEnds \/ HttpShutdown \/ GracefulStop \/ StopRpc \/ Tell
    BY <1>6 DEF GraceEnds, HttpShutdown, GracefulStop, StopRpc, Tell
  <1>7. ASSUME NEW h \in Request,
               Accept(h) \/ Handle(h) \/ WantsSocket(h) \/ Upgrade(h)
        PROVE  ServersTypeOK'
    BY <1>7 DEF Accept, Goes, Handle, WantsSocket, Upgrade
  <1>8. ASSUME NEW h \in Request,
               Respond(h) \/ SocketEnds(h) \/ Cleaned(h)
        PROVE  ServersTypeOK'
    BY <1>8 DEF Respond, Goes, SocketEnds, Cleaned
  <1>9. ASSUME NEW c \in Rpc,
               CallBegins(c) \/ CallEnds(c)
        PROVE  ServersTypeOK'
    BY <1>9 DEF CallBegins, CallEnds
  <1>10. CASE LeaseEnds
    <2>1. hub' \in BOOLEAN /\ lease' = "done"
      BY <1>10 DEF LeaseEnds
    <2>2. UNCHANGED <<kind, pc, told, opened, grace, http, rpc, req, tracked, rpcs, kick>>
      BY <1>10 DEF LeaseEnds
    <2> QED
      BY <2>1, <2>2
  <1>11. CASE KickWork \/ KicksEnd
    BY <1>11 DEF KickWork, KicksEnd
  <1> QED
    BY <1>1, <1>2, <1>3, <1>4, <1>5, <1>6, <1>7, <1>8, <1>9, <1>10, <1>11 DEF ServersNext,
                                                                              RunStep,
                                                                              DrainStep, HandlerStep

LEMMA OpenedKept ==
    ASSUME ServersInv, ServersNext
    PROVE  OpenedInOrder'
  <1> USE DEF ServersInv, OpenedInOrder
  <1>1. CASE OpenNext
    BY <1>1, OpenNextFacts, OpenNextServes DEF OpenNext, ServersTypeOK
  <1>2. CASE Defer
    BY <1>2, DeferFacts DEF Defer, ServersTypeOK
  <1>3. CASE OpenFails \/ HubCloses \/ DeferCancels \/ Returned
    BY <1>3 DEF OpenFails, HubCloses, DeferCancels, Returned
  <1>4. ASSUME NEW served \in BOOLEAN,
               SelectReturns(served)
        PROVE  OpenedInOrder'
    BY <1>4 DEF SelectReturns
  <1>5. CASE AwaitHttp \/ HandlersDone
    BY <1>5 DEF AwaitHttp, HandlersDone
  <1>6. CASE GraceEnds \/ HttpShutdown \/ GracefulStop \/ StopRpc \/ Tell
    BY <1>6 DEF GraceEnds, HttpShutdown, GracefulStop, StopRpc, Tell
  <1>7. ASSUME NEW h \in Request,
               Accept(h) \/ Handle(h) \/ WantsSocket(h) \/ Upgrade(h)
        PROVE  OpenedInOrder'
    BY <1>7 DEF Accept, Goes, Handle, WantsSocket, Upgrade
  <1>8. ASSUME NEW h \in Request,
               Respond(h) \/ SocketEnds(h) \/ Cleaned(h)
        PROVE  OpenedInOrder'
    BY <1>8 DEF Respond, Goes, SocketEnds, Cleaned
  <1>9. ASSUME NEW c \in Rpc,
               CallBegins(c) \/ CallEnds(c)
        PROVE  OpenedInOrder'
    BY <1>9 DEF CallBegins, CallEnds
  <1>10. CASE LeaseEnds \/ KickWork \/ KicksEnd
    BY <1>10 DEF LeaseEnds, KickWork, KicksEnd
  <1> QED
    BY <1>1, <1>2, <1>3, <1>4, <1>5, <1>6, <1>7, <1>8, <1>9, <1>10 DEF ServersNext, RunStep,
                                                                       DrainStep, HandlerStep

LEMMA ServedKept ==
    ASSUME ServersInv, ServersNext
    PROVE  ServedWhenUp'
  <1> USE DEF ServersInv, ServersTypeOK, ServedWhenUp, InHttp
  <1>1. CASE OpenNext
    BY <1>1, OpenNextFacts, OpenNextServes DEF OpenNext, OpenedInOrder
  <1>2. CASE Defer
    BY <1>2, DeferFacts DEF Defer, OpenedInOrder
  <1>3. CASE OpenFails \/ HubCloses \/ DeferCancels \/ Returned
    BY <1>3 DEF OpenFails, HubCloses, DeferCancels, Returned, OpenedInOrder
  <1>4. ASSUME NEW served \in BOOLEAN,
               SelectReturns(served)
        PROVE  ServedWhenUp'
    BY <1>4 DEF SelectReturns, OpenedInOrder
  <1>5. CASE AwaitHttp \/ HandlersDone
    BY <1>5 DEF AwaitHttp, HandlersDone, OpenedInOrder
  <1>6. CASE GraceEnds \/ HttpShutdown \/ GracefulStop \/ StopRpc \/ Tell
    BY <1>6 DEF GraceEnds, HttpShutdown, GracefulStop, StopRpc, Tell, OpenedInOrder
  <1>7. ASSUME NEW h \in Request,
               Accept(h) \/ Handle(h) \/ WantsSocket(h) \/ Upgrade(h)
        PROVE  ServedWhenUp'
    BY <1>7 DEF Accept, Goes, Handle, WantsSocket, Upgrade, OpenedInOrder
  <1>8. ASSUME NEW h \in Request,
               Respond(h) \/ SocketEnds(h) \/ Cleaned(h)
        PROVE  ServedWhenUp'
    BY <1>8 DEF Respond, Goes, SocketEnds, Cleaned, OpenedInOrder
  <1>9. ASSUME NEW c \in Rpc,
               CallBegins(c) \/ CallEnds(c)
        PROVE  ServedWhenUp'
    BY <1>9 DEF CallBegins, CallEnds, OpenedInOrder
  <1>10. CASE LeaseEnds \/ KickWork \/ KicksEnd
    BY <1>10 DEF LeaseEnds, KickWork, KicksEnd, OpenedInOrder
  <1> QED
    BY <1>1, <1>2, <1>3, <1>4, <1>5, <1>6, <1>7, <1>8, <1>9, <1>10 DEF ServersNext, RunStep,
                                                                       DrainStep, HandlerStep

LEMMA TrackedKept ==
    ASSUME ServersInv, ServersNext
    PROVE  UsersAreTracked'
  <1> USE DEF ServersInv, ServersTypeOK, UsersAreTracked, ServedWhenUp, OpenedInOrder
  <1>1. CASE OpenNext
    BY <1>1, OpenNextFacts, OpenNextServes DEF OpenNext
  <1>2. CASE Defer
    <2> DEFINE n == Len(opened)
               k == Len(opened')
    <2>1. n \in 1..5 /\ k = n - 1 /\ (n = 4 /\ kind = "logic" => kick = "gone")
      BY <1>2, DeferFacts DEF Defer
    <2>2. kick # "gone" => kind = "logic" /\ n >= 4
      OBVIOUS
    <2> HIDE DEF n, k
    <2>3. kick # "gone" => kind = "logic" /\ k >= 4
      BY <2>1, <2>2
    <2>4. (kick # "gone" => kind = "logic" /\ Len(opened) >= 4)'
      BY <1>2, <2>3 DEF k, Defer
    <2> QED
      BY <1>2, <2>4 DEF Defer
  <1>3. CASE OpenFails \/ HubCloses \/ DeferCancels \/ Returned
    BY <1>3 DEF OpenFails, HubCloses, DeferCancels, Returned
  <1>4. ASSUME NEW served \in BOOLEAN,
               SelectReturns(served)
        PROVE  UsersAreTracked'
    BY <1>4 DEF SelectReturns
  <1>5. CASE AwaitHttp \/ HandlersDone
    BY <1>5 DEF AwaitHttp, HandlersDone
  <1>6. CASE GraceEnds \/ HttpShutdown \/ GracefulStop \/ StopRpc \/ Tell
    BY <1>6 DEF GraceEnds, HttpShutdown, GracefulStop, StopRpc, Tell
  <1>7. ASSUME NEW h \in Request,
               Accept(h) \/ Handle(h) \/ WantsSocket(h) \/ Upgrade(h)
        PROVE  UsersAreTracked'
    BY <1>7 DEF Accept, Goes, Handle, WantsSocket, Upgrade
  <1>8. ASSUME NEW h \in Request,
               Respond(h) \/ SocketEnds(h) \/ Cleaned(h)
        PROVE  UsersAreTracked'
    BY <1>8 DEF Respond, Goes, SocketEnds, Cleaned
  <1>9. ASSUME NEW c \in Rpc,
               CallBegins(c) \/ CallEnds(c)
        PROVE  UsersAreTracked'
    BY <1>9 DEF CallBegins, CallEnds
  <1>10. CASE LeaseEnds \/ KickWork \/ KicksEnd
    BY <1>10 DEF LeaseEnds, KickWork, KicksEnd
  <1> QED
    BY <1>1, <1>2, <1>3, <1>4, <1>5, <1>6, <1>7, <1>8, <1>9, <1>10 DEF ServersNext, RunStep,
                                                                       DrainStep, HandlerStep

LEMMA ServersKeep == ASSUME ServersInv, [ServersNext]_serverVars PROVE ServersInv'
  <1>1. CASE ServersNext
    BY <1>1, ServersTypeKept, OpenedKept, ServedKept, TrackedKept DEF ServersInv
  <1>2. CASE UNCHANGED serverVars
    BY <1>2 DEF serverVars, ServersInv, ServersTypeOK, OpenedInOrder, ServedWhenUp,
                UsersAreTracked, InHttp
  <1> QED
    BY <1>1, <1>2

LEMMA OpenIfReached ==
    ASSUME ServersInv, NEW i \in 1..5, i <= Len(opened)
    PROVE  IsOpen(Opens[kind][i])
  <1>1. opened \in Seq(Resource) /\ Len(opened) \in Nat /\ DOMAIN opened = 1..Len(opened)
    BY LenProperties DEF ServersInv, ServersTypeOK
  <1>2. \A n \in Nat : i <= n => i \in 1..n
    OBVIOUS
  <1>3. i \in DOMAIN opened
    BY <1>1, <1>2, Zenon
  <1>4. opened[i] = Opens[kind][i]
    BY <1>1, <1>3 DEF ServersInv, OpenedInOrder
  <1> QED
    BY <1>3, <1>4 DEF IsOpen, Range

\* What is used is still open: before the deferred calls everything is; during
\* them the users that were waited for are gone.
LEMMA ServersInvCloses == ServersInv => ServersCloseLast
  <1> SUFFICES ASSUME ServersInv PROVE ServersCloseLast
    OBVIOUS
  <1> USE DEF ServersInv, ServersTypeOK
  <1>1. \A h \in Request : req[h] \in {"upgrading", "socket", "cleanup"} => IsOpen("pool")
    <2> SUFFICES ASSUME NEW h \in Request, req[h] \in {"upgrading", "socket", "cleanup"}
                 PROVE  IsOpen("pool")
      OBVIOUS
    <2>1. kind = "comet" /\ pc \in {"select", "hub", "drain", "wait"}
      BY DEF UsersAreTracked, ServedWhenUp
    <2>2. Len(opened) = 5
      BY <2>1 DEF OpenedInOrder
    <2>3. IsOpen(Opens[kind][2])
      BY <2>2, OpenIfReached
    <2> QED
      BY <2>1, <2>3, OpensFacts
  <1>2. kick = "kicking" => IsOpen("redis") /\ IsOpen("service")
    <2> SUFFICES ASSUME kick = "kicking" PROVE IsOpen("redis") /\ IsOpen("service")
      OBVIOUS
    <2>1. kind = "logic" /\ Len(opened) >= 4
      BY DEF UsersAreTracked
    <2>2. IsOpen(Opens[kind][2]) /\ IsOpen(Opens[kind][4])
      BY <2>1, OpenIfReached
    <2> QED
      BY <2>1, <2>2, OpensFacts
  <1>3. ASSUME kind = "logic", ~grace
        PROVE  /\ \A h \in Request : InHttp(h) => IsOpen("database")
               /\ \A c \in Rpc : rpcs[c] = "running" => IsOpen("database")
    <2>1. CASE pc \in {"defers", "returned"}
      BY <1>3, <2>1 DEF ServedWhenUp, InHttp
    <2>2. CASE pc = "open"
      BY <1>3, <2>2 DEF ServedWhenUp, InHttp
    <2>3. CASE pc \in {"select", "hub", "drain", "wait"}
      <3>1. IsOpen(Opens[kind][1])
        BY <2>3, OpenIfReached DEF OpenedInOrder
      <3> QED
        BY <1>3, <3>1, OpensFacts
    <2> QED
      BY <2>1, <2>2, <2>3
  <1> QED
    BY <1>1, <1>2, <1>3 DEF ServersCloseLast

-----------------------------------------------------------------------------
(* the replay command *)

LEMMA Appended ==
    ASSUME NEW S, NEW s \in Seq(S), NEW x \in S
    PROVE  /\ Append(s, x) \in Seq(S)
           /\ DOMAIN s = 1..Len(s) /\ Len(s) \in Nat /\ Len(Append(s, x)) = Len(s) + 1
           /\ DOMAIN s \subseteq DOMAIN Append(s, x)
           /\ \A i \in DOMAIN s : Append(s, x)[i] = s[i]
           /\ \A i \in DOMAIN Append(s, x) : i \in DOMAIN s \/ Append(s, x)[i] = x
  OBVIOUS

LEMMA ReplayInitInv == ReplayInit \/ NoReplay => ReplayInv
  <1> SUFFICES ASSUME ReplayInit \/ NoReplay PROVE ReplayInv
    OBVIOUS
  <1> USE DEF ReplayInit, NoReplay
  <1>1. ReplayBlank
    OBVIOUS
  <1> DEFINE who == CHOOSE u \in User : TRUE
             run == CHOOSE r \in RunId : TRUE
  <1>2. who \in User /\ run \in RunId
    BY ReplayConstants
  <1> HIDE DEF who, run
  <1>3. /\ Push("none", Absent, Absent) \in PushRecord
        /\ Push("none", {who}, run) \in PushRecord
        /\ Push("structure", Absent, Absent) \in PushRecord
    BY <1>2 DEF Push, PushRecord, Fault
  <1>4. pushes = <<Push("none", Absent, Absent), Push("none", {who}, run),
                   Push("structure", Absent, Absent)>>
    BY <1>1 DEF ReplayBlank, who, run
  <1>5. pushes \in Seq(PushRecord)
    BY <1>3, <1>4
  <1>6. \A k \in DOMAIN pushes : pushes[k].from = 0
    BY <1>4 DEF Push
  <1>7. ReplayTypeOK
    <2>1. dlq \in Seq(Letter)
      BY <1>1, EmptySeq DEF ReplayBlank
    <2>2. opts \in [run : RunId \cup {Absent}, from : Nat, to : Nat, execute : BOOLEAN]
      BY <1>1 DEF ReplayBlank
    <2> QED
      BY <1>1, <1>5, <2>1, <2>2 DEF ReplayTypeOK, ReplayBlank
  <1>8. TopicsRefer /\ ReplayNarrows
    <2>1. dlq = <<>> /\ DOMAIN dlq = {}
      BY <1>1 DEF ReplayBlank
    <2> QED
      BY <1>6, <2>1 DEF TopicsRefer, ReplayNarrows
  <1>9. CommandInOrder /\ ReplayAccounted
    BY <1>1 DEF CommandInOrder, ReplayAccounted, ReplayBlank
  <1> QED
    BY <1>7, <1>8, <1>9 DEF ReplayInv, ReplaySafe

\* An altered copy is a letter about the same record, with the same payload.
LEMMA AlteredFacts ==
    ASSUME ReplayTypeOK, NEW o \in DOMAIN dlq, LetterAltered(o)
    PROVE  \E m \in Letter : /\ dlq' = Append(dlq, m)
                             /\ m.of = dlq[o].of /\ m.source = dlq[o].source
  <1> DEFINE l == dlq[o]
             Copy(m) == m \in Letter /\ m.of = l.of /\ m.source = l.source
  <1>1. l \in Letter /\ l.task \in PushRecord
    <2>1. dlq[o] \in Letter
      BY ElementOfSeq DEF ReplayTypeOK
    <2> QED
      BY <2>1 DEF LetterAltered, Letter
  <1> HIDE DEF l
  <1>2. ASSUME NEW S \in SUBSET User, NEW T \in {Absent} \cup SUBSET User
        PROVE  Copy([l EXCEPT !.pending = S, !.task.pending = T])
    <2> DEFINE t == [l.task EXCEPT !.pending = T]
    <2>1. t \in PushRecord
      BY <1>1 DEF PushRecord
    <2>2. [l EXCEPT !.pending = S, !.task.pending = T] = [l EXCEPT !.pending = S, !.task = t]
      BY <1>1 DEF Letter
    <2> HIDE DEF t
    <2> QED
      BY <1>1, <2>1, <2>2 DEF Letter
  <1>3. Copy([l EXCEPT !.task.message = "other"])
    <2> DEFINE t == [l.task EXCEPT !.message = "other"]
    <2>1. t \in PushRecord
      BY <1>1 DEF PushRecord
    <2>2. [l EXCEPT !.task.message = "other"] = [l EXCEPT !.task = t]
      BY <1>1 DEF Letter
    <2> HIDE DEF t
    <2> QED
      BY <1>1, <2>1, <2>2 DEF Letter
  <1>4. Copy([l EXCEPT !.topic = "other"])
    BY <1>1 DEF Letter
  <1>5. ASSUME NEW f \in Fault
        PROVE  Copy([l EXCEPT !.task.fault = f]) /\ Copy([l EXCEPT !.fault = f])
    <2> DEFINE t == [l.task EXCEPT !.fault = f]
    <2>1. t \in PushRecord
      BY <1>1 DEF PushRecord
    <2>2. [l EXCEPT !.task.fault = f] = [l EXCEPT !.task = t]
      BY <1>1 DEF Letter
    <2> HIDE DEF t
    <2>3. Copy([l EXCEPT !.task.fault = f])
      BY <1>1, <2>1, <2>2 DEF Letter
    <2>4. Copy([l EXCEPT !.fault = f])
      BY <1>1 DEF Letter
    <2> QED
      BY <2>3, <2>4
  <1>6. ASSUME NEW m, Copy(m), Produces(m)
        PROVE  \E n \in Letter : dlq' = Append(dlq, n) /\ n.of = l.of /\ n.source = l.source
    <2>1. /\ [m EXCEPT !.genuine = FALSE] \in Letter
          /\ [m EXCEPT !.genuine = FALSE].of = l.of
          /\ [m EXCEPT !.genuine = FALSE].source = l.source
      BY <1>6 DEF Letter
    <2> QED
      BY <1>6, <2>1, Zenon DEF Produces
  <1> HIDE DEF Copy
  <1>7. \E m : Copy(m) /\ Produces(m)
    <2>1. "encoding" \in Fault /\ "structure" \in Fault
      BY DEF Fault
    <2>2. \/ \E S \in SUBSET User, T \in {Absent} \cup SUBSET User :
                Produces([l EXCEPT !.pending = S, !.task.pending = T])
          \/ Produces([l EXCEPT !.task.message = "other"])
          \/ Produces([l EXCEPT !.topic = "other"])
          \/ \E f \in Fault : Produces([l EXCEPT !.task.fault = f])
          \/ \E f \in {"encoding", "structure"} : Produces([l EXCEPT !.fault = f])
      BY Zenon DEF LetterAltered, l
    <2>3. CASE \E S \in SUBSET User, T \in {Absent} \cup SUBSET User :
                  Produces([l EXCEPT !.pending = S, !.task.pending = T])
      BY <1>2, <2>3, Zenon
    <2>4. CASE \E f \in Fault : Produces([l EXCEPT !.task.fault = f])
      BY <1>5, <2>4, Zenon
    <2>5. CASE \E f \in {"encoding", "structure"} : Produces([l EXCEPT !.fault = f])
      BY <1>5, <2>1, <2>5, Zenon
    <2> QED
      BY <1>3, <1>4, <2>2, <2>3, <2>4, <2>5, Zenon
  <1> QED
    BY <1>6, <1>7 DEF l

\* A task that is replayed is the task of its letter for those who were left, and
\* narrower than what its payload was for.
LEMMA ReplayTaskFacts ==
    ASSUME ReplayTypeOK, NEW o \in DOMAIN dlq, Replayable(dlq[o]), NEW run \in RunId
    PROVE  LET t == ReplayTask(o, run)
               l == dlq[o]
           IN  /\ t \in PushRecord /\ t.from = o
               /\ ImmutableDigest(t) = ImmutableDigest(l.source)
               /\ Scope(t) = l.pending /\ l.pending # NoUser
               /\ l.pending \subseteq Scope(l.source)
               /\ DecodeTask(t)
  <1> DEFINE l == dlq[o]
             t == ReplayTask(o, run)
  <1>1. l \in Letter /\ o \in Nat
    BY ElementOfSeq DEF ReplayTypeOK
  <1>2. l.task \in PushRecord /\ l.pending \in SUBSET User
    BY <1>1 DEF Letter, Replayable
  <1>3. t = [l.task EXCEPT !.pending = l.pending, !.run = run, !.from = o]
    BY DEF ReplayTask
  <1>4. /\ DecodeTask(l.task) /\ l.pending # NoUser
        /\ ImmutableDigest(l.source) = ImmutableDigest(l.task)
        /\ l.pending \subseteq Scope(l.task) /\ l.pending \subseteq Scope(l.source)
    BY DEF Replayable, Allowed
  <1>5. l.pending # Absent /\ run # Absent
    BY <1>2, ReplayConstants
  <1> HIDE DEF l, t
  <1>6. t \in PushRecord /\ t.from = o /\ t.pending = l.pending /\ t.run = run
        /\ t.fault = l.task.fault /\ t.message = l.task.message
        /\ t.recipients = l.task.recipients
    BY <1>1, <1>2, <1>3 DEF PushRecord
  <1>7. Scope(t) = l.pending
    BY <1>5, <1>6 DEF Scope
  <1>8. l.pending \subseteq l.task.recipients
    BY <1>4 DEF DecodeTask, ReplayContext, Scope
  <1>9. DecodeTask(t)
    BY <1>4, <1>5, <1>6, <1>8 DEF DecodeTask, ReplayContext, validUnicodeEscapes, checkJSON,
       requiredObject, validID, messageView
  <1>10. ImmutableDigest(t) = ImmutableDigest(l.source)
    BY <1>4, <1>6 DEF ImmutableDigest
  <1> QED
    BY <1>4, <1>6, <1>7, <1>9, <1>10 DEF l, t

-----------------------------------------------------------------------------

\* A new letter refers to a record that is in the topic, and nothing else changes.
LEMMA LetterKeeps ==
    ASSUME ReplayInv, NEW l \in Letter, dlq' = Append(dlq, l),
           l.of \in DOMAIN pushes, l.task # Absent => l.source = pushes[l.of],
           UNCHANGED <<pushes, retained, commandVars>>
    PROVE  ReplayInv'
  <1> USE DEF commandVars
  <1>1. /\ dlq' \in Seq(Letter) /\ DOMAIN dlq \subseteq DOMAIN dlq'
        /\ Len(dlq) \in Nat /\ Len(dlq') = Len(dlq) + 1
        /\ \A i \in DOMAIN dlq : dlq'[i] = dlq[i]
        /\ \A i \in DOMAIN dlq' : i \in DOMAIN dlq \/ dlq'[i] = l
    BY Appended DEF ReplayInv, ReplayTypeOK
  <1>2. ReplayTypeOK'
    BY <1>1 DEF ReplayInv, ReplayTypeOK
  <1>3. TopicsRefer'
    BY <1>1 DEF ReplayInv, TopicsRefer
  <1>4. CommandInOrder'
    <2>1. selected' \subseteq DOMAIN dlq' /\ \A o \in selected' : Replayable(dlq'[o])
      BY <1>1 DEF ReplayInv, CommandInOrder
    <2>2. opts.to <= Len(dlq) => opts.to <= Len(dlq')
      BY <1>1 DEF ReplayInv, ReplayTypeOK
    <2> QED
      BY <2>1, <2>2 DEF ReplayInv, CommandInOrder
  <1>5. ReplayNarrows'
    BY <1>1 DEF ReplayInv, ReplaySafe, ReplayNarrows, TopicsRefer
  <1>6. ReplayAccounted'
    BY DEF ReplayInv, ReplaySafe, ReplayAccounted
  <1> QED
    BY <1>2, <1>3, <1>4, <1>5, <1>6 DEF ReplayInv, ReplaySafe

LEMMA LetterWrittenKeeps ==
    ASSUME ReplayInv, NEW k \in DOMAIN pushes, NEW left \in SUBSET User, LetterWritten(k, left)
    PROVE  ReplayInv'
  <1> DEFINE t == pushes[k]
             x == IF DecodeTask(t) THEN t ELSE Absent
             l == [fault |-> "none", reason |-> IF DecodeTask(t) THEN "unresolved" ELSE "invalid_task",
                   topic |-> "own", task |-> x, source |-> x,
                   pending |-> left, of |-> k, genuine |-> TRUE]
  <1>1. t \in PushRecord /\ k \in Nat
    BY ElementOfSeq DEF ReplayInv, ReplayTypeOK
  <1>2. x \in {Absent} \cup PushRecord /\ (x # Absent => x = t)
    BY <1>1
  <1>3. dlq' = Append(dlq, l) /\ UNCHANGED <<pushes, retained, commandVars>>
    BY DEF LetterWritten
  <1>4. l.of = k /\ l.task = x /\ l.source = x
    OBVIOUS
  <1> HIDE DEF x
  <1>5. l \in Letter
    BY <1>1, <1>2 DEF Letter
  <1> HIDE DEF l
  <1> QED
    BY <1>2, <1>3, <1>4, <1>5, LetterKeeps

LEMMA LetterAlteredKeeps ==
    ASSUME ReplayInv, NEW o \in DOMAIN dlq, LetterAltered(o)
    PROVE  ReplayInv'
  <1>1. PICK m \in Letter : /\ dlq' = Append(dlq, m)
                            /\ m.of = dlq[o].of /\ m.source = dlq[o].source
    BY AlteredFacts DEF ReplayInv
  <1>2. m.of \in DOMAIN pushes /\ m.source = pushes[m.of]
    BY <1>1 DEF ReplayInv, TopicsRefer, LetterAltered
  <1>3. UNCHANGED <<pushes, retained, commandVars>>
    BY DEF LetterAltered
  <1> QED
    BY <1>1, <1>2, <1>3, LetterKeeps

\* The steps of the command that leave both topics alone.
LEMMA CommandKeeps ==
    ASSUME ReplayInv,
           \/ \E o \in Options : Command(o)
           \/ ReplayFails \/ ReadOffsets \/ FetchLetter \/ PrepareReplay \/ AllPublished
           \/ Retention
    PROVE  ReplayInv'
  <1>0. ReplayTypeOK /\ CommandInOrder /\ ReplayAccounted
    BY DEF ReplayInv, ReplaySafe
  <1>1. UNCHANGED <<pushes, dlq>>
    BY DEF Command, ReplayFails, ReadOffsets, FetchLetter, PrepareReplay, AllPublished, Retention,
           ReplayReturns
  <1>2. TopicsRefer' /\ ReplayNarrows'
    BY <1>1 DEF ReplayInv, ReplaySafe, TopicsRefer, ReplayNarrows
  <1>3. ASSUME NEW o \in Options, Command(o)
        PROVE  ReplayTypeOK' /\ CommandInOrder' /\ ReplayAccounted'
    <2>1. /\ o \in [run : RunId \cup {Absent}, from : Nat, to : Nat, execute : BOOLEAN]
          /\ o.run # Absent /\ o.from <= o.to
      BY ReplayConstants DEF Options
    <2>2. /\ cmd' = "offsets" /\ opts' = o /\ expected' = o.from /\ selected' = {}
          /\ published' = 0 /\ written' = 0 /\ UNCHANGED <<pushes, dlq, retained>>
      BY <1>3 DEF Command
    <2>3. ReplayTypeOK'
      BY <1>0, <2>1, <2>2 DEF ReplayTypeOK
    <2>4. CommandInOrder'
      BY <2>1, <2>2 DEF CommandInOrder
    <2>5. ReplayAccounted'
      BY <2>2 DEF ReplayAccounted
    <2> QED
      BY <2>3, <2>4, <2>5
  <1>4. CASE ReplayFails \/ AllPublished
    <2>1. /\ cmd \in {"offsets", "collect", "publish"} /\ cmd' = "returned"
          /\ UNCHANGED <<pushes, dlq, retained, opts, expected, selected, published, written>>
      BY <1>4 DEF ReplayFails, AllPublished, ReplayReturns
    <2>2. ReplayTypeOK'
      BY <1>0, <2>1 DEF ReplayTypeOK
    <2>3. CommandInOrder' /\ ReplayAccounted'
      BY <1>0, <2>1 DEF CommandInOrder, ReplayAccounted
    <2> QED
      BY <1>2, <2>2, <2>3 DEF ReplayInv, ReplaySafe
  <1>5. CASE ReadOffsets
    <2>1. ReplayTypeOK'
      BY <1>0, <1>5 DEF ReadOffsets, ReplayTypeOK
    <2>2. CommandInOrder' /\ ReplayAccounted'
      BY <1>0, <1>5 DEF ReadOffsets, ReplayTypeOK, CommandInOrder, ReplayAccounted
    <2> QED
      BY <1>2, <2>1, <2>2 DEF ReplayInv, ReplaySafe
  <1>6. CASE FetchLetter
    <2>1. ReplayTypeOK'
      BY <1>0, <1>6 DEF FetchLetter, ReplayTypeOK
    <2>2. expected' <= opts.to + 1
      BY <1>0, <1>6 DEF FetchLetter, ReplayTypeOK
    <2>3. CommandInOrder' /\ ReplayAccounted'
      BY <1>0, <1>6, <2>2 DEF FetchLetter, CommandInOrder, ReplayAccounted
    <2> QED
      BY <1>2, <2>1, <2>3 DEF ReplayInv, ReplaySafe
  <1>7. CASE PrepareReplay
    <2>1. \A o \in opts.from..opts.to : o \in DOMAIN dlq
      BY <1>0, <1>7, LenProperties DEF PrepareReplay, ReplayTypeOK, CommandInOrder
    <2>2. ReplayTypeOK'
      BY <1>0, <1>1, <1>7 DEF PrepareReplay, ReplayTypeOK
    <2>3. CommandInOrder'
      BY <1>0, <1>1, <1>7, <2>1 DEF PrepareReplay, ReplayTypeOK, CommandInOrder
    <2>4. ReplayAccounted'
      BY <1>0, <1>7 DEF PrepareReplay, CommandInOrder, ReplayAccounted
    <2> QED
      BY <1>2, <2>2, <2>3, <2>4 DEF ReplayInv, ReplaySafe
  <1>8. CASE Retention
    <2>1. ReplayTypeOK'
      BY <1>0, <1>8 DEF Retention, commandVars, ReplayTypeOK
    <2>2. CommandInOrder' /\ ReplayAccounted'
      BY <1>0, <1>8 DEF Retention, commandVars, CommandInOrder, ReplayAccounted
    <2> QED
      BY <1>2, <2>1, <2>2 DEF ReplayInv, ReplaySafe
  <1> QED
    BY <1>2, <1>3, <1>4, <1>5, <1>7, <1>8, <1>6 DEF ReplayInv, ReplaySafe

LEMMA PublishReplayKeeps ==
    ASSUME ReplayInv, NEW o \in selected, NEW confirmed \in BOOLEAN, NEW arrives \in BOOLEAN,
           PublishReplay(o, confirmed, arrives)
    PROVE  ReplayInv'
  <1> DEFINE t == ReplayTask(o, opts.run)
             l == dlq[o]
  <1>1. o \in DOMAIN dlq /\ Replayable(l) /\ opts.run \in RunId
    BY DEF ReplayInv, ReplayTypeOK, CommandInOrder, PublishReplay
  <1>2. /\ t \in PushRecord /\ t.from = o
        /\ ImmutableDigest(t) = ImmutableDigest(l.source)
        /\ Scope(t) = l.pending /\ l.pending # NoUser /\ l.pending \subseteq Scope(l.source)
        /\ DecodeTask(t)
    BY <1>1, ReplayTaskFacts DEF ReplayInv
  <1>3. l.source = pushes[l.of] /\ l.of \in DOMAIN pushes
    BY <1>1 DEF ReplayInv, TopicsRefer, Replayable
  <1>4. UNCHANGED <<dlq, retained, opts, expected>>
    BY DEF PublishReplay
  <1> HIDE DEF t
  <1>5. /\ pushes' \in Seq(PushRecord) /\ DOMAIN pushes \subseteq DOMAIN pushes'
        /\ \A i \in DOMAIN pushes : pushes'[i] = pushes[i]
        /\ \A i \in DOMAIN pushes' : i \in DOMAIN pushes \/ pushes'[i] = t
    <2>1. pushes \in Seq(PushRecord)
      BY DEF ReplayInv, ReplayTypeOK
    <2>2. CASE pushes' = pushes
      BY <2>1, <2>2
    <2>3. CASE pushes' = Append(pushes, t)
      BY <1>2, <2>1, <2>3, Appended
    <2> QED
      BY <2>2, <2>3 DEF PublishReplay, t
  <1>6. ReplayTypeOK'
    BY <1>4, <1>5 DEF ReplayInv, ReplayTypeOK, PublishReplay
  <1>7. TopicsRefer'
    BY <1>1, <1>2, <1>4, <1>5 DEF ReplayInv, TopicsRefer
  <1>8. ReplayNarrows'
    <2> SUFFICES ASSUME NEW k \in DOMAIN pushes', pushes'[k].from # 0
                 PROVE  LET m == dlq[pushes'[k].from]
                            r == pushes'[m.of]
                        IN  /\ ImmutableDigest(pushes'[k]) = ImmutableDigest(r)
                            /\ Scope(pushes'[k]) # NoUser /\ Scope(pushes'[k]) \subseteq Scope(r)
                            /\ DecodeTask(pushes'[k])
                            /\ m.genuine => Scope(pushes'[k]) = m.pending
      BY <1>4 DEF ReplayNarrows
    <2>1. CASE k \in DOMAIN pushes
      BY <1>5, <2>1 DEF ReplayInv, ReplaySafe, ReplayNarrows, TopicsRefer
    <2>2. CASE pushes'[k] = t
      BY <1>2, <1>3, <1>5, <2>2
    <2> QED
      BY <1>5, <2>1, <2>2
  <1>9. CommandInOrder' /\ ReplayAccounted'
    <2> USE DEF ReplayInv, ReplayTypeOK, ReplaySafe, PublishReplay
    <2>1. CommandInOrder'
      BY <1>4 DEF CommandInOrder
    <2>2. ReplayAccounted'
      BY <1>4 DEF CommandInOrder, ReplayAccounted
    <2> QED
      BY <2>1, <2>2
  <1> QED
    BY <1>6, <1>7, <1>8, <1>9 DEF ReplayInv, ReplaySafe

LEMMA ReplayKeeps == ASSUME ReplayInv, [ReplayNext]_replayVars PROVE ReplayInv'
  <1>1. CASE ReplayNext
    BY <1>1, CommandKeeps, PublishReplayKeeps, LetterWrittenKeeps, LetterAlteredKeeps
       DEF ReplayNext
  <1>2. CASE UNCHANGED replayVars
    BY <1>2 DEF replayVars, ReplayInv, ReplayTypeOK, TopicsRefer, CommandInOrder, ReplaySafe,
                ReplayNarrows, ReplayAccounted
  <1> QED
    BY <1>1, <1>2

-----------------------------------------------------------------------------
(* the processes *)

\* What the processes keep, whichever of them runs, whenever it is told to stop
\* and whatever fails: for any partitions, generations, requests, calls and any
\* bound on the topics.
THEOREM ProcessInvariant == ProcessSpec => []ProcessInv
  <1>1. ProcessInit => ProcessInv
    BY JobInitInv, ServersInitInv, ReplayInitInv DEF ProcessInit, ProcessInv
  <1>2. ProcessInv /\ [ProcessNext]_processVars => ProcessInv'
    <2> SUFFICES ASSUME ProcessInv, [ProcessNext]_processVars PROVE ProcessInv'
      OBVIOUS
    <2>1. [JobNext]_jobVars /\ [ServersNext]_serverVars /\ [ReplayNext]_replayVars
      BY DEF ProcessNext, processVars
    <2> QED
      BY <2>1, JobKeeps, ServersKeep, ReplayKeeps DEF ProcessInv
  <1> QED
    BY <1>1, <1>2, PTL DEF ProcessSpec

\* Readiness and progress are those of the generation the Job is in, however late
\* the watcher or a worker of an earlier one is (runtimeState.release, progress).
THEOREM OwnershipIsFenced == ProcessSpec => []OwnershipFenced
  <1>1. ProcessInv => OwnershipFenced
    BY DEF ProcessInv, JobInv
  <1> QED
    BY <1>1, ProcessInvariant, PTL

\* After the failure of a worker the Job never becomes ready again (the look at
\* failed after Next in runConsumer).
THEOREM NoReplacementEver == ProcessSpec => NoReplacement
  <1>1. ProcessInv /\ [ProcessNext]_processVars
           => [failed /\ ~state.joined => ~state.joined']_jobVars
    <2> SUFFICES ASSUME ProcessInv, [ProcessNext]_processVars, failed, ~state.joined,
                        ~UNCHANGED jobVars
                 PROVE  ~state'.joined
      OBVIOUS
    <2>1. JobNext
      BY DEF ProcessNext, processVars
    <2> QED
      BY <2>1, JoinedOnlyByAssign DEF ProcessInv
  <1> QED
    BY <1>1, ProcessInvariant, PTL DEF ProcessSpec, NoReplacement

\* No client, pool, writer or database is closed under its user (the order of the
\* waits and the deferred calls in the three Run functions).
THEOREM ClosedOnlyAfterUse == ProcessSpec => []ClosedAfterUse
  <1>1. ProcessInv => ClosedAfterUse
    BY JobInvCloses, ServersInvCloses DEF ProcessInv, ClosedAfterUse
  <1> QED
    BY <1>1, ProcessInvariant, PTL

\* A replay, and a replay of a replay, narrows what its letter was written for,
\* altered copy or not, and its count is right to within one uncertain write
\* (ReplayTask, Replay).
THEOREM ReplayIsSafe == ProcessSpec => []ReplaySafe
  <1>1. ProcessInv => ReplaySafe
    BY DEF ProcessInv, ReplayInv
  <1> QED
    BY <1>1, ProcessInvariant, PTL

=============================================================================
