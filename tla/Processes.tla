----------------------------- MODULE Processes -----------------------------
(***************************************************************************)
(* The processes of the system, one at a time: Job, Comet and Logic, each  *)
(* of which is told to stop or fails at any point of its life and has to   *)
(* stop in order, and the replay command of the Job.                       *)
(***************************************************************************)
EXTENDS JobRuntime, Servers, Replay

processVars == <<jobVars, serverVars, replayVars>>

NoJob     == JobBlank /\ main = "returned" /\ cons = "done" /\ group = "closed"
NoServers == ServersBlank /\ kind = "comet" /\ pc = "returned"
NoReplay  == ReplayBlank /\ cmd = "off"

\* The Job serves, a Comet or a Logic does, or the Job replays dead letters.
ProcessInit ==
    \/ JobInit /\ NoServers /\ NoReplay
    \/ NoJob /\ ServersInit /\ NoReplay
    \/ NoJob /\ NoServers /\ ReplayInit

ProcessNext ==
    \/ JobNext /\ UNCHANGED <<serverVars, replayVars>>
    \/ ServersNext /\ UNCHANGED <<jobVars, replayVars>>
    \/ cmd # "off" /\ ReplayNext /\ UNCHANGED <<jobVars, serverVars>>

ProcessSpec == ProcessInit /\ [][ProcessNext]_processVars

FairProcesses == ProcessSpec /\ JobFairness /\ ServersFairness

-----------------------------------------------------------------------------

\* JobClosesLast and ServersCloseLast: no client, pool or writer is closed
\* under a worker, a socket's handler or a kick worker that uses it.
ClosedAfterUse == JobClosesLast /\ ServersCloseLast

\* A process that is told to stop does: no wait of it (workers.Wait, the
\* coordinator's JoinGroup, handlers.Wait, GracefulStop, the lease loop, the kick
\* workers) lasts for ever, whatever is under way.
ProcessStops ==
    /\ stopped ~> main = "returned"
    /\ told ~> pc = "returned"

-----------------------------------------------------------------------------

\* The inductive invariants of the three modules.
ProcessInv == JobInv /\ ServersInv /\ ReplayInv

=============================================================================
