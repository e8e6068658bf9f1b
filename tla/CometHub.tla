------------------------------ MODULE CometHub ------------------------------
(***************************************************************************)
(* One Comet process from the inside: the Hub's owner loop                 *)
(* (internal/comet/hub.go), the handler of every socket with its writer,   *)
(* heartbeat and watcher goroutines (handler.go, websocket.go), and the    *)
(* RPCs that reach the Hub (rpc.go).  The loop runs one command at a time; *)
(* a caller whose context ends after its command was taken does not learn  *)
(* what the command did.                                                   *)
(*                                                                         *)
(* What Logic answers to Connect, Heartbeat and Disconnect is module       *)
(* Presence's matter; here an answer is positive, negative or absent.      *)
(***************************************************************************)
EXTENDS Integers

CONSTANTS
    User,
    Connection,   \* one per handshake: the identity the handler draws is fresh
    UserOf,
    QueueSize,    \* Hub.queueSize
    MaxTime,      \* bound: the clock stops here
    Nil

ASSUME HubConstants ==
    /\ UserOf \in [Connection -> User]
    /\ QueueSize \in Nat \ {0}
    /\ MaxTime \in Nat
    /\ Nil \notin Connection

VARIABLES
    now,          \* time.Now()
    hub,          \* the owner loop; closing: Hub.done is closed, the loop has not seen it
    clients,      \* hubState.clients
    draining,     \* hubState.draining and Hub.draining
    deadline,     \* hubState.deadline
    timer,        \* hubState.timerC is armed
    pending,      \* Connection.pending
    closes,       \* how often close(Connection.done) was executed
    outbound,     \* messages in Connection.outbound
    handler,      \* where the handler of a connection is
    cancelled,    \* the handler's context is done
    writer,       \* the goroutine of WriteTo
    beat,         \* the goroutine of heartbeat
    granted       \* history: Logic granted the route

hubVars    == <<hub, clients, draining, deadline, timer>>
connVars   == <<pending, closes, outbound>>
socketVars == <<handler, cancelled, writer, beat, granted>>
vars       == <<now, hubVars, connVars, socketVars>>

\* The handler holds a Connection and its watcher goroutine runs.
Watched == {"connect", "activate", "upgrade", "reading", "join"}

HandlerPhase == {"idle", "register", "cleanup", "disconnect", "done"} \cup Watched

HubTypeOK ==
    /\ now \in Nat
    /\ hub \in {"running", "closing", "stopped"}
    /\ clients \in [User -> Connection \cup {Nil}]
    /\ draining \in BOOLEAN
    /\ deadline \in Nat
    /\ timer \in BOOLEAN
    /\ pending \in [Connection -> BOOLEAN]
    /\ closes \in [Connection -> Nat]
    /\ outbound \in [Connection -> 0..QueueSize]
    /\ handler \in [Connection -> HandlerPhase]
    /\ cancelled \in [Connection -> BOOLEAN]
    /\ writer \in [Connection -> {"none", "running", "unregister", "ended"}]
    /\ beat \in [Connection -> {"none", "running", "ended"}]
    /\ granted \in [Connection -> BOOLEAN]

Init ==
    /\ now = 0
    /\ hub = "running"
    /\ clients = [u \in User |-> Nil]
    /\ draining = FALSE
    /\ deadline = 0
    /\ timer = FALSE
    /\ pending = [c \in Connection |-> TRUE]
    /\ closes = [c \in Connection |-> 0]
    /\ outbound = [c \in Connection |-> 0]
    /\ handler = [c \in Connection |-> "idle"]
    /\ cancelled = [c \in Connection |-> FALSE]
    /\ writer = [c \in Connection |-> "none"]
    /\ beat = [c \in Connection |-> "none"]
    /\ granted = [c \in Connection |-> FALSE]

-----------------------------------------------------------------------------
(* commands of the owner loop *)

\* c is the connection the table holds for its user.
Listed(c) == clients[UserOf[c]] = c

\* close(c.done) for every c in S; a second one panics.
CloseDone(S) ==
    closes' = [c \in Connection |-> IF c \in S THEN closes[c] + 1 ELSE closes[c]]

\* Mutant: closed connections stay in the table.
RemoveKeepsEntry(S) == CloseDone(S \cap {c \in Connection : Listed(c)}) /\ UNCHANGED clients

\* The members of S that are listed are deleted from the table and closed: all
\* that Unregister does, and closeAll, and Deliver to a full queue.
Remove(S) ==
    /\ CloseDone(S \cap {c \in Connection : Listed(c)})
    /\ clients' = [u \in User |-> IF clients[u] \in S THEN Nil ELSE clients[u]]

\* The body of register: the user's other connection is closed and replaced.
Insert(c) ==
    /\ CloseDone({d \in Connection : d # c /\ UserOf[d] = UserOf[c] /\ Listed(d)})
    /\ clients' = [clients EXCEPT ![UserOf[c]] = c]

\* Unregister through call: the loop runs it unless the Hub is closed.
Unregister(c) ==
    IF hub = "running" THEN Remove({c}) ELSE UNCHANGED <<clients, closes>>

\* Kick, and queueControl when the control queue is full.
Kick(c) ==
    /\ handler[c] # "idle"
    /\ hub = "running"
    /\ Remove({c})
    /\ UNCHANGED <<now, hub, draining, deadline, timer, pending, outbound, socketVars>>

\* Mutant: a connection whose Connect is under way receives messages.
ReceivesPending(c) == Listed(c)

\* A target that Deliver enqueues to: current and no longer pending.
Receives(c) == Listed(c) /\ ~pending[c]

\* One Deliver for a set of targets; a full queue closes its connection.
Deliver(targets) ==
    LET live == IF draining /\ now >= deadline THEN {} ELSE {c \in targets : Receives(c)}
        full == {c \in live : outbound[c] = QueueSize}
    IN  /\ hub = "running"
        /\ \A c \in targets : handler[c] # "idle"
        /\ live # {}
        /\ outbound' = [c \in Connection |->
                          IF c \in live \ full THEN outbound[c] + 1 ELSE outbound[c]]
        /\ Remove(full)
        /\ UNCHANGED <<now, hub, draining, deadline, timer, pending, socketVars>>

\* A deadline that was in the future when Drain was called; the loop may come to
\* the command later.  Only an earlier deadline replaces the first one.
Drain(d) ==
    /\ hub = "running"
    /\ draining' = TRUE
    /\ IF ~draining \/ d < deadline
       THEN deadline' = d /\ timer' = TRUE
       ELSE UNCHANGED <<deadline, timer>>
    /\ UNCHANGED <<now, hub, clients, connVars, socketVars>>

DrainTimer ==
    /\ hub = "running"
    /\ timer
    /\ now >= deadline
    /\ timer' = FALSE
    /\ Remove(Connection)
    /\ UNCHANGED <<now, hub, draining, deadline, pending, outbound, socketVars>>

\* Hub.Close, called when the lease is lost or the process is told to stop.
Close ==
    /\ hub = "running"
    /\ hub' = "closing"
    /\ UNCHANGED <<now, clients, draining, deadline, timer, connVars, socketVars>>

\* The loop sees done and returns: its deferred calls run.
Stop ==
    /\ hub = "closing"
    /\ hub' = "stopped"
    /\ timer' = FALSE
    /\ Remove(Connection)
    /\ UNCHANGED <<now, draining, deadline, pending, outbound, socketVars>>

-----------------------------------------------------------------------------
(* the handler of a socket, up to the upgrade *)

Goes(c, phase) == handler' = [handler EXCEPT ![c] = phase]

Handshake(c) ==
    /\ handler[c] = "idle"
    /\ hub = "running"
    /\ ~draining
    /\ Goes(c, "register")
    /\ UNCHANGED <<now, hubVars, connVars, cancelled, writer, beat, granted>>

\* Mutant: register does not look at the drain state.
RegisterWhileDraining(c, heard) ==
    /\ handler[c] = "register"
    /\ hub = "running"
    /\ Goes(c, IF heard THEN "connect" ELSE "cleanup")
    /\ Insert(c)
    /\ UNCHANGED <<now, hub, draining, deadline, timer, pending, outbound,
                   cancelled, writer, beat, granted>>

\* The loop runs the register command; the handler may not hear of it.
Register(c, heard) ==
    /\ handler[c] = "register"
    /\ hub = "running"
    /\ IF draining
       THEN Goes(c, "cleanup") /\ UNCHANGED <<clients, closes>>
       ELSE /\ Goes(c, IF heard THEN "connect" ELSE "cleanup")
            /\ Insert(c)
    /\ UNCHANGED <<now, hub, draining, deadline, timer, pending, outbound,
                   cancelled, writer, beat, granted>>

\* The context ended, or the Hub was closed, before the loop took the command.
NotRegistered(c) ==
    /\ handler[c] = "register"
    /\ Goes(c, "cleanup")
    /\ UNCHANGED <<now, hubVars, connVars, cancelled, writer, beat, granted>>

\* Logic's answer to Connect arrives in time.
Granted(c) ==
    /\ handler[c] = "connect"
    /\ ~cancelled[c]
    /\ Goes(c, "activate")
    /\ granted' = [granted EXCEPT ![c] = TRUE]
    /\ UNCHANGED <<now, hubVars, connVars, cancelled, writer, beat>>

\* Connect is refused, its answer is lost or too late, or the context is done.
NotGranted(c) ==
    /\ handler[c] = "connect"
    /\ Goes(c, "cleanup")
    /\ UNCHANGED <<now, hubVars, connVars, cancelled, writer, beat, granted>>

Activate(c, heard) ==
    /\ handler[c] = "activate"
    /\ hub = "running"
    /\ IF ~draining /\ Listed(c)
       THEN /\ pending' = [pending EXCEPT ![c] = FALSE]
            /\ Goes(c, IF heard THEN "upgrade" ELSE "cleanup")
       ELSE Goes(c, "cleanup") /\ UNCHANGED pending
    /\ UNCHANGED <<now, hubVars, closes, outbound, cancelled, writer, beat, granted>>

NotActivated(c) ==
    /\ handler[c] = "activate"
    /\ Goes(c, "cleanup")
    /\ UNCHANGED <<now, hubVars, connVars, cancelled, writer, beat, granted>>

\* Upgrade, and the writer and heartbeat goroutines are started.
Upgrade(c) ==
    /\ handler[c] = "upgrade"
    /\ Goes(c, "reading")
    /\ writer' = [writer EXCEPT ![c] = "running"]
    /\ beat' = [beat EXCEPT ![c] = "running"]
    /\ UNCHANGED <<now, hubVars, connVars, cancelled, granted>>

NotUpgraded(c) ==
    /\ handler[c] = "upgrade"
    /\ Goes(c, "cleanup")
    /\ UNCHANGED <<now, hubVars, connVars, cancelled, writer, beat, granted>>

-----------------------------------------------------------------------------
(* the goroutines of an upgraded socket *)

Cancel(c) == cancelled' = [cancelled EXCEPT ![c] = TRUE]

\* Mutant: nobody waits for c.done while Connect is under way.
WatchUpgraded(c) ==
    /\ handler[c] \in {"reading", "join"}
    /\ closes[c] > 0
    /\ ~cancelled[c]
    /\ Cancel(c)
    /\ UNCHANGED <<now, hubVars, connVars, handler, writer, beat, granted>>

\* The watcher of socket: a closed connection cancels the handler's context.
Watch(c) ==
    /\ handler[c] \in Watched
    /\ closes[c] > 0
    /\ ~cancelled[c]
    /\ Cancel(c)
    /\ UNCHANGED <<now, hubVars, connVars, handler, writer, beat, granted>>

\* The request's own context ends: the peer is gone or the server stops.
PeerGone(c) ==
    /\ handler[c] \in Watched
    /\ ~cancelled[c]
    /\ Cancel(c)
    /\ UNCHANGED <<now, hubVars, connVars, handler, writer, beat, granted>>

Write(c) ==
    /\ writer[c] = "running"
    /\ ~cancelled[c]
    /\ outbound[c] > 0
    /\ outbound' = [outbound EXCEPT ![c] = @ - 1]
    /\ UNCHANGED <<now, hubVars, pending, closes, socketVars>>

\* WriteTo returns: c.done, the context, a failed write or a last control frame.
\* Its deferred function closes the socket.
WriterReturns(c) ==
    /\ writer[c] = "running"
    /\ writer' = [writer EXCEPT ![c] = "unregister"]
    /\ UNCHANGED <<now, hubVars, connVars, handler, cancelled, beat, granted>>

\* Then it unregisters, and the goroutine cancels the handler's context.
WriterEnds(c) ==
    /\ writer[c] = "unregister"
    /\ writer' = [writer EXCEPT ![c] = "ended"]
    /\ Cancel(c)
    /\ Unregister(c)
    /\ UNCHANGED <<now, hub, draining, deadline, timer, pending, outbound, handler, beat, granted>>

\* heartbeat returns: c.done, the context, the safe deadline or a refusal.
BeatEnds(c) ==
    /\ beat[c] = "running"
    /\ beat' = [beat EXCEPT ![c] = "ended"]
    /\ Cancel(c)
    /\ UNCHANGED <<now, hubVars, connVars, handler, writer, granted>>

\* read returns: the peer, a bad frame, a terminal answer or the closed socket.
ReadEnds(c) ==
    /\ handler[c] = "reading"
    /\ Goes(c, "join")
    /\ Cancel(c)
    /\ UNCHANGED <<now, hubVars, connVars, writer, beat, granted>>

Join(c) ==
    /\ handler[c] = "join"
    /\ writer[c] = "ended"
    /\ beat[c] = "ended"
    /\ Goes(c, "cleanup")
    /\ UNCHANGED <<now, hubVars, connVars, cancelled, writer, beat, granted>>

\* Mutant: the handler cleans up at Logic only.
CleanupLogicOnly(c) ==
    /\ handler[c] = "cleanup"
    /\ Goes(c, "disconnect")
    /\ UNCHANGED <<now, hubVars, connVars, cancelled, writer, beat, granted>>

\* The deferred cleanup of socket: first the Hub, then Logic.
Cleanup(c) ==
    /\ handler[c] = "cleanup"
    /\ Goes(c, "disconnect")
    /\ Unregister(c)
    /\ UNCHANGED <<now, hub, draining, deadline, timer, pending, outbound,
                   cancelled, writer, beat, granted>>

Disconnect(c) ==
    /\ handler[c] = "disconnect"
    /\ Goes(c, "done")
    /\ UNCHANGED <<now, hubVars, connVars, cancelled, writer, beat, granted>>

Tick ==
    /\ now < MaxTime
    /\ now' = now + 1
    /\ UNCHANGED <<hubVars, connVars, socketVars>>

HubNext ==
    \/ \E c \in Connection : Kick(c)
    \/ \E targets \in SUBSET Connection : Deliver(targets)
    \/ \E d \in 1..MaxTime : Drain(d)
    \/ DrainTimer
    \/ Close
    \/ Stop

HandlerNext(c) ==
    \/ Handshake(c)
    \/ \E heard \in BOOLEAN : Register(c, heard) \/ Activate(c, heard)
    \/ NotRegistered(c)
    \/ Granted(c)
    \/ NotGranted(c)
    \/ NotActivated(c)
    \/ Upgrade(c)
    \/ NotUpgraded(c)
    \/ Watch(c)
    \/ PeerGone(c)
    \/ Write(c)
    \/ WriterReturns(c)
    \/ WriterEnds(c)
    \/ BeatEnds(c)
    \/ ReadEnds(c)
    \/ Join(c)
    \/ Cleanup(c)
    \/ Disconnect(c)

Next ==
    \/ HubNext
    \/ \E c \in Connection : HandlerNext(c)
    \/ Tick

Spec == Init /\ [][Next]_vars

\* c.done or the context tells every goroutine of the socket to return.
Ending(c) == cancelled[c] \/ closes[c] > 0

\* The socket is closed: by WriteTo's watcher, or by WriteTo itself.
SocketClosed(c) == Ending(c) \/ writer[c] \in {"unregister", "ended"}

\* Goroutines run, timers fire, and every call of a handler returns, by its
\* answer or by its timeout; a Connect that is cancelled returns at once.  No
\* peer need ever go away and no Connect need be answered.
Fairness ==
    /\ WF_vars(Tick) /\ WF_vars(DrainTimer) /\ WF_vars(Stop)
    /\ \A c \in Connection :
          /\ WF_vars(Register(c, TRUE) \/ (hub # "running" /\ NotRegistered(c)))
          /\ WF_vars(cancelled[c] /\ NotGranted(c))
          /\ WF_vars(Activate(c, TRUE) \/ (hub # "running" /\ NotActivated(c)))
          /\ WF_vars(Upgrade(c) \/ NotUpgraded(c))
          /\ WF_vars(Watch(c))
          /\ WF_vars(Ending(c) /\ WriterReturns(c))
          /\ WF_vars(WriterEnds(c))
          /\ WF_vars(Ending(c) /\ BeatEnds(c))
          /\ WF_vars(SocketClosed(c) /\ ReadEnds(c))
          /\ WF_vars(Join(c))
          /\ WF_vars(Cleanup(c))
          /\ WF_vars(Disconnect(c))

FairSpec == Spec /\ Fairness

-----------------------------------------------------------------------------

\* close(c.done) is executed once at most, so the owner loop never panics:
\* replacement, Kick, a full queue, the drain timer, the cleanups of writer and
\* handler and the end of the loop all find the connection gone from the table.
ClosedOnce == \A c \in Connection : closes[c] <= 1

\* A handler that has cleaned up leaves nothing in the table of a running Hub,
\* even when it never heard that its register or activate had been run.
NoOrphans ==
    hub = "running" =>
        \A c \in Connection : handler[c] \in {"disconnect", "done"} => ~Listed(c)

\* No message is queued for a connection before Logic granted its route.
NothingBeforeGrant == \A c \in Connection : outbound[c] > 0 => granted[c]

\* The deadline of a drain only moves to an earlier time.
DrainNotPostponed == [][draining => deadline' <= deadline /\ draining']_vars

\* A closed connection's handler ends: a replacement, a drain or a stop is
\* noticed in every phase, also while Connect is under way or the writer blocks.
ClosedFinishes ==
    \A c \in Connection : closes[c] > 0 ~> handler[c] = "done"

\* A drain empties the Hub, unless the Hub stops first and empties it anyway.
DrainCompletes == draining ~> (\A u \in User : clients[u] = Nil)

\* The stage of a connection as the rest of the system sees it.
Stage(c) ==
    IF Listed(c) THEN IF pending[c] THEN "pending" ELSE "active"
    ELSE IF handler[c] \in {"idle", "register"} THEN "idle"
    ELSE IF handler[c] = "done" THEN "done"
    ELSE "closing"

Life == INSTANCE SocketLife
          WITH Hub <- {"hub"}, HubOf <- [c \in Connection |-> "hub"],
               life <- [c \in Connection |-> Stage(c)],
               draining <- [h \in {"hub"} |-> draining]

\* The Hub and its handlers give every connection the life SocketLife describes.
ImplementsLife == Life!Spec

-----------------------------------------------------------------------------
(* What makes the invariants above inductive. *)

\* The table holds open connections of handlers that have registered.
TableIsOpen ==
    /\ \A u \in User : clients[u] # Nil => UserOf[clients[u]] = u
    /\ \A c \in Connection : Listed(c) =>
          closes[c] = 0 /\ handler[c] \notin {"idle", "register"}

\* A connection that nobody closed is in the table for as long as its handler
\* lives, so Kick, Drain and a replacement can still reach it.
OpenIsListed ==
    \A c \in Connection : handler[c] \in Watched /\ closes[c] = 0 => Listed(c)

\* A handler that has not registered has left no trace.
FreshHandlers ==
    \A c \in Connection : handler[c] \in {"idle", "register"} =>
        closes[c] = 0 /\ pending[c]

\* Activation follows the grant, and messages follow the activation.
GrantComesFirst ==
    \A c \in Connection :
        /\ handler[c] = "activate" => granted[c]
        /\ ~pending[c] => granted[c]
        /\ outbound[c] > 0 => ~pending[c]

\* The drain timer is armed as long as a draining Hub holds a connection.
DrainArmed ==
    /\ draining /\ hub = "running" /\ (\E u \in User : clients[u] # Nil) => timer
    /\ timer => draining /\ hub # "stopped"

HubInv ==
    /\ HubTypeOK
    /\ ClosedOnce
    /\ NoOrphans
    /\ TableIsOpen
    /\ OpenIsListed
    /\ FreshHandlers
    /\ GrantComesFirst
    /\ DrainArmed

=============================================================================
