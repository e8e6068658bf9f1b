------------------------------ MODULE Servers ------------------------------
(***************************************************************************)
(* The processes of Comet and Logic: Run of internal/comet/app/runtime.go  *)
(* and Run with serve of internal/logic/app/runtime.go.  Both open what    *)
(* they own in an order, serve HTTP and gRPC until they are told to stop   *)
(* or something fails, drain both servers for at most a grace period, and  *)
(* close what they opened in the reverse order (the deferred calls).  What *)
(* Comet adds: sockets, which http.Server.Shutdown does not wait for, and  *)
(* the instance lease.  What Logic adds: the kick workers of the service.  *)
(***************************************************************************)
EXTENDS Naturals, Sequences, SequencesExt

CONSTANTS
    Request,   \* HTTP requests
    Rpc        \* gRPC calls

VARIABLES
    kind,      \* which process: comet or logic
    pc,        \* open, select, hub, drain, wait, defers, returned
    told,      \* the context of Run is cancelled
    opened,    \* what is open, in the order it was opened
    grace,     \* the grace period has passed
    hub,       \* the Hub of Comet is open
    http,      \* up, draining, drained, overrun, closed
    rpc,       \* up, draining, stopped
    lease,     \* the instance of Comet: serving, done
    req,       \* the handler of each request
    tracked,   \* handlers: the WaitGroup of Comet
    rpcs,      \* the handler of each call
    kick       \* a kick worker of Logic: idle, kicking, gone

serverVars == <<kind, pc, told, opened, grace, hub, http, rpc, lease, req, tracked, rpcs, kick>>

Opens == [comet |-> <<"hub", "pool", "rpc", "instance", "http">>,
          logic |-> <<"database", "redis", "publisher", "service", "listeners">>]

Resource ==
    {"hub", "pool", "rpc", "instance", "http", "database", "redis", "publisher", "service", "listeners"}

IsOpen(r) == r \in Range(opened)

ServersTypeOK ==
    /\ kind \in {"comet", "logic"}
    /\ pc \in {"open", "select", "hub", "drain", "wait", "defers", "returned"}
    /\ told \in BOOLEAN /\ grace \in BOOLEAN /\ hub \in BOOLEAN
    /\ opened \in Seq(Resource)
    /\ http \in {"down", "up", "draining", "drained", "overrun", "closed"}
    /\ rpc \in {"down", "up", "draining", "stopped"}
    /\ lease \in {"none", "serving", "done"}
    /\ req \in [Request -> {"none", "accepted", "handling", "upgrading", "socket", "cleanup", "done"}]
    /\ tracked \subseteq Request
    /\ rpcs \in [Rpc -> {"none", "running", "done"}]
    /\ kick \in {"gone", "idle", "kicking"}

ServersBlank ==
    /\ kind \in {"comet", "logic"}
    /\ told = FALSE /\ opened = <<>> /\ grace = FALSE /\ hub = FALSE
    /\ http = "down" /\ rpc = "down" /\ lease = "none"
    /\ req = [h \in Request |-> "none"] /\ tracked = {}
    /\ rpcs = [c \in Rpc |-> "none"] /\ kick = "gone"

ServersInit == ServersBlank /\ pc = "open"

-----------------------------------------------------------------------------
(* Run *)

\* The next thing is opened.  Comet serves RPC before it registers; Logic
\* serves when everything is open.
OpenNext ==
    LET r == Opens[kind][Len(opened) + 1]
    IN  /\ pc = "open"
        /\ opened' = Append(opened, r)
        /\ rpc' = IF r \in {"rpc", "listeners"} THEN "up" ELSE rpc
        /\ http' = IF r \in {"http", "listeners"} THEN "up" ELSE http
        /\ hub' = IF r = "hub" THEN TRUE ELSE hub
        /\ lease' = IF r = "instance" THEN "serving" ELSE lease
        /\ kick' = IF r = "service" THEN "idle" ELSE kick
        /\ pc' = IF Len(opened) = 4 THEN "select" ELSE "open"
        /\ UNCHANGED <<kind, told, grace, req, tracked, rpcs>>

OpenFails ==
    /\ pc = "open"
    /\ pc' = "defers"
    /\ UNCHANGED <<kind, told, opened, grace, hub, http, rpc, lease, req, tracked, rpcs, kick>>

Tell ==
    /\ pc \in {"open", "select"} /\ ~told
    /\ told' = TRUE
    /\ UNCHANGED <<kind, pc, opened, grace, hub, http, rpc, lease, req, tracked, rpcs, kick>>

\* The select: told to stop, the lease is lost, or a server has stopped.
SelectReturns(served) ==
    /\ pc = "select"
    /\ told \/ lease = "done" \/ served
    /\ told' = IF kind = "comet" THEN TRUE ELSE told
    /\ pc' = IF kind = "comet" THEN "hub" ELSE "drain"
    /\ IF kind = "comet" THEN UNCHANGED <<http, rpc>>
       ELSE http' = "draining" /\ rpc' = "draining"
    /\ UNCHANGED <<kind, opened, grace, hub, lease, req, tracked, rpcs, kick>>

\* Comet closes the Hub first, then drains both servers.
HubCloses ==
    /\ pc = "hub"
    /\ hub' = FALSE
    /\ http' = "draining" /\ rpc' = "draining"
    /\ pc' = "drain"
    /\ UNCHANGED <<kind, told, opened, grace, lease, req, tracked, rpcs, kick>>

GraceEnds ==
    /\ pc = "drain" /\ ~grace
    /\ grace' = TRUE
    /\ UNCHANGED <<kind, pc, told, opened, hub, http, rpc, lease, req, tracked, rpcs, kick>>

\* http.Server.Shutdown: it waits for what is not hijacked.
InHttp(h) == req[h] \in {"accepted", "handling", "upgrading"}

HttpShutdown ==
    /\ http = "draining"
    /\ \/ (\A h \in Request : ~InHttp(h)) /\ http' = "drained"
       \/ grace /\ http' = "overrun"
    /\ UNCHANGED <<kind, pc, told, opened, grace, hub, rpc, lease, req, tracked, rpcs, kick>>

GracefulStop ==
    /\ rpc = "draining"
    /\ \A c \in Rpc : rpcs[c] # "running"
    /\ rpc' = "stopped"
    /\ UNCHANGED <<kind, pc, told, opened, grace, hub, http, lease, req, tracked, rpcs, kick>>

\* Stop cuts the connections; a handler may still be running.
StopRpc ==
    /\ pc = "drain" /\ rpc = "draining" /\ grace
    /\ rpc' = "stopped"
    /\ UNCHANGED <<kind, pc, told, opened, grace, hub, http, lease, req, tracked, rpcs, kick>>

AwaitHttp ==
    /\ pc = "drain" /\ rpc = "stopped" /\ http \in {"drained", "overrun"}
    /\ http' = IF http = "overrun" THEN "closed" ELSE "drained"
    /\ pc' = IF kind = "comet" THEN "wait" ELSE "defers"
    /\ UNCHANGED <<kind, told, opened, grace, hub, rpc, lease, req, tracked, rpcs, kick>>

\* Mutant: Comet does not wait for its handlers.
HandlersNotAwaited ==
    /\ pc = "wait"
    /\ lease = "done"
    /\ pc' = "defers"
    /\ UNCHANGED <<kind, told, opened, grace, hub, http, rpc, lease, req, tracked, rpcs, kick>>

\* handlers.Wait, then instance.Close, which waits for the lease loop.
HandlersDone ==
    /\ pc = "wait"
    /\ \A h \in tracked : req[h] = "done"
    /\ lease = "done"
    /\ pc' = "defers"
    /\ UNCHANGED <<kind, told, opened, grace, hub, http, rpc, lease, req, tracked, rpcs, kick>>

\* A deferred call closes what was opened last.  instance.Close waits until
\* the lease loop is done, service.Close until the kick workers are gone.
Defer ==
    /\ pc = "defers" /\ opened # <<>>
    /\ Last(opened) = "instance" => lease = "done"
    /\ Last(opened) = "service" => kick = "gone"
    /\ opened' = Front(opened)
    /\ hub' = IF Last(opened) = "hub" THEN FALSE ELSE hub
    /\ rpc' = IF Last(opened) = "rpc" THEN "stopped" ELSE rpc
    /\ UNCHANGED <<kind, pc, told, grace, http, lease, req, tracked, rpcs, kick>>

\* The cancel of instance.Close.
DeferCancels ==
    /\ pc = "defers" /\ opened # <<>> /\ ~told
    /\ Last(opened) = "instance"
    /\ told' = TRUE
    /\ UNCHANGED <<kind, pc, opened, grace, hub, http, rpc, lease, req, tracked, rpcs, kick>>

Returned ==
    /\ pc = "defers" /\ opened = <<>>
    /\ pc' = "returned"
    /\ UNCHANGED <<kind, told, opened, grace, hub, http, rpc, lease, req, tracked, rpcs, kick>>

-----------------------------------------------------------------------------
(* what is served meanwhile *)

Goes(h, s) == req' = [req EXCEPT ![h] = s]

Accept(h) ==
    /\ http = "up" /\ req[h] = "none"
    /\ Goes(h, "accepted")
    /\ UNCHANGED <<kind, pc, told, opened, grace, hub, http, rpc, lease, tracked, rpcs, kick>>

\* handlers.Add(1)
Handle(h) ==
    /\ req[h] = "accepted"
    /\ Goes(h, "handling")
    /\ tracked' = IF kind = "comet" THEN tracked \cup {h} ELSE tracked
    /\ UNCHANGED <<kind, pc, told, opened, grace, hub, http, rpc, lease, rpcs, kick>>

\* A socket is wanted and the instance is ready.
WantsSocket(h) ==
    /\ req[h] = "handling" /\ kind = "comet"
    /\ lease = "serving" /\ hub
    /\ Goes(h, "upgrading")
    /\ UNCHANGED <<kind, pc, told, opened, grace, hub, http, rpc, lease, tracked, rpcs, kick>>

\* The connection is hijacked, unless it was closed.
Upgrade(h) ==
    /\ req[h] = "upgrading" /\ http # "closed"
    /\ Goes(h, "socket")
    /\ UNCHANGED <<kind, pc, told, opened, grace, hub, http, rpc, lease, tracked, rpcs, kick>>

Respond(h) ==
    /\ req[h] \in {"handling", "upgrading"}
    /\ Goes(h, "done")
    /\ UNCHANGED <<kind, pc, told, opened, grace, hub, http, rpc, lease, tracked, rpcs, kick>>

\* The socket's handler ends: its connection is gone, or the Hub is closed.
SocketEnds(h) ==
    /\ req[h] = "socket"
    /\ Goes(h, "cleanup")
    /\ UNCHANGED <<kind, pc, told, opened, grace, hub, http, rpc, lease, tracked, rpcs, kick>>

\* The Disconnect of the handler has returned.
Cleaned(h) ==
    /\ req[h] = "cleanup"
    /\ Goes(h, "done")
    /\ UNCHANGED <<kind, pc, told, opened, grace, hub, http, rpc, lease, tracked, rpcs, kick>>

CallBegins(c) ==
    /\ rpc = "up" /\ rpcs[c] = "none"
    /\ rpcs' = [rpcs EXCEPT ![c] = "running"]
    /\ UNCHANGED <<kind, pc, told, opened, grace, hub, http, rpc, lease, req, tracked, kick>>

CallEnds(c) ==
    /\ rpcs[c] = "running"
    /\ rpcs' = [rpcs EXCEPT ![c] = "done"]
    /\ UNCHANGED <<kind, pc, told, opened, grace, hub, http, rpc, lease, req, tracked, kick>>

\* The lease loop: lost, or its context is done; it unregisters and is done.
LeaseEnds ==
    /\ lease = "serving"
    /\ lease' = "done"
    /\ hub' = FALSE
    /\ UNCHANGED <<kind, pc, told, opened, grace, http, rpc, req, tracked, rpcs, kick>>

\* Service.Close cancels the workers; serve does not.
KickWork ==
    /\ kick # "gone"
    /\ kick' \in {"idle", "kicking"} \ {kick}
    /\ UNCHANGED <<kind, pc, told, opened, grace, hub, http, rpc, lease, req, tracked, rpcs>>

KicksEnd ==
    /\ kick = "idle" /\ pc = "defers" /\ opened # <<>> /\ Last(opened) = "service"
    /\ kick' = "gone"
    /\ UNCHANGED <<kind, pc, told, opened, grace, hub, http, rpc, lease, req, tracked, rpcs>>

RunStep ==
    \/ OpenNext \/ OpenFails \/ (\E served \in BOOLEAN : SelectReturns(served)) \/ HubCloses
    \/ AwaitHttp \/ HandlersDone \/ Defer \/ DeferCancels \/ Returned

DrainStep == GraceEnds \/ HttpShutdown \/ GracefulStop \/ StopRpc

HandlerStep(h) ==
    Accept(h) \/ Handle(h) \/ WantsSocket(h) \/ Upgrade(h) \/ Respond(h) \/ SocketEnds(h) \/ Cleaned(h)

ServersNext ==
    \/ RunStep \/ DrainStep \/ Tell
    \/ \E h \in Request : HandlerStep(h)
    \/ \E c \in Rpc : CallBegins(c) \/ CallEnds(c)
    \/ LeaseEnds \/ KickWork \/ KicksEnd

\* Comet's handlers end once the Hub is closed: its sockets are closed and
\* their RPCs have deadlines.  Logic's handlers and calls need not end.
ServersFairness ==
    /\ WF_serverVars(RunStep /\ (told \/ pc # "select")) /\ WF_serverVars(GraceEnds)
    /\ WF_serverVars(HttpShutdown) /\ WF_serverVars(GracefulStop) /\ WF_serverVars(StopRpc)
    /\ WF_serverVars(told /\ LeaseEnds)
    /\ WF_serverVars(kick = "kicking" /\ KickWork) /\ SF_serverVars(KicksEnd)
    /\ \A h \in Request :
         /\ WF_serverVars(kind = "comet" /\ (Handle(h) \/ Respond(h) \/ Cleaned(h)))
         /\ WF_serverVars(~hub /\ SocketEnds(h))

-----------------------------------------------------------------------------

\* Nothing is closed under a user of it.  A socket's handler, its last RPC
\* included, is over before Comet closes the pool, and a kick worker before
\* Logic closes Redis, on every path; an ordinary handler or call outlives what
\* it uses only if it outlived the grace period.
ServersCloseLast ==
    /\ \A h \in Request : req[h] \in {"upgrading", "socket", "cleanup"} => IsOpen("pool")
    /\ kick = "kicking" => IsOpen("redis") /\ IsOpen("service")
    /\ kind = "logic" /\ ~grace =>
         /\ \A h \in Request : InHttp(h) => IsOpen("database")
         /\ \A c \in Rpc : rpcs[c] = "running" => IsOpen("database")

-----------------------------------------------------------------------------
(* What makes the invariant above inductive. *)

\* What is open is the first part of what is to be opened; all of it while the
\* process serves and drains.
OpenedInOrder ==
    /\ Len(opened) <= 5
    /\ \A i \in 1..Len(opened) : opened[i] = Opens[kind][i]
    /\ pc = "open" => Len(opened) < 5
    /\ pc \in {"select", "hub", "drain", "wait"} => Len(opened) = 5

\* Nothing is served before everything is open, nor again once a server drains.
ServedWhenUp ==
    /\ pc = "open" => http = "down" /\ (kind = "logic" => rpc = "down")
    /\ pc \in {"hub", "wait"} => kind = "comet"
    /\ pc \in {"wait", "defers", "returned"} => http \in {"down", "drained", "closed"}
    /\ pc \in {"defers", "returned"} /\ kind = "logic" => rpc \in {"down", "stopped"}
    /\ http = "down" => \A h \in Request : req[h] = "none"
    /\ http = "drained" => \A h \in Request : ~InHttp(h)
    /\ http \in {"overrun", "closed"} => grace
    /\ rpc = "down" => \A c \in Rpc : rpcs[c] = "none"
    /\ kind = "logic" /\ rpc = "stopped" /\ ~grace => \A c \in Rpc : rpcs[c] # "running"

\* Comet waits for the handlers that have begun; a socket begins only while the
\* instance is serving.  Logic waits for its kick workers.
UsersAreTracked ==
    /\ \A h \in Request : req[h] \in {"upgrading", "socket", "cleanup"} =>
          kind = "comet" /\ h \in tracked
    /\ \A h \in Request : kind = "comet" /\ req[h] = "handling" => h \in tracked
    /\ \A h \in Request : pc \in {"defers", "returned"} =>
          /\ req[h] \notin {"upgrading", "socket", "cleanup"}
          /\ req[h] = "none" \/ kind = "logic" \/ lease = "done"
    /\ kick # "gone" => kind = "logic" /\ Len(opened) >= 4

ServersInv ==
    /\ ServersTypeOK
    /\ OpenedInOrder
    /\ ServedWhenUp
    /\ UsersAreTracked

=============================================================================
