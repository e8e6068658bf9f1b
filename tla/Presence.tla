------------------------------ MODULE Presence ------------------------------
(***************************************************************************)
(* Who receives a user's messages.  The Comet processes and the sockets    *)
(* they hold (internal/comet/instance.go, handler.go), the Logic RPCs they *)
(* call (internal/logic/service.go) and the lease store behind Logic       *)
(* (module Routing), composed.  Requests may be delayed past the moment    *)
(* the caller gave up on them, replies may be lost, processes may crash,   *)
(* and the clock of a Comet may differ from the clock of Redis.            *)
(***************************************************************************)
EXTENDS Routing, FiniteSets

CONSTANTS
    Skew,      \* how far a Comet's clock may be from that of Redis
    Slack,     \* how long after a deadline, by Redis's clock, a Comet has acted on it
    KickCap,   \* capacity of Service.kicks (128)
    MaxTime    \* bound: the clock stops here

ASSUME PresenceConstants ==
    /\ Skew \in Nat /\ Slack \in Nat /\ KickCap \in Nat /\ MaxTime \in Nat
    /\ Skew <= Slack
    /\ Slack < Margin

VARIABLES
    proc,        \* the life of a Comet process
    bootSafe,    \* Instance.safeDeadline
    drain,       \* hubState.draining and whether its deadline has passed
    registers,   \* RegisterComet requests not yet applied by Logic
    sock,        \* the life of a socket handler and its entry in the Hub
    safe,        \* the handler's safe deadline
    connects,    \* Connect requests not yet applied
    beats,       \* Heartbeat requests not yet applied
    kicks,       \* Service.kicks
    connected,   \* history: the connections whose Connect took effect
    superseded   \* history: those whose route a later Connect took over

procVars == <<proc, bootSafe, drain, registers>>
sockVars == <<sock, safe, connects, beats>>
history  == <<connected, superseded>>
vars     == <<storeVars, procVars, sockVars, kicks, history>>

ProcState == {"off", "registering", "serving", "stopping", "stopped", "crashed"}
InHub     == {"pending", "granted", "active"}
SockState == {"idle", "closing", "done"} \cup InHub

PresenceTypeOK ==
    /\ StoreTypeOK
    /\ proc \in [Boot -> ProcState]
    /\ bootSafe \in [Boot -> Int]
    /\ drain \in [Boot -> {"no", "draining", "over"}]
    /\ registers \in SUBSET Boot
    /\ sock \in [Connection -> SockState]
    /\ safe \in [Connection -> Int]
    /\ connects \in SUBSET Connection
    /\ beats \in SUBSET Connection
    /\ kicks \in SUBSET Connection
    /\ connected \in SUBSET Connection
    /\ superseded \in SUBSET Connection

Init ==
    /\ StoreInit
    /\ proc = [b \in Boot |-> "off"]
    /\ bootSafe = [b \in Boot |-> 0]
    /\ drain = [b \in Boot |-> "no"]
    /\ registers = {}
    /\ sock = [c \in Connection |-> "idle"]
    /\ safe = [c \in Connection |-> 0]
    /\ connects = {} /\ beats = {} /\ kicks = {}
    /\ connected = {} /\ superseded = {}

-----------------------------------------------------------------------------
(* the clock of a Comet *)

\* time.Now() of a Comet may be any of these.
Readings == (now - Skew)..(now + Skew)

\* safe.After(time.Now()) and time.Now().Before(safe)
StillSafe(deadline) == \E t \in Readings : t < deadline

-----------------------------------------------------------------------------
(* the life of a Comet process *)

\* Hub.draining.Load()
Draining(b) == drain[b] # "no"

\* Hub.Close: every connection of the process is closed.
HubClosed(b) ==
    [c \in Connection |-> IF BootOf[c] = b /\ sock[c] \in InHub
                          THEN "closing" ELSE sock[c]]

StartInstance(b) ==
    /\ proc[b] = "off"
    /\ proc' = [proc EXCEPT ![b] = "registering"]
    /\ registers' = registers \cup {b}
    /\ UNCHANGED <<storeVars, bootSafe, drain, sockVars, kicks, history>>

\* validateLease: the process may serve until the margin before the lease ends.
SafeLease == now + InstanceTTL - Margin

\* What StartInstance makes of the reply to its registration.
RegisterAccepted(b) ==
    /\ RegisterReply(b) = "ok"
    /\ ~RegisterLease(b).draining
    /\ StillSafe(SafeLease)
    /\ ~Draining(b)

\* Logic applies a RegisterComet request; heard says whether a process that
\* still waits for the reply receives it.
RegisterComet(b, heard) ==
    /\ b \in registers
    /\ registers' = registers \ {b}
    /\ Register(b)
    /\ IF proc[b] = "registering" /\ heard
       THEN /\ proc' = [proc EXCEPT ![b] = IF RegisterAccepted(b) THEN "serving" ELSE "stopping"]
            /\ bootSafe' = IF RegisterAccepted(b) THEN [bootSafe EXCEPT ![b] = SafeLease]
                                                  ELSE bootSafe
       ELSE UNCHANGED <<proc, bootSafe>>
    /\ UNCHANGED <<drain, sockVars, kicks, history>>

\* The reply did not come within the RPC budget: registration is uncertain.
RegisterUncertain(b) ==
    /\ proc[b] = "registering"
    /\ proc' = [proc EXCEPT ![b] = "stopping"]
    /\ UNCHANGED <<storeVars, bootSafe, drain, registers, sockVars, kicks, history>>

\* What the renewal loop makes of a reply.
RenewAccepted(b) ==
    /\ Registered(b)
    /\ RenewLease(b, Draining(b)).draining = Draining(b)
    /\ StillSafe(SafeLease)

\* One round of the renewal loop.  A lost reply is a transient error.
RenewComet(b, heard) ==
    /\ proc[b] = "serving"
    /\ StillSafe(bootSafe[b])
    /\ Renew(b, Draining(b))
    /\ IF ~heard
       THEN UNCHANGED <<proc, bootSafe, sock>>
       ELSE IF RenewAccepted(b)
       THEN bootSafe' = [bootSafe EXCEPT ![b] = SafeLease] /\ UNCHANGED <<proc, sock>>
       ELSE /\ proc' = [proc EXCEPT ![b] = "stopping"]
            /\ sock' = HubClosed(b)
            /\ UNCHANGED bootSafe
    /\ UNCHANGED <<drain, registers, safe, connects, beats, kicks, history>>

\* The loop ends: the safe deadline was reached, or the process was told to stop.
StopInstance(b) ==
    /\ proc[b] = "serving"
    /\ proc' = [proc EXCEPT ![b] = "stopping"]
    /\ sock' = HubClosed(b)
    /\ UNCHANGED <<storeVars, bootSafe, drain, registers, safe, connects, beats,
                   kicks, history>>

\* Instance.unregister, best effort; the request may be lost.
UnregisterComet(b, lost) ==
    /\ proc[b] = "stopping"
    /\ proc' = [proc EXCEPT ![b] = "stopped"]
    /\ IF lost THEN UNCHANGED storeVars ELSE Unregister(b)
    /\ UNCHANGED <<bootSafe, drain, registers, sockVars, kicks, history>>

\* The process dies: its sockets vanish and no cleanup runs.
Crash(b) ==
    /\ proc[b] \in {"registering", "serving", "stopping"}
    /\ proc' = [proc EXCEPT ![b] = "crashed"]
    /\ sock' = [c \in Connection |-> IF BootOf[c] = b /\ sock[c] # "idle"
                                     THEN "done" ELSE sock[c]]
    /\ UNCHANGED <<storeVars, bootSafe, drain, registers, safe, connects, beats,
                   kicks, history>>

\* The administrator's Drain RPC.
Drain(b) ==
    /\ proc[b] \in {"registering", "serving"}
    /\ ~Draining(b)
    /\ drain' = [drain EXCEPT ![b] = "draining"]
    /\ UNCHANGED <<storeVars, proc, bootSafe, registers, sockVars, kicks, history>>

\* The drain deadline: hubState.closeAll.
DrainTimer(b) ==
    /\ proc[b] \in {"registering", "serving"}
    /\ drain[b] = "draining"
    /\ drain' = [drain EXCEPT ![b] = "over"]
    /\ sock' = HubClosed(b)
    /\ UNCHANGED <<storeVars, proc, bootSafe, registers, safe, connects, beats, kicks, history>>

-----------------------------------------------------------------------------
(* the life of a socket *)

\* Instance.Ready: the lease is safe, no drain has begun and nothing is closed.
Ready(b) == proc[b] = "serving" /\ StillSafe(bootSafe[b]) /\ ~Draining(b)

\* Mutant: Hub.register does not look at the drain state.
OpenWhileDraining(c) ==
    /\ sock[c] = "idle"
    /\ proc[BootOf[c]] = "serving"
    /\ sock' = [sock EXCEPT ![c] = "pending"]
    /\ connects' = connects \cup {c}
    /\ UNCHANGED <<storeVars, procVars, safe, beats, kicks, history>>

\* A handshake with a valid JWT on a ready instance: the connection enters the
\* Hub as pending, closing the user's other connection there, and the Connect
\* request is sent.
Open(c) ==
    LET b == BootOf[c]
    IN  /\ sock[c] = "idle"
        /\ Ready(b)
        /\ StillSafe(AuthOf[c] - Margin)
        /\ sock' = [d \in Connection |->
                      IF d = c THEN "pending"
                      ELSE IF /\ BootOf[d] = b
                              /\ UserOf[d] = UserOf[c]
                              /\ sock[d] \in InHub
                           THEN "closing"
                      ELSE sock[d]]
        /\ connects' = connects \cup {c}
        /\ UNCHANGED <<storeVars, procVars, safe, beats, kicks, history>>

\* Logic applies a Connect request, and queues a Kick for the connection it
\* replaced unless the queue is full.
LogicConnect(c, heard) ==
    /\ c \in connects
    /\ connects' = connects \ {c}
    /\ Connect(c)
    /\ IF ConnectReply(c) = "ok"
       THEN /\ connected' = connected \cup {c}
            /\ superseded' = superseded \cup {d \in connected : UserOf[d] = UserOf[c]}
            /\ kicks' = IF Previous(c) # Nil /\ Cardinality(kicks) < KickCap
                        THEN kicks \cup {Previous(c)}
                        ELSE kicks
       ELSE UNCHANGED <<history, kicks>>
    /\ IF sock[c] = "pending" /\ heard
       THEN IF ConnectReply(c) = "ok"
            THEN /\ sock' = [sock EXCEPT ![c] = "granted"]
                 /\ safe' = [safe EXCEPT ![c] = RouteDeadlineFor(c) - Margin]
            ELSE sock' = [sock EXCEPT ![c] = "closing"] /\ UNCHANGED safe
       ELSE UNCHANGED <<sock, safe>>
    /\ UNCHANGED <<procVars, beats>>

\* Mutant: the lease of the reply is not compared with the clock.
ActivateUnchecked(c) ==
    /\ sock[c] = "granted"
    /\ sock' = [sock EXCEPT ![c] = "active"]
    /\ UNCHANGED <<storeVars, procVars, safe, connects, beats, kicks, history>>

\* routeDeadline and Hub.activate.
Activate(c) ==
    /\ sock[c] = "granted"
    /\ sock' = [sock EXCEPT ![c] =
                  IF StillSafe(safe[c]) /\ ~Draining(BootOf[c])
                  THEN "active" ELSE "closing"]
    /\ UNCHANGED <<storeVars, procVars, safe, connects, beats, kicks, history>>

\* The handler ends: the peer went away, a frame was refused, the queue was
\* full, Connect timed out, or the safe deadline was reached.
CloseSocket(c) ==
    /\ sock[c] \in InHub
    /\ sock' = [sock EXCEPT ![c] = "closing"]
    /\ UNCHANGED <<storeVars, procVars, safe, connects, beats, kicks, history>>

SendHeartbeat(c) ==
    /\ sock[c] = "active"
    /\ StillSafe(safe[c])
    /\ c \notin beats
    /\ beats' = beats \cup {c}
    /\ UNCHANGED <<storeVars, procVars, sock, safe, connects, kicks, history>>

\* connectionAuth: the caller's boot is the one that holds its instance lease.
ConnectionAuth(c) == Resolve(InstanceOf[BootOf[c]]) = BootOf[c]

\* What the heartbeat loop makes of a reply.  Every refusal, connectionAuth's and
\* the store's alike, reaches it as FailedPrecondition, which ends the handler.
HeartbeatAccepted(c) ==
    /\ ConnectionAuth(c)
    /\ CheckReply(c) = "ok"
    /\ StillSafe(RouteDeadlineFor(c) - Margin)

\* Logic applies a Heartbeat request.
LogicHeartbeat(c, heard) ==
    /\ c \in beats
    /\ beats' = beats \ {c}
    /\ IF ConnectionAuth(c) THEN Heartbeat(c) ELSE UNCHANGED storeVars
    /\ IF sock[c] = "active" /\ heard
       THEN IF HeartbeatAccepted(c)
            THEN safe' = [safe EXCEPT ![c] = RouteDeadlineFor(c) - Margin] /\ UNCHANGED sock
            ELSE sock' = [sock EXCEPT ![c] = "closing"] /\ UNCHANGED safe
       ELSE UNCHANGED <<sock, safe>>
    /\ UNCHANGED <<procVars, connects, kicks, history>>

\* The deferred cleanup of the handler; the request may be lost.
LogicDisconnect(c, lost) ==
    /\ sock[c] = "closing"
    /\ sock' = [sock EXCEPT ![c] = "done"]
    /\ IF lost THEN UNCHANGED storeVars ELSE Disconnect(c)
    /\ UNCHANGED <<procVars, safe, connects, beats, kicks, history>>

\* A kick worker resolves the instance and calls Kick with the exact identity.
KickWorker(c, lost) ==
    /\ c \in kicks
    /\ kicks' = kicks \ {c}
    /\ sock' = IF /\ ~lost
                  /\ Resolve(InstanceOf[BootOf[c]]) = BootOf[c]
                  /\ sock[c] \in InHub
               THEN [sock EXCEPT ![c] = "closing"]
               ELSE sock
    /\ UNCHANGED <<storeVars, procVars, safe, connects, beats, history>>

-----------------------------------------------------------------------------
(* Time passes only while every Comet has acted on its deadlines: the timers *)
(* of the heartbeat and of the renewal loop fire, and their goroutines run,  *)
(* no later than Slack after the deadline.                                   *)

\* Mutant: the heartbeat loop does not stop at the safe deadline.
NeverOverdue(c) == FALSE

Overdue(c) == sock[c] = "active" /\ now >= safe[c] + Slack

OverdueBoot(b) == proc[b] = "serving" /\ now >= bootSafe[b] + Slack

Tick ==
    /\ now < MaxTime
    /\ \A c \in Connection : ~Overdue(c)
    /\ \A b \in Boot : ~OverdueBoot(b)
    /\ Advance
    /\ UNCHANGED <<procVars, sockVars, kicks, history>>

Expire ==
    /\ \/ \E i \in Instance : ExpireInstance(i)
       \/ \E u \in User : ExpireRoute(u)
    /\ UNCHANGED <<procVars, sockVars, kicks, history>>

ProcNext(b) ==
    \/ StartInstance(b)
    \/ \E heard \in BOOLEAN : RegisterComet(b, heard) \/ RenewComet(b, heard)
    \/ RegisterUncertain(b)
    \/ StopInstance(b)
    \/ \E lost \in BOOLEAN : UnregisterComet(b, lost)
    \/ Crash(b)
    \/ Drain(b)
    \/ DrainTimer(b)

SockNext(c) ==
    \/ Open(c)
    \/ \E heard \in BOOLEAN : LogicConnect(c, heard) \/ LogicHeartbeat(c, heard)
    \/ Activate(c)
    \/ CloseSocket(c)
    \/ SendHeartbeat(c)
    \/ \E lost \in BOOLEAN : LogicDisconnect(c, lost) \/ KickWorker(c, lost)

Next ==
    \/ \E b \in Boot : ProcNext(b)
    \/ \E c \in Connection : SockNext(c)
    \/ Tick
    \/ Expire

Spec == Init /\ [][Next]_vars

\* Time goes on and a Comet whose deadline has come acts on it.  Nothing else is
\* promised: no request need ever be applied and no reply heard.
Fairness ==
    /\ WF_vars(Tick)
    /\ \A c \in Connection : WF_vars(Overdue(c) /\ CloseSocket(c))
    /\ \A b \in Boot : WF_vars(OverdueBoot(b) /\ StopInstance(b))

FairSpec == Spec /\ Fairness

-----------------------------------------------------------------------------

\* A connection that Comet serves and that no later Connect took over is the
\* one Logic's lookup answers: the route, the JWT and the instance lease are all
\* alive.  No late cleanup, kick or expiry hides a served connection from the
\* Job, whatever requests are late or lost (routeDeadline, instance.run and the
\* conditional scripts together).
ActiveIsReachable ==
    \A c \in Connection :
        sock[c] = "active" /\ c \notin superseded => Lookup(UserOf[c]) = c

\* Two processes never serve under one instance_id: a new boot can register
\* only when the old one has stopped by itself (the register script's conflict
\* answer against validateLease's margin).
OneBootPerInstance ==
    \A a, b \in Boot :
        /\ proc[a] = "serving" /\ proc[b] = "serving"
        /\ InstanceOf[a] = InstanceOf[b]
        => a = b

\* What waits in Service.kicks is never the current connection of its user, so
\* a Kick executed late closes only a connection that has lost its route.
KicksSpareTheOwner == \A c \in kicks : Lookup(UserOf[c]) # c

\* A connection whose route was taken over stops being served, even when the
\* Kick was dropped and every heartbeat reply is lost: the safe deadline ends it.
SupersededCloses ==
    \A c \in Connection :
        (c \in superseded /\ sock[c] = "active") ~> (sock[c] # "active")

\* Once the drain deadline has passed the Hub is empty and stays empty: no
\* handshake, pending Connect or activation that raced with Drain leaves a
\* connection behind (the timer of hubState fires only once).
DrainedStaysEmpty ==
    \A c \in Connection : drain[BootOf[c]] = "over" => sock[c] \notin InHub

\* Where a connection is, as SocketLife sees it.
Stage(c) == IF sock[c] = "granted" THEN "pending" ELSE sock[c]

Life == INSTANCE SocketLife
          WITH Hub <- Boot, HubOf <- BootOf,
               life <- [c \in Connection |-> Stage(c)],
               draining <- [b \in Boot |-> Draining(b)]

\* The connections of every Comet live as SocketLife says, which is what the Hub
\* and its handlers are shown to do (CometHub).
ImplementsLife == Life!Spec

-----------------------------------------------------------------------------
(* What makes the invariants above inductive. *)

\* A stored lease never outlives its TTL or the JWT, and sits under its own key.
LeasesBounded ==
    /\ \A i \in Instance : instances[i] # Nil =>
          /\ InstanceOf[instances[i].boot] = i
          /\ instances[i].deadline <= now + InstanceTTL
    /\ \A u \in User : routes[u] # Nil =>
          /\ UserOf[routes[u].conn] = u
          /\ routes[u].deadline <= now + RouteTTL
          /\ routes[u].deadline <= AuthOf[routes[u].conn]

\* A serving process holds the lease of its instance, with the margin to spare.
ServingHoldsLease ==
    \A b \in Boot : proc[b] = "serving" =>
        /\ instances[InstanceOf[b]] # Nil
        /\ instances[InstanceOf[b]].boot = b
        /\ bootSafe[b] + Margin <= instances[InstanceOf[b]].deadline
        /\ now <= bootSafe[b] + Slack

\* Route u is that of c, and lasts a margin longer than c will be served.
HoldsRoute(c) ==
    /\ routes[UserOf[c]] # Nil
    /\ routes[UserOf[c]].conn = c
    /\ safe[c] + Margin <= routes[UserOf[c]].deadline

\* A granted connection holds its route until the safe deadline has passed, or
\* another Connect takes it; an active one has not passed it.
GrantedHoldsRoute ==
    \A c \in Connection : sock[c] \in {"granted", "active"} =>
        /\ c \in connected
        /\ c \in superseded \/ HoldsRoute(c) \/ now >= safe[c] + Margin
        /\ sock[c] = "active" => now <= safe[c] + Slack

\* Requests in flight belong to callers that have not had their reply, and
\* connections live in the Hub of a serving process only.
RequestsInFlight ==
    /\ \A b \in registers : proc[b] \notin {"off", "serving"}
    /\ \A c \in connects : sock[c] \in {"pending", "closing", "done"} /\ c \notin connected
    /\ \A c \in Connection : sock[c] = "idle" => c \notin connected
    /\ \A c \in Connection : sock[c] \in InHub => proc[BootOf[c]] = "serving"

\* A route is never that of a connection it was taken from.
OwnersNotSuperseded ==
    /\ superseded \subseteq connected
    /\ kicks \subseteq superseded
    /\ \A u \in User : routes[u] # Nil =>
          routes[u].conn \in connected /\ routes[u].conn \notin superseded

PresenceInv ==
    /\ PresenceTypeOK
    /\ DrainedStaysEmpty
    /\ LeasesBounded
    /\ ServingHoldsLease
    /\ GrantedHoldsRoute
    /\ RequestsInFlight
    /\ OwnersNotSuperseded

=============================================================================
