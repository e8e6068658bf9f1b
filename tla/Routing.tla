------------------------------ MODULE Routing ------------------------------
(***************************************************************************)
(* The lease store of Logic: internal/logic/routing.  Every operation is   *)
(* one Lua script that Redis runs atomically against its own clock, so     *)
(* every operation is one action here.  Two kinds of key are kept: the     *)
(* lease of a Comet instance (which boot of it is serving, and whether it  *)
(* is draining) and the route of a user (which connection of which boot    *)
(* receives the user's messages).                                          *)
(*                                                                         *)
(* A connection stands for the pair (connection_id, route_token) that a    *)
(* Comet draws at random for one socket, together with the JWT that was    *)
(* presented on it; a boot stands for one start of a Comet process, with   *)
(* the address Logic's grant gives it.  The functions UserOf, BootOf,      *)
(* AuthOf and InstanceOf record what those values fix.                     *)
(***************************************************************************)
EXTENDS Integers

CONSTANTS
    User, Instance, Boot, Connection,
    UserOf,        \* the user a connection authenticated as
    BootOf,        \* the Comet process that holds a connection
    AuthOf,        \* when the JWT of a connection expires
    InstanceOf,    \* the instance_id of a boot
    InstanceTTL,   \* ittl of the scripts
    RouteTTL,      \* rttl of the scripts
    Margin,        \* the 5 seconds of the connect script and of instanceSafetyMargin
    Nil

ASSUME RoutingConstants ==
    /\ UserOf \in [Connection -> User]
    /\ BootOf \in [Connection -> Boot]
    /\ AuthOf \in [Connection -> Nat]
    /\ InstanceOf \in [Boot -> Instance]
    /\ InstanceTTL \in Nat \ {0}
    /\ RouteTTL \in Nat \ {0}
    /\ Margin \in Nat \ {0}

VARIABLES
    now,           \* redis.call('TIME'), in the unit of the leases
    instances,     \* the instance keys: [Instance -> lease or Nil]
    routes         \* the route keys: [User -> route or Nil]

storeVars == <<now, instances, routes>>

InstanceLease == [boot: Boot, draining: BOOLEAN, deadline: Nat]

RouteLease == [conn: Connection, deadline: Nat]

ASSUME NilIsNoLease ==
    /\ Nil \notin InstanceLease /\ Nil \notin RouteLease
    /\ Nil \notin Connection /\ Nil \notin Boot

StoreTypeOK ==
    /\ now \in Nat
    /\ instances \in [Instance -> InstanceLease \cup {Nil}]
    /\ routes \in [User -> RouteLease \cup {Nil}]

StoreInit ==
    /\ now = 0
    /\ instances = [i \in Instance |-> Nil]
    /\ routes = [u \in User |-> Nil]

-----------------------------------------------------------------------------
(* local functions of the script *)

Least(a, b) == IF a <= b THEN a ELSE b

Live(lease) == lease # Nil /\ lease.deadline > now

\* same(): user, instance, connection and token all agree.
Same(route, c) == route.conn = c

\* validinstance(): the instance lease is live and still of the route's boot.
ValidInstance(route) ==
    LET b == BootOf[route.conn]
    IN  /\ Live(instances[InstanceOf[b]])
        /\ instances[InstanceOf[b]].boot = b

\* The route's lease and its user's JWT are both unexpired.
Usable(route) == Live(route) /\ AuthOf[route.conn] > now

-----------------------------------------------------------------------------
(* the instance lease *)

\* Mutant: the conflict answer is missing.
RegisterReplyNoConflict(b) == "ok"

RegisterReply(b) ==
    LET old == instances[InstanceOf[b]]
    IN  IF Live(old) /\ old.boot # b THEN "conflict" ELSE "ok"

\* What register saves: a live lease of the same boot keeps its drain flag.
RegisterLease(b) ==
    LET old == instances[InstanceOf[b]]
    IN  [boot |-> b, draining |-> Live(old) /\ old.draining, deadline |-> now + InstanceTTL]

Register(b) ==
    /\ instances' = IF RegisterReply(b) = "conflict" THEN instances
                    ELSE [instances EXCEPT ![InstanceOf[b]] = RegisterLease(b)]
    /\ UNCHANGED <<now, routes>>

\* The store holds a live lease of boot b: the guard of renew.
Registered(b) ==
    /\ Live(instances[InstanceOf[b]])
    /\ instances[InstanceOf[b]].boot = b

\* What renew saves: a drain is never taken back.
RenewLease(b, draining) ==
    [boot     |-> b,
     draining |-> instances[InstanceOf[b]].draining \/ draining,
     deadline |-> now + InstanceTTL]

Renew(b, draining) ==
    /\ instances' = IF Registered(b)
                    THEN [instances EXCEPT ![InstanceOf[b]] = RenewLease(b, draining)]
                    ELSE instances
    /\ UNCHANGED <<now, routes>>

Unregister(b) ==
    /\ instances' = IF Registered(b)
                    THEN [instances EXCEPT ![InstanceOf[b]] = Nil]
                    ELSE instances
    /\ UNCHANGED <<now, routes>>

-----------------------------------------------------------------------------
(* the user's route *)

ConnectReply(c) ==
    IF ~Registered(BootOf[c]) THEN "not_registered"
    ELSE IF instances[InstanceOf[BootOf[c]]].draining THEN "draining"
    ELSE IF AuthOf[c] - now <= Margin THEN "expired"
    ELSE "ok"

RouteDeadlineFor(c) == Least(now + RouteTTL, AuthOf[c])

\* Mutant: the answer names the new connection as the one to kick.
PreviousIsNew(c) == c

\* The connection whose usable route a successful connect replaces, or Nil.
Previous(c) ==
    IF routes[UserOf[c]] # Nil /\ Usable(routes[UserOf[c]])
    THEN routes[UserOf[c]].conn
    ELSE Nil

Connect(c) ==
    /\ routes' = IF ConnectReply(c) = "ok"
                 THEN [routes EXCEPT ![UserOf[c]] =
                         [conn |-> c, deadline |-> RouteDeadlineFor(c)]]
                 ELSE routes
    /\ UNCHANGED <<now, instances>>

\* check: the route is the caller's, usable, and its instance lease is valid.
CheckReply(c) ==
    LET old == routes[UserOf[c]]
    IN  IF old = Nil THEN "expired"
        ELSE IF ~Same(old, c) THEN "superseded"
        ELSE IF ~Usable(old) THEN "expired"
        ELSE IF ~ValidInstance(old) THEN "not_registered"
        ELSE "ok"

Heartbeat(c) ==
    /\ routes' = IF CheckReply(c) = "ok"
                 THEN [routes EXCEPT ![UserOf[c]] =
                         [conn |-> c, deadline |-> RouteDeadlineFor(c)]]
                 ELSE routes
    /\ UNCHANGED <<now, instances>>

\* The guard of disconnect: the live route is the caller's.
OwnsRoute(c) == Live(routes[UserOf[c]]) /\ Same(routes[UserOf[c]], c)

Disconnect(c) ==
    /\ routes' = IF OwnsRoute(c) THEN [routes EXCEPT ![UserOf[c]] = Nil] ELSE routes
    /\ UNCHANGED <<now, instances>>

\* lookup: the user has a usable route to a valid instance.
Online(u) == routes[u] # Nil /\ Usable(routes[u]) /\ ValidInstance(routes[u])

\* The connection a message for user u is sent to, or Nil (offline).
Lookup(u) == IF Online(u) THEN routes[u].conn ELSE Nil

\* The boot that serves instance i, or Nil (missing).
Resolve(i) == IF Live(instances[i]) THEN instances[i].boot ELSE Nil

-----------------------------------------------------------------------------
(* Redis itself: time, and the PX expiry that save() puts on every key.  An *)
(* expired key may still be read for a while, which is what live() is for.  *)

Advance ==
    /\ now' = now + 1
    /\ UNCHANGED <<instances, routes>>

ExpireInstance(i) ==
    /\ instances[i] # Nil
    /\ instances[i].deadline <= now
    /\ instances' = [instances EXCEPT ![i] = Nil]
    /\ UNCHANGED <<now, routes>>

ExpireRoute(u) ==
    /\ routes[u] # Nil
    /\ routes[u].deadline <= now
    /\ routes' = [routes EXCEPT ![u] = Nil]
    /\ UNCHANGED <<now, instances>>

=============================================================================
