--------------------------- MODULE PresenceProofs ---------------------------
(***************************************************************************)
(* Proofs about module Presence for every number of users, instances,      *)
(* processes and connections, and for all lease times, clock skews and     *)
(* reaction times with Skew <= Slack < Margin.                             *)
(***************************************************************************)
EXTENDS Presence, TLAPS

USE RoutingConstants, NilIsNoLease, PresenceConstants

-----------------------------------------------------------------------------
(* Facts about the operators. *)

\* A deadline that some reading of a Comet's clock has not reached is less than
\* Slack in the past by the clock of Redis (safe.After(time.Now())).
LEMMA StillSafeBound ==
    ASSUME NEW d \in Int, now \in Nat, StillSafe(d)
    PROVE  now < d + Slack
BY DEF StillSafe, Readings

\* math.min of the connect and heartbeat scripts.
LEMMA RouteDeadlineBounds ==
    ASSUME NEW c \in Connection, now \in Nat
    PROVE  /\ RouteDeadlineFor(c) \in Nat
           /\ RouteDeadlineFor(c) <= now + RouteTTL
           /\ RouteDeadlineFor(c) <= AuthOf[c]
           /\ \A d \in Nat : d <= now + RouteTTL /\ d <= AuthOf[c] => d <= RouteDeadlineFor(c)
BY DEF RouteDeadlineFor, Least

\* The store holds a live lease of every serving process.
LEMMA ServingIsRegistered ==
    ASSUME PresenceInv, NEW b \in Boot, proc[b] = "serving"
    PROVE  Registered(b)
<1>1. /\ instances[InstanceOf[b]] # Nil
      /\ instances[InstanceOf[b]].boot = b
      /\ bootSafe[b] + Margin <= instances[InstanceOf[b]].deadline
      /\ now <= bootSafe[b] + Slack
  BY DEF PresenceInv, ServingHoldsLease
<1>2. instances[InstanceOf[b]] \in InstanceLease /\ now \in Nat /\ bootSafe[b] \in Int
  BY <1>1 DEF PresenceInv, PresenceTypeOK, StoreTypeOK
<1>3. QED
  BY <1>1, <1>2 DEF Registered, Live, InstanceLease

\* An active connection that was not taken over has a usable route.
LEMMA ActiveHoldsRoute ==
    ASSUME PresenceInv, NEW c \in Connection, sock[c] = "active", c \notin superseded
    PROVE  HoldsRoute(c) /\ routes[UserOf[c]].deadline > now
<1>1. now \in Nat /\ safe[c] \in Int
  BY DEF PresenceInv, PresenceTypeOK, StoreTypeOK
<1>2. /\ HoldsRoute(c) \/ now >= safe[c] + Margin
      /\ now <= safe[c] + Slack
  BY DEF PresenceInv, GrantedHoldsRoute
<1>3. HoldsRoute(c)
  BY <1>1, <1>2
<1>4. routes[UserOf[c]] \in RouteLease
  BY <1>3 DEF PresenceInv, PresenceTypeOK, StoreTypeOK, HoldsRoute
<1>5. QED
  BY <1>1, <1>2, <1>3, <1>4 DEF HoldsRoute, RouteLease

-----------------------------------------------------------------------------
(* The invariant implies the properties. *)

\* The inductive invariant gives reachability of every served connection.
LEMMA InvReachable == PresenceInv => ActiveIsReachable
<1> SUFFICES ASSUME PresenceInv, NEW c \in Connection, sock[c] = "active", c \notin superseded
             PROVE  Lookup(UserOf[c]) = c
  BY DEF ActiveIsReachable
<1>1. HoldsRoute(c) /\ routes[UserOf[c]].deadline > now
  BY ActiveHoldsRoute
<1>2. AuthOf[c] > now
  <2>1. routes[UserOf[c]].deadline <= AuthOf[c]
    BY <1>1 DEF PresenceInv, LeasesBounded, HoldsRoute
  <2>2. routes[UserOf[c]] \in RouteLease /\ now \in Nat
    BY <1>1 DEF PresenceInv, PresenceTypeOK, StoreTypeOK, HoldsRoute
  <2>3. QED
    BY <1>1, <2>1, <2>2 DEF RouteLease
<1>3. proc[BootOf[c]] = "serving"
  BY DEF PresenceInv, RequestsInFlight, InHub
<1>4. Registered(BootOf[c])
  BY <1>3, ServingIsRegistered
<1>5. QED
  BY <1>1, <1>2, <1>4 DEF Lookup, Online, Usable, Live, ValidInstance, HoldsRoute, Registered

\* The inductive invariant gives exclusive use of an instance_id.
LEMMA InvOneBoot == PresenceInv => OneBootPerInstance
BY DEF PresenceInv, ServingHoldsLease, OneBootPerInstance

\* The inductive invariant keeps the owner of a route out of Service.kicks.
LEMMA InvKicks == PresenceInv => KicksSpareTheOwner
<1> SUFFICES ASSUME PresenceInv, NEW c \in kicks
             PROVE  Lookup(UserOf[c]) # c
  BY DEF KicksSpareTheOwner
<1>1. c \in Connection /\ c \in superseded
  BY DEF PresenceInv, OwnersNotSuperseded, PresenceTypeOK
<1>2. CASE routes[UserOf[c]] # Nil
  BY <1>1, <1>2 DEF PresenceInv, OwnersNotSuperseded, Lookup, Online
<1>3. CASE routes[UserOf[c]] = Nil
  BY <1>1, <1>3 DEF Lookup, Online
<1>4. QED
  BY <1>2, <1>3

-----------------------------------------------------------------------------
(* The invariant is inductive. *)

\* The initial state satisfies the inductive invariant.
LEMMA InitInv == Init => PresenceInv
BY DEF Init, StoreInit, PresenceInv, PresenceTypeOK, StoreTypeOK, LeasesBounded,
       ServingHoldsLease, GrantedHoldsRoute, RequestsInFlight, OwnersNotSuperseded,
       DrainedStaysEmpty, ProcState, SockState, InHub

\* A Comet process that starts (StartInstance) preserves the invariant.
LEMMA StartInstanceInv ==
    ASSUME PresenceInv, NEW b \in Boot, StartInstance(b)
    PROVE  PresenceInv'
<1> USE DEF PresenceInv
<1>1. PresenceTypeOK'
  BY DEF StartInstance, storeVars, procVars, sockVars, history, PresenceTypeOK, StoreTypeOK,
         ProcState, SockState, InHub, InstanceLease, RouteLease
<1>2. LeasesBounded'
  BY DEF StartInstance, storeVars, procVars, sockVars, history, PresenceTypeOK, StoreTypeOK,
         LeasesBounded, InstanceLease, RouteLease
<1>3. ServingHoldsLease'
  BY DEF StartInstance, storeVars, procVars, sockVars, history, PresenceTypeOK, StoreTypeOK,
         LeasesBounded, ServingHoldsLease, RequestsInFlight, InstanceLease
<1>4. GrantedHoldsRoute'
  BY DEF StartInstance, storeVars, procVars, sockVars, history, PresenceTypeOK, StoreTypeOK,
         LeasesBounded, GrantedHoldsRoute, HoldsRoute, RequestsInFlight, InHub, RouteLease
<1>5. RequestsInFlight'
  BY DEF StartInstance, storeVars, procVars, sockVars, history, PresenceTypeOK, StoreTypeOK,
         RequestsInFlight, GrantedHoldsRoute, InHub
<1>6. OwnersNotSuperseded'
  BY DEF StartInstance, storeVars, procVars, sockVars, history, PresenceTypeOK, StoreTypeOK,
         LeasesBounded, OwnersNotSuperseded, RequestsInFlight, RouteLease
<1>7. DrainedStaysEmpty'
  BY DEF StartInstance, storeVars, procVars, sockVars, history, PresenceTypeOK, StoreTypeOK,
         DrainedStaysEmpty, Draining, InHub
<1>8. QED
  BY <1>1, <1>2, <1>3, <1>4, <1>5, <1>6, <1>7

\* RegisterComet, applied late or not, heard or not, preserves the invariant: it
\* cannot take the lease of a serving process.
LEMMA RegisterCometInv ==
    ASSUME PresenceInv, NEW b \in Boot, NEW heard \in BOOLEAN, RegisterComet(b, heard)
    PROVE  PresenceInv'
<1> USE DEF PresenceInv
<1>1. PresenceTypeOK'
  BY DEF RegisterComet, RegisterAccepted, SafeLease, Register, RegisterLease, RegisterReply,
         storeVars, procVars, sockVars, history,
         PresenceTypeOK, StoreTypeOK, ProcState, SockState, InHub, InstanceLease, RouteLease
<1>2. LeasesBounded'
  BY DEF RegisterComet, RegisterAccepted, SafeLease, Register, RegisterLease, RegisterReply,
         storeVars, procVars, sockVars, history,
         PresenceTypeOK, StoreTypeOK, LeasesBounded, InstanceLease, RouteLease
<1>3. ServingHoldsLease'
  <2> SUFFICES ASSUME NEW a \in Boot, proc'[a] = "serving"
               PROVE  ServingHoldsLease!(a)!2'
    BY DEF ServingHoldsLease
  <2>1. now \in Nat /\ now' = now /\ instances' \in [Instance -> InstanceLease \cup {Nil}]
    BY <1>1 DEF RegisterComet, RegisterAccepted, SafeLease, Register, RegisterLease,
                PresenceTypeOK, StoreTypeOK
  <2>2. CASE a = b
    <3>1. RegisterReply(b) = "ok" /\ StillSafe(now + InstanceTTL - Margin)
          /\ bootSafe' = [bootSafe EXCEPT ![b] = now + InstanceTTL - Margin]
      BY <2>2 DEF RegisterComet, RegisterAccepted, SafeLease, RequestsInFlight, PresenceTypeOK
    <3>2. \E d \in BOOLEAN : instances'[InstanceOf[b]] =
             [boot |-> b, draining |-> d, deadline |-> now + InstanceTTL]
      BY <3>1 DEF RegisterComet, RegisterAccepted, SafeLease, Register, RegisterLease,
                  PresenceTypeOK, StoreTypeOK, Live, InstanceLease
    <3>3. /\ instances'[InstanceOf[b]].boot = b
          /\ instances'[InstanceOf[b]] # Nil
          /\ instances'[InstanceOf[b]].deadline = now + InstanceTTL
      BY <3>2, <2>1 DEF InstanceLease
    <3>4. now < now + InstanceTTL - Margin + Slack
      BY <2>1, <3>1, StillSafeBound
    <3>5. QED
      BY <2>1, <2>2, <3>1, <3>3, <3>4 DEF PresenceTypeOK
  <2>3. CASE a # b
    <3>1. proc[a] = "serving" /\ bootSafe'[a] = bootSafe[a]
      BY <2>3 DEF RegisterComet, RegisterAccepted, SafeLease, PresenceTypeOK
    <3>2. Registered(a)
      BY <3>1, ServingIsRegistered
    <3>3. instances'[InstanceOf[a]] = instances[InstanceOf[a]]
      BY <2>3, <3>2 DEF RegisterComet, RegisterAccepted, SafeLease, Register, RegisterLease,
                        RegisterReply, Registered, PresenceTypeOK,
                        StoreTypeOK
    <3>4. QED
      BY <2>1, <3>1, <3>3 DEF ServingHoldsLease
  <2>4. QED
    BY <2>2, <2>3
<1>4. GrantedHoldsRoute'
  BY DEF RegisterComet, RegisterAccepted, SafeLease, Register, RegisterLease, RegisterReply,
         storeVars, procVars, sockVars, history,
         PresenceTypeOK, StoreTypeOK, LeasesBounded, GrantedHoldsRoute, HoldsRoute,
         RequestsInFlight, InHub, RouteLease
<1>5. RequestsInFlight'
  BY DEF RegisterComet, RegisterAccepted, SafeLease, Register, RegisterLease, RegisterReply,
         storeVars, procVars, sockVars, history,
         PresenceTypeOK, StoreTypeOK, RequestsInFlight, GrantedHoldsRoute, InHub
<1>6. OwnersNotSuperseded'
  BY DEF RegisterComet, RegisterAccepted, SafeLease, Register, RegisterLease, RegisterReply,
         storeVars, procVars, sockVars, history,
         PresenceTypeOK, StoreTypeOK, LeasesBounded, OwnersNotSuperseded, RequestsInFlight,
         RouteLease
<1>7. DrainedStaysEmpty'
  BY DEF RegisterComet, RegisterAccepted, SafeLease, Register, RegisterLease, RegisterReply,
         storeVars, procVars, sockVars, history,
         PresenceTypeOK, StoreTypeOK, DrainedStaysEmpty, Draining, InHub
<1>8. QED
  BY <1>1, <1>2, <1>3, <1>4, <1>5, <1>6, <1>7

\* Giving up on an uncertain registration preserves the invariant.
LEMMA RegisterUncertainInv ==
    ASSUME PresenceInv, NEW b \in Boot, RegisterUncertain(b)
    PROVE  PresenceInv'
<1> USE DEF PresenceInv
<1>1. PresenceTypeOK'
  BY DEF RegisterUncertain, storeVars, procVars, sockVars, history, PresenceTypeOK,
         StoreTypeOK, ProcState, SockState, InHub, InstanceLease, RouteLease
<1>2. LeasesBounded'
  BY DEF RegisterUncertain, storeVars, procVars, sockVars, history, PresenceTypeOK,
         StoreTypeOK, LeasesBounded, InstanceLease, RouteLease
<1>3. ServingHoldsLease'
  BY DEF RegisterUncertain, storeVars, procVars, sockVars, history, PresenceTypeOK,
         StoreTypeOK, LeasesBounded, ServingHoldsLease, RequestsInFlight, InstanceLease
<1>4. GrantedHoldsRoute'
  BY DEF RegisterUncertain, storeVars, procVars, sockVars, history, PresenceTypeOK,
         StoreTypeOK, LeasesBounded, GrantedHoldsRoute, HoldsRoute, RequestsInFlight, InHub,
         RouteLease
<1>5. RequestsInFlight'
  BY DEF RegisterUncertain, storeVars, procVars, sockVars, history, PresenceTypeOK,
         StoreTypeOK, RequestsInFlight, GrantedHoldsRoute, InHub
<1>6. OwnersNotSuperseded'
  BY DEF RegisterUncertain, storeVars, procVars, sockVars, history, PresenceTypeOK,
         StoreTypeOK, LeasesBounded, OwnersNotSuperseded, RequestsInFlight, RouteLease
<1>7. DrainedStaysEmpty'
  BY DEF RegisterUncertain, storeVars, procVars, sockVars, history, PresenceTypeOK,
         StoreTypeOK, DrainedStaysEmpty, Draining, InHub
<1>8. QED
  BY <1>1, <1>2, <1>3, <1>4, <1>5, <1>6, <1>7

\* A renewal only lengthens the lease of its own process.
LEMMA RenewCometInv ==
    ASSUME PresenceInv, NEW b \in Boot, NEW heard \in BOOLEAN, RenewComet(b, heard)
    PROVE  PresenceInv'
<1> USE DEF PresenceInv
<1>1. PresenceTypeOK'
  BY DEF RenewComet, RenewAccepted, SafeLease, Renew, RenewLease, Registered, HubClosed,
         storeVars, procVars, sockVars, history,
         PresenceTypeOK, StoreTypeOK, ProcState, SockState, InHub, InstanceLease, RouteLease
<1>2. LeasesBounded'
  BY DEF RenewComet, RenewAccepted, SafeLease, Renew, RenewLease, Registered, HubClosed,
         storeVars, procVars, sockVars, history,
         PresenceTypeOK, StoreTypeOK, LeasesBounded, InstanceLease, RouteLease
<1>3. ServingHoldsLease'
  <2>1. Registered(b)
    BY ServingIsRegistered DEF RenewComet, RenewAccepted, SafeLease
  <2>2. /\ instances'[InstanceOf[b]] \in InstanceLease
        /\ instances'[InstanceOf[b]].boot = b
        /\ instances'[InstanceOf[b]].deadline = now + InstanceTTL
    BY <2>1, <1>1 DEF RenewComet, RenewAccepted, SafeLease, Renew, RenewLease, PresenceTypeOK,
                      StoreTypeOK, InstanceLease
  <2>3. \A i \in Instance : i # InstanceOf[b] => instances'[i] = instances[i]
    BY DEF RenewComet, RenewAccepted, SafeLease, Renew, RenewLease, PresenceTypeOK, StoreTypeOK
  <2>4. now' = now /\ now \in Nat
    BY DEF RenewComet, RenewAccepted, SafeLease, Renew, RenewLease, PresenceTypeOK, StoreTypeOK
  <2>5. \A a \in Boot : proc'[a] = "serving" =>
            /\ proc[a] = "serving"
            /\ \/ bootSafe'[a] = bootSafe[a]
               \/ a = b /\ bootSafe'[a] = now + InstanceTTL - Margin
    BY DEF RenewComet, RenewAccepted, SafeLease, PresenceTypeOK
  <2>6. instances[InstanceOf[b]].deadline <= now + InstanceTTL
        /\ instances[InstanceOf[b]].deadline \in Nat
    BY <2>1 DEF LeasesBounded, PresenceTypeOK, StoreTypeOK, InstanceLease, Registered, Live
  <2>7. ASSUME NEW a \in Boot, proc'[a] = "serving"
        PROVE  ServingHoldsLease!(a)!2'
    <3>1. /\ instances[InstanceOf[a]] # Nil
          /\ instances[InstanceOf[a]].boot = a
          /\ bootSafe[a] + Margin <= instances[InstanceOf[a]].deadline
          /\ now <= bootSafe[a] + Slack
      BY <2>5, <2>7 DEF ServingHoldsLease
    <3>2. bootSafe[a] \in Int
      BY DEF PresenceTypeOK
    <3>3. CASE a = b
      BY <2>2, <2>4, <2>5, <2>6, <2>7, <3>1, <3>2, <3>3
    <3>4. CASE a # b
      <4>1. InstanceOf[a] # InstanceOf[b]
        BY <2>1, <3>1, <3>4 DEF Registered
      <4>2. QED
        BY <2>3, <2>4, <2>5, <2>7, <3>1, <3>4, <4>1
    <3>5. QED
      BY <3>3, <3>4
  <2>8. QED
    BY <2>7 DEF ServingHoldsLease
<1>4. GrantedHoldsRoute'
  BY DEF RenewComet, RenewAccepted, SafeLease, Renew, RenewLease, Registered, HubClosed,
         storeVars, procVars, sockVars, history,
         PresenceTypeOK, StoreTypeOK, LeasesBounded, GrantedHoldsRoute, HoldsRoute,
         RequestsInFlight, InHub, RouteLease
<1>5. RequestsInFlight'
  BY DEF RenewComet, RenewAccepted, SafeLease, Renew, RenewLease, Registered, HubClosed,
         storeVars, procVars, sockVars, history,
         PresenceTypeOK, StoreTypeOK, RequestsInFlight, GrantedHoldsRoute, InHub
<1>6. OwnersNotSuperseded'
  BY DEF RenewComet, RenewAccepted, SafeLease, Renew, RenewLease, Registered, HubClosed,
         storeVars, procVars, sockVars, history,
         PresenceTypeOK, StoreTypeOK, LeasesBounded, OwnersNotSuperseded, RequestsInFlight,
         RouteLease
<1>7. DrainedStaysEmpty'
  BY DEF RenewComet, RenewAccepted, SafeLease, Renew, RenewLease, Registered, HubClosed,
         storeVars, procVars, sockVars, history,
         PresenceTypeOK, StoreTypeOK, DrainedStaysEmpty, Draining, InHub
<1>8. QED
  BY <1>1, <1>2, <1>3, <1>4, <1>5, <1>6, <1>7

\* Stopping a process (Instance.run's deferred Hub.Close) preserves the invariant.
LEMMA StopInstanceInv ==
    ASSUME PresenceInv, NEW b \in Boot, StopInstance(b)
    PROVE  PresenceInv'
<1> USE DEF PresenceInv
<1>1. PresenceTypeOK'
  BY DEF StopInstance, HubClosed, storeVars, procVars, sockVars, history, PresenceTypeOK,
         StoreTypeOK, ProcState, SockState, InHub, InstanceLease, RouteLease
<1>2. LeasesBounded'
  BY DEF StopInstance, HubClosed, storeVars, procVars, sockVars, history, PresenceTypeOK,
         StoreTypeOK, LeasesBounded, InstanceLease, RouteLease
<1>3. ServingHoldsLease'
  BY DEF StopInstance, HubClosed, storeVars, procVars, sockVars, history, PresenceTypeOK,
         StoreTypeOK, LeasesBounded, ServingHoldsLease, RequestsInFlight, InstanceLease
<1>4. GrantedHoldsRoute'
  BY DEF StopInstance, HubClosed, storeVars, procVars, sockVars, history, PresenceTypeOK,
         StoreTypeOK, LeasesBounded, GrantedHoldsRoute, HoldsRoute, RequestsInFlight, InHub,
         RouteLease
<1>5. RequestsInFlight'
  BY DEF StopInstance, HubClosed, storeVars, procVars, sockVars, history, PresenceTypeOK,
         StoreTypeOK, RequestsInFlight, GrantedHoldsRoute, InHub
<1>6. OwnersNotSuperseded'
  BY DEF StopInstance, HubClosed, storeVars, procVars, sockVars, history, PresenceTypeOK,
         StoreTypeOK, LeasesBounded, OwnersNotSuperseded, RequestsInFlight, RouteLease
<1>7. DrainedStaysEmpty'
  BY DEF StopInstance, HubClosed, storeVars, procVars, sockVars, history, PresenceTypeOK,
         StoreTypeOK, DrainedStaysEmpty, Draining, InHub
<1>8. QED
  BY <1>1, <1>2, <1>3, <1>4, <1>5, <1>6, <1>7

\* UnregisterComet removes the lease of its own, stopping, process only.
LEMMA UnregisterCometInv ==
    ASSUME PresenceInv, NEW b \in Boot, NEW lost \in BOOLEAN, UnregisterComet(b, lost)
    PROVE  PresenceInv'
<1> USE DEF PresenceInv
<1>1. PresenceTypeOK'
  BY DEF UnregisterComet, Unregister, Registered, storeVars, procVars, sockVars, history,
         PresenceTypeOK, StoreTypeOK, ProcState, SockState, InHub, InstanceLease, RouteLease
<1>2. LeasesBounded'
  BY DEF UnregisterComet, Unregister, Registered, storeVars, procVars, sockVars, history,
         PresenceTypeOK, StoreTypeOK, LeasesBounded, InstanceLease, RouteLease
<1>3. ServingHoldsLease'
  BY DEF UnregisterComet, Unregister, Registered, storeVars, procVars, sockVars, history,
         PresenceTypeOK, StoreTypeOK, LeasesBounded, ServingHoldsLease, RequestsInFlight,
         InstanceLease
<1>4. GrantedHoldsRoute'
  BY DEF UnregisterComet, Unregister, Registered, storeVars, procVars, sockVars, history,
         PresenceTypeOK, StoreTypeOK, LeasesBounded, GrantedHoldsRoute, HoldsRoute,
         RequestsInFlight, InHub, RouteLease
<1>5. RequestsInFlight'
  BY DEF UnregisterComet, Unregister, Registered, storeVars, procVars, sockVars, history,
         PresenceTypeOK, StoreTypeOK, RequestsInFlight, GrantedHoldsRoute, InHub
<1>6. OwnersNotSuperseded'
  BY DEF UnregisterComet, Unregister, Registered, storeVars, procVars, sockVars, history,
         PresenceTypeOK, StoreTypeOK, LeasesBounded, OwnersNotSuperseded, RequestsInFlight,
         RouteLease
<1>7. DrainedStaysEmpty'
  BY DEF UnregisterComet, Unregister, Registered, storeVars, procVars, sockVars, history,
         PresenceTypeOK, StoreTypeOK, DrainedStaysEmpty, Draining, InHub
<1>8. QED
  BY <1>1, <1>2, <1>3, <1>4, <1>5, <1>6, <1>7

\* A crash leaves leases behind but no served connection.
LEMMA CrashInv ==
    ASSUME PresenceInv, NEW b \in Boot, Crash(b)
    PROVE  PresenceInv'
<1> USE DEF PresenceInv
<1>1. PresenceTypeOK'
  BY DEF Crash, storeVars, procVars, sockVars, history, PresenceTypeOK, StoreTypeOK,
         ProcState, SockState, InHub, InstanceLease, RouteLease
<1>2. LeasesBounded'
  BY DEF Crash, storeVars, procVars, sockVars, history, PresenceTypeOK, StoreTypeOK,
         LeasesBounded, InstanceLease, RouteLease
<1>3. ServingHoldsLease'
  BY DEF Crash, storeVars, procVars, sockVars, history, PresenceTypeOK, StoreTypeOK,
         LeasesBounded, ServingHoldsLease, RequestsInFlight, InstanceLease
<1>4. GrantedHoldsRoute'
  BY DEF Crash, storeVars, procVars, sockVars, history, PresenceTypeOK, StoreTypeOK,
         LeasesBounded, GrantedHoldsRoute, HoldsRoute, RequestsInFlight, InHub, RouteLease
<1>5. RequestsInFlight'
  BY DEF Crash, storeVars, procVars, sockVars, history, PresenceTypeOK, StoreTypeOK,
         RequestsInFlight, GrantedHoldsRoute, InHub
<1>6. OwnersNotSuperseded'
  BY DEF Crash, storeVars, procVars, sockVars, history, PresenceTypeOK, StoreTypeOK,
         LeasesBounded, OwnersNotSuperseded, RequestsInFlight, RouteLease
<1>7. DrainedStaysEmpty'
  BY DEF Crash, storeVars, procVars, sockVars, history, PresenceTypeOK, StoreTypeOK,
         DrainedStaysEmpty, Draining, InHub
<1>8. QED
  BY <1>1, <1>2, <1>3, <1>4, <1>5, <1>6, <1>7

\* The Drain RPC preserves the invariant.
LEMMA DrainInv ==
    ASSUME PresenceInv, NEW b \in Boot, Drain(b)
    PROVE  PresenceInv'
<1> USE DEF PresenceInv
<1>1. PresenceTypeOK'
  BY DEF Drain, storeVars, procVars, sockVars, history, PresenceTypeOK, StoreTypeOK,
         ProcState, SockState, InHub, InstanceLease, RouteLease
<1>2. LeasesBounded'
  BY DEF Drain, storeVars, procVars, sockVars, history, PresenceTypeOK, StoreTypeOK,
         LeasesBounded, InstanceLease, RouteLease
<1>3. ServingHoldsLease'
  BY DEF Drain, storeVars, procVars, sockVars, history, PresenceTypeOK, StoreTypeOK,
         LeasesBounded, ServingHoldsLease, RequestsInFlight, InstanceLease
<1>4. GrantedHoldsRoute'
  BY DEF Drain, storeVars, procVars, sockVars, history, PresenceTypeOK, StoreTypeOK,
         LeasesBounded, GrantedHoldsRoute, HoldsRoute, RequestsInFlight, InHub, RouteLease
<1>5. RequestsInFlight'
  BY DEF Drain, storeVars, procVars, sockVars, history, PresenceTypeOK, StoreTypeOK,
         RequestsInFlight, GrantedHoldsRoute, InHub
<1>6. OwnersNotSuperseded'
  BY DEF Drain, storeVars, procVars, sockVars, history, PresenceTypeOK, StoreTypeOK,
         LeasesBounded, OwnersNotSuperseded, RequestsInFlight, RouteLease
<1>7. DrainedStaysEmpty'
  BY DEF Drain, storeVars, procVars, sockVars, history, PresenceTypeOK, StoreTypeOK,
         DrainedStaysEmpty, Draining, InHub
<1>8. QED
  BY <1>1, <1>2, <1>3, <1>4, <1>5, <1>6, <1>7

\* hubState.closeAll at the drain deadline preserves the invariant.
LEMMA DrainTimerInv ==
    ASSUME PresenceInv, NEW b \in Boot, DrainTimer(b)
    PROVE  PresenceInv'
<1> USE DEF PresenceInv
<1>1. PresenceTypeOK'
  BY DEF DrainTimer, HubClosed, storeVars, procVars, sockVars, history, PresenceTypeOK,
         StoreTypeOK, ProcState, SockState, InHub, InstanceLease, RouteLease
<1>2. LeasesBounded'
  BY DEF DrainTimer, HubClosed, storeVars, procVars, sockVars, history, PresenceTypeOK,
         StoreTypeOK, LeasesBounded, InstanceLease, RouteLease
<1>3. ServingHoldsLease'
  BY DEF DrainTimer, HubClosed, storeVars, procVars, sockVars, history, PresenceTypeOK,
         StoreTypeOK, LeasesBounded, ServingHoldsLease, RequestsInFlight, InstanceLease
<1>4. GrantedHoldsRoute'
  BY DEF DrainTimer, HubClosed, storeVars, procVars, sockVars, history, PresenceTypeOK,
         StoreTypeOK, LeasesBounded, GrantedHoldsRoute, HoldsRoute, RequestsInFlight, InHub,
         RouteLease
<1>5. RequestsInFlight'
  BY DEF DrainTimer, HubClosed, storeVars, procVars, sockVars, history, PresenceTypeOK,
         StoreTypeOK, RequestsInFlight, GrantedHoldsRoute, InHub
<1>6. OwnersNotSuperseded'
  BY DEF DrainTimer, HubClosed, storeVars, procVars, sockVars, history, PresenceTypeOK,
         StoreTypeOK, LeasesBounded, OwnersNotSuperseded, RequestsInFlight, RouteLease
<1>7. DrainedStaysEmpty'
  BY DEF DrainTimer, HubClosed, storeVars, procVars, sockVars, history, PresenceTypeOK,
         StoreTypeOK, DrainedStaysEmpty, Draining, InHub
<1>8. QED
  BY <1>1, <1>2, <1>3, <1>4, <1>5, <1>6, <1>7

\* A new pending connection preserves the invariant.
LEMMA OpenInv ==
    ASSUME PresenceInv, NEW c \in Connection, Open(c)
    PROVE  PresenceInv'
<1> USE DEF PresenceInv
<1>1. PresenceTypeOK'
  BY DEF Open, Ready, storeVars, procVars, sockVars, history, PresenceTypeOK, StoreTypeOK,
         ProcState, SockState, InHub, InstanceLease, RouteLease
<1>2. LeasesBounded'
  BY DEF Open, Ready, storeVars, procVars, sockVars, history, PresenceTypeOK, StoreTypeOK,
         LeasesBounded, InstanceLease, RouteLease
<1>3. ServingHoldsLease'
  BY DEF Open, Ready, storeVars, procVars, sockVars, history, PresenceTypeOK, StoreTypeOK,
         LeasesBounded, ServingHoldsLease, RequestsInFlight, InstanceLease
<1>4. GrantedHoldsRoute'
  BY DEF Open, Ready, storeVars, procVars, sockVars, history, PresenceTypeOK, StoreTypeOK,
         LeasesBounded, GrantedHoldsRoute, HoldsRoute, RequestsInFlight, InHub, RouteLease
<1>5. RequestsInFlight'
  BY DEF Open, Ready, storeVars, procVars, sockVars, history, PresenceTypeOK, StoreTypeOK,
         RequestsInFlight, GrantedHoldsRoute, InHub
<1>6. OwnersNotSuperseded'
  BY DEF Open, Ready, storeVars, procVars, sockVars, history, PresenceTypeOK, StoreTypeOK,
         LeasesBounded, OwnersNotSuperseded, RequestsInFlight, RouteLease
<1>7. DrainedStaysEmpty'
  BY DEF Open, Ready, storeVars, procVars, sockVars, history, PresenceTypeOK, StoreTypeOK,
         DrainedStaysEmpty, Draining, InHub
<1>8. QED
  BY <1>1, <1>2, <1>3, <1>4, <1>5, <1>6, <1>7

\* Connect gives its connection a route that outlives the safe deadline, and marks
\* the connections it takes the route from.
LEMMA LogicConnectInv ==
    ASSUME PresenceInv, NEW c \in Connection, NEW heard \in BOOLEAN, LogicConnect(c, heard)
    PROVE  PresenceInv'
<1> USE DEF PresenceInv
<1> DEFINE new == [conn |-> c, deadline |-> RouteDeadlineFor(c)]
<1>a. now \in Nat /\ now' = now /\ instances' = instances /\ UserOf[c] \in User
  BY DEF LogicConnect, Connect, PresenceTypeOK, StoreTypeOK
<1>b. /\ new \in RouteLease
      /\ RouteDeadlineFor(c) \in Nat
      /\ RouteDeadlineFor(c) <= now + RouteTTL
      /\ RouteDeadlineFor(c) <= AuthOf[c]
  BY <1>a, RouteDeadlineBounds DEF RouteLease
<1>c. \/ ConnectReply(c) = "ok" /\ routes' = [routes EXCEPT ![UserOf[c]] = new]
      \/ ConnectReply(c) # "ok" /\ routes' = routes
  BY DEF LogicConnect, Connect
<1> HIDE DEF new
<1>1. PresenceTypeOK'
  <2>1. routes' \in [User -> RouteLease \cup {Nil}]
    BY <1>a, <1>b, <1>c DEF PresenceTypeOK, StoreTypeOK
  <2>2. safe' \in [Connection -> Int] /\ sock' \in [Connection -> SockState]
    BY <1>b DEF LogicConnect, PresenceTypeOK, SockState, InHub
  <2>3. kicks' \in SUBSET Connection
    BY DEF LogicConnect, Previous, PresenceTypeOK, StoreTypeOK, RouteLease
  <2>4. QED
    BY <1>a, <2>1, <2>2, <2>3
       DEF LogicConnect, PresenceTypeOK, StoreTypeOK, procVars, history
<1>2. LeasesBounded'
  BY <1>a, <1>b, <1>c DEF PresenceTypeOK, StoreTypeOK, LeasesBounded, new
<1>3. ServingHoldsLease'
  BY DEF LogicConnect, Connect, ConnectReply, Previous, storeVars, procVars, sockVars,
         history, PresenceTypeOK, StoreTypeOK, LeasesBounded, ServingHoldsLease,
         RequestsInFlight, InstanceLease
<1>4. GrantedHoldsRoute'
  <2> SUFFICES ASSUME NEW d \in Connection, sock'[d] \in {"granted", "active"}
               PROVE  GrantedHoldsRoute!(d)!2'
    BY DEF GrantedHoldsRoute
  <2>1. CASE d = c
    <3>1. /\ sock' = [sock EXCEPT ![c] = "granted"]
          /\ safe' = [safe EXCEPT ![c] = RouteDeadlineFor(c) - Margin]
          /\ ConnectReply(c) = "ok"
          /\ connected' = connected \cup {c}
      BY <2>1 DEF LogicConnect, RequestsInFlight, PresenceTypeOK
    <3>2. HoldsRoute(c)'
      BY <1>a, <1>b, <1>c, <3>1 DEF HoldsRoute, PresenceTypeOK, StoreTypeOK, new
    <3>3. QED
      BY <2>1, <3>1, <3>2 DEF PresenceTypeOK
  <2>2. CASE d # c
    <3>1. sock[d] = sock'[d] /\ safe'[d] = safe[d] /\ d \in connected'
      BY <2>2 DEF LogicConnect, GrantedHoldsRoute, PresenceTypeOK, history
    <3>2. CASE UserOf[d] = UserOf[c] /\ ConnectReply(c) = "ok"
      <4>1. d \in superseded'
        BY <3>1, <3>2 DEF LogicConnect, GrantedHoldsRoute
      <4>2. QED
        BY <1>a, <3>1, <4>1 DEF GrantedHoldsRoute
    <3>3. CASE ~(UserOf[d] = UserOf[c] /\ ConnectReply(c) = "ok")
      <4>1. routes'[UserOf[d]] = routes[UserOf[d]]
        BY <1>c, <3>3 DEF PresenceTypeOK, StoreTypeOK
      <4>2. superseded \subseteq superseded'
        BY DEF LogicConnect, history
      <4>3. QED
        BY <1>a, <3>1, <4>1, <4>2 DEF GrantedHoldsRoute, HoldsRoute
    <3>4. QED
      BY <3>2, <3>3
  <2>3. QED
    BY <2>1, <2>2
<1>5. RequestsInFlight'
  BY DEF LogicConnect, Connect, ConnectReply, Previous, storeVars, procVars, sockVars,
         history, PresenceTypeOK, StoreTypeOK, RequestsInFlight, GrantedHoldsRoute, InHub
<1>6. OwnersNotSuperseded'
  BY DEF LogicConnect, Connect, ConnectReply, Previous, storeVars, procVars, sockVars,
         history, PresenceTypeOK, StoreTypeOK, LeasesBounded, OwnersNotSuperseded,
         RequestsInFlight, RouteLease
<1>7. DrainedStaysEmpty'
  BY DEF LogicConnect, Connect, ConnectReply, Previous, storeVars, procVars, sockVars,
         history, PresenceTypeOK, StoreTypeOK, DrainedStaysEmpty, Draining, InHub
<1>8. QED
  BY <1>1, <1>2, <1>3, <1>4, <1>5, <1>6, <1>7

\* Activation re-checks the safe deadline, so a reply that came late activates nothing.
LEMMA ActivateInv ==
    ASSUME PresenceInv, NEW c \in Connection, Activate(c)
    PROVE  PresenceInv'
<1> USE DEF PresenceInv
<1>1. PresenceTypeOK'
  BY DEF Activate, storeVars, procVars, sockVars, history, PresenceTypeOK, StoreTypeOK,
         ProcState, SockState, InHub, InstanceLease, RouteLease
<1>2. LeasesBounded'
  BY DEF Activate, storeVars, procVars, sockVars, history, PresenceTypeOK, StoreTypeOK,
         LeasesBounded, InstanceLease, RouteLease
<1>3. ServingHoldsLease'
  BY DEF Activate, storeVars, procVars, sockVars, history, PresenceTypeOK, StoreTypeOK,
         LeasesBounded, ServingHoldsLease, RequestsInFlight, InstanceLease
<1>4. GrantedHoldsRoute'
  <2>1. now \in Nat /\ safe[c] \in Int
    BY DEF PresenceTypeOK, StoreTypeOK
  <2>2. StillSafe(safe[c]) => now <= safe[c] + Slack
    BY <2>1, StillSafeBound
  <2>3. QED
    BY <2>1, <2>2 DEF Activate, storeVars, procVars, history, PresenceTypeOK,
                      GrantedHoldsRoute,
                      HoldsRoute
<1>5. RequestsInFlight'
  BY DEF Activate, storeVars, procVars, sockVars, history, PresenceTypeOK, StoreTypeOK,
         RequestsInFlight, GrantedHoldsRoute, InHub
<1>6. OwnersNotSuperseded'
  BY DEF Activate, storeVars, procVars, sockVars, history, PresenceTypeOK, StoreTypeOK,
         LeasesBounded, OwnersNotSuperseded, RequestsInFlight, RouteLease
<1>7. DrainedStaysEmpty'
  BY DEF Activate, storeVars, procVars, sockVars, history, PresenceTypeOK, StoreTypeOK,
         DrainedStaysEmpty, Draining, InHub
<1>8. QED
  BY <1>1, <1>2, <1>3, <1>4, <1>5, <1>6, <1>7

\* Closing a socket preserves the invariant.
LEMMA CloseSocketInv ==
    ASSUME PresenceInv, NEW c \in Connection, CloseSocket(c)
    PROVE  PresenceInv'
<1> USE DEF PresenceInv
<1>1. PresenceTypeOK'
  BY DEF CloseSocket, storeVars, procVars, sockVars, history, PresenceTypeOK, StoreTypeOK,
         ProcState, SockState, InHub, InstanceLease, RouteLease
<1>2. LeasesBounded'
  BY DEF CloseSocket, storeVars, procVars, sockVars, history, PresenceTypeOK, StoreTypeOK,
         LeasesBounded, InstanceLease, RouteLease
<1>3. ServingHoldsLease'
  BY DEF CloseSocket, storeVars, procVars, sockVars, history, PresenceTypeOK, StoreTypeOK,
         LeasesBounded, ServingHoldsLease, RequestsInFlight, InstanceLease
<1>4. GrantedHoldsRoute'
  BY DEF CloseSocket, storeVars, procVars, sockVars, history, PresenceTypeOK, StoreTypeOK,
         LeasesBounded, GrantedHoldsRoute, HoldsRoute, RequestsInFlight, InHub, RouteLease
<1>5. RequestsInFlight'
  BY DEF CloseSocket, storeVars, procVars, sockVars, history, PresenceTypeOK, StoreTypeOK,
         RequestsInFlight, GrantedHoldsRoute, InHub
<1>6. OwnersNotSuperseded'
  BY DEF CloseSocket, storeVars, procVars, sockVars, history, PresenceTypeOK, StoreTypeOK,
         LeasesBounded, OwnersNotSuperseded, RequestsInFlight, RouteLease
<1>7. DrainedStaysEmpty'
  BY DEF CloseSocket, storeVars, procVars, sockVars, history, PresenceTypeOK, StoreTypeOK,
         DrainedStaysEmpty, Draining, InHub
<1>8. QED
  BY <1>1, <1>2, <1>3, <1>4, <1>5, <1>6, <1>7

\* Sending a heartbeat preserves the invariant.
LEMMA SendHeartbeatInv ==
    ASSUME PresenceInv, NEW c \in Connection, SendHeartbeat(c)
    PROVE  PresenceInv'
<1> USE DEF PresenceInv
<1>1. PresenceTypeOK'
  BY DEF SendHeartbeat, storeVars, procVars, sockVars, history, PresenceTypeOK, StoreTypeOK,
         ProcState, SockState, InHub, InstanceLease, RouteLease
<1>2. LeasesBounded'
  BY DEF SendHeartbeat, storeVars, procVars, sockVars, history, PresenceTypeOK, StoreTypeOK,
         LeasesBounded, InstanceLease, RouteLease
<1>3. ServingHoldsLease'
  BY DEF SendHeartbeat, storeVars, procVars, sockVars, history, PresenceTypeOK, StoreTypeOK,
         LeasesBounded, ServingHoldsLease, RequestsInFlight, InstanceLease
<1>4. GrantedHoldsRoute'
  BY DEF SendHeartbeat, storeVars, procVars, sockVars, history, PresenceTypeOK, StoreTypeOK,
         LeasesBounded, GrantedHoldsRoute, HoldsRoute, RequestsInFlight, InHub, RouteLease
<1>5. RequestsInFlight'
  BY DEF SendHeartbeat, storeVars, procVars, sockVars, history, PresenceTypeOK, StoreTypeOK,
         RequestsInFlight, GrantedHoldsRoute, InHub
<1>6. OwnersNotSuperseded'
  BY DEF SendHeartbeat, storeVars, procVars, sockVars, history, PresenceTypeOK, StoreTypeOK,
         LeasesBounded, OwnersNotSuperseded, RequestsInFlight, RouteLease
<1>7. DrainedStaysEmpty'
  BY DEF SendHeartbeat, storeVars, procVars, sockVars, history, PresenceTypeOK, StoreTypeOK,
         DrainedStaysEmpty, Draining, InHub
<1>8. QED
  BY <1>1, <1>2, <1>3, <1>4, <1>5, <1>6, <1>7

\* Heartbeat only lengthens the route of its own connection.
LEMMA LogicHeartbeatInv ==
    ASSUME PresenceInv, NEW c \in Connection, NEW heard \in BOOLEAN, LogicHeartbeat(c, heard)
    PROVE  PresenceInv'
<1> USE DEF PresenceInv
<1> DEFINE new == [conn |-> c, deadline |-> RouteDeadlineFor(c)]
<1>a. now \in Nat /\ now' = now /\ instances' = instances /\ UserOf[c] \in User
  BY DEF LogicHeartbeat, Heartbeat, storeVars, PresenceTypeOK, StoreTypeOK
<1>b. /\ new \in RouteLease
      /\ RouteDeadlineFor(c) \in Nat
      /\ RouteDeadlineFor(c) <= now + RouteTTL
      /\ RouteDeadlineFor(c) <= AuthOf[c]
  BY <1>a, RouteDeadlineBounds DEF RouteLease
<1>c. \/ CheckReply(c) = "ok" /\ routes' = [routes EXCEPT ![UserOf[c]] = new]
      \/ CheckReply(c) # "ok" /\ routes' = routes
  <2>1. CheckReply(c) = "ok" => ConnectionAuth(c)
    BY DEF CheckReply, Same, ValidInstance, ConnectionAuth, Resolve
  <2>2. QED
    BY <2>1 DEF LogicHeartbeat, Heartbeat, storeVars
<1> HIDE DEF new
<1>1. PresenceTypeOK'
  <2>1. routes' \in [User -> RouteLease \cup {Nil}]
    BY <1>a, <1>b, <1>c DEF PresenceTypeOK, StoreTypeOK
  <2>2. safe' \in [Connection -> Int] /\ sock' \in [Connection -> SockState]
    BY <1>b DEF LogicHeartbeat, HeartbeatAccepted, PresenceTypeOK, SockState, InHub
  <2>3. QED
    BY <1>a, <2>1, <2>2 DEF LogicHeartbeat, HeartbeatAccepted, PresenceTypeOK, StoreTypeOK,
                            procVars, history
<1>2. LeasesBounded'
  BY <1>a, <1>b, <1>c DEF PresenceTypeOK, StoreTypeOK, LeasesBounded, new
<1>3. ServingHoldsLease'
  BY DEF LogicHeartbeat, HeartbeatAccepted, Heartbeat, CheckReply, Same, storeVars, procVars,
         sockVars,
         history, PresenceTypeOK, StoreTypeOK, LeasesBounded, ServingHoldsLease,
         RequestsInFlight, InstanceLease
<1>4. GrantedHoldsRoute'
  <2> SUFFICES ASSUME NEW d \in Connection, sock'[d] \in {"granted", "active"}
               PROVE  GrantedHoldsRoute!(d)!2'
    BY DEF GrantedHoldsRoute
  <2>1. sock[d] = sock'[d] /\ connected' = connected /\ superseded' = superseded
    BY DEF LogicHeartbeat, HeartbeatAccepted, PresenceTypeOK, history
  <2>2. CASE CheckReply(c) # "ok"
    <3>1. safe' = safe /\ routes' = routes
      BY <1>c, <2>2, <2>1 DEF LogicHeartbeat, HeartbeatAccepted
    <3>2. QED
      BY <1>a, <2>1, <3>1 DEF GrantedHoldsRoute, HoldsRoute
  <2>3. CASE CheckReply(c) = "ok"
    <3>1. /\ routes[UserOf[c]] # Nil
          /\ routes[UserOf[c]].conn = c
      BY <2>3 DEF CheckReply, Same
    <3>2. routes[UserOf[c]].deadline <= RouteDeadlineFor(c)
      BY <1>a, <3>1, RouteDeadlineBounds
         DEF PresenceTypeOK, StoreTypeOK, LeasesBounded, RouteLease
    <3>3. routes'[UserOf[c]] = new /\ new.conn = c /\ new.deadline = RouteDeadlineFor(c)
      BY <1>a, <1>c, <2>3 DEF PresenceTypeOK, StoreTypeOK, new
    <3>4. CASE d = c
      <4>1. HoldsRoute(c)'
        <5>1. new # Nil
          BY <1>b
        <5>2. safe'[c] + Margin <= RouteDeadlineFor(c)
          <6>1. CASE safe' = safe
            <7>1. c \notin superseded
              BY <3>1, <1>a DEF OwnersNotSuperseded
            <7>2. HoldsRoute(c) \/ now >= safe[c] + Margin
              BY <2>1, <3>4, <7>1 DEF GrantedHoldsRoute
            <7>3. routes[UserOf[c]].deadline > now /\ routes[UserOf[c]].deadline \in Nat
              BY <1>a, <2>3, <3>1
                 DEF CheckReply, Same, Usable, Live, PresenceTypeOK, StoreTypeOK, RouteLease
            <7>4. QED
              BY <1>a, <1>b, <3>2, <6>1, <7>2, <7>3 DEF HoldsRoute, PresenceTypeOK
          <6>2. CASE safe' = [safe EXCEPT ![c] = RouteDeadlineFor(c) - Margin]
            BY <1>b, <6>2 DEF PresenceTypeOK
          <6>3. QED
            BY <6>1, <6>2 DEF LogicHeartbeat, HeartbeatAccepted
        <5>3. QED
          BY <3>3, <5>1, <5>2 DEF HoldsRoute
      <4>2. sock'[c] = "active" => now <= safe'[c] + Slack
        <5>1. CASE safe' = safe
          BY <2>1, <3>4, <5>1 DEF GrantedHoldsRoute
        <5>2. CASE /\ safe' = [safe EXCEPT ![c] = RouteDeadlineFor(c) - Margin]
                   /\ StillSafe(RouteDeadlineFor(c) - Margin)
          BY <1>a, <1>b, <5>2, StillSafeBound DEF PresenceTypeOK
        <5>3. QED
          BY <5>1, <5>2 DEF LogicHeartbeat, HeartbeatAccepted
      <4>3. QED
        BY <1>a, <2>1, <3>4, <4>1, <4>2 DEF GrantedHoldsRoute
    <3>5. CASE d # c
      <4>1. safe'[d] = safe[d]
        BY <3>5 DEF LogicHeartbeat, HeartbeatAccepted, PresenceTypeOK
      <4>2. UserOf[d] = UserOf[c] => ~HoldsRoute(d)
        BY <3>1, <3>5 DEF HoldsRoute
      <4>3. HoldsRoute(d) => HoldsRoute(d)'
        BY <1>c, <2>3, <4>1, <4>2 DEF HoldsRoute, PresenceTypeOK, StoreTypeOK
      <4>4. QED
        BY <1>a, <2>1, <4>1, <4>3 DEF GrantedHoldsRoute
    <3>6. QED
      BY <3>4, <3>5
  <2>4. QED
    BY <2>2, <2>3
<1>5. RequestsInFlight'
  BY DEF LogicHeartbeat, HeartbeatAccepted, Heartbeat, CheckReply, Same, storeVars, procVars,
         sockVars,
         history, PresenceTypeOK, StoreTypeOK, RequestsInFlight, GrantedHoldsRoute, InHub
<1>6. OwnersNotSuperseded'
  BY DEF LogicHeartbeat, HeartbeatAccepted, Heartbeat, CheckReply, Same, storeVars, procVars,
         sockVars,
         history, PresenceTypeOK, StoreTypeOK, LeasesBounded, OwnersNotSuperseded,
         RequestsInFlight, RouteLease
<1>7. DrainedStaysEmpty'
  BY DEF LogicHeartbeat, HeartbeatAccepted, Heartbeat, CheckReply, Same, storeVars, procVars,
         sockVars,
         history, PresenceTypeOK, StoreTypeOK, DrainedStaysEmpty, Draining, InHub
<1>8. QED
  BY <1>1, <1>2, <1>3, <1>4, <1>5, <1>6, <1>7

\* Disconnect removes the route of its own, closing, connection only.
LEMMA LogicDisconnectInv ==
    ASSUME PresenceInv, NEW c \in Connection, NEW lost \in BOOLEAN, LogicDisconnect(c, lost)
    PROVE  PresenceInv'
<1> USE DEF PresenceInv
<1>1. PresenceTypeOK'
  BY DEF LogicDisconnect, Disconnect, OwnsRoute, Same, storeVars, procVars, sockVars, history,
         PresenceTypeOK, StoreTypeOK, ProcState, SockState, InHub, InstanceLease, RouteLease
<1>2. LeasesBounded'
  BY DEF LogicDisconnect, Disconnect, OwnsRoute, Same, storeVars, procVars, sockVars, history,
         PresenceTypeOK, StoreTypeOK, LeasesBounded, InstanceLease, RouteLease
<1>3. ServingHoldsLease'
  BY DEF LogicDisconnect, Disconnect, OwnsRoute, Same, storeVars, procVars, sockVars, history,
         PresenceTypeOK, StoreTypeOK, LeasesBounded, ServingHoldsLease, RequestsInFlight,
         InstanceLease
<1>4. GrantedHoldsRoute'
  BY DEF LogicDisconnect, Disconnect, OwnsRoute, Same, storeVars, procVars, sockVars, history,
         PresenceTypeOK, StoreTypeOK, LeasesBounded, GrantedHoldsRoute, HoldsRoute,
         RequestsInFlight, InHub, RouteLease
<1>5. RequestsInFlight'
  BY DEF LogicDisconnect, Disconnect, OwnsRoute, Same, storeVars, procVars, sockVars, history,
         PresenceTypeOK, StoreTypeOK, RequestsInFlight, GrantedHoldsRoute, InHub
<1>6. OwnersNotSuperseded'
  BY DEF LogicDisconnect, Disconnect, OwnsRoute, Same, storeVars, procVars, sockVars, history,
         PresenceTypeOK, StoreTypeOK, LeasesBounded, OwnersNotSuperseded, RequestsInFlight,
         RouteLease
<1>7. DrainedStaysEmpty'
  BY DEF LogicDisconnect, Disconnect, OwnsRoute, Same, storeVars, procVars, sockVars, history,
         PresenceTypeOK, StoreTypeOK, DrainedStaysEmpty, Draining, InHub
<1>8. QED
  BY <1>1, <1>2, <1>3, <1>4, <1>5, <1>6, <1>7

\* A Kick, late or lost, preserves the invariant.
LEMMA KickWorkerInv ==
    ASSUME PresenceInv, NEW c \in Connection, NEW lost \in BOOLEAN, KickWorker(c, lost)
    PROVE  PresenceInv'
<1> USE DEF PresenceInv
<1>1. PresenceTypeOK'
  BY DEF KickWorker, storeVars, procVars, sockVars, history, PresenceTypeOK, StoreTypeOK,
         ProcState, SockState, InHub, InstanceLease, RouteLease
<1>2. LeasesBounded'
  BY DEF KickWorker, storeVars, procVars, sockVars, history, PresenceTypeOK, StoreTypeOK,
         LeasesBounded, InstanceLease, RouteLease
<1>3. ServingHoldsLease'
  BY DEF KickWorker, storeVars, procVars, sockVars, history, PresenceTypeOK, StoreTypeOK,
         LeasesBounded, ServingHoldsLease, RequestsInFlight, InstanceLease
<1>4. GrantedHoldsRoute'
  BY DEF KickWorker, storeVars, procVars, sockVars, history, PresenceTypeOK, StoreTypeOK,
         LeasesBounded, GrantedHoldsRoute, HoldsRoute, RequestsInFlight, InHub, RouteLease
<1>5. RequestsInFlight'
  BY DEF KickWorker, storeVars, procVars, sockVars, history, PresenceTypeOK, StoreTypeOK,
         RequestsInFlight, GrantedHoldsRoute, InHub
<1>6. OwnersNotSuperseded'
  BY DEF KickWorker, storeVars, procVars, sockVars, history, PresenceTypeOK, StoreTypeOK,
         LeasesBounded, OwnersNotSuperseded, RequestsInFlight, RouteLease
<1>7. DrainedStaysEmpty'
  BY DEF KickWorker, storeVars, procVars, sockVars, history, PresenceTypeOK, StoreTypeOK,
         DrainedStaysEmpty, Draining, InHub
<1>8. QED
  BY <1>1, <1>2, <1>3, <1>4, <1>5, <1>6, <1>7

\* Time passes only while no Comet is overdue, so no lease in use runs out.
LEMMA TickInv ==
    ASSUME PresenceInv, Tick
    PROVE  PresenceInv'
<1> USE DEF PresenceInv
<1>1. PresenceTypeOK'
  BY DEF Tick, Advance, Overdue, OverdueBoot, storeVars, procVars, sockVars, history,
         PresenceTypeOK, StoreTypeOK, ProcState, SockState, InHub, InstanceLease, RouteLease
<1>2. LeasesBounded'
  BY DEF Tick, Advance, Overdue, OverdueBoot, storeVars, procVars, sockVars, history,
         PresenceTypeOK, StoreTypeOK, LeasesBounded, InstanceLease, RouteLease
<1>3. ServingHoldsLease'
  BY DEF Tick, Advance, Overdue, OverdueBoot, storeVars, procVars, sockVars, history,
         PresenceTypeOK, StoreTypeOK, LeasesBounded, ServingHoldsLease, RequestsInFlight,
         InstanceLease
<1>4. GrantedHoldsRoute'
  BY DEF Tick, Advance, Overdue, OverdueBoot, storeVars, procVars, sockVars, history,
         PresenceTypeOK, StoreTypeOK, LeasesBounded, GrantedHoldsRoute, HoldsRoute,
         RequestsInFlight, InHub, RouteLease
<1>5. RequestsInFlight'
  BY DEF Tick, Advance, Overdue, OverdueBoot, storeVars, procVars, sockVars, history,
         PresenceTypeOK, StoreTypeOK, RequestsInFlight, GrantedHoldsRoute, InHub
<1>6. OwnersNotSuperseded'
  BY DEF Tick, Advance, Overdue, OverdueBoot, storeVars, procVars, sockVars, history,
         PresenceTypeOK, StoreTypeOK, LeasesBounded, OwnersNotSuperseded, RequestsInFlight,
         RouteLease
<1>7. DrainedStaysEmpty'
  BY DEF Tick, Advance, Overdue, OverdueBoot, storeVars, procVars, sockVars, history,
         PresenceTypeOK, StoreTypeOK, DrainedStaysEmpty, Draining, InHub
<1>8. QED
  BY <1>1, <1>2, <1>3, <1>4, <1>5, <1>6, <1>7

\* Redis expires only instance leases that no serving process relies on.
LEMMA ExpireInstanceInv ==
    ASSUME PresenceInv, NEW i \in Instance, ExpireInstance(i) /\ UNCHANGED <<procVars, sockVars, kicks, history>>
    PROVE  PresenceInv'
<1> USE DEF PresenceInv
<1>1. PresenceTypeOK'
  BY DEF ExpireInstance, storeVars, procVars, sockVars, history, PresenceTypeOK,
         StoreTypeOK, ProcState, SockState, InHub, InstanceLease, RouteLease
<1>2. LeasesBounded'
  BY DEF ExpireInstance, storeVars, procVars, sockVars, history, PresenceTypeOK,
         StoreTypeOK, LeasesBounded, InstanceLease, RouteLease
<1>3. ServingHoldsLease'
  BY DEF ExpireInstance, storeVars, procVars, sockVars, history, PresenceTypeOK,
         StoreTypeOK, LeasesBounded, ServingHoldsLease, RequestsInFlight, InstanceLease
<1>4. GrantedHoldsRoute'
  BY DEF ExpireInstance, storeVars, procVars, sockVars, history, PresenceTypeOK,
         StoreTypeOK, LeasesBounded, GrantedHoldsRoute, HoldsRoute, RequestsInFlight, InHub,
         RouteLease
<1>5. RequestsInFlight'
  BY DEF ExpireInstance, storeVars, procVars, sockVars, history, PresenceTypeOK,
         StoreTypeOK, RequestsInFlight, GrantedHoldsRoute, InHub
<1>6. OwnersNotSuperseded'
  BY DEF ExpireInstance, storeVars, procVars, sockVars, history, PresenceTypeOK,
         StoreTypeOK, LeasesBounded, OwnersNotSuperseded, RequestsInFlight, RouteLease
<1>7. DrainedStaysEmpty'
  BY DEF ExpireInstance, storeVars, procVars, sockVars, history, PresenceTypeOK,
         StoreTypeOK, DrainedStaysEmpty, Draining, InHub
<1>8. QED
  BY <1>1, <1>2, <1>3, <1>4, <1>5, <1>6, <1>7

\* Redis expires only routes that no served connection relies on.
LEMMA ExpireRouteInv ==
    ASSUME PresenceInv, NEW u \in User, ExpireRoute(u) /\ UNCHANGED <<procVars, sockVars, kicks, history>>
    PROVE  PresenceInv'
<1> USE DEF PresenceInv
<1>1. PresenceTypeOK'
  BY DEF ExpireRoute, storeVars, procVars, sockVars, history, PresenceTypeOK, StoreTypeOK,
         ProcState, SockState, InHub, InstanceLease, RouteLease
<1>2. LeasesBounded'
  BY DEF ExpireRoute, storeVars, procVars, sockVars, history, PresenceTypeOK, StoreTypeOK,
         LeasesBounded, InstanceLease, RouteLease
<1>3. ServingHoldsLease'
  BY DEF ExpireRoute, storeVars, procVars, sockVars, history, PresenceTypeOK, StoreTypeOK,
         LeasesBounded, ServingHoldsLease, RequestsInFlight, InstanceLease
<1>4. GrantedHoldsRoute'
  BY DEF ExpireRoute, storeVars, procVars, sockVars, history, PresenceTypeOK, StoreTypeOK,
         LeasesBounded, GrantedHoldsRoute, HoldsRoute, RequestsInFlight, InHub, RouteLease
<1>5. RequestsInFlight'
  BY DEF ExpireRoute, storeVars, procVars, sockVars, history, PresenceTypeOK, StoreTypeOK,
         RequestsInFlight, GrantedHoldsRoute, InHub
<1>6. OwnersNotSuperseded'
  BY DEF ExpireRoute, storeVars, procVars, sockVars, history, PresenceTypeOK, StoreTypeOK,
         LeasesBounded, OwnersNotSuperseded, RequestsInFlight, RouteLease
<1>7. DrainedStaysEmpty'
  BY DEF ExpireRoute, storeVars, procVars, sockVars, history, PresenceTypeOK, StoreTypeOK,
         DrainedStaysEmpty, Draining, InHub
<1>8. QED
  BY <1>1, <1>2, <1>3, <1>4, <1>5, <1>6, <1>7

\* Every step preserves the inductive invariant.
LEMMA NextInv == PresenceInv /\ [Next]_vars => PresenceInv'
<1> SUFFICES ASSUME PresenceInv, [Next]_vars
             PROVE  PresenceInv'
  OBVIOUS
<1>1. CASE \E b \in Boot : ProcNext(b)
  BY <1>1, StartInstanceInv, RegisterCometInv, RegisterUncertainInv, RenewCometInv,
     StopInstanceInv, UnregisterCometInv, CrashInv, DrainInv, DrainTimerInv DEF ProcNext
<1>2. CASE \E c \in Connection : SockNext(c)
  BY <1>2, OpenInv, LogicConnectInv, ActivateInv, CloseSocketInv, SendHeartbeatInv,
     LogicHeartbeatInv, LogicDisconnectInv, KickWorkerInv DEF SockNext
<1>3. CASE Tick
  BY <1>3, TickInv
<1>4. CASE Expire
  BY <1>4, ExpireInstanceInv, ExpireRouteInv DEF Expire
<1>5. CASE UNCHANGED vars
  BY <1>5 DEF vars, storeVars, procVars, sockVars, history, PresenceInv, PresenceTypeOK,
              StoreTypeOK, LeasesBounded, ServingHoldsLease, GrantedHoldsRoute, HoldsRoute,
              RequestsInFlight, OwnersNotSuperseded, DrainedStaysEmpty
<1>6. QED
  BY <1>1, <1>2, <1>3, <1>4, <1>5 DEF Next

-----------------------------------------------------------------------------

\* Every reachable state of the composed presence protocol satisfies the
\* inductive invariant, its type invariant included.
THEOREM PresenceInvariant == Spec => []PresenceInv
BY InitInv, NextInv, PTL DEF Spec

\* A connection that a Comet serves and that was not taken over is always the
\* one LookupRoutes answers (routeDeadline, instance.run and the Lua scripts).
THEOREM ServedConnectionsAreReachable == Spec => []ActiveIsReachable
BY PresenceInvariant, InvReachable, PTL

\* At most one process serves under an instance_id at any time.
THEOREM InstanceExclusion == Spec => []OneBootPerInstance
BY PresenceInvariant, InvOneBoot, PTL

\* No Kick waiting in Service.kicks is aimed at the owner of a route.
THEOREM KicksNeverHitTheOwner == Spec => []KicksSpareTheOwner
BY PresenceInvariant, InvKicks, PTL

\* Once the drain deadline of a Comet has passed no connection is in its Hub again
\* (Hub.register and Hub.activate look at the drain state, the timer fires once).
THEOREM DrainedHubStaysEmpty == Spec => []DrainedStaysEmpty
BY PresenceInvariant, PTL DEF PresenceInv

-----------------------------------------------------------------------------
(* The Comets implement SocketLife. *)

LEMMA StageFacts ==
    ASSUME PresenceInv, NEW c \in Connection
    PROVE  /\ sock[c] \in InHub <=> Stage(c) \in {"pending", "active"}
           /\ sock[c] = "idle" <=> Stage(c) = "idle"
           /\ BootOf[c] \in Boot
<1>1. sock[c] \in SockState
  BY DEF PresenceInv, PresenceTypeOK
<1>. QED
  BY <1>1 DEF Stage, SockState, InHub

\* A step in which connections only leave the Hub or end, or nothing happens.
LEMMA Departs ==
    ASSUME PresenceInv,
           \A b \in Boot : Draining(b)' <=> Draining(b),
           \A c \in Connection :
              \/ Stage(c)' = Stage(c)
              \/ sock[c] \in InHub /\ Stage(c)' = "closing"
              \/ sock[c] # "idle" /\ Stage(c)' = "done"
    PROVE  Life!Depart
<1> DEFINE gone == {c \in Connection : sock[c] \in InHub /\ Stage(c)' = "closing"}
           over == {c \in Connection : sock[c] # "idle" /\ Stage(c)' = "done"}
           life == [c \in Connection |-> Stage(c)]
<1>1. /\ gone \in SUBSET {c \in Connection : life[c] # "idle"}
      /\ over \in SUBSET {c \in Connection : life[c] # "idle"}
  BY StageFacts
<1>2. \A c \in gone : life[c] \in {"pending", "active"}
  BY StageFacts
<1>3. life' = [c \in Connection |->
                 IF c \in over THEN "done" ELSE IF c \in gone THEN "closing" ELSE life[c]]
  OBVIOUS
<1>4. [b \in Boot |-> Draining(b)]' = [b \in Boot |-> Draining(b)]
  BY DEF Draining
<1>. QED
  BY <1>1, <1>2, <1>3, <1>4 DEF Life!Depart, Life!Listed

\* The same, said of the handlers.
LEMMA SocketsDepart ==
    ASSUME PresenceInv, drain' = drain,
           \A c \in Connection :
              \/ sock'[c] = sock[c]
              \/ sock[c] \in InHub /\ sock'[c] = "closing"
              \/ sock[c] # "idle" /\ sock'[c] = "done"
              \/ sock[c] = "pending" /\ sock'[c] = "granted"
    PROVE  Life!Depart
<1>1. \A b \in Boot : Draining(b)' <=> Draining(b)
  BY DEF Draining
<1>2. \A c \in Connection :
         \/ Stage(c)' = Stage(c)
         \/ sock[c] \in InHub /\ Stage(c)' = "closing"
         \/ sock[c] # "idle" /\ Stage(c)' = "done"
  BY DEF Stage
<1>. QED
  BY <1>1, <1>2, Departs

\* The steps that leave the Hubs alone.
LEMMA QuietSteps ==
    ASSUME PresenceInv, sock' = sock, drain' = drain
    PROVE  Life!Depart
BY SocketsDepart

\* Hub.Close, at the end of the renewal loop and at the drain deadline.
LEMMA HubCloseDeparts ==
    ASSUME PresenceInv, NEW b \in Boot, sock' = HubClosed(b),
           \A a \in Boot : Draining(a)' <=> Draining(a)
    PROVE  Life!Depart
<1>1. \A c \in Connection : sock'[c] = sock[c] \/ (sock[c] \in InHub /\ sock'[c] = "closing")
  BY DEF HubClosed
<1>2. \A c \in Connection :
         Stage(c)' = Stage(c) \/ (sock[c] \in InHub /\ Stage(c)' = "closing")
  BY <1>1 DEF Stage
<1>. QED
  BY <1>2, Departs

LEMMA ProcImplements ==
    ASSUME PresenceInv, NEW b \in Boot, ProcNext(b)
    PROVE  Life!Depart \/ Life!Drain(b)
<1>1. CASE StartInstance(b)
  BY <1>1, QuietSteps DEF StartInstance, sockVars
<1>2. CASE \E heard \in BOOLEAN : RegisterComet(b, heard)
  BY <1>2, QuietSteps DEF RegisterComet, sockVars
<1>3. CASE \E heard \in BOOLEAN : RenewComet(b, heard)
  <2>1. drain' = drain /\ (sock' = sock \/ sock' = HubClosed(b))
    BY <1>3 DEF RenewComet
  <2>2. \A a \in Boot : Draining(a)' <=> Draining(a)
    BY <2>1 DEF Draining
  <2>. QED
    BY <2>1, <2>2, QuietSteps, HubCloseDeparts
<1>4. CASE RegisterUncertain(b)
  BY <1>4, QuietSteps DEF RegisterUncertain, sockVars
<1>5. CASE StopInstance(b)
  <2>1. drain' = drain /\ sock' = HubClosed(b)
    BY <1>5 DEF StopInstance
  <2>2. \A a \in Boot : Draining(a)' <=> Draining(a)
    BY <2>1 DEF Draining
  <2>. QED
    BY <2>1, <2>2, HubCloseDeparts
<1>6. CASE \E lost \in BOOLEAN : UnregisterComet(b, lost)
  BY <1>6, QuietSteps DEF UnregisterComet, sockVars
<1>7. CASE Crash(b)
  <2>1. drain' = drain
    BY <1>7 DEF Crash
  <2>2. \A c \in Connection : sock'[c] = sock[c] \/ (sock[c] # "idle" /\ sock'[c] = "done")
    BY <1>7 DEF Crash
  <2>. QED
    BY <2>1, <2>2, SocketsDepart
<1>8. CASE Drain(b)
  <2>1. sock' = sock /\ drain' = [drain EXCEPT ![b] = "draining"]
    BY <1>8 DEF Drain, sockVars
  <2>2. drain \in [Boot -> {"no", "draining", "over"}]
    BY DEF PresenceInv, PresenceTypeOK
  <2>3. Draining(b)' /\ \A a \in Boot : a # b => (Draining(a)' <=> Draining(a))
    BY <2>1, <2>2 DEF Draining
  <2>4. [a \in Boot |-> Draining(a)]' = [[a \in Boot |-> Draining(a)] EXCEPT ![b] = TRUE]
    BY <2>3 DEF Draining
  <2>5. [c \in Connection |-> Stage(c)]' = [c \in Connection |-> Stage(c)]
    BY <2>1 DEF Stage
  <2>. QED
    BY <2>4, <2>5 DEF Life!Drain
<1>9. CASE DrainTimer(b)
  <2>1. sock' = HubClosed(b) /\ drain[b] = "draining" /\ drain' = [drain EXCEPT ![b] = "over"]
    BY <1>9 DEF DrainTimer
  <2>2. drain \in [Boot -> {"no", "draining", "over"}]
    BY DEF PresenceInv, PresenceTypeOK
  <2>3. \A a \in Boot : Draining(a)' <=> Draining(a)
    BY <2>1, <2>2 DEF Draining
  <2>. QED
    BY <2>1, <2>3, HubCloseDeparts
<1>. QED
  BY <1>1, <1>2, <1>3, <1>4, <1>5, <1>6, <1>7, <1>8, <1>9 DEF ProcNext

\* Open enters the Hub and replaces the user's other connection there.
LEMMA OpenImplements ==
    ASSUME PresenceInv, NEW c \in Connection, Open(c)
    PROVE  Life!Enter(c)
<1> DEFINE life == [d \in Connection |-> Stage(d)]
           Rival(d) == d # c /\ UserOf[d] = UserOf[c] /\ BootOf[d] = BootOf[c] /\ sock[d] \in InHub
<1>1. /\ sock[c] = "idle" /\ ~Draining(BootOf[c]) /\ drain' = drain
      /\ \A d \in Connection :
            sock'[d] = IF d = c THEN "pending" ELSE IF Rival(d) THEN "closing" ELSE sock[d]
  BY DEF Open, Ready, procVars
<1>2. \A d \in Connection : d \in Life!Rivals(c) <=> Rival(d)
  BY StageFacts DEF Life!Rivals, Life!Listed
<1>3. Stage(c) = "idle" /\ Stage(c)' = "pending"
  BY <1>1 DEF Stage
<1>4. \A d \in Connection : d # c => Stage(d)' = IF Rival(d) THEN "closing" ELSE Stage(d)
  BY <1>1 DEF Stage
<1>5. life' = [d \in Connection |->
                 IF d = c THEN "pending"
                 ELSE IF d \in Life!Rivals(c) THEN "closing" ELSE life[d]]
  BY <1>2, <1>3, <1>4
<1>6. [b \in Boot |-> Draining(b)]' = [b \in Boot |-> Draining(b)]
  BY <1>1 DEF Draining
<1>7. life[c] = "idle" /\ ~[b \in Boot |-> Draining(b)][BootOf[c]]
  BY <1>1, <1>3, StageFacts
<1>. QED
  BY <1>5, <1>6, <1>7 DEF Life!Enter

LEMMA ActivateImplements ==
    ASSUME PresenceInv, NEW c \in Connection, Activate(c)
    PROVE  Life!Activate(c) \/ Life!Depart
<1>1. /\ sock[c] = "granted" /\ drain' = drain /\ sock \in [Connection -> SockState]
  BY DEF Activate, procVars, PresenceInv, PresenceTypeOK
<1>2. CASE StillSafe(safe[c]) /\ ~Draining(BootOf[c])
  <2> DEFINE life == [d \in Connection |-> Stage(d)]
  <2>1. sock' = [sock EXCEPT ![c] = "active"]
    BY <1>2 DEF Activate
  <2>2. Stage(c) = "pending" /\ Stage(c)' = "active"
    BY <1>1, <2>1 DEF Stage
  <2>3. \A d \in Connection : d # c => Stage(d)' = Stage(d)
    BY <1>1, <2>1 DEF Stage
  <2>4. life' = [life EXCEPT ![c] = "active"]
    BY <2>2, <2>3
  <2>5. [b \in Boot |-> Draining(b)]' = [b \in Boot |-> Draining(b)]
    BY <1>1 DEF Draining
  <2>6. life[c] = "pending" /\ ~[b \in Boot |-> Draining(b)][BootOf[c]]
    BY <1>2, <2>2, StageFacts
  <2>. QED
    BY <2>4, <2>5, <2>6 DEF Life!Activate
<1>3. CASE ~(StillSafe(safe[c]) /\ ~Draining(BootOf[c]))
  <2>1. sock' = [sock EXCEPT ![c] = "closing"]
    BY <1>3 DEF Activate
  <2>2. \A d \in Connection : sock'[d] = sock[d] \/ (sock[d] \in InHub /\ sock'[d] = "closing")
    BY <1>1, <2>1 DEF InHub
  <2>. QED
    BY <1>1, <2>2, SocketsDepart
<1>. QED
  BY <1>2, <1>3

LEMMA SockImplements ==
    ASSUME PresenceInv, NEW c \in Connection, SockNext(c)
    PROVE  Life!Enter(c) \/ Life!Activate(c) \/ Life!Depart
<1>0. sock \in [Connection -> SockState]
  BY DEF PresenceInv, PresenceTypeOK
<1>1. CASE Open(c)
  BY <1>1, OpenImplements
<1>2. CASE Activate(c)
  BY <1>2, ActivateImplements
<1>3. CASE \E heard \in BOOLEAN : LogicConnect(c, heard)
  <2>1. /\ drain' = drain
        /\ \/ sock' = sock
           \/ sock[c] = "pending" /\ sock' = [sock EXCEPT ![c] = "granted"]
           \/ sock[c] = "pending" /\ sock' = [sock EXCEPT ![c] = "closing"]
    BY <1>3 DEF LogicConnect, procVars
  <2>. QED
    BY <1>0, <2>1, SocketsDepart DEF InHub
<1>4. CASE \/ \E heard \in BOOLEAN : LogicHeartbeat(c, heard)
           \/ CloseSocket(c)
           \/ \E lost \in BOOLEAN : KickWorker(c, lost)
  <2>1. /\ drain' = drain
        /\ \/ sock' = sock
           \/ sock[c] \in InHub /\ sock' = [sock EXCEPT ![c] = "closing"]
    BY <1>4 DEF LogicHeartbeat, CloseSocket, KickWorker, procVars, InHub
  <2>. QED
    BY <1>0, <2>1, SocketsDepart
<1>5. CASE SendHeartbeat(c)
  BY <1>5, QuietSteps DEF SendHeartbeat, procVars
<1>6. CASE \E lost \in BOOLEAN : LogicDisconnect(c, lost)
  <2>1. drain' = drain /\ sock[c] = "closing" /\ sock' = [sock EXCEPT ![c] = "done"]
    BY <1>6 DEF LogicDisconnect, procVars
  <2>. QED
    BY <1>0, <2>1, SocketsDepart
<1>. QED
  BY <1>1, <1>2, <1>3, <1>4, <1>5, <1>6 DEF SockNext

\* The processes, their sockets, Logic and the lease store together give every
\* connection the life SocketLife describes, in every Hub at once: late Connects,
\* kicks, lost replies, crashes and drains included.  With HubImplementsLife this is
\* what justifies the Hub of this module against the one of CometHub.
THEOREM PresenceImplementsLife == Spec => ImplementsLife
<1>1. Init => Life!Init
  <2> SUFFICES ASSUME Init PROVE Life!Init
    OBVIOUS
  <2>1. \A c \in Connection : Stage(c) = "idle"
    BY DEF Init, Stage
  <2>2. \A b \in Boot : Draining(b) = FALSE
    BY DEF Init, Draining
  <2>. QED
    BY <2>1, <2>2 DEF Life!Init
<1>2. PresenceInv /\ [Next]_vars => [Life!Next]_(Life!vars)
  <2> SUFFICES ASSUME PresenceInv, [Next]_vars
               PROVE  Life!Next
    OBVIOUS
  <2>1. CASE \E b \in Boot : ProcNext(b)
    BY <2>1, ProcImplements DEF Life!Next
  <2>2. CASE \E c \in Connection : SockNext(c)
    BY <2>2, SockImplements DEF Life!Next
  <2>3. CASE Tick \/ Expire \/ UNCHANGED vars
    <3>1. sock' = sock /\ drain' = drain
      BY <2>3 DEF Tick, Expire, vars, procVars, sockVars
    <3>. QED
      BY <3>1, QuietSteps DEF Life!Next
  <2>. QED
    BY <2>1, <2>2, <2>3 DEF Next
<1>. QED
  BY <1>1, <1>2, PresenceInvariant, PTL DEF Spec, ImplementsLife, Life!Spec

=============================================================================
