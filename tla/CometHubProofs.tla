--------------------------- MODULE CometHubProofs ---------------------------
(***************************************************************************)
(* Proofs about CometHub, for any number of users and connections, any     *)
(* queue size and any length of time.  The argument: the table holds only  *)
(* open connections (TableIsOpen), and every command that closes a         *)
(* connection takes it out of the table in the same step (RemoveFacts,     *)
(* InsertFacts), so nothing is closed twice; everything else follows the   *)
(* phases of a handler.                                                    *)
(***************************************************************************)
EXTENDS CometHub, TLAPS

-----------------------------------------------------------------------------
(* the two ways the table changes *)

LEMMA RemoveFacts ==
    ASSUME HubTypeOK, NEW S \in SUBSET Connection, Remove(S)
    PROVE  /\ clients' \in [User -> Connection \cup {Nil}]
           /\ closes' \in [Connection -> Nat]
           /\ \A u \in User : clients'[u] = Nil \/ clients'[u] = clients[u]
           /\ \A c \in Connection : Listed(c)' <=> Listed(c) /\ c \notin S
           /\ \A c \in Connection :
                 closes'[c] = IF c \in S /\ Listed(c) THEN closes[c] + 1 ELSE closes[c]
  BY HubConstants DEF HubTypeOK, Remove, CloseDone, Listed

LEMMA InsertFacts ==
    ASSUME HubTypeOK, TableIsOpen, NEW c \in Connection, Insert(c)
    PROVE  /\ clients' \in [User -> Connection \cup {Nil}]
           /\ closes' \in [Connection -> Nat]
           /\ \A u \in User : clients'[u] = IF u = UserOf[c] THEN c ELSE clients[u]
           /\ \A d \in Connection :
                 Listed(d)' <=> d = c \/ (Listed(d) /\ UserOf[d] # UserOf[c])
           /\ \A d \in Connection :
                 closes'[d] = IF d # c /\ UserOf[d] = UserOf[c] /\ Listed(d)
                              THEN closes[d] + 1 ELSE closes[d]
  BY HubConstants DEF HubTypeOK, Insert, CloseDone, Listed

LEMMA UnregisterFacts ==
    ASSUME HubTypeOK, NEW c \in Connection, Unregister(c)
    PROVE  /\ clients' \in [User -> Connection \cup {Nil}]
           /\ closes' \in [Connection -> Nat]
           /\ \A u \in User : clients'[u] = Nil \/ clients'[u] = clients[u]
           /\ \A d \in Connection : Listed(d)' => Listed(d)
           /\ \A d \in Connection : d # c => (Listed(d)' <=> Listed(d))
           /\ hub = "running" => ~Listed(c)'
           /\ \A d \in Connection : d # c \/ ~Listed(d) => closes'[d] = closes[d]
           /\ Listed(c) => \/ Listed(c)' /\ closes'[c] = closes[c]
                           \/ ~Listed(c)' /\ closes'[c] = closes[c] + 1
  <1>1. CASE hub = "running"
    <2>1. Remove({c})
      BY <1>1 DEF Unregister
    <2> QED
      BY <1>1, <2>1, RemoveFacts
  <1>2. CASE hub # "running"
    BY <1>2 DEF Unregister, HubTypeOK, Listed
  <1> QED
    BY <1>1, <1>2

LEMMA InitInv == Init => HubInv
  <1> SUFFICES ASSUME Init PROVE HubInv
    OBVIOUS
  <1>1. HubTypeOK
    <2>1. /\ now \in Nat /\ deadline \in Nat /\ closes \in [Connection -> Nat]
          /\ outbound \in [Connection -> 0..QueueSize]
      BY HubConstants DEF Init
    <2>2. /\ hub \in {"running", "closing", "stopped"}
          /\ handler \in [Connection -> HandlerPhase]
          /\ writer \in [Connection -> {"none", "running", "unregister", "ended"}]
          /\ beat \in [Connection -> {"none", "running", "ended"}]
          /\ clients \in [User -> Connection \cup {Nil}]
      BY DEF Init, HandlerPhase
    <2>3. /\ draining \in BOOLEAN /\ timer \in BOOLEAN
          /\ pending \in [Connection -> BOOLEAN] /\ cancelled \in [Connection -> BOOLEAN]
          /\ granted \in [Connection -> BOOLEAN]
      BY Zenon DEF Init
    <2> QED
      BY <2>1, <2>2, <2>3 DEF HubTypeOK
  <1>2. \A c \in Connection : ~Listed(c)
    BY HubConstants DEF Init, Listed
  <1>3. ClosedOnce /\ NoOrphans
    BY <1>2 DEF Init, ClosedOnce, NoOrphans
  <1>4. TableIsOpen
    BY <1>2 DEF Init, TableIsOpen
  <1>5. OpenIsListed /\ FreshHandlers
    BY DEF Init, OpenIsListed, FreshHandlers, Watched
  <1>6. GrantComesFirst
    BY DEF Init, GrantComesFirst
  <1>7. DrainArmed
    BY DEF Init, DrainArmed
  <1> QED
    BY <1>1, <1>3, <1>4, <1>5, <1>6, <1>7 DEF HubInv

-----------------------------------------------------------------------------
(* commands of the owner loop *)

\* A step that removes a set of connections, for whatever reason.
LEMMA RemoveKeeps ==
    ASSUME HubInv, NEW S \in SUBSET Connection, Remove(S),
           hub' \in {"running", "closing", "stopped"}, hub' = "running" => hub = "running",
           draining' = draining, deadline' = deadline,
           timer' = timer \/ (S = Connection /\ timer' = FALSE),
           hub' = "stopped" => timer' = FALSE,
           now' = now, pending' = pending, outbound' = outbound, UNCHANGED socketVars
    PROVE  HubInv'
  <1>0. HubTypeOK
    BY DEF HubInv
  <1>1. HubTypeOK'
    BY <1>0, RemoveFacts DEF HubTypeOK, socketVars
  <1>2. ClosedOnce' /\ TableIsOpen' /\ OpenIsListed' /\ NoOrphans'
    BY <1>0, RemoveFacts DEF HubInv, HubTypeOK, ClosedOnce, TableIsOpen, OpenIsListed, NoOrphans,
       Listed, socketVars
  <1>3. FreshHandlers' /\ GrantComesFirst'
    BY <1>0, RemoveFacts DEF HubInv, TableIsOpen, FreshHandlers, GrantComesFirst, socketVars
  <1>4. DrainArmed'
    <2>1. ASSUME draining, hub' = "running", NEW u \in User, clients'[u] # Nil
          PROVE  timer'
      <3>1. clients[u] # Nil /\ hub = "running"
        BY <1>0, <2>1, RemoveFacts
      <3>2. timer
        BY <2>1, <3>1 DEF HubInv, DrainArmed
      <3>3. S # Connection
        BY <1>0, <2>1 DEF HubTypeOK, Remove
      <3> QED
        BY <3>2, <3>3
    <2>2. timer' => draining' /\ hub' # "stopped"
      BY DEF HubInv, DrainArmed
    <2> QED
      BY <2>1, <2>2 DEF DrainArmed
  <1> QED
    BY <1>1, <1>2, <1>3, <1>4 DEF HubInv

LEMMA HubStep ==
    ASSUME HubInv, HubNext
    PROVE  HubInv'
  <1>1. ASSUME NEW c \in Connection, Kick(c)
        PROVE  HubInv'
    BY <1>1, RemoveKeeps DEF Kick, HubInv, HubTypeOK, DrainArmed
  <1>2. ASSUME NEW targets \in SUBSET Connection, Deliver(targets)
        PROVE  HubInv'
    <2> DEFINE live == IF draining /\ now >= deadline THEN {}
                       ELSE {c \in targets : Receives(c)}
               full == {c \in live : outbound[c] = QueueSize}
    <2>0. HubTypeOK
      BY DEF HubInv
    <2>1. /\ Remove(full) /\ full \in SUBSET Connection /\ hub = "running"
          /\ outbound' = [c \in Connection |->
                            IF c \in live \ full THEN outbound[c] + 1 ELSE outbound[c]]
          /\ UNCHANGED <<now, hub, draining, deadline, timer, pending, socketVars>>
      BY <1>2 DEF Deliver
    <2> HIDE DEF full
    <2>2. \A c \in Connection : outbound'[c] # outbound[c] => ~pending[c]
      BY <2>1 DEF Receives
    <2>3. outbound' \in [Connection -> 0..QueueSize]
      BY <2>0, <2>1, HubConstants DEF full, HubTypeOK
    <2>4. HubTypeOK'
      BY <2>0, <2>1, <2>3, RemoveFacts DEF HubTypeOK, socketVars
    <2>5. ClosedOnce' /\ TableIsOpen' /\ OpenIsListed' /\ NoOrphans'
      BY <2>0, <2>1, RemoveFacts DEF HubInv, HubTypeOK, ClosedOnce, TableIsOpen, OpenIsListed,
         NoOrphans, Listed, socketVars
    <2>6. FreshHandlers' /\ GrantComesFirst'
      BY <2>0, <2>1, <2>2, RemoveFacts DEF HubInv, TableIsOpen, FreshHandlers, GrantComesFirst,
         socketVars
    <2>7. DrainArmed'
      BY <2>0, <2>1, RemoveFacts DEF HubInv, DrainArmed
    <2> QED
      BY <2>4, <2>5, <2>6, <2>7 DEF HubInv
  <1>3. ASSUME NEW d \in 1..MaxTime, Drain(d)
        PROVE  HubInv'
    <2>0. HubTypeOK
      BY DEF HubInv
    <2>1. HubTypeOK'
      <3>1. draining' \in BOOLEAN /\ timer' \in BOOLEAN
        BY <1>3, <2>0, Zenon DEF Drain, HubTypeOK
      <3>2. deadline' \in Nat
        BY <1>3, <2>0, HubConstants DEF Drain, HubTypeOK
      <3>3. UNCHANGED <<now, hub, clients, connVars, socketVars>>
        BY <1>3 DEF Drain
      <3> QED
        BY <2>0, <3>1, <3>2, <3>3 DEF HubTypeOK, connVars, socketVars
    <2>2. ClosedOnce' /\ NoOrphans' /\ TableIsOpen' /\ OpenIsListed' /\ FreshHandlers'
          /\ GrantComesFirst'
      BY <1>3 DEF Drain, HubInv, ClosedOnce, NoOrphans, TableIsOpen, OpenIsListed, FreshHandlers,
         GrantComesFirst, Listed, connVars, socketVars
    <2>3. DrainArmed'
      <3>1. CASE ~draining \/ d < deadline
        BY <1>3, <3>1 DEF Drain, DrainArmed
      <3>2. CASE ~(~draining \/ d < deadline)
        BY <1>3, <3>2 DEF Drain, HubInv, DrainArmed
      <3> QED
        BY <3>1, <3>2
    <2> QED
      BY <2>1, <2>2, <2>3 DEF HubInv
  <1>4. CASE DrainTimer
    BY <1>4, RemoveKeeps DEF DrainTimer, HubInv, HubTypeOK
  <1>5. CASE Close
    BY <1>5 DEF Close, HubInv, HubTypeOK, ClosedOnce, NoOrphans, TableIsOpen,
       OpenIsListed, FreshHandlers, GrantComesFirst, DrainArmed, Listed, connVars, socketVars
  <1>6. CASE Stop
    BY <1>6, RemoveKeeps DEF Stop, HubInv, HubTypeOK
  <1> QED
    BY <1>1, <1>2, <1>3, <1>4, <1>5, <1>6 DEF HubNext

-----------------------------------------------------------------------------
(* the handlers *)

LEMMA HandlerStep ==
    ASSUME HubInv, NEW c \in Connection, HandlerNext(c)
    PROVE  HubInv'
  <1>0. HubTypeOK /\ TableIsOpen
    BY DEF HubInv
  <1>1. ASSUME NEW heard \in BOOLEAN, Register(c, heard)
        PROVE  HubInv'
    <2>1. CASE draining
      BY <1>1, <2>1 DEF Register, Goes, HubInv, HubTypeOK, ClosedOnce, NoOrphans, TableIsOpen,
         OpenIsListed, FreshHandlers, GrantComesFirst, DrainArmed, Listed, Watched, HandlerPhase
    <2>2. CASE ~draining
      <3>1. /\ Insert(c) /\ handler[c] = "register" /\ hub = "running"
            /\ handler' = [handler EXCEPT ![c] = IF heard THEN "connect" ELSE "cleanup"]
            /\ UNCHANGED <<now, hub, draining, deadline, timer, pending, outbound,
                           cancelled, writer, beat, granted>>
        BY <1>1, <2>2 DEF Register, Goes
      <3>2. HubTypeOK'
        BY <1>0, <3>1, InsertFacts DEF HubTypeOK, HandlerPhase, Watched
      <3>3. ~Listed(c) /\ closes[c] = 0
        BY <3>1 DEF HubInv, TableIsOpen, FreshHandlers
      <3>4. ClosedOnce'
        BY <1>0, <3>1, InsertFacts DEF HubInv, HubTypeOK, ClosedOnce, TableIsOpen
      <3>5. TableIsOpen'
        <4>1. \A u \in User : clients'[u] # Nil => UserOf[clients'[u]] = u
          BY <1>0, <3>1, InsertFacts DEF TableIsOpen
        <4>2. \A d \in Connection : Listed(d)' =>
                 closes'[d] = 0 /\ handler'[d] \notin {"idle", "register"}
          BY <1>0, <3>1, <3>3, InsertFacts DEF TableIsOpen, HubTypeOK
        <4> QED
          BY <4>1, <4>2 DEF TableIsOpen
      <3>6. OpenIsListed'
        <4> SUFFICES ASSUME NEW d \in Connection, handler'[d] \in Watched, closes'[d] = 0
                     PROVE  Listed(d)'
          BY DEF OpenIsListed
        <4>1. CASE d = c
          BY <1>0, <3>1, <4>1, InsertFacts
        <4>2. CASE d # c
          BY <1>0, <3>1, <4>2, InsertFacts DEF HubInv, OpenIsListed, HubTypeOK
        <4> QED
          BY <4>1, <4>2
      <3>7. NoOrphans' /\ FreshHandlers' /\ GrantComesFirst'
        BY <1>0, <3>1, InsertFacts DEF HubInv, HubTypeOK, NoOrphans, TableIsOpen, FreshHandlers,
           GrantComesFirst
      <3>8. DrainArmed'
        BY <2>2, <3>1 DEF HubInv, DrainArmed
      <3> QED
        BY <3>2, <3>4, <3>5, <3>6, <3>7, <3>8 DEF HubInv
    <2> QED
      BY <2>1, <2>2
  <1>2. ASSUME NEW heard \in BOOLEAN, Activate(c, heard)
        PROVE  HubInv'
    <2>1. \E phase \in {"upgrade", "cleanup"} : handler' = [handler EXCEPT ![c] = phase]
      BY <1>2 DEF Activate, Goes
    <2>2. /\ handler[c] = "activate" /\ granted[c]
          /\ UNCHANGED <<now, hubVars, closes, outbound, cancelled, writer, beat, granted>>
      BY <1>2 DEF Activate, HubInv, GrantComesFirst
    <2>3. pending' = pending \/ pending' = [pending EXCEPT ![c] = FALSE]
      BY <1>2 DEF Activate
    <2>4. HubTypeOK'
      <3>1. pending' \in [Connection -> BOOLEAN]
        BY <1>0, <2>3, Zenon DEF HubTypeOK
      <3>2. handler' \in [Connection -> HandlerPhase]
        BY <1>0, <2>1 DEF HubTypeOK, HandlerPhase, Watched
      <3> QED
        BY <1>0, <2>2, <3>1, <3>2 DEF HubTypeOK, hubVars
    <2>5. ClosedOnce' /\ NoOrphans' /\ TableIsOpen' /\ OpenIsListed'
      BY <1>0, <2>1, <2>2 DEF HubInv, HubTypeOK, ClosedOnce, NoOrphans, TableIsOpen, OpenIsListed,
         Listed, Watched, hubVars
    <2>6. FreshHandlers'
      BY <1>0, <2>1, <2>2, <2>3 DEF HubInv, HubTypeOK, FreshHandlers
    <2>7. GrantComesFirst'
      BY <1>0, <2>1, <2>2, <2>3 DEF HubInv, HubTypeOK, GrantComesFirst
    <2>8. DrainArmed'
      BY <2>2 DEF HubInv, DrainArmed, hubVars
    <2> QED
      BY <2>4, <2>5, <2>6, <2>7, <2>8 DEF HubInv
  <1>3. CASE Handshake(c)
    BY <1>3 DEF Handshake, Goes, HubInv, HubTypeOK, ClosedOnce, NoOrphans, TableIsOpen, OpenIsListed,
       FreshHandlers, GrantComesFirst, DrainArmed, Listed, Watched, HandlerPhase, hubVars, connVars
  <1>4. CASE NotRegistered(c) \/ NotGranted(c) \/ NotActivated(c) \/ NotUpgraded(c) \/ Join(c)
    BY <1>4 DEF NotRegistered, NotGranted, NotActivated, NotUpgraded, Join, Goes, HubInv, HubTypeOK,
       ClosedOnce, NoOrphans, TableIsOpen, OpenIsListed, FreshHandlers, GrantComesFirst, DrainArmed,
       Listed, Watched, HandlerPhase, hubVars, connVars
  <1>5. CASE Granted(c)
    BY <1>5 DEF Granted, Goes, HubInv, HubTypeOK, ClosedOnce, NoOrphans, TableIsOpen, OpenIsListed,
       FreshHandlers, GrantComesFirst, DrainArmed, Listed, Watched, HandlerPhase, hubVars, connVars
  <1>6. CASE Upgrade(c)
    <2>1. HubTypeOK'
      BY <1>0, <1>6 DEF Upgrade, Goes, HubTypeOK, HandlerPhase, Watched, hubVars, connVars
    <2>2. ClosedOnce' /\ NoOrphans' /\ TableIsOpen' /\ OpenIsListed'
      BY <1>0, <1>6 DEF Upgrade, Goes, HubInv, HubTypeOK, ClosedOnce, NoOrphans, TableIsOpen,
         OpenIsListed, Listed, Watched, hubVars, connVars
    <2>3. FreshHandlers' /\ GrantComesFirst' /\ DrainArmed'
      BY <1>0, <1>6 DEF Upgrade, Goes, HubInv, HubTypeOK, FreshHandlers, GrantComesFirst, DrainArmed,
         hubVars, connVars
    <2> QED
      BY <2>1, <2>2, <2>3 DEF HubInv
  <1>7. CASE Watch(c) \/ PeerGone(c) \/ WriterReturns(c) \/ BeatEnds(c)
    <2>1. UNCHANGED <<now, hubVars, connVars, handler, granted>>
      BY <1>7 DEF Watch, PeerGone, WriterReturns, BeatEnds
    <2>2. cancelled' \in [Connection -> BOOLEAN]
      BY <1>0, <1>7, Zenon DEF Watch, PeerGone, WriterReturns, BeatEnds, Cancel, HubTypeOK
    <2>3. /\ writer' \in [Connection -> {"none", "running", "unregister", "ended"}]
          /\ beat' \in [Connection -> {"none", "running", "ended"}]
      BY <1>0, <1>7 DEF Watch, PeerGone, WriterReturns, BeatEnds, HubTypeOK
    <2>4. HubTypeOK'
      BY <1>0, <2>1, <2>2, <2>3 DEF HubTypeOK, hubVars, connVars
    <2> QED
      BY <2>1, <2>4 DEF HubInv, ClosedOnce, NoOrphans, TableIsOpen, OpenIsListed, FreshHandlers,
         GrantComesFirst, DrainArmed, Listed, hubVars, connVars
  <1>8. CASE Write(c)
    BY <1>8, HubConstants DEF Write, HubInv, HubTypeOK, ClosedOnce, NoOrphans, TableIsOpen,
       OpenIsListed, FreshHandlers, GrantComesFirst, DrainArmed, Listed, hubVars, socketVars
  <1>9. CASE ReadEnds(c)
    BY <1>9 DEF ReadEnds, Goes, Cancel, HubInv, HubTypeOK, ClosedOnce, NoOrphans, TableIsOpen,
       OpenIsListed, FreshHandlers, GrantComesFirst, DrainArmed, Listed, Watched, HandlerPhase,
       hubVars, connVars
  <1>10. CASE WriterEnds(c)
    <2>1. /\ Unregister(c)
          /\ UNCHANGED <<now, hub, draining, deadline, timer, pending, outbound, handler, beat, granted>>
          /\ writer' = [writer EXCEPT ![c] = "ended"] /\ cancelled' = [cancelled EXCEPT ![c] = TRUE]
      BY <1>10 DEF WriterEnds, Cancel
    <2>2. HubTypeOK'
      BY <1>0, <2>1, UnregisterFacts DEF HubTypeOK
    <2>3. ClosedOnce' /\ TableIsOpen' /\ OpenIsListed' /\ NoOrphans'
      BY <1>0, <2>1, UnregisterFacts DEF HubInv, HubTypeOK, ClosedOnce, TableIsOpen, OpenIsListed,
         NoOrphans, Listed
    <2>4. FreshHandlers' /\ GrantComesFirst' /\ DrainArmed'
      BY <1>0, <2>1, UnregisterFacts DEF HubInv, HubTypeOK, TableIsOpen, FreshHandlers,
         GrantComesFirst, DrainArmed
    <2> QED
      BY <2>2, <2>3, <2>4 DEF HubInv
  <1>11. CASE Cleanup(c)
    <2>1. /\ Unregister(c) /\ handler[c] = "cleanup"
          /\ handler' = [handler EXCEPT ![c] = "disconnect"]
          /\ UNCHANGED <<now, hub, draining, deadline, timer, pending, outbound,
                         cancelled, writer, beat, granted>>
      BY <1>11 DEF Cleanup, Goes
    <2>2. HubTypeOK'
      BY <1>0, <2>1, UnregisterFacts DEF HubTypeOK, HandlerPhase
    <2>3. ClosedOnce' /\ TableIsOpen' /\ OpenIsListed' /\ NoOrphans'
      BY <1>0, <2>1, UnregisterFacts DEF HubInv, HubTypeOK, ClosedOnce, TableIsOpen, OpenIsListed,
         NoOrphans, Listed, Watched
    <2>4. FreshHandlers' /\ GrantComesFirst' /\ DrainArmed'
      BY <1>0, <2>1, UnregisterFacts DEF HubInv, HubTypeOK, TableIsOpen, FreshHandlers,
         GrantComesFirst, DrainArmed
    <2> QED
      BY <2>2, <2>3, <2>4 DEF HubInv
  <1>12. CASE Disconnect(c)
    BY <1>12 DEF Disconnect, Goes, HubInv, HubTypeOK, ClosedOnce, NoOrphans, TableIsOpen,
       OpenIsListed, FreshHandlers, GrantComesFirst, DrainArmed, Listed, Watched, HandlerPhase,
       hubVars, connVars
  <1> QED
    BY <1>1, <1>2, <1>3, <1>4, <1>5, <1>6, <1>7, <1>8, <1>9, <1>10, <1>11, <1>12 DEF HandlerNext

LEMMA StepInv == HubInv /\ [Next]_vars => HubInv'
  <1> SUFFICES ASSUME HubInv, [Next]_vars
               PROVE  HubInv'
    OBVIOUS
  <1>1. CASE Tick \/ UNCHANGED vars
    BY <1>1 DEF Tick, vars, HubInv, HubTypeOK, ClosedOnce, NoOrphans, TableIsOpen, OpenIsListed,
       FreshHandlers, GrantComesFirst, DrainArmed, Listed, hubVars, connVars, socketVars
  <1> QED
    BY <1>1, HubStep, HandlerStep DEF Next

-----------------------------------------------------------------------------

\* The inductive invariant of the Hub and its handlers holds in every reachable
\* state.
THEOREM HubInvariant == Spec => []HubInv
  <1>1. Init => HubInv
    BY InitInv
  <1>2. HubInv /\ [Next]_vars => HubInv'
    BY StepInv
  <1> QED
    BY <1>1, <1>2, PTL DEF Spec

\* No connection's done channel is closed twice, whichever of the commands of the
\* owner loop meet on it.
THEOREM NeverClosedTwice == Spec => []ClosedOnce
  <1>1. HubInv => ClosedOnce
    BY DEF HubInv
  <1> QED
    BY <1>1, HubInvariant, PTL

\* A handler that has cleaned up leaves no entry in a running Hub.
THEOREM NoOrphanConnections == Spec => []NoOrphans
  <1>1. HubInv => NoOrphans
    BY DEF HubInv
  <1> QED
    BY <1>1, HubInvariant, PTL

\* Messages are queued only for connections whose route Logic has granted.
THEOREM GrantBeforeMessages == Spec => []NothingBeforeGrant
  <1>1. HubInv => NothingBeforeGrant
    BY DEF HubInv, NothingBeforeGrant, GrantComesFirst
  <1> QED
    BY <1>1, HubInvariant, PTL

\* Once a Hub drains it drains for good, and no later Drain moves its deadline
\* away.
THEOREM DrainDeadlineFalls == Spec => DrainNotPostponed
  <1>1. HubInv /\ [Next]_vars => [draining => deadline' <= deadline /\ draining']_vars
    <2> SUFFICES ASSUME HubInv, Next, draining
                 PROVE  deadline' <= deadline /\ draining'
      OBVIOUS
    <2>0. deadline \in Nat
      BY DEF HubInv, HubTypeOK
    <2>1. ASSUME NEW d \in 1..MaxTime, Drain(d)
          PROVE  deadline' <= deadline /\ draining'
      BY <2>0, <2>1, HubConstants DEF Drain
    <2>2. ASSUME deadline' = deadline, draining' = draining
          PROVE  deadline' <= deadline /\ draining'
      BY <2>0, <2>2
    <2>3. ASSUME NEW c \in Connection, HandlerNext(c)
          PROVE  deadline' = deadline /\ draining' = draining
      BY <2>3 DEF HandlerNext, Handshake, Register, Activate, NotRegistered, Granted, NotGranted,
         NotActivated, Upgrade, NotUpgraded, Watch, PeerGone, Write, WriterReturns, WriterEnds,
         BeatEnds, ReadEnds, Join, Cleanup, Disconnect, hubVars
    <2>4. CASE Tick \/ DrainTimer \/ Close \/ Stop
      BY <2>2, <2>4 DEF Tick, DrainTimer, Close, Stop, hubVars
    <2>5. CASE \E c \in Connection : Kick(c)
      BY <2>2, <2>5 DEF Kick
    <2>6. CASE \E targets \in SUBSET Connection : Deliver(targets)
      BY <2>2, <2>6 DEF Deliver
    <2> QED
      BY <2>1, <2>2, <2>3, <2>4, <2>5, <2>6 DEF Next, HubNext
  <1> QED
    BY <1>1, HubInvariant, PTL DEF Spec, DrainNotPostponed

-----------------------------------------------------------------------------
(* the Hub implements SocketLife *)

LEMMA StageCases ==
    ASSUME NEW c \in Connection
    PROVE  /\ Stage(c) \in {"idle", "pending", "active", "closing", "done"}
           /\ Listed(c) <=> Stage(c) \in {"pending", "active"}
  BY DEF Stage

\* A step in which connections only leave the table or end.
LEMMA DepartOrStutter ==
    ASSUME draining' = draining,
           \A c \in Connection :
              \/ Stage(c)' = Stage(c)
              \/ Listed(c) /\ Stage(c)' = "closing"
              \/ Stage(c) # "idle" /\ Stage(c)' = "done"
    PROVE  Life!Depart
  <1> DEFINE gone == {c \in Connection : Listed(c) /\ Stage(c)' = "closing"}
             over == {c \in Connection : Stage(c) # "idle" /\ Stage(c)' = "done"}
             life == [c \in Connection |-> Stage(c)]
  <1>1. gone \in SUBSET {c \in Connection : life[c] # "idle"}
    BY StageCases
  <1>2. over \in SUBSET {c \in Connection : life[c] # "idle"}
    OBVIOUS
  <1>3. \A c \in gone : life[c] \in {"pending", "active"}
    BY StageCases
  <1>4. life' = [c \in Connection |->
                   IF c \in over THEN "done" ELSE IF c \in gone THEN "closing" ELSE life[c]]
    OBVIOUS
  <1>5. [h \in {"hub"} |-> draining]' = [h \in {"hub"} |-> draining]
    OBVIOUS
  <1> QED
    BY <1>1, <1>2, <1>3, <1>4, <1>5 DEF Life!Depart, Life!Listed

\* Handlers that stay beyond the register call, in a step without an insertion.
LEMMA RemovalDeparts ==
    ASSUME HubInv, HubInv', draining' = draining, pending' = pending,
           \A c \in Connection : Listed(c)' => Listed(c),
           \A c \in Connection :
              \/ handler'[c] = handler[c]
              \/ handler[c] \notin {"idle", "register"} /\ handler'[c] \notin {"idle", "register"}
                 /\ handler[c] # "done"
    PROVE  Life!Depart
  <1> SUFFICES ASSUME NEW c \in Connection
               PROVE  \/ Stage(c)' = Stage(c)
                      \/ Listed(c) /\ Stage(c)' = "closing"
                      \/ Stage(c) # "idle" /\ Stage(c)' = "done"
    BY DepartOrStutter
  <1>1. Listed(c) => handler[c] \notin {"idle", "register"}
    BY DEF HubInv, TableIsOpen
  <1> QED
    BY <1>1 DEF Stage

LEMMA HubImplementsStep ==
    ASSUME HubInv, HubInv', [Next]_vars
    PROVE  [Life!Next]_(Life!vars)
  <1>0. HubTypeOK /\ TableIsOpen
    BY DEF HubInv
  <1>1. ASSUME \/ \E c \in Connection : Kick(c)
               \/ \E targets \in SUBSET Connection : Deliver(targets)
               \/ DrainTimer \/ Stop
        PROVE  Life!Depart
    <2>1. PICK S \in SUBSET Connection : Remove(S)
      BY <1>1 DEF Kick, Deliver, DrainTimer, Stop
    <2>2. draining' = draining /\ pending' = pending /\ handler' = handler
      BY <1>1 DEF Kick, Deliver, DrainTimer, Stop, socketVars
    <2> QED
      BY <1>0, <2>1, <2>2, RemoveFacts, RemovalDeparts
  <1>2. ASSUME NEW c \in Connection, WriterEnds(c) \/ Cleanup(c)
        PROVE  Life!Depart
    BY <1>0, <1>2, UnregisterFacts, RemovalDeparts DEF WriterEnds, Cleanup, Goes, HubTypeOK
  <1>3. ASSUME NEW c \in Connection,
               \/ Granted(c) \/ NotGranted(c) \/ NotActivated(c) \/ Upgrade(c) \/ NotUpgraded(c)
               \/ ReadEnds(c) \/ Join(c) \/ Disconnect(c)
        PROVE  Life!Depart
    <2>1. /\ clients' = clients /\ draining' = draining /\ pending' = pending
      BY <1>3 DEF Granted, NotGranted, NotActivated, Upgrade, NotUpgraded, ReadEnds, Join,
         Disconnect, hubVars, connVars
    <2>2. /\ handler[c] \notin {"idle", "register", "done"}
          /\ \E phase \in HandlerPhase \ {"idle", "register"} :
                handler' = [handler EXCEPT ![c] = phase]
      BY <1>3 DEF Granted, NotGranted, NotActivated, Upgrade, NotUpgraded, ReadEnds, Join,
         Disconnect, Goes, HandlerPhase, Watched
    <2> QED
      BY <1>0, <2>1, <2>2, RemovalDeparts DEF Listed, HubTypeOK
  <1>4. ASSUME NEW c \in Connection,
               Watch(c) \/ PeerGone(c) \/ Write(c) \/ WriterReturns(c) \/ BeatEnds(c)
        PROVE  UNCHANGED <<clients, draining, pending, handler>>
    BY <1>4 DEF Watch, PeerGone, Write, WriterReturns, BeatEnds, hubVars, connVars, socketVars
  <1>5. ASSUME Tick \/ Close \/ UNCHANGED vars
        PROVE  UNCHANGED <<clients, draining, pending, handler>>
    BY <1>5 DEF Tick, Close, vars, hubVars, connVars, socketVars
  <1>6. ASSUME UNCHANGED <<clients, draining, pending, handler>>
        PROVE  Life!Depart
    BY <1>6, RemovalDeparts DEF Listed
  <1>7. ASSUME NEW d \in 1..MaxTime, Drain(d)
        PROVE  Life!Drain("hub")
    <2>1. draining' = TRUE /\ UNCHANGED <<clients, pending, handler>>
      BY <1>7 DEF Drain, connVars, socketVars
    <2>2. [c \in Connection |-> Stage(c)]' = [c \in Connection |-> Stage(c)]
      BY <2>1 DEF Stage, Listed
    <2>3. [h \in {"hub"} |-> draining]' = [[h \in {"hub"} |-> draining] EXCEPT !["hub"] = TRUE]
      BY <2>1
    <2> QED
      BY <2>2, <2>3 DEF Life!Drain
  <1>8. ASSUME NEW c \in Connection, Handshake(c)
        PROVE  Life!Depart
    <2>1. UNCHANGED <<clients, draining, pending>>
      BY <1>8 DEF Handshake, hubVars, connVars
    <2>2. \A d \in Connection : Stage(d)' = Stage(d)
      BY <1>0, <1>8, <2>1 DEF Handshake, Goes, Stage, Listed, HubTypeOK
    <2> QED
      BY <2>1, <2>2, DepartOrStutter
  <1>9. ASSUME NEW c \in Connection,
               NotRegistered(c) \/ (draining /\ \E heard \in BOOLEAN : Register(c, heard))
        PROVE  Life!Refuse(c)
    <2>1. /\ UNCHANGED <<clients, draining, pending>>
          /\ handler[c] = "register" /\ handler' = [handler EXCEPT ![c] = "cleanup"]
      BY <1>9 DEF NotRegistered, Register, Goes, hubVars, connVars
    <2>2. ~Listed(c)
      BY <2>1 DEF HubInv, TableIsOpen
    <2>3. Stage(c) = "idle" /\ Stage(c)' = "closing"
      BY <1>0, <2>1, <2>2 DEF Stage, Listed, HubTypeOK
    <2>4. \A d \in Connection : d # c => Stage(d)' = Stage(d)
      BY <1>0, <2>1 DEF Stage, Listed, HubTypeOK
    <2>5. [d \in Connection |-> Stage(d)]' = [[d \in Connection |-> Stage(d)] EXCEPT ![c] = "closing"]
      BY <2>3, <2>4
    <2>6. [h \in {"hub"} |-> draining]' = [h \in {"hub"} |-> draining]
      BY <2>1
    <2> QED
      BY <2>3, <2>5, <2>6 DEF Life!Refuse
  <1>10. ASSUME NEW c \in Connection, NEW heard \in BOOLEAN, Register(c, heard), ~draining
         PROVE  Life!Enter(c)
    <2>1. /\ UNCHANGED <<draining, pending>> /\ Insert(c) /\ handler[c] = "register"
          /\ \E phase \in {"connect", "cleanup"} : handler' = [handler EXCEPT ![c] = phase]
      BY <1>10 DEF Register, Goes
    <2>2. Stage(c) = "idle" /\ pending[c]
      BY <2>1 DEF HubInv, TableIsOpen, FreshHandlers, Stage
    <2>3. Stage(c)' = "pending"
      BY <1>0, <2>1, <2>2, InsertFacts DEF Stage, HubTypeOK
    <2>4. \A d \in Connection : d # c =>
             Stage(d)' = IF UserOf[d] = UserOf[c] /\ Listed(d) THEN "closing" ELSE Stage(d)
      <3> SUFFICES ASSUME NEW d \in Connection, d # c
                   PROVE  Stage(d)' = IF UserOf[d] = UserOf[c] /\ Listed(d)
                                      THEN "closing" ELSE Stage(d)
        OBVIOUS
      <3>1. handler'[d] = handler[d]
        BY <1>0, <2>1 DEF HubTypeOK
      <3>2. Listed(d)' <=> Listed(d) /\ UserOf[d] # UserOf[c]
        BY <1>0, <2>1, InsertFacts
      <3>3. Listed(d) => handler[d] \notin {"idle", "register"}
        BY <1>0 DEF TableIsOpen
      <3>4. Listed(d) => handler[d] # "done"
        BY <1>10 DEF HubInv, NoOrphans, Register
      <3> QED
        BY <2>1, <3>1, <3>2, <3>3, <3>4 DEF Stage
    <2> DEFINE life == [d \in Connection |-> Stage(d)]
    <2>5. \A d \in Connection : d \in Life!Rivals(c) <=>
             d # c /\ UserOf[d] = UserOf[c] /\ Listed(d)
      BY StageCases DEF Life!Rivals, Life!Listed
    <2>6. life' = [d \in Connection |->
                     IF d = c THEN "pending"
                     ELSE IF d \in Life!Rivals(c) THEN "closing" ELSE life[d]]
      BY <2>3, <2>4, <2>5
    <2>7. [h \in {"hub"} |-> draining]' = [h \in {"hub"} |-> draining]
      BY <2>1
    <2> QED
      BY <1>10, <2>2, <2>6, <2>7 DEF Life!Enter
  <1>11. ASSUME NEW c \in Connection, NEW heard \in BOOLEAN, Activate(c, heard)
         PROVE  Life!Activate(c) \/ Life!Depart
    <2>1. /\ UNCHANGED <<clients, draining>> /\ handler[c] = "activate"
          /\ \E phase \in {"upgrade", "cleanup"} : handler' = [handler EXCEPT ![c] = phase]
      BY <1>11 DEF Activate, Goes, hubVars
    <2>2. \A d \in Connection : Listed(d)' <=> Listed(d)
      BY <2>1 DEF Listed
    <2>3. CASE ~draining /\ Listed(c) /\ pending[c]
      <3>1. pending' = [pending EXCEPT ![c] = FALSE]
        BY <1>11, <2>3 DEF Activate
      <3>2. Stage(c) = "pending" /\ Stage(c)' = "active"
        BY <1>0, <2>2, <2>3, <3>1 DEF Stage, HubTypeOK
      <3>3. \A d \in Connection : d # c => Stage(d)' = Stage(d)
        BY <1>0, <2>1, <2>2, <3>1 DEF Stage, HubTypeOK
      <3>4. [d \in Connection |-> Stage(d)]' =
              [[d \in Connection |-> Stage(d)] EXCEPT ![c] = "active"]
        BY <3>2, <3>3
      <3>5. [h \in {"hub"} |-> draining]' = [h \in {"hub"} |-> draining]
        BY <2>1
      <3> QED
        BY <2>3, <3>2, <3>4, <3>5 DEF Life!Activate
    <2>4. CASE ~(~draining /\ Listed(c) /\ pending[c])
      <3>1. pending' = pending
        BY <1>0, <1>11, <2>4 DEF Activate, HubTypeOK
      <3> QED
        BY <1>0, <2>1, <2>2, <3>1, RemovalDeparts DEF HubTypeOK
    <2> QED
      BY <2>3, <2>4
  <1>12. CASE \E c \in Connection : HandlerNext(c)
    BY <1>2, <1>3, <1>4, <1>6, <1>8, <1>9, <1>10, <1>11, <1>12 DEF HandlerNext, Life!Next
  <1>13. CASE HubNext
    BY <1>1, <1>5, <1>6, <1>7, <1>13 DEF HubNext, Life!Next
  <1> QED
    BY <1>5, <1>6, <1>12, <1>13 DEF Next, Life!Next

\* The Hub, its handlers and their goroutines implement SocketLife: whatever the
\* interleaving, a connection enters the table once and replaces its rivals there,
\* becomes active at most once, and nothing enters or becomes active in a drain.
THEOREM HubImplementsLife == Spec => ImplementsLife
  <1>1. Init => Life!Init
    <2> SUFFICES ASSUME Init PROVE Life!Init
      OBVIOUS
    <2>1. \A c \in Connection : ~Listed(c)
      BY HubConstants DEF Init, Listed
    <2>2. \A c \in Connection : Stage(c) = "idle"
      BY <2>1 DEF Init, Stage
    <2>3. draining = FALSE
      BY DEF Init
    <2> QED
      BY <2>2, <2>3 DEF Life!Init
  <1>2. HubInv /\ HubInv' /\ [Next]_vars => [Life!Next]_(Life!vars)
    BY HubImplementsStep
  <1> QED
    BY <1>1, <1>2, HubInvariant, PTL DEF Spec, ImplementsLife, Life!Spec

=============================================================================
