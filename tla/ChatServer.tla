----------------------------- MODULE ChatServer -----------------------------
(* The single-process chat server: the owner loop of chatservice with its      *)
(* table of connections, the sockets that register with it, are written to by *)
(* it and close themselves or are closed by it, HandleMessage from a socket   *)
(* to the sockets of the recipients, through Kafka or not, and the process.   *)
EXTENDS Assistant

CONSTANTS
    Conn,        \* sockets; the reader of each is a call of the services
    UserOf,      \* the user of each socket
    Consumer,    \* the call of the Kafka consumer
    QueueSize,   \* capacity of routeQueue and of unregister
    Outbound     \* capacity of a client's outbound channel

ASSUME ServerAssumption ==
    /\ Conn \cup {Consumer} \subseteq Call
    /\ Consumer \notin Conn
    /\ UserOf \in [Conn -> User]
    /\ QueueSize \in Nat \ {0}
    /\ Outbound \in Nat \ {0}
    /\ Nil \notin Conn

VARIABLES
    clients,     \* Server.clients: the connection of each user, or Nil
    online,      \* Server.online
    life,        \* idle, registering, open (reader and writer run), closed
    spawned,     \* goroutines started to Close a connection
    closing,     \* inside closeOnce: done is closed, unregister not yet sent
    unregister,  \* the buffered channel
    routeQueue,  \* the buffered channel of [recipients, message]
    outbound,    \* each client's channel
    done,        \* Server.done is closed
    loop,        \* running, closing (closeClients), stopped
    drain,       \* the clients closeClients closes
    kafka,       \* Kafka mode: PublishChatEvent is set
    topic,       \* events written
    consumed,    \* events committed
    consumer,    \* running, or stopped for good
    main         \* run: serving, shutdown (of HTTP), closing, exited

hubVars == <<clients, online, life, spawned, closing, unregister,
             routeQueue, outbound, done, loop, drain>>
kafkaVars == <<kafka, topic, consumed, consumer>>
vars == <<serviceVars, hubVars, kafkaVars, main>>

ServerTypeOK ==
    /\ clients \in [User -> Conn \cup {Nil}]
    /\ online \in Int
    /\ life \in [Conn -> {"idle", "registering", "open", "closed"}]
    /\ spawned \subseteq Conn
    /\ closing \subseteq Conn
    /\ unregister \in Seq(Conn)
    /\ Len(unregister) <= QueueSize
    /\ routeQueue \in Seq([recipients : SUBSET User, message : Nat])
    /\ Len(routeQueue) <= QueueSize
    /\ outbound \in [Conn -> Seq(Nat)]
    /\ \A c \in Conn : Len(outbound[c]) <= Outbound
    /\ done \in BOOLEAN
    /\ loop \in {"running", "closing", "stopped"}
    /\ main \in {"serving", "shutdown", "closing", "exited"}

ServerInit ==
    /\ clients = [u \in User |-> Nil]
    /\ online = 0
    /\ life = [c \in Conn |-> "idle"]
    /\ spawned = {}
    /\ closing = {}
    /\ unregister = << >>
    /\ routeQueue = << >>
    /\ outbound = [c \in Conn |-> << >>]
    /\ done = FALSE
    /\ loop = "running"
    /\ drain = {}
    /\ topic = << >>
    /\ consumed = 0
    /\ consumer = "running"
    /\ main = "serving"

\* The calls of readers and of the consumer handle messages of sockets alone.
Sent == [op : {"send"}, u : User, v : User \cup {Group}]
RequestsOK ==
    /\ req = [c \in Call |-> req[c]]
    /\ \A c \in Call : IsRequest(req[c])
    /\ \A c \in Conn : req[c].op \in {"none", "listen", "send"}
    /\ req[Consumer].op \in {"none", "send"}
    /\ \A c \in Conn \cup {Consumer} : req[c].op = "send" => req[c] \in Sent
    /\ topic \in Seq(Sent)
    /\ consumed \in Nat

\* The session of one who left and joins again is a new one, which the model
\* does not tell from the first: while an assistant is at work nobody enters.
SessionsKept ==
    (\E c \in Call : req[c].op \in AISettings \cup AITools) =>
      \A c \in Call : req[c].op \notin {"join", "approve", "create"}

\* The process starts on tables that earlier requests have left.
Init ==
    /\ ServicesInit
    /\ ServerInit
    /\ kafka \in BOOLEAN
    /\ users \subseteq User /\ tokens \subseteq User
    /\ applies \in [User -> Nat]
    /\ RowsOK
    /\ AccessOK
    /\ RequestsOK
    /\ SessionsKept

-----------------------------------------------------------------------------
(* sockets *)

\* WsAuth takes the same tokens as Auth.
WsAuth(c) == Authorized(UserOf[c])

\* WsController: an authenticated upgrade, and Start up to the registration.
Connect(c) ==
    /\ life[c] = "idle"
    /\ req[c].op # "none"
    /\ WsAuth(c)
    /\ life' = [life EXCEPT ![c] = "registering"]
    /\ UNCHANGED <<clients, online, spawned, closing, unregister, routeQueue, outbound, done, loop, drain>>

\* The part of Close before unregisterClient. Only the first Close does it.
BeginClose(S) ==
    LET T == {c \in S : life[c] # "closed"}
    IN  /\ life' = [c \in Conn |-> IF c \in T THEN "closed" ELSE life[c]]
        /\ closing' = closing \cup T

\* Register returned false: Start closes the client.
RegisterRefused(c) ==
    /\ life[c] = "registering"
    /\ done
    /\ BeginClose({c})
    /\ UNCHANGED <<clients, online, spawned, unregister, routeQueue, outbound, done, loop, drain>>

\* read or write returns, with a deferred Close: the peer is gone, it spoke for
\* somebody else, or a write failed.
SocketFails(c) ==
    /\ life[c] = "open"
    /\ BeginClose({c})
    /\ UNCHANGED <<clients, online, spawned, unregister, routeQueue, outbound, done, loop, drain>>

\* A Close the loop started in a goroutine of its own.
SpawnedClose(c) ==
    /\ c \in spawned
    /\ spawned' = spawned \ {c}
    /\ BeginClose({c})
    /\ UNCHANGED <<clients, online, unregister, routeQueue, outbound, done, loop, drain>>

\* Mutant: nobody waits for done.
UnregisterClientBlocks(c) ==
    /\ c \in closing
    /\ Len(unregister) < QueueSize
    /\ unregister' = Append(unregister, c)
    /\ closing' = closing \ {c}
    /\ UNCHANGED <<clients, online, life, spawned, routeQueue, outbound, done, loop, drain>>

\* unregisterClient: the select of the buffered channel and of done.
UnregisterClient(c) ==
    /\ c \in closing
    /\ \/ /\ Len(unregister) < QueueSize
          /\ unregister' = Append(unregister, c)
       \/ /\ done
          /\ UNCHANGED unregister
    /\ closing' = closing \ {c}
    /\ UNCHANGED <<clients, online, life, spawned, routeQueue, outbound, done, loop, drain>>

\* write takes the next message. A client that is closed may stop first.
Write(c) ==
    /\ life[c] = "open"
    /\ outbound[c] # << >>
    /\ outbound' = [outbound EXCEPT ![c] = Tail(@)]
    /\ UNCHANGED <<clients, online, life, spawned, closing, unregister, routeQueue, done, loop, drain>>

-----------------------------------------------------------------------------
(* the owner loop *)

\* The loop receives a registration: the user's earlier client is closed in a
\* goroutine of its own.
RegisterClient(c) ==
    LET u == UserOf[c]
    IN  /\ loop = "running"
        /\ life[c] = "registering"
        /\ life' = [life EXCEPT ![c] = "open"]
        /\ clients' = [clients EXCEPT ![u] = c]
        /\ online' = IF clients[u] = Nil THEN online + 1 ELSE online
        /\ spawned' = spawned \cup ({clients[u]} \ {Nil, c})
        /\ UNCHANGED <<closing, unregister, routeQueue, outbound, done, loop, drain>>

\* Mutant: removal by user, whoever is registered now.
RemoveClientByUser(c) ==
    /\ clients' = [clients EXCEPT ![UserOf[c]] = Nil]
    /\ online' = IF clients[UserOf[c]] # Nil THEN online - 1 ELSE online

RemoveClient(c) ==
    IF clients[UserOf[c]] = c
    THEN /\ clients' = [clients EXCEPT ![UserOf[c]] = Nil]
         /\ online' = online - 1
    ELSE UNCHANGED <<clients, online>>

LoopUnregister ==
    /\ loop = "running"
    /\ unregister # << >>
    /\ RemoveClient(Head(unregister))
    /\ unregister' = Tail(unregister)
    /\ UNCHANGED <<life, spawned, closing, routeQueue, outbound, done, loop, drain>>

\* deliver to every recipient that is connected: a closed client is passed
\* over, one whose channel is full is closed.
Deliver(S, m) ==
    LET T    == {clients[u] : u \in S} \ {Nil}
        Live == {c \in T : life[c] # "closed"}
        Full == {c \in Live : Len(outbound[c]) = Outbound}
    IN  /\ outbound' = [c \in Conn |-> IF c \in Live \ Full THEN Append(outbound[c], m)
                                                            ELSE outbound[c]]
        /\ spawned' = spawned \cup Full

LoopRoute ==
    /\ loop = "running"
    /\ routeQueue # << >>
    /\ Deliver(Head(routeQueue).recipients, Head(routeQueue).message)
    /\ routeQueue' = Tail(routeQueue)
    /\ UNCHANGED <<clients, online, life, closing, unregister, done, loop, drain>>

\* RouteTo and RouteToUsers: wait for room in the queue, or give up.
CanRoute == Len(routeQueue) < QueueSize
Route(S, m) == routeQueue' = Append(routeQueue, [recipients |-> S, message |-> m])

\* Server.Close, up to the wait for the loop.
CloseServer ==
    /\ done' = TRUE
    /\ UNCHANGED <<clients, online, life, spawned, closing, unregister, routeQueue, outbound, loop, drain>>

\* The loop sees done: closeClients empties the table and closes every client.
CloseClients ==
    /\ loop = "running"
    /\ done
    /\ clients' = [u \in User |-> Nil]
    /\ online' = 0
    /\ BeginClose({clients[u] : u \in User} \ {Nil})
    /\ drain' = {clients[u] : u \in User} \ {Nil}
    /\ loop' = "closing"
    /\ UNCHANGED <<spawned, unregister, routeQueue, outbound, done>>

\* Close returns for each of them, also where another goroutine is inside
\* closeOnce, and the loop returns.
LoopStops ==
    /\ loop = "closing"
    /\ drain \cap closing = {}
    /\ loop' = "stopped"
    /\ UNCHANGED <<clients, online, life, spawned, closing, unregister, routeQueue, outbound, done, drain>>

-----------------------------------------------------------------------------
(* messages *)

\* read hands a message to HandleMessage, or publishes it in Kafka mode. Each
\* reader has one message in this model.
ReadMessage(c) ==
    /\ life[c] = "open"
    /\ ~kafka
    /\ req[c].op = "send"
    /\ Begin(c)
    /\ UNCHANGED <<hubVars, kafkaVars, main>>

\* Publish: the error of a write that failed is only logged.
PublishEvent(c) ==
    /\ life[c] = "open"
    /\ kafka
    /\ req[c].op = "send"
    /\ call[c].pc = "idle"
    /\ \/ topic' = Append(topic, req[c])
       \/ UNCHANGED topic
    /\ Answer(c, "ok")
    /\ UNCHANGED <<rows, cache, req, history, hubVars, kafka, consumed, consumer, main>>

\* Consume fetches the event after the last one committed.
FetchEvent ==
    /\ kafka
    /\ consumer = "running"
    /\ call[Consumer].pc = "idle"
    /\ consumed < Len(topic)
    /\ req' = [req EXCEPT ![Consumer] = topic[consumed + 1]]
    /\ Goto(Consumer, "fetched")
    /\ UNCHANGED <<rows, cache, history, hubVars, kafkaVars, main>>

\* The handler of the consumer is HandleMessage.
HandleEvent ==
    /\ call[Consumer].pc = "fetched"
    /\ IF IsDirect(req[Consumer]) THEN Goto(Consumer, "pair")
       ELSE Want(Consumer, <<"info", Group>>, "authorize")
    /\ UNCHANGED <<rows, cache, req, history, hubVars, kafkaVars, main>>

\* The handler succeeded: commit and go on.  The fetch, the handler or the commit
\* failed, or the context ended: Consume returns, and nothing starts it again.
ConsumeGoesOn ==
    /\ kafka
    /\ consumer = "running"
    /\ \/ /\ call[Consumer].pc = "ended" /\ call[Consumer].status = 200
          /\ consumed' = consumed + 1
          /\ call' = [call EXCEPT ![Consumer] = Idle]
          /\ UNCHANGED consumer
       \/ /\ call[Consumer].pc \in {"idle", "ended"}
          /\ consumer' = "stopped"
          /\ UNCHANGED <<consumed, call>>
    /\ UNCHANGED <<rows, cache, req, history, hubVars, kafka, topic, main>>

\* The end of HandleMessage: the recipients go to the loop, or the server is
\* closing and the message stays with those who read it from the database.
Enqueue(c) ==
    /\ call[c].pc = "enqueue"
    /\ req[c].op = "send"
    /\ \/ /\ CanRoute
          /\ Route(call[c].val, call[c].id)
          /\ Answer(c, "ok")
       \/ /\ done
          /\ Answer(c, "ErrDatabase")
          /\ UNCHANGED routeQueue
    /\ UNCHANGED <<rows, cache, req, history, clients, online, life, spawned, closing,
                   unregister, outbound, done, loop, drain, kafkaVars, main>>

\* The send tool routes to the receiver, then to the sender, and does not look
\* at what RouteTo returned.
EnqueueTool(c) ==
    LET sender == {req[c].u}
    IN  /\ call[c].pc = "enqueue"
        /\ req[c].op = "sendAIMessage"
        /\ \/ CanRoute /\ Route(call[c].val, call[c].id)
           \/ done /\ UNCHANGED routeQueue
        /\ IF call[c].val = sender THEN Answer(c, "ok")
           ELSE GotoWith(c, "enqueue", sender)
        /\ UNCHANGED <<rows, cache, req, history, clients, online, life, spawned, closing,
                       unregister, outbound, done, loop, drain, kafkaVars, main>>

-----------------------------------------------------------------------------
(* the process *)

Http == Call \ (Conn \cup {Consumer})
Busy(c) == call[c].pc \notin {"idle", "ended"}

\* A signal: the HTTP server stops taking requests. Sockets are not its own
\* any more.
Signal ==
    /\ main = "serving"
    /\ main' = "shutdown"
    /\ UNCHANGED <<serviceVars, hubVars, kafkaVars>>

\* Shutdown returns when the requests have ended, or after five seconds.
ShutdownReturns ==
    /\ main = "shutdown"
    /\ main' = "closing"
    /\ CloseServer
    /\ UNCHANGED <<serviceVars, kafkaVars>>

\* The deferred Close waited for the loop; Kafka, Redis and MySQL are closed
\* and the process ends.
Exit ==
    /\ main = "closing"
    /\ loop = "stopped"
    /\ main' = "exited"
    /\ UNCHANGED <<serviceVars, hubVars, kafkaVars>>

Serving(c) == c \in Http /\ req[c].op # "none" /\ (main = "serving" \/ Busy(c))

ServiceStep ==
    /\ \/ \E c \in Call : Serving(c) /\ (Work(c) \/ AIWork(c))
       \/ \E c \in Conn \cup {Consumer} : Busy(c) /\ Work(c)
       \/ \E k \in Key : Expire(k)
    /\ UNCHANGED <<hubVars, kafkaVars, main>>

SocketStep(c) ==
    \/ Connect(c) /\ main = "serving"
    \/ RegisterRefused(c)
    \/ SocketFails(c)
    \/ SpawnedClose(c)
    \/ UnregisterClient(c)
    \/ Write(c)
    \/ RegisterClient(c)

LoopStep == LoopUnregister \/ LoopRoute \/ CloseClients \/ LoopStops

HubStep ==
    /\ (\E c \in Conn : SocketStep(c)) \/ LoopStep
    /\ UNCHANGED <<serviceVars, kafkaVars, main>>

Next ==
    /\ main # "exited"
    /\ \/ ServiceStep
       \/ HubStep
       \/ \E c \in Conn : ReadMessage(c) \/ PublishEvent(c)
       \/ FetchEvent \/ HandleEvent \/ ConsumeGoesOn
       \/ \E c \in Call : Enqueue(c) \/ EnqueueTool(c)
       \/ Signal \/ ShutdownReturns \/ Exit

Spec == Init /\ [][Next]_vars

\* The loop goes on, a select with several ready cases takes each of them in
\* the end, and goroutines are scheduled. Nothing makes a socket fail, a peer
\* read or a signal arrive.
Fairness ==
    /\ WF_vars(LoopStep /\ UNCHANGED <<serviceVars, kafkaVars, main>>)
    /\ WF_vars(CloseClients /\ UNCHANGED <<serviceVars, kafkaVars, main>>)
    /\ \A c \in Conn :
         /\ WF_vars(UnregisterClient(c) /\ UNCHANGED <<serviceVars, kafkaVars, main>>)
         /\ WF_vars(SpawnedClose(c) /\ UNCHANGED <<serviceVars, kafkaVars, main>>)
    /\ WF_vars(Exit)

-----------------------------------------------------------------------------
(* properties *)

\* However replacements, failures, full queues and departures interleave, the
\* table is right while the loop runs: an open connection is the one its user
\* is reached by unless it is being replaced or cut off, a connection in the
\* table that has closed is on its way out, and the online count is the number
\* of entries (Start, removeClient).
TableIsLive ==
    loop = "running" =>
      /\ online = Cardinality({u \in User : clients[u] # Nil})
      /\ \A c \in Conn :
           /\ life[c] = "open" => clients[UserOf[c]] = c \/ c \in spawned
           /\ clients[UserOf[c]] = c /\ life[c] = "closed" =>
                c \in closing \/ c \in Range(unregister) \/ done

\* Once the server is told to close, the loop ends and the process with it,
\* although sockets close themselves at the same time with the unregister
\* channel full (unregisterClient, closeClients).
ServerStops == main = "closing" ~> main = "exited"

-----------------------------------------------------------------------------
(* what makes the table's invariant inductive *)

\* A connection gets into the table open and under its own user, and what is
\* on its way to be unregistered has closed: it never comes back.
TableOK ==
    \A u \in User :
      clients[u] # Nil => UserOf[clients[u]] = u /\ life[clients[u]] \in {"open", "closed"}
ClosedOnce ==
    \A c \in Conn : c \in closing \/ c \in Range(unregister) => life[c] = "closed"

HubInv == ServerTypeOK /\ TableOK /\ ClosedOnce /\ TableIsLive

ServerInv ==
    /\ RequestsOK
    /\ RowsOK
    /\ AccessOK
    /\ CallShaped
    /\ CacheShaped
    /\ CallsOnCourse
    /\ RecipientsOK
    /\ ToolsOnCourse
    /\ AssistantWithinRights
    /\ StaleOnlyIfOvertaken
    /\ StatusDeclared
=============================================================================
