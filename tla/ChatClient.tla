----------------------------- MODULE ChatClient -----------------------------
(***************************************************************************)
(* The browser's chat client (web/chat-server/src/chat-client.js and       *)
(* chat-state.js) against the services it talks to: one WebSocket that     *)
(* comes and goes, the reader of a Comet (internal/comet/handler.go), the  *)
(* stored messages and the HTTP pages of messages/sync.  Handlers of the   *)
(* client run one at a time; what interleaves with them are timers, frames *)
(* and pages, and a page may arrive for a request the client has given up. *)
(*                                                                         *)
(* The client is one record, and each of its methods an operator from the  *)
(* record before to the record after, so that a handler is the composition *)
(* of the calls it makes.                                                  *)
(***************************************************************************)
EXTENDS Integers, Sequences, FiniteSets

CONSTANTS
    Chat,          \* the conversations
    Id,            \* client_message_ids, each drawn once by uuid()
    Run,           \* bound: the calls of sync() that may be under way at once
    PageSize,      \* messages of a page (100)
    BatchPages,    \* pages of one call of sync() (20)
    MaxPending,    \* unresolved requests (100)
    BufferLimit,   \* messages buffered while paging (1000)
    MaxLog,        \* bound: messages stored
    MaxTroubles,   \* bound: lost sockets, failed fetches, bad frames
    MaxClicks,     \* bound: conversations selected and requests repeated by the user
    Nil

VARIABLES
    log,        \* the stored messages; the position of a message is its index
    wire,       \* the send frames the Comet reader of this socket has to read
    late,       \* those left behind by sockets that are gone
    receipts,   \* the send_result frames on their way to this socket; what one
                \* says is left open until it is received
    client,     \* the ChatClient and its ChatState
    troubles, clicks

vars == <<log, wire, late, receipts, client, troubles, clicks>>

Message == [chat: Chat, key: Id \cup {Nil}]
\* The retry directives; "reconnect" stands for refresh_route too.
Refusal == {"same_request", "do_not_retry", "reconnect", "reauthenticate"}
Bubble  == [chat: Chat, status: {"pending", "uncertain", "resolved"}, retryable: BOOLEAN]
SyncRun == [chat: Chat, cursor: Nat, since: Nat, pages: Nat, again: BOOLEAN]

ASSUME ClientConstants ==
    /\ PageSize \in Nat \ {0} /\ BatchPages \in Nat \ {0} /\ BufferLimit \in Nat \ {0}
    /\ MaxPending \in Nat /\ MaxLog \in Nat /\ MaxTroubles \in Nat /\ MaxClicks \in Nat
    /\ Nil \notin Chat /\ Nil \notin Run /\ Nil \notin Id
    /\ Nil \notin Bubble /\ Nil \notin SyncRun

Client ==
    [phase: {"live", "authRequired", "disposed"},
     socket: {"none", "connecting", "open", "closing"},
     connected: BOOLEAN,
     redial: BOOLEAN,                     \* reconnectTimer is armed
     current: Chat \cup {Nil},
     chats: SUBSET Chat,                  \* the keys of ChatState.chats
     saved: [Chat -> SUBSET Nat],
     cursor: [Chat -> Nat],
     buffer: [Chat -> SUBSET Nat],
     syncing: [Chat -> BOOLEAN],
     pending: [Id -> Bubble \cup {Nil}],
     timers: SUBSET Id,                   \* the keys of pendingTimers
     task: Run \cup {Nil},                \* syncTask
     runs: [Run -> SyncRun \cup {Nil}],   \* calls of sync() that await a page
     wake: BOOLEAN]                       \* syncTimer is armed

ClientTypeOK ==
    /\ log \in Seq(Message)
    /\ wire \in Seq(Id)
    /\ late \subseteq Id
    /\ receipts \in SUBSET [id: Id, stored: BOOLEAN]
    /\ client \in Client
    /\ troubles \in Nat /\ clicks \in Nat

\* A client after start(): its first socket is being opened.
Init ==
    /\ log = <<>> /\ wire = <<>> /\ late = {} /\ receipts = {}
    /\ client = [phase |-> "live", socket |-> "connecting", connected |-> FALSE,
                 redial |-> FALSE, current |-> Nil, chats |-> {},
                 saved |-> [h \in Chat |-> {}], cursor |-> [h \in Chat |-> 0],
                 buffer |-> [h \in Chat |-> {}], syncing |-> [h \in Chat |-> FALSE],
                 pending |-> [i \in Id |-> Nil], timers |-> {},
                 task |-> Nil, runs |-> [r \in Run |-> Nil], wake |-> FALSE]
    /\ troubles = 0 /\ clicks = 0

-----------------------------------------------------------------------------
(* ChatState *)

\* findPending: the bubble exists and is not resolved.
Found(c, i) == c.pending[i] # Nil /\ c.pending[i].status # "resolved"

Uncertain(c, i) == IF Found(c, i) THEN [c EXCEPT !.pending[i].status = "uncertain"] ELSE c

FinishSync(c, h) ==
    [c EXCEPT !.saved[h] = @ \cup c.buffer[h], !.buffer[h] = {}, !.syncing[h] = FALSE]

\* The page of messages/sync after a cursor, when n messages are stored.
Page(h, cursor, n) ==
    LET after == {p \in (cursor + 1)..n : log[p].chat = h}
        got   == {p \in after : Cardinality({q \in after : q < p}) < PageSize}
    IN  [got |-> got, more |-> got # after,
         next |-> IF got = {} THEN cursor
                  ELSE CHOOSE p \in got : \A q \in got : q <= p]

\* mergePage accepts a page that moves the cursor, or an empty one that does not.
ValidPage(c, h, page) ==
    /\ h \in c.chats
    /\ page.got = {} => page.next = c.cursor[h]
    /\ page.more => page.got # {} /\ page.next # c.cursor[h]

MergePage(c, h, page) == [c EXCEPT !.saved[h] = @ \cup page.got, !.cursor[h] = page.next]

\* Mutant: a message that arrives live moves the cursor as well.
ReceiveMoves(c, h, p) ==
    IF h \notin c.chats THEN c
    ELSE [c EXCEPT !.saved[h] = @ \cup {p}, !.cursor[h] = IF @ < p THEN p ELSE @]

\* ChatState.receive: buffered while paging, the buffer merged when it is full.
Receive(c, h, p) ==
    IF h \notin c.chats THEN c
    ELSE IF ~c.syncing[h] THEN [c EXCEPT !.saved[h] = @ \cup {p}]
    ELSE IF Cardinality(c.buffer[h] \cup {p}) < BufferLimit
    THEN [c EXCEPT !.buffer[h] = @ \cup {p}]
    ELSE [c EXCEPT !.saved[h] = @ \cup c.buffer[h] \cup {p}, !.buffer[h] = {}]

-----------------------------------------------------------------------------
(* ChatClient: the methods *)

\* Mutant: the timers are cleared and the bubbles left as they are.
MarkNothing(c) == [c EXCEPT !.timers = {}]

\* markUncertain: every request that still waits for its receipt.
MarkUncertain(c) ==
    [c EXCEPT !.pending = [i \in Id |-> IF i \in c.timers /\ Found(c, i)
                                        THEN [@[i] EXCEPT !.status = "uncertain"]
                                        ELSE @[i]],
              !.timers = {}]

\* The call of sync() goes on waiting, but is no longer the task.
AbortSync(c) ==
    IF c.task = Nil THEN c
    ELSE [FinishSync(c, c.runs[c.task].chat) EXCEPT !.task = Nil]

\* sync() up to its first await.  since is the length of the log when the page is
\* asked for: the answer may be as old as that.
Sync(c) ==
    IF ~c.connected \/ c.current = Nil \/ c.phase # "live" THEN c
    ELSE IF c.task # Nil THEN [c EXCEPT !.runs[c.task].again = TRUE]
    ELSE LET r == CHOOSE r \in Run : c.runs[r] = Nil
         IN  [c EXCEPT !.task = r, !.wake = FALSE, !.syncing[c.current] = TRUE,
                       !.runs[r] = [chat |-> c.current, cursor |-> c.cursor[c.current],
                                    since |-> Len(log), pages |-> 0,
                                    again |-> FALSE]]

\* The finally block of sync(): only the call that is still the task finishes
\* the paging, and asks for another one if it is to be repeated.
EndRun(c, r, again) ==
    LET over == [c EXCEPT !.runs[r] = Nil]
    IN  IF c.task # r THEN over
        ELSE [FinishSync(over, c.runs[r].chat) EXCEPT !.task = Nil, !.wake = again]

\* Mutant: the answer is not compared with the task that is current now.
CurrentByChat(c, r) == c.phase # "disposed" /\ c.current = c.runs[r].chat

\* current() of sync(): the page may still be applied.  A controller is aborted by
\* abortSync, which clears the task, or by the deadline, and then no page comes.
Current(c, r) ==
    /\ c.phase # "disposed"
    /\ c.task = r
    /\ c.current = c.runs[r].chat

\* Mutant: only a client that was connected dials again.
ReconnectConnected(c) ==
    IF c.phase = "live" /\ c.connected THEN [c EXCEPT !.redial = TRUE] ELSE c

Reconnect(c) == IF c.phase = "live" THEN [c EXCEPT !.redial = TRUE] ELSE c

\* closeSocket: without its handlers a socket is as good as gone.
CloseSocket(c) == [c EXCEPT !.socket = "none"]

\* transmit; ok is whether socket.send threw.
Transmit(c, i, ok) ==
    IF ok THEN [c EXCEPT !.timers = @ \cup {i}] ELSE Sync(Uncertain(c, i))

\* ChatState.result of a receipt for a bubble that exists.
Result(c, i, reply, p) ==
    IF reply \in Refusal
    THEN [c EXCEPT !.pending[i].status = "uncertain",
                   !.pending[i].retryable = reply \notin {"do_not_retry", "reauthenticate"}]
    ELSE [c EXCEPT !.saved[c.pending[i].chat] = @ \cup {p}, !.pending[i].status = "resolved"]

\* receive() of a send_result: late and repeated receipts find no bubble.
Receipt(c, i, reply, p) ==
    LET heard  == [c EXCEPT !.timers = @ \ {i}]
        result == IF reply = "mismatch" THEN Uncertain(heard, i) ELSE Result(heard, i, reply, p)
        synced == IF reply = "queued" THEN result ELSE Sync(result)
    IN  IF ~Found(c, i) THEN c
        ELSE IF reply = "reauthenticate"
        THEN CloseSocket(MarkUncertain(AbortSync(
                 [synced EXCEPT !.phase = "authRequired", !.connected = FALSE])))
        ELSE IF reply = "reconnect" /\ synced.socket # "none"
        THEN [synced EXCEPT !.socket = "closing"]
        ELSE synced

-----------------------------------------------------------------------------
(* the handlers of the client *)

\* A call of sync() needs a place in runs; abandoned calls give theirs back.
Room == \E r \in Run : client.runs[r] = Nil

Stored(id) == \E p \in DOMAIN log : log[p].key = id

\* The position of the message stored for a request, 0 if there is none.
PositionOf(id) == IF Stored(id) THEN CHOOSE p \in DOMAIN log : log[p].key = id ELSE 0

Trouble == troubles < MaxTroubles /\ troubles' = troubles + 1

Click == clicks < MaxClicks /\ clicks' = clicks + 1

\* What the old socket carried: frames sent may still be read, receipts are lost.
SocketGone ==
    /\ late' = late \cup {wire[k] : k \in DOMAIN wire}
    /\ wire' = <<>>
    /\ receipts' = {}

OnOpen ==
    /\ client.socket = "connecting" /\ client.phase = "live" /\ Room
    /\ client' = Sync([client EXCEPT !.socket = "open", !.connected = TRUE])
    /\ UNCHANGED <<log, wire, late, receipts, troubles, clicks>>

\* The socket closes: after close(), or of its own accord.
OnClose ==
    /\ client.socket # "none"
    /\ IF client.socket = "closing" THEN UNCHANGED troubles ELSE Trouble
    /\ client' = Reconnect(MarkUncertain(AbortSync(
                     [client EXCEPT !.socket = "none", !.connected = FALSE])))
    /\ SocketGone
    /\ UNCHANGED <<log, clicks>>

\* The reconnect timer: connect().
Connect ==
    /\ client.redial
    /\ client' = [client EXCEPT !.redial = FALSE,
                    !.socket = IF client.phase = "live" THEN "connecting" ELSE @]
    /\ UNCHANGED <<log, wire, late, receipts, troubles, clicks>>

Select(h) ==
    /\ client.phase # "disposed" /\ Room
    /\ Click
    /\ client' = Sync([AbortSync(client) EXCEPT !.wake = FALSE, !.current = h,
                                                !.chats = @ \cup {h}])
    /\ UNCHANGED <<log, wire, late, receipts, troubles>>

Timer(id) ==
    /\ id \in client.timers /\ Room
    /\ client' = Sync(Uncertain([client EXCEPT !.timers = @ \ {id}], id))
    /\ UNCHANGED <<log, wire, late, receipts, troubles, clicks>>

\* The retry timer of sync().
SyncTimer ==
    /\ client.wake /\ Room
    /\ client' = Sync([client EXCEPT !.wake = FALSE])
    /\ UNCHANGED <<log, wire, late, receipts, troubles, clicks>>

\* The timer of start(), every 30 seconds.
Periodic ==
    /\ client.phase # "disposed" /\ Room
    /\ client' = Sync(client)
    /\ UNCHANGED <<log, wire, late, receipts, troubles, clicks>>

\* A page arrives for the call r of sync(), read when n messages were stored.
PageArrives(r, n) ==
    /\ client.runs[r] # Nil
    /\ LET run  == client.runs[r]
           page == Page(run.chat, run.cursor, n)
       IN  /\ n \in run.since..Len(log)
           /\ client' =
                IF ~Current(client, r) THEN EndRun(client, r, FALSE)
                ELSE IF ~ValidPage(client, run.chat, page) THEN EndRun(client, r, TRUE)
                ELSE LET merged == MergePage(client, run.chat, page)
                     IN  IF page.more /\ run.pages + 1 < BatchPages
                         THEN [merged EXCEPT !.runs[r] = [run EXCEPT !.cursor = page.next,
                                                                     !.since = Len(log),
                                                                     !.pages = @ + 1]]
                         ELSE EndRun(merged, r, page.more \/ run.again)
    /\ UNCHANGED <<log, wire, late, receipts, troubles, clicks>>

\* The fetch fails, or its deadline or abortSync aborts it: the catch block of sync().
PageFails(r) ==
    /\ client.runs[r] # Nil
    /\ IF client.task # r THEN UNCHANGED troubles ELSE Trouble
    /\ client' = EndRun(client, r, TRUE)
    /\ UNCHANGED <<log, wire, late, receipts, clicks>>

\* A stored message arrives live: once, twice, in any order, or never.
OnMessage(p) ==
    /\ client.socket = "open" /\ client.phase = "live"
    /\ p \in DOMAIN log
    /\ client' = Receive(client, log[p].chat, p)
    /\ UNCHANGED <<log, wire, late, receipts, troubles, clicks>>

\* sendError and the dispatch state: what the Comet may say of a request that it
\* saw stored, and of one it did not.  A refusal need not mean that nothing is
\* stored: the answer of Logic may be lost, or an earlier attempt was stored.
Replies(stored) ==
    IF stored THEN {"queued", "not_queued", "mismatch", "same_request"} ELSE Refusal

OnReceipt(f, reply) ==
    /\ f \in receipts /\ client.socket = "open" /\ Room
    /\ reply \in Replies(f.stored)
    /\ client' = Receipt(client, f.id, reply, PositionOf(f.id))
    /\ IF client'.socket = "none" THEN SocketGone
       ELSE receipts' = receipts \ {f} /\ UNCHANGED <<wire, late>>
    /\ UNCHANGED <<log, troubles, clicks>>

\* A frame that parseFrame refuses.
OnBadFrame ==
    /\ client.socket = "open" /\ Room
    /\ Trouble
    /\ client' = Sync(MarkUncertain(client))
    /\ UNCHANGED <<log, wire, late, receipts, clicks>>

Sendable == client.phase # "disposed" /\ client.connected /\ client.socket = "open" /\ Room

Put(c, id, ok) ==
    /\ client' = Transmit(c, id, ok)
    /\ IF ok THEN wire' = Append(wire, id) /\ UNCHANGED troubles
             ELSE Trouble /\ UNCHANGED wire
    /\ UNCHANGED <<log, late, receipts>>

Send(id, ok) ==
    /\ Sendable /\ client.current # Nil
    /\ UNCHANGED clicks
    /\ client.pending[id] = Nil
    /\ Cardinality({i \in Id : Found(client, i)}) < MaxPending
    /\ Put([client EXCEPT !.pending[id] = [chat |-> client.current, status |-> "pending",
                                           retryable |-> TRUE]], id, ok)

Retry(id, ok) ==
    /\ Sendable
    /\ Click
    /\ Found(client, id)
    /\ client.pending[id].chat = client.current
    /\ client.pending[id].retryable /\ client.pending[id].status # "pending"
    /\ Put([client EXCEPT !.pending[id].status = "pending"], id, ok)

\* dispose(): the chats are cleared and no timer or handler runs again; the
\* services are not followed any further.
Dispose ==
    /\ client.phase # "disposed"
    /\ client' = [AbortSync(client) EXCEPT !.phase = "disposed", !.socket = "none",
                    !.connected = FALSE, !.redial = FALSE, !.wake = FALSE, !.timers = {},
                    !.chats = {}, !.saved = [h \in Chat |-> {}], !.cursor = [h \in Chat |-> 0],
                    !.pending = [i \in Id |-> Nil]]
    /\ wire' = <<>> /\ late' = {} /\ receipts' = {}
    /\ UNCHANGED <<log, troubles, clicks>>

-----------------------------------------------------------------------------
(* the services *)

\* Another user's message, or one of this user's from elsewhere.
OthersWrite(h) ==
    /\ client.phase = "live"
    /\ Len(log) < MaxLog
    /\ log' = Append(log, [chat |-> h, key |-> Nil])
    /\ UNCHANGED <<wire, late, receipts, client, troubles, clicks>>

\* SubmitMessage: the request is stored at most once under its id, or refused.
Submits(id, h, stored) ==
    IF stored /\ ~Stored(id)
    THEN Len(log) < MaxLog /\ log' = Append(log, [chat |-> h, key |-> id])
    ELSE UNCHANGED log

\* The Comet reader takes one frame after the other and answers each.
Read(stored) ==
    /\ wire # <<>> /\ client.phase = "live"
    /\ LET id == Head(wire)
       IN  /\ client.pending[id] # Nil
           /\ Submits(id, client.pending[id].chat, stored)
           /\ receipts' = receipts \cup {[id |-> id, stored |-> stored]}
    /\ wire' = Tail(wire)
    /\ UNCHANGED <<late, client, troubles, clicks>>

\* A frame of a socket that is gone is read after all.
ReadLate(id) ==
    /\ id \in late /\ client.pending[id] # Nil
    /\ Submits(id, client.pending[id].chat, TRUE)
    /\ late' = late \ {id}
    /\ UNCHANGED <<wire, receipts, client, troubles, clicks>>

Next ==
    \/ OnOpen \/ OnClose \/ Connect \/ SyncTimer \/ Periodic \/ OnBadFrame \/ Dispose
    \/ \E h \in Chat : Select(h) \/ OthersWrite(h)
    \/ \E id \in Id : Timer(id) \/ ReadLate(id)
    \/ \E id \in Id, ok \in BOOLEAN : Send(id, ok) \/ Retry(id, ok)
    \/ \E r \in Run : PageFails(r) \/ \E n \in 0..Len(log) : PageArrives(r, n)
    \/ \E p \in DOMAIN log : OnMessage(p)
    \/ \E f \in receipts : \E reply \in Replies(f.stored) : OnReceipt(f, reply)
    \/ \E stored \in BOOLEAN : Read(stored)

Spec == Init /\ [][Next]_vars

\* A socket that is being opened, closed or dialled again gets there, timers
\* fire, and a fetch ends one way or another (its deadline aborts it).  Nothing is
\* promised about live messages or receipts.
Fairness ==
    /\ WF_vars(OnOpen \/ Connect \/ (client.socket = "closing" /\ OnClose))
    /\ WF_vars(SyncTimer \/ Periodic)
    /\ \A r \in Run : WF_vars(PageFails(r) \/ \E n \in 0..Len(log) : PageArrives(r, n))

FairSpec == Spec /\ Fairness

-----------------------------------------------------------------------------

\* Every stored message of a conversation at or before its cursor is in the
\* client: messages that arrive live, out of order or during paging, never make
\* synchronisation skip one (mergePage is the sole assignment of the cursor).
CursorGapFree ==
    \A h \in client.chats : \A p \in 1..client.cursor[h] :
        p <= Len(log) /\ (log[p].chat = h => p \in client.saved[h])

\* The cursor of a conversation never moves back: a page that arrives for a
\* synchronisation that was aborted, timed out or replaced is dropped (current()).
CursorForward ==
    [][client'.phase # "disposed" => \A h \in Chat : client'.cursor[h] >= client.cursor[h]]_vars

\* A bubble that is resolved has become the saved message of its request.
ResolvedIsSaved ==
    \A i \in Id : client.pending[i] # Nil /\ ~Found(client, i) =>
        \E p \in client.saved[client.pending[i].chat] :
            p \in DOMAIN log /\ log[p].key = i

\* A bubble that is pending has its timer running, which will offer it for a retry.
PendingIsTimed(c) ==
    \A i \in Id : c.pending[i] # Nil /\ c.pending[i].status = "pending" => i \in c.timers

\* What the user has sent is neither forgotten nor pending for ever: until the
\* client is disposed of it is the saved message it became, a bubble whose timer
\* runs, or one that is marked uncertain, whatever receipts were lost, late or
\* repeated, and wherever a socket broke (transmit, receive, result, markUncertain).
SentIsShown == ResolvedIsSaved /\ PendingIsTimed(client)

\* What the three properties above rest on: the call of sync() that is the task pages
\* from the cursor of its conversation, and only what is stored is receipted as such.
TaskSound(c) ==
    c.task # Nil =>
        LET run == c.runs[c.task]
        IN  run # Nil /\ run.cursor = c.cursor[run.chat]

ReceiptsTrue == \A f \in receipts : f.stored => Stored(f.id)

\* A conversation that was never opened has its cursor at 0: the gap-freedom of
\* the open ones, stated for all, survives select().
NoGap ==
    \A h \in Chat : \A p \in 1..client.cursor[h] :
        p <= Len(log) /\ (log[p].chat = h => p \in client.saved[h])

\* The inductive invariant of the client.
ClientInv == ClientTypeOK /\ TaskSound(client) /\ ReceiptsTrue /\ NoGap /\ ResolvedIsSaved

Unseen(p) ==
    /\ p \in DOMAIN log
    /\ client.current = log[p].chat /\ client.phase = "live"
    /\ p \notin client.saved[log[p].chat]

\* Once the others stop writing, every stored message of the open conversation is
\* shown, although its live delivery was lost, fetches failed and sockets broke
\* (start, sync, connect), unless the user has to sign in again.
MessagesAppear == []<>(\A p \in DOMAIN log : ~Unseen(p))

=============================================================================
