--------------------------- MODULE ChatClientProofs ---------------------------
(***************************************************************************)
(* Proofs about the chat client: the cursor of a conversation never passes *)
(* a message the client does not have and never moves back, and what the   *)
(* user sent stays on the screen.                                          *)
(***************************************************************************)
EXTENDS ChatClient, TLAPS, FiniteSetTheorems, WellFoundedInduction

\* A nonempty set of positions of the log has a largest one.
LEMMA LargestPosition ==
    ASSUME NEW n \in Nat, NEW S, S \subseteq 0..n, S # {}
    PROVE  \E p \in S : \A q \in S : q <= p
PROOF
<1> DEFINE T == {m \in Nat : n - m \in S}
<1>1. T \subseteq Nat /\ T # {}
  <2>1. PICK p : p \in S
    OBVIOUS
  <2>2. n - p \in Nat /\ n - (n - p) = p
    BY <2>1
  <2>. QED
    BY <2>1, <2>2
<1>2. \E x \in T : \A y \in T : ~ (<<y, x>> \in OpToRel(<, Nat))
  BY <1>1, NatLessThanWellFounded, WFMin, Zenon
<1>3. PICK x \in T : \A y \in T : ~ (<<y, x>> \in OpToRel(<, Nat))
  BY <1>2
<1>4. \A y \in T : ~ (y < x)
  BY <1>3 DEF OpToRel
<1>5. ASSUME NEW q \in S
      PROVE  q <= n - x
  <2>1. q \in 0..n
    BY <1>5
  <2>2. n - q \in Nat /\ n - (n - q) = q
    BY <2>1
  <2>3. n - q \in T
    BY <2>2
  <2>4. ~ (n - q < x) /\ x \in Nat
    BY <1>4, <2>3
  <2>. QED
    BY <2>1, <2>4
<1>. QED
  BY <1>5

-----------------------------------------------------------------------------
(* The page of messages/sync. *)

\* A page never goes back, stays within what was stored, and holds every message
\* of the conversation between the cursor it was asked for and the next one.
LEMMA PageHasNoGap ==
    ASSUME NEW h \in Chat, NEW cursor \in Nat, NEW n \in Nat,
           NEW page, page = Page(h, cursor, n)
    PROVE  /\ page.got \subseteq (cursor + 1)..n
           /\ page.more \in BOOLEAN
           /\ page.next \in Nat /\ page.next >= cursor
           /\ page.got = {} => page.next = cursor
           /\ page.got # {} => page.next <= n
           /\ \A p \in (cursor + 1)..page.next : log[p].chat = h => p \in page.got
PROOF
<1> DEFINE after == {p \in (cursor + 1)..n : log[p].chat = h}
           Before(p) == {q \in after : q < p}
           got == {p \in after : Cardinality(Before(p)) < PageSize}
           next == IF got = {} THEN cursor
                   ELSE CHOOSE p \in got : \A q \in got : q <= p
<1>1. Page(h, cursor, n) = [got |-> got, more |-> got # after, next |-> next]
  BY DEF Page
<1>6. page.got = got /\ page.more = (got # after) /\ page.next = next
  BY <1>1
<1>2. got \subseteq after /\ after \subseteq (cursor + 1)..n
  OBVIOUS
<1>3. IsFiniteSet(after)
  <2>1. IsFiniteSet((cursor + 1)..n)
    BY FS_Interval
  <2>. QED
    BY <2>1, <1>2, FS_Subset
<1>4. CASE got = {}
  <2>1. next = cursor
    BY <1>4
  <2> HIDE DEF next, got
  <2>2. next \in Nat /\ next >= cursor /\ (cursor + 1)..next = {}
    BY <2>1
  <2>. QED
    BY <1>2, <1>4, <1>6, <2>1, <2>2
<1>5. CASE got # {}
  <2>1. got \subseteq 0..n
    BY <1>2
  <2>2. \E p \in got : \A q \in got : q <= p
    BY <2>1, <1>5, LargestPosition
  <2>3. next \in got /\ \A q \in got : q <= next
    BY <2>2, <1>5
  <2>4. next \in (cursor + 1)..n
    BY <2>3, <1>2
  <2>5. ASSUME NEW p \in (cursor + 1)..next, log[p].chat = h
        PROVE  p \in got
    <3>1. p \in after
      BY <2>4, <2>5
    <3>2. Before(p) \subseteq Before(next) /\ Before(next) \subseteq after
      <4> HIDE DEF next
      <4>1. p \in Int /\ next \in Int /\ p <= next /\ after \subseteq Int
        BY <2>4, <1>2
      <4> HIDE DEF after
      <4>2. \A q \in after : q < p => q < next
        BY <4>1
      <4>. QED
        BY <4>2
    <3>3. Cardinality(Before(next)) < PageSize
      BY <2>3
    <3>4. /\ Cardinality(Before(p)) <= Cardinality(Before(next))
          /\ Cardinality(Before(p)) \in Nat /\ Cardinality(Before(next)) \in Nat
      BY <3>2, <1>3, FS_Subset, FS_CardinalityType
    <3>5. Cardinality(Before(p)) < PageSize
      BY <3>3, <3>4, ClientConstants
    <3>. QED
      BY <3>1, <3>5
  <2> HIDE DEF next, got
  <2>6. next \in Nat /\ next >= cursor /\ next <= n
    BY <2>4
  <2>7. got \subseteq (cursor + 1)..n
    BY <1>2
  <2>. QED
    BY <1>5, <1>6, <2>5, <2>6, <2>7
<1>. QED
  BY <1>4, <1>5

-----------------------------------------------------------------------------
(* The methods of the client. *)

\* A bubble that is no longer one: its request was resolved.
Resolved(c, i) == c.pending[i] # Nil /\ ~Found(c, i)

\* What every method but result() and mergePage() does to the client: cursors stay,
\* saved messages stay, and no bubble is resolved.
Keeps(c, d) ==
    /\ d \in Client /\ TaskSound(d)
    /\ d.cursor = c.cursor
    /\ \A h \in Chat : c.saved[h] \subseteq d.saved[h]
    /\ \A i \in Id : Resolved(d, i) => Resolved(c, i) /\ d.pending[i].chat = c.pending[i].chat

Free(c) == \E r \in Run : c.runs[r] = Nil

LEMMA KeepsTransitive ==
    ASSUME NEW c, NEW d, NEW e, Keeps(c, d), Keeps(d, e)
    PROVE  Keeps(c, e)
PROOF
<1>1. \A h \in Chat : c.saved[h] \subseteq e.saved[h]
  BY DEF Keeps
<1>2. \A i \in Id : Resolved(e, i) => Resolved(c, i) /\ e.pending[i].chat = c.pending[i].chat
  BY DEF Keeps
<1>. QED
  BY <1>1, <1>2 DEF Keeps

\* What is neither a message nor a bubble nor the synchronisation may change freely.
LEMMA KeepsByFields ==
    ASSUME NEW c \in Client, TaskSound(c), NEW d \in Client,
           d.cursor = c.cursor, d.task = c.task, d.runs = c.runs,
           \A h \in Chat : c.saved[h] \subseteq d.saved[h],
           \A i \in Id : Resolved(d, i) => Resolved(c, i) /\ d.pending[i].chat = c.pending[i].chat
    PROVE  Keeps(c, d)
PROOF
  BY DEF Keeps, TaskSound

LEMMA UncertainKeeps ==
    ASSUME NEW c \in Client, TaskSound(c), NEW i \in Id
    PROVE  Keeps(c, Uncertain(c, i)) /\ Uncertain(c, i).runs = c.runs
PROOF
<1> DEFINE d == Uncertain(c, i)
<1>1. CASE ~Found(c, i)
  BY <1>1, KeepsByFields DEF Uncertain
<1>2. CASE Found(c, i)
  <2>1. c.pending[i] \in Bubble
    BY <1>2 DEF Found, Client
  <2> DEFINE b == [c.pending[i] EXCEPT !.status = "uncertain"]
  <2>2. b \in Bubble /\ b.status = "uncertain" /\ b.chat = c.pending[i].chat
    BY <2>1 DEF Bubble
  <2>3. d = [c EXCEPT !.pending = [c.pending EXCEPT ![i] = b]]
    BY <1>2 DEF Uncertain
  <2> HIDE DEF b
  <2>4. d \in Client /\ d.cursor = c.cursor /\ d.task = c.task /\ d.runs = c.runs
        /\ d.saved = c.saved /\ d.pending = [c.pending EXCEPT ![i] = b]
    BY <2>2, <2>3 DEF Client
  <2>5. \A j \in Id : j # i => d.pending[j] = c.pending[j]
    BY <2>4 DEF Client
  <2>6. d.pending[i] = b
    BY <2>4 DEF Client
  <2> HIDE DEF d
  <2>7. \A j \in Id : Resolved(d, j) => Resolved(c, j) /\ d.pending[j].chat = c.pending[j].chat
    BY <2>2, <2>5, <2>6 DEF Resolved, Found
  <2>8. \A h \in Chat : c.saved[h] \subseteq d.saved[h]
    BY <2>4
  <2>9. Keeps(c, d)
    BY <2>4, <2>7, <2>8, KeepsByFields
  <2>. QED
    BY <2>4, <2>9 DEF d
<1>. QED
  BY <1>1, <1>2

LEMMA FinishSyncFields ==
    ASSUME NEW c \in Client, NEW h \in Chat
    PROVE  /\ FinishSync(c, h) \in Client
           /\ FinishSync(c, h).cursor = c.cursor
           /\ FinishSync(c, h).task = c.task
           /\ FinishSync(c, h).runs = c.runs
           /\ FinishSync(c, h).pending = c.pending
           /\ FinishSync(c, h).chats = c.chats
           /\ \A g \in Chat : c.saved[g] \subseteq FinishSync(c, h).saved[g]
PROOF
<1> DEFINE s == [c.saved EXCEPT ![h] = @ \cup c.buffer[h]]
           b == [c.buffer EXCEPT ![h] = {}]
           y == [c.syncing EXCEPT ![h] = FALSE]
<1>1. /\ s \in [Chat -> SUBSET Nat] /\ b \in [Chat -> SUBSET Nat] /\ y \in [Chat -> BOOLEAN]
      /\ \A g \in Chat : c.saved[g] \subseteq s[g]
  BY DEF Client
<1>2. FinishSync(c, h) = [c EXCEPT !.saved = s, !.buffer = b, !.syncing = y]
  BY DEF FinishSync
<1> HIDE DEF s, b, y
<1>. QED
  BY <1>1, <1>2 DEF Client

LEMMA MarkUncertainKeeps ==
    ASSUME NEW c \in Client, TaskSound(c)
    PROVE  Keeps(c, MarkUncertain(c)) /\ MarkUncertain(c).runs = c.runs
PROOF
<1> DEFINE P == [i \in Id |-> IF i \in c.timers /\ Found(c, i)
                              THEN [c.pending[i] EXCEPT !.status = "uncertain"]
                              ELSE c.pending[i]]
           d == MarkUncertain(c)
<1>1. d = [c EXCEPT !.pending = P, !.timers = {}]
  BY DEF MarkUncertain
<1>2. ASSUME NEW i \in Id
      PROVE  /\ P[i] \in Bubble \cup {Nil}
             /\ P[i] # Nil /\ P[i].status = "resolved" =>
                  Resolved(c, i) /\ P[i].chat = c.pending[i].chat
  <2>1. CASE i \in c.timers /\ Found(c, i)
    <3>1. c.pending[i] \in Bubble /\ P[i] = [c.pending[i] EXCEPT !.status = "uncertain"]
      BY <2>1 DEF Found, Client
    <3>2. P[i] \in Bubble /\ P[i].status = "uncertain"
      BY <3>1 DEF Bubble
    <3>. QED
      BY <3>2
  <2>2. CASE ~(i \in c.timers /\ Found(c, i))
    <3>1. P[i] = c.pending[i]
      BY <2>2
    <3>2. c.pending[i] \in Bubble \cup {Nil}
      BY DEF Client
    <3>. QED
      BY <3>1, <3>2 DEF Resolved, Found
  <2>. QED
    BY <2>1, <2>2
<1>3. P \in [Id -> Bubble \cup {Nil}]
  BY <1>2
<1> HIDE DEF P
<1>4. /\ d \in Client /\ d.pending = P /\ d.cursor = c.cursor /\ d.task = c.task
      /\ d.runs = c.runs /\ d.saved = c.saved
  BY <1>1, <1>3 DEF Client
<1> HIDE DEF d
<1>5. \A i \in Id : Resolved(d, i) => Resolved(c, i) /\ d.pending[i].chat = c.pending[i].chat
  BY <1>2, <1>4 DEF Resolved, Found
<1>6. Keeps(c, d)
  BY <1>4, <1>5, KeepsByFields
<1>. QED
  BY <1>4, <1>6 DEF d

\* Without a task every cursor is as good as another.
LEMMA KeepsWithoutTask ==
    ASSUME NEW c \in Client, NEW d \in Client, d.task = Nil,
           d.cursor = c.cursor, d.pending = c.pending,
           \A h \in Chat : c.saved[h] \subseteq d.saved[h]
    PROVE  Keeps(c, d)
PROOF
  BY DEF Keeps, TaskSound, Resolved, Found

LEMMA RunsTyped ==
    ASSUME NEW c \in Client, NEW r \in Run, c.runs[r] # Nil
    PROVE  /\ c.runs[r] \in SyncRun
           /\ c.runs[r].chat \in Chat /\ c.runs[r].cursor \in Nat /\ c.runs[r].since \in Nat
PROOF
<1>1. c.runs[r] \in SyncRun
  BY DEF Client
<1>. QED
  BY <1>1 DEF SyncRun

LEMMA AbortSyncKeeps ==
    ASSUME NEW c \in Client, TaskSound(c)
    PROVE  /\ Keeps(c, AbortSync(c)) /\ AbortSync(c).runs = c.runs
           /\ AbortSync(c).task = Nil
PROOF
<1>1. CASE c.task = Nil
  BY <1>1, KeepsByFields DEF AbortSync
<1>2. CASE c.task # Nil
  <2>1. c.task \in Run
    BY <1>2 DEF Client
  <2>2. c.runs[c.task] # Nil
    BY <1>2 DEF TaskSound
  <2>3. PICK h \in Chat : h = c.runs[c.task].chat
    BY <2>1, <2>2, RunsTyped
  <2>4. PICK f : f = FinishSync(c, h)
    OBVIOUS
  <2>5. /\ f \in Client /\ f.cursor = c.cursor /\ f.runs = c.runs /\ f.pending = c.pending
        /\ \A g \in Chat : c.saved[g] \subseteq f.saved[g]
    BY <2>4, FinishSyncFields
  <2>6. PICK d : d = [f EXCEPT !.task = Nil]
    OBVIOUS
  <2>7. /\ d \in Client /\ d.task = Nil /\ d.cursor = f.cursor /\ d.runs = f.runs
        /\ d.pending = f.pending /\ d.saved = f.saved
    BY <2>5, <2>6 DEF Client
  <2>8. AbortSync(c) = d
    BY <1>2, <2>3, <2>4, <2>6 DEF AbortSync
  <2>9. Keeps(c, d)
    BY <2>5, <2>7, KeepsWithoutTask
  <2>. QED
    BY <2>5, <2>7, <2>8, <2>9
<1>. QED
  BY <1>1, <1>2

LEMMA SyncKeeps ==
    ASSUME NEW c \in Client, TaskSound(c), Free(c), log \in Seq(Message)
    PROVE  Keeps(c, Sync(c))
PROOF
<1>1. CASE ~c.connected \/ c.current = Nil \/ c.phase # "live"
  <2>1. Sync(c) = c
    BY <1>1 DEF Sync
  <2>. QED
    BY <2>1, KeepsByFields
<1>2. CASE ~(~c.connected \/ c.current = Nil \/ c.phase # "live") /\ c.task # Nil
  <2>1. c.task \in Run /\ c.runs[c.task] # Nil
    BY <1>2 DEF TaskSound, Client
  <2>2. PICK t \in Run : t = c.task
    BY <2>1
  <2>3. c.runs[t] \in SyncRun /\ c.runs[t] # Nil /\ c.runs[t].cursor = c.cursor[c.runs[t].chat]
    BY <1>2, <2>1, <2>2, RunsTyped DEF TaskSound
  <2>4. PICK run : run = [c.runs[t] EXCEPT !.again = TRUE]
    OBVIOUS
  <2>5. run \in SyncRun /\ run.chat = c.runs[t].chat /\ run.cursor = c.runs[t].cursor
    BY <2>3, <2>4 DEF SyncRun
  <2>6. PICK d : d = [c EXCEPT !.runs = [c.runs EXCEPT ![t] = run]]
    OBVIOUS
  <2>7. Sync(c) = d
    BY <1>2, <2>2, <2>4, <2>6 DEF Sync
  <2>8. /\ d \in Client /\ d.task = t /\ d.cursor = c.cursor /\ d.saved = c.saved
        /\ d.pending = c.pending /\ d.runs[t] = run
    BY <2>2, <2>5, <2>6 DEF Client
  <2>9. TaskSound(d)
    <3>1. run # Nil
      BY <2>5, ClientConstants
    <3>. QED
      BY <3>1, <2>3, <2>5, <2>8 DEF TaskSound
  <2>10. Keeps(c, d)
    BY <2>8, <2>9 DEF Keeps, Resolved, Found
  <2>. QED
    BY <2>7, <2>10
<1>3. CASE ~(~c.connected \/ c.current = Nil \/ c.phase # "live") /\ c.task = Nil
  <2>1. PICK r \in Run : r = CHOOSE q \in Run : c.runs[q] = Nil
    BY DEF Free
  <2>2. PICK h \in Chat : h = c.current
    BY <1>3 DEF Client
  <2>3. PICK run : run = [chat |-> h, cursor |-> c.cursor[h], since |-> Len(log),
                          pages |-> 0, again |-> FALSE]
    OBVIOUS
  <2>4. c.cursor[h] \in Nat /\ Len(log) \in Nat
    BY DEF Client
  <2>5. run \in SyncRun /\ run.chat = h /\ run.cursor = c.cursor[h]
    BY <2>3, <2>4 DEF SyncRun
  <2>6. PICK d : d = [c EXCEPT !.task = r, !.wake = FALSE,
                               !.syncing = [c.syncing EXCEPT ![h] = TRUE],
                               !.runs = [c.runs EXCEPT ![r] = run]]
    OBVIOUS
  <2>7. Sync(c) = d
    BY <1>3, <2>1, <2>2, <2>3, <2>6 DEF Sync
  <2>8. /\ d \in Client /\ d.task = r /\ d.cursor = c.cursor /\ d.saved = c.saved
        /\ d.pending = c.pending /\ d.runs[r] = run
    BY <2>5, <2>6 DEF Client
  <2>9. TaskSound(d)
    <3>1. run # Nil
      BY <2>5, ClientConstants
    <3>. QED
      BY <3>1, <2>5, <2>8 DEF TaskSound
  <2>10. Keeps(c, d)
    BY <2>8, <2>9 DEF Keeps, Resolved, Found
  <2>. QED
    BY <2>7, <2>10
<1>. QED
  BY <1>1, <1>2, <1>3

\* EndRun is also called on a client whose cursor a page has just moved: then it is
\* the task that ends.
LEMMA EndRunKeeps ==
    ASSUME NEW c \in Client, NEW r \in Run, NEW again \in BOOLEAN,
           c.runs[r] # Nil, c.task = r \/ TaskSound(c)
    PROVE  Keeps(c, EndRun(c, r, again))
PROOF
<1>1. PICK over : over = [c EXCEPT !.runs = [c.runs EXCEPT ![r] = Nil]]
  OBVIOUS
<1>2. /\ over \in Client /\ over.task = c.task /\ over.cursor = c.cursor
      /\ over.saved = c.saved /\ over.pending = c.pending
      /\ over.runs = [c.runs EXCEPT ![r] = Nil]
  BY <1>1 DEF Client
<1>3. CASE c.task # r
  <2>1. EndRun(c, r, again) = over
    BY <1>1, <1>3 DEF EndRun
  <2>2. TaskSound(over)
    <3>1. CASE c.task = Nil
      BY <3>1, <1>2 DEF TaskSound
    <3>2. CASE c.task # Nil
      <4>1. c.task \in Run
        BY <3>2 DEF Client
      <4>2. over.runs[c.task] = c.runs[c.task]
        BY <4>1, <1>2, <1>3 DEF Client
      <4>. QED
        BY <4>2, <1>2, <1>3 DEF TaskSound
    <3>. QED
      BY <3>1, <3>2
  <2>3. Keeps(c, over)
    BY <2>2, <1>2 DEF Keeps, Resolved, Found
  <2>. QED
    BY <2>1, <2>3
<1>4. CASE c.task = r
  <2>1. PICK h \in Chat : h = c.runs[r].chat
    BY RunsTyped
  <2>2. PICK f : f = FinishSync(over, h)
    OBVIOUS
  <2>3. /\ f \in Client /\ f.cursor = c.cursor /\ f.pending = c.pending
        /\ \A g \in Chat : c.saved[g] \subseteq f.saved[g]
    BY <2>2, <1>2, FinishSyncFields
  <2>4. PICK d : d = [f EXCEPT !.task = Nil, !.wake = again]
    OBVIOUS
  <2>5. /\ d \in Client /\ d.task = Nil /\ d.cursor = f.cursor
        /\ d.pending = f.pending /\ d.saved = f.saved
    BY <2>3, <2>4 DEF Client
  <2>6. EndRun(c, r, again) = d
    BY <1>1, <1>4, <2>1, <2>2, <2>4 DEF EndRun
  <2>7. Keeps(c, d)
    BY <2>3, <2>5, KeepsWithoutTask
  <2>. QED
    BY <2>6, <2>7
<1>. QED
  BY <1>3, <1>4

LEMMA ReconnectKeeps ==
    ASSUME NEW c \in Client, TaskSound(c)
    PROVE  Keeps(c, Reconnect(c))
PROOF
<1>1. PICK d : d = Reconnect(c)
  OBVIOUS
<1>2. /\ d \in Client /\ d.cursor = c.cursor /\ d.task = c.task /\ d.runs = c.runs
      /\ d.saved = c.saved /\ d.pending = c.pending
  BY <1>1 DEF Reconnect, Client
<1>3. \A i \in Id : Resolved(d, i) => Resolved(c, i) /\ d.pending[i].chat = c.pending[i].chat
  BY <1>2 DEF Resolved, Found
<1>. QED
  BY <1>1, <1>2, <1>3, KeepsByFields

LEMMA CloseSocketKeeps ==
    ASSUME NEW c \in Client, TaskSound(c)
    PROVE  Keeps(c, CloseSocket(c))
PROOF
<1>1. PICK d : d = CloseSocket(c)
  OBVIOUS
<1>2. /\ d \in Client /\ d.cursor = c.cursor /\ d.task = c.task /\ d.runs = c.runs
      /\ d.saved = c.saved /\ d.pending = c.pending
  BY <1>1 DEF CloseSocket, Client
<1>3. \A i \in Id : Resolved(d, i) => Resolved(c, i) /\ d.pending[i].chat = c.pending[i].chat
  BY <1>2 DEF Resolved, Found
<1>. QED
  BY <1>1, <1>2, <1>3, KeepsByFields

\* A message that arrives live is saved or buffered, and never moves a cursor.
LEMMA ReceiveKeeps ==
    ASSUME NEW c \in Client, TaskSound(c), NEW h \in Chat, NEW p \in Nat
    PROVE  Keeps(c, Receive(c, h, p))
PROOF
<1> DEFINE s == [c.saved EXCEPT ![h] = @ \cup {p}]
           b == [c.buffer EXCEPT ![h] = @ \cup {p}]
           t == [c.saved EXCEPT ![h] = @ \cup c.buffer[h] \cup {p}]
           e == [c.buffer EXCEPT ![h] = {}]
<1>1. /\ s \in [Chat -> SUBSET Nat] /\ b \in [Chat -> SUBSET Nat]
      /\ t \in [Chat -> SUBSET Nat] /\ e \in [Chat -> SUBSET Nat]
      /\ \A g \in Chat : c.saved[g] \subseteq s[g] /\ c.saved[g] \subseteq t[g]
  BY DEF Client
<1>2. PICK d : d = Receive(c, h, p)
  OBVIOUS
<1>3. \/ d = c
      \/ d = [c EXCEPT !.saved = s]
      \/ d = [c EXCEPT !.buffer = b]
      \/ d = [c EXCEPT !.saved = t, !.buffer = e]
  BY <1>2 DEF Receive
<1> HIDE DEF s, b, t, e
<1>4. /\ d \in Client /\ d.cursor = c.cursor /\ d.task = c.task /\ d.runs = c.runs
      /\ d.pending = c.pending /\ (d.saved = c.saved \/ d.saved = s \/ d.saved = t)
  BY <1>1, <1>3 DEF Client
<1>5. \A g \in Chat : c.saved[g] \subseteq d.saved[g]
  BY <1>1, <1>4
<1>6. \A i \in Id : Resolved(d, i) => Resolved(c, i) /\ d.pending[i].chat = c.pending[i].chat
  BY <1>4 DEF Resolved, Found
<1>. QED
  BY <1>2, <1>4, <1>5, <1>6, KeepsByFields

\* The sets of handlers that end in a call of sync().
LEMMA KeepsThenSync ==
    ASSUME NEW c \in Client, NEW d, Keeps(c, d), Free(d), log \in Seq(Message)
    PROVE  Keeps(c, Sync(d))
PROOF
<1>1. d \in Client /\ TaskSound(d)
  BY DEF Keeps
<1>2. Keeps(d, Sync(d))
  BY <1>1, SyncKeeps
<1>. QED
  BY <1>2, KeepsTransitive

LEMMA TransmitKeeps ==
    ASSUME NEW c \in Client, TaskSound(c), Free(c), log \in Seq(Message),
           NEW i \in Id, NEW ok \in BOOLEAN
    PROVE  Keeps(c, Transmit(c, i, ok))
PROOF
<1>1. CASE ok
  <2>1. PICK d : d = [c EXCEPT !.timers = @ \cup {i}]
    OBVIOUS
  <2>2. /\ d \in Client /\ d.cursor = c.cursor /\ d.task = c.task /\ d.runs = c.runs
        /\ d.saved = c.saved /\ d.pending = c.pending
    BY <2>1 DEF Client
  <2>3. \A j \in Id : Resolved(d, j) => Resolved(c, j) /\ d.pending[j].chat = c.pending[j].chat
    BY <2>2 DEF Resolved, Found
  <2>4. Keeps(c, d)
    BY <2>2, <2>3, KeepsByFields
  <2>. QED
    BY <1>1, <2>1, <2>4 DEF Transmit
<1>2. CASE ~ok
  <2>1. Transmit(c, i, ok) = Sync(Uncertain(c, i))
    BY <1>2 DEF Transmit
  <2>2. PICK d : d = Uncertain(c, i)
    OBVIOUS
  <2>3. Keeps(c, d) /\ Free(d)
    BY <2>2, UncertainKeeps DEF Free
  <2>4. Keeps(c, Sync(d))
    BY <2>3, KeepsThenSync
  <2>. QED
    BY <2>1, <2>2, <2>4
<1>. QED
  BY <1>1, <1>2

\* What a receipt does: as the other methods, but the bubble of the request may be
\* resolved, by a receipt that is no refusal and together with its saved message.
Settles(c, d, i, p, refused) ==
    /\ d \in Client /\ TaskSound(d)
    /\ d.cursor = c.cursor
    /\ \A h \in Chat : c.saved[h] \subseteq d.saved[h]
    /\ \A j \in Id : Resolved(d, j) =>
           \/ Resolved(c, j) /\ d.pending[j].chat = c.pending[j].chat
           \/ ~refused /\ j = i /\ p \in d.saved[d.pending[j].chat]

LEMMA BubbleTyped ==
    ASSUME NEW c \in Client, NEW i \in Id, c.pending[i] # Nil
    PROVE  c.pending[i] \in Bubble /\ c.pending[i].chat \in Chat
PROOF
<1>1. c.pending[i] \in Bubble
  BY DEF Client
<1>. QED
  BY <1>1 DEF Bubble

LEMMA KeepsSettles ==
    ASSUME NEW c, NEW d, NEW i, NEW p, NEW refused, Keeps(c, d)
    PROVE  Settles(c, d, i, p, refused)
PROOF
  BY DEF Keeps, Settles

LEMMA SettlesThenKeeps ==
    ASSUME NEW c, NEW d, NEW e, NEW i, NEW p, NEW refused,
           Settles(c, d, i, p, refused), Keeps(d, e)
    PROVE  Settles(c, e, i, p, refused)
PROOF
<1>1. \A h \in Chat : c.saved[h] \subseteq e.saved[h]
  BY DEF Keeps, Settles
<1>2. ASSUME NEW j \in Id, Resolved(e, j)
      PROVE  \/ Resolved(c, j) /\ e.pending[j].chat = c.pending[j].chat
             \/ ~refused /\ j = i /\ p \in e.saved[e.pending[j].chat]
  <2>1. Resolved(d, j) /\ e.pending[j].chat = d.pending[j].chat
    BY <1>2 DEF Keeps
  <2>2. d.pending[j].chat \in Chat
    BY <2>1, BubbleTyped DEF Settles, Resolved
  <2>3. d.saved[d.pending[j].chat] \subseteq e.saved[d.pending[j].chat]
    BY <2>2 DEF Keeps
  <2>. QED
    BY <2>1, <2>3 DEF Settles
<1>. QED
  BY <1>1, <1>2 DEF Keeps, Settles

LEMMA ResultSettles ==
    ASSUME NEW c \in Client, TaskSound(c), NEW i \in Id, Found(c, i), NEW reply, NEW p \in Nat
    PROVE  /\ Settles(c, Result(c, i, reply, p), i, p, reply \in Refusal)
           /\ Result(c, i, reply, p).runs = c.runs
PROOF
<1> DEFINE P(b) == [c.pending EXCEPT ![i] = b]
<1>1. c.pending[i] \in Bubble /\ c.pending[i] # Nil
  BY BubbleTyped DEF Found
<1>2. CASE reply \in Refusal
  <2>1. PICK again \in BOOLEAN : again = (reply \notin {"do_not_retry", "reauthenticate"})
    OBVIOUS
  <2>2. PICK b : b = [c.pending[i] EXCEPT !.status = "uncertain", !.retryable = again]
    OBVIOUS
  <2>3. b \in Bubble /\ b.status = "uncertain"
    BY <1>1, <2>1, <2>2 DEF Bubble
  <2>4. PICK d : d = [c EXCEPT !.pending = P(b)]
    OBVIOUS
  <2>5. /\ d \in Client /\ d.cursor = c.cursor /\ d.task = c.task /\ d.runs = c.runs
        /\ d.saved = c.saved /\ d.pending = P(b)
    BY <2>3, <2>4 DEF Client
  <2>6. d.pending[i] = b /\ \A j \in Id : j # i => d.pending[j] = c.pending[j]
    BY <2>5 DEF Client
  <2>7. \A j \in Id : Resolved(d, j) => Resolved(c, j) /\ d.pending[j].chat = c.pending[j].chat
    BY <2>3, <2>6 DEF Resolved, Found
  <2>8. Keeps(c, d)
    BY <2>5, <2>7, KeepsByFields
  <2>9. Result(c, i, reply, p) = d
    BY <1>2, <2>1, <2>2, <2>4 DEF Result
  <2>. QED
    BY <2>5, <2>8, <2>9, KeepsSettles
<1>3. CASE reply \notin Refusal
  <2>1. PICK h \in Chat : h = c.pending[i].chat
    BY <1>1 DEF Bubble
  <2>2. PICK b : b = [c.pending[i] EXCEPT !.status = "resolved"]
    OBVIOUS
  <2>3. b \in Bubble /\ b.chat = h
    BY <1>1, <2>1, <2>2 DEF Bubble
  <2>4. PICK s : s = [c.saved EXCEPT ![h] = @ \cup {p}]
    OBVIOUS
  <2>5. s \in [Chat -> SUBSET Nat] /\ p \in s[h] /\ \A g \in Chat : c.saved[g] \subseteq s[g]
    BY <2>4 DEF Client
  <2>6. PICK d : d = [c EXCEPT !.saved = s, !.pending = P(b)]
    OBVIOUS
  <2>7. /\ d \in Client /\ d.cursor = c.cursor /\ d.task = c.task /\ d.runs = c.runs
        /\ d.saved = s /\ d.pending = P(b)
    BY <2>3, <2>5, <2>6 DEF Client
  <2>8. d.pending[i] = b /\ \A j \in Id : j # i => d.pending[j] = c.pending[j]
    BY <2>7 DEF Client
  <2>9. Result(c, i, reply, p) = d
    BY <1>3, <2>1, <2>2, <2>4, <2>6 DEF Result
  <2>10. TaskSound(d)
    BY <2>7 DEF TaskSound
  <2>11. p \in d.saved[d.pending[i].chat]
    BY <2>3, <2>5, <2>7, <2>8
  <2>12. \A j \in Id : j # i /\ Resolved(d, j) =>
             Resolved(c, j) /\ d.pending[j].chat = c.pending[j].chat
    BY <2>8 DEF Resolved, Found
  <2>13. \A g \in Chat : c.saved[g] \subseteq d.saved[g]
    BY <2>5, <2>7
  <2>14. Settles(c, d, i, p, reply \in Refusal)
    BY <1>3, <2>7, <2>10, <2>11, <2>12, <2>13 DEF Settles
  <2>. QED
    BY <2>7, <2>9, <2>14
<1>. QED
  BY <1>2, <1>3

LEMMA ReceiptSettles ==
    ASSUME NEW c \in Client, TaskSound(c), Free(c), log \in Seq(Message),
           NEW i \in Id, NEW reply, NEW p \in Nat
    PROVE  Settles(c, Receipt(c, i, reply, p), i, p, reply \in Refusal)
PROOF
<1> DEFINE S(d) == Settles(c, d, i, p, reply \in Refusal)
<1>1. CASE ~Found(c, i)
  <2>1. Receipt(c, i, reply, p) = c
    BY <1>1 DEF Receipt
  <2>2. Keeps(c, c)
    BY KeepsByFields
  <2>. QED
    BY <2>1, <2>2, KeepsSettles
<1>2. CASE Found(c, i)
  <2>1. PICK heard : heard = [c EXCEPT !.timers = @ \ {i}]
    OBVIOUS
  <2>2. /\ heard \in Client /\ heard.cursor = c.cursor /\ heard.task = c.task
        /\ heard.runs = c.runs /\ heard.saved = c.saved /\ heard.pending = c.pending
    BY <2>1 DEF Client
  <2>3. Found(heard, i) /\ TaskSound(heard)
    BY <1>2, <2>2 DEF Found, TaskSound
  <2>4. PICK result : result = IF reply = "mismatch" THEN Uncertain(heard, i)
                               ELSE Result(heard, i, reply, p)
    OBVIOUS
  <2>5. Settles(heard, result, i, p, reply \in Refusal) /\ result.runs = c.runs
    <3>1. CASE reply = "mismatch"
      BY <3>1, <2>2, <2>3, <2>4, UncertainKeeps, KeepsSettles
    <3>2. CASE reply # "mismatch"
      BY <3>2, <2>2, <2>3, <2>4, ResultSettles
    <3>. QED
      BY <3>1, <3>2
  <2>6. S(result)
    BY <2>2, <2>5 DEF Settles, Resolved, Found
  <2>7. result \in Client /\ TaskSound(result) /\ Free(result)
    BY <2>5 DEF Settles, Free
  <2>8. PICK synced : synced = IF reply = "queued" THEN result ELSE Sync(result)
    OBVIOUS
  <2>9. S(synced)
    <3>1. Keeps(result, Sync(result))
      BY <2>7, SyncKeeps
    <3>2. S(Sync(result))
      BY <2>6, <3>1, SettlesThenKeeps
    <3>. QED
      BY <2>6, <2>8, <3>2
  <2>10. synced \in Client /\ TaskSound(synced)
    BY <2>9 DEF Settles
  <2>11. CASE reply = "reauthenticate"
    <3>1. PICK d : d = [synced EXCEPT !.phase = "authRequired", !.connected = FALSE]
      OBVIOUS
    <3>2. /\ d \in Client /\ d.cursor = synced.cursor /\ d.task = synced.task
          /\ d.runs = synced.runs /\ d.saved = synced.saved /\ d.pending = synced.pending
      BY <2>10, <3>1 DEF Client
    <3>3. \A j \in Id : Resolved(d, j) =>
              Resolved(synced, j) /\ d.pending[j].chat = synced.pending[j].chat
      BY <3>2 DEF Resolved, Found
    <3>4. Keeps(synced, d) /\ TaskSound(d)
      BY <2>10, <3>2, <3>3, KeepsByFields DEF Keeps
    <3>5. PICK e : e = AbortSync(d)
      OBVIOUS
    <3>6. Keeps(d, e) /\ e \in Client /\ TaskSound(e)
      BY <3>2, <3>4, <3>5, AbortSyncKeeps DEF Keeps
    <3>7. PICK f : f = MarkUncertain(e)
      OBVIOUS
    <3>8. Keeps(e, f) /\ f \in Client /\ TaskSound(f)
      BY <3>6, <3>7, MarkUncertainKeeps DEF Keeps
    <3>9. PICK g : g = CloseSocket(f)
      OBVIOUS
    <3>10. Keeps(f, g)
      BY <3>8, <3>9, CloseSocketKeeps
    <3>11. Receipt(c, i, reply, p) = g
      BY <1>2, <2>1, <2>4, <2>8, <2>11, <3>1, <3>5, <3>7, <3>9 DEF Receipt
    <3>12. S(d)
      BY <2>9, <3>4, SettlesThenKeeps
    <3>13. S(e)
      BY <3>12, <3>6, SettlesThenKeeps
    <3>14. S(f)
      BY <3>13, <3>8, SettlesThenKeeps
    <3>15. S(g)
      BY <3>14, <3>10, SettlesThenKeeps
    <3>. QED
      BY <3>11, <3>15
  <2>12. CASE reply # "reauthenticate" /\ reply = "reconnect" /\ synced.socket # "none"
    <3>1. PICK d : d = [synced EXCEPT !.socket = "closing"]
      OBVIOUS
    <3>2. /\ d \in Client /\ d.cursor = synced.cursor /\ d.task = synced.task
          /\ d.runs = synced.runs /\ d.saved = synced.saved /\ d.pending = synced.pending
      BY <2>10, <3>1 DEF Client
    <3>3. \A j \in Id : Resolved(d, j) =>
              Resolved(synced, j) /\ d.pending[j].chat = synced.pending[j].chat
      BY <3>2 DEF Resolved, Found
    <3>4. Keeps(synced, d)
      BY <2>10, <3>2, <3>3, KeepsByFields
    <3>5. Receipt(c, i, reply, p) = d
      BY <1>2, <2>1, <2>4, <2>8, <2>12, <3>1 DEF Receipt
    <3>. QED
      BY <2>9, <3>4, <3>5, SettlesThenKeeps
  <2>13. CASE reply # "reauthenticate" /\ ~(reply = "reconnect" /\ synced.socket # "none")
    <3>1. Receipt(c, i, reply, p) = synced
      BY <1>2, <2>1, <2>4, <2>8, <2>13 DEF Receipt
    <3>. QED
      BY <2>9, <3>1
  <2>. QED
    BY <2>11, <2>12, <2>13
<1>. QED
  BY <1>1, <1>2

-----------------------------------------------------------------------------
(* The inductive invariant. *)

\* The step relation of CursorForward.
CursorStep ==
    client'.phase # "disposed" => \A h \in Chat : client'.cursor[h] >= client.cursor[h]

\* The variables around the client have their types after a step.
AroundTyped ==
    /\ wire' \in Seq(Id) /\ late' \subseteq Id
    /\ troubles' \in Nat /\ clicks' \in Nat

\* Stored messages stay where they are.
LogKept ==
    /\ log' \in Seq(Message) /\ Len(log) <= Len(log')
    /\ \A p \in DOMAIN log : log'[p] = log[p]

LEMMA NoGapTyped ==
    ASSUME ClientInv, NEW h \in Chat
    PROVE  client.cursor[h] \in Nat /\ client.cursor[h] <= Len(log)
PROOF
<1>1. client.cursor[h] \in Nat /\ Len(log) \in Nat
  BY DEF ClientInv, ClientTypeOK, Client
<1>2. CASE client.cursor[h] = 0
  BY <1>1, <1>2
<1>3. CASE client.cursor[h] # 0
  <2>1. client.cursor[h] \in 1..client.cursor[h]
    BY <1>1, <1>3
  <2>. QED
    BY <1>1, <2>1 DEF ClientInv, NoGap
<1>. QED
  BY <1>2, <1>3

LEMMA StoredStays ==
    ASSUME log \in Seq(Message), LogKept, NEW p \in DOMAIN log
    PROVE  p \in DOMAIN log' /\ log'[p] = log[p] /\ p \in 1..Len(log) /\ p <= Len(log')
PROOF
  BY DEF LogKept

LEMMA StepKeepsInv ==
    ASSUME ClientInv, LogKept, AroundTyped, Keeps(client, client'),
           receipts' \in SUBSET [id: Id, stored: BOOLEAN], ReceiptsTrue'
    PROVE  ClientInv' /\ CursorStep
PROOF
<1>1. ClientTypeOK' /\ TaskSound(client)'
  BY DEF ClientTypeOK, Keeps, LogKept, AroundTyped, TaskSound
<1>2. NoGap'
  <2> SUFFICES ASSUME NEW h \in Chat, NEW p \in 1..client.cursor[h]
               PROVE  p <= Len(log') /\ (log'[p].chat = h => p \in client'.saved[h])
    BY DEF NoGap, Keeps
  <2>1. p <= Len(log) /\ (log[p].chat = h => p \in client.saved[h])
    BY DEF ClientInv, NoGap
  <2>2. p \in DOMAIN log /\ log \in Seq(Message)
    <3>1. log \in Seq(Message) /\ client.cursor[h] \in Nat
      BY NoGapTyped DEF ClientInv, ClientTypeOK
    <3>2. p \in 1..Len(log)
      BY <2>1, <3>1
    <3>. QED
      BY <3>1, <3>2
  <2>3. log'[p] = log[p] /\ p <= Len(log')
    BY <2>2, StoredStays
  <2>. QED
    BY <2>1, <2>3 DEF Keeps
<1>3. ResolvedIsSaved'
  <2> SUFFICES ASSUME NEW i \in Id, Resolved(client', i)
               PROVE  \E p \in client'.saved[client'.pending[i].chat] :
                          p \in DOMAIN log' /\ log'[p].key = i
    BY DEF ResolvedIsSaved, Resolved, Found
  <2>1. Resolved(client, i) /\ client'.pending[i].chat = client.pending[i].chat
    BY DEF Keeps
  <2>2. PICK h \in Chat : h = client.pending[i].chat
    BY <2>1, BubbleTyped DEF ClientInv, ClientTypeOK, Resolved
  <2>3. PICK p \in client.saved[h] : p \in DOMAIN log /\ log[p].key = i
    BY <2>1, <2>2 DEF ClientInv, ResolvedIsSaved, Resolved
  <2>4. p \in DOMAIN log' /\ log'[p].key = i
    BY <2>3, StoredStays DEF ClientInv, ClientTypeOK
  <2>5. p \in client'.saved[h]
    BY <2>3 DEF Keeps
  <2>. QED
    BY <2>1, <2>2, <2>4, <2>5
<1>4. CursorStep
  <2>1. \A h \in Chat : client.cursor[h] \in Nat
    BY NoGapTyped
  <2>2. client'.cursor = client.cursor
    BY DEF Keeps
  <2>3. \A h \in Chat : client'.cursor[h] >= client.cursor[h]
    BY <2>1, <2>2
  <2>. QED
    BY <2>3 DEF CursorStep
<1>. QED
  BY <1>1, <1>2, <1>3, <1>4 DEF ClientInv

\* A step of the client alone.
LEMMA ClientStepKeepsInv ==
    ASSUME ClientInv, AroundTyped, Keeps(client, client'), log' = log, receipts' \subseteq receipts
    PROVE  ClientInv' /\ CursorStep
PROOF
<1>1. LogKept
  BY DEF LogKept, ClientInv, ClientTypeOK
<1>2. receipts' \in SUBSET [id: Id, stored: BOOLEAN]
  BY DEF ClientInv, ClientTypeOK
<1>3. ReceiptsTrue'
  BY DEF ClientInv, ReceiptsTrue, Stored
<1>. QED
  BY <1>1, <1>2, <1>3, StepKeepsInv

\* A step of the services: the client is as it was.
LEMMA ClientStays ==
    ASSUME ClientInv, client' = client
    PROVE  Keeps(client, client')
PROOF
<1>1. client \in Client /\ TaskSound(client)
  BY DEF ClientInv, ClientTypeOK
<1>2. Keeps(client, client)
  BY <1>1, KeepsByFields
<1>. QED
  BY <1>2

LEMMA AppendKeepsLog ==
    ASSUME log \in Seq(Message), NEW m \in Message, log' = Append(log, m)
    PROVE  /\ LogKept
           /\ \A id : Stored(id) => Stored(id)'
           /\ Stored(m.key)'
PROOF
<1>1. log' \in Seq(Message) /\ Len(log') = Len(log) + 1 /\ Len(log) \in Nat
  OBVIOUS
<1>2. \A p \in 1..Len(log) : log'[p] = log[p]
  OBVIOUS
<1>3. log'[Len(log) + 1] = m
  OBVIOUS
<1>4. DOMAIN log = 1..Len(log) /\ DOMAIN log' = 1..(Len(log) + 1)
  BY <1>1
<1>5. Len(log) <= Len(log') /\ Len(log) + 1 \in DOMAIN log' /\ DOMAIN log \subseteq DOMAIN log'
  BY <1>1, <1>4
<1>. QED
  BY <1>1, <1>2, <1>3, <1>4, <1>5 DEF LogKept, Stored

-----------------------------------------------------------------------------
(* One lemma per action. *)

LEMMA ClientIsSound ==
    ASSUME ClientInv
    PROVE  /\ client \in Client /\ TaskSound(client) /\ log \in Seq(Message)
           /\ wire \in Seq(Id) /\ late \subseteq Id /\ troubles \in Nat /\ clicks \in Nat
PROOF
  BY DEF ClientInv, ClientTypeOK

LEMMA SocketGoneTyped ==
    ASSUME ClientInv, SocketGone
    PROVE  wire' \in Seq(Id) /\ late' \subseteq Id /\ receipts' \subseteq receipts
PROOF
<1>1. wire \in Seq(Id) /\ late \subseteq Id
  BY ClientIsSound
<1>2. \A k \in DOMAIN wire : wire[k] \in Id
  BY <1>1
<1>3. late' \subseteq Id
  BY <1>1, <1>2 DEF SocketGone
<1>4. wire' \in Seq(Id)
  BY DEF SocketGone
<1>. QED
  BY <1>3, <1>4 DEF SocketGone

\* A change of fields that no method depends on.
LEMMA KeepsSame ==
    ASSUME NEW c \in Client, TaskSound(c), NEW d \in Client,
           d.cursor = c.cursor, d.task = c.task, d.runs = c.runs,
           d.saved = c.saved, d.pending = c.pending
    PROVE  /\ Keeps(c, d) /\ TaskSound(d)
           /\ Free(c) => Free(d)
PROOF
<1>1. \A j \in Id : Resolved(d, j) => Resolved(c, j) /\ d.pending[j].chat = c.pending[j].chat
  BY DEF Resolved, Found
<1>2. Keeps(c, d)
  BY <1>1, KeepsByFields
<1>. QED
  BY <1>2 DEF Keeps, Free

LEMMA OnOpenStep ==
    ASSUME ClientInv, OnOpen
    PROVE  ClientInv' /\ CursorStep
PROOF
<1>1. PICK d : d = [client EXCEPT !.socket = "open", !.connected = TRUE]
  OBVIOUS
<1>2. /\ d \in Client /\ d.cursor = client.cursor /\ d.task = client.task
      /\ d.runs = client.runs /\ d.saved = client.saved /\ d.pending = client.pending
  BY <1>1, ClientIsSound DEF Client
<1>3. Keeps(client, d) /\ (Free(client) => Free(d))
  BY <1>2, ClientIsSound, KeepsSame
<1>4. Free(client) /\ client' = Sync(d)
  BY <1>1 DEF OnOpen, Room, Free
<1>5. Keeps(client, client')
  BY <1>3, <1>4, ClientIsSound, KeepsThenSync
<1>6. log' = log /\ receipts' \subseteq receipts /\ AroundTyped
  BY ClientIsSound DEF OnOpen, AroundTyped
<1>. QED
  BY <1>5, <1>6, ClientStepKeepsInv

LEMMA SyncTimerStep ==
    ASSUME ClientInv, SyncTimer
    PROVE  ClientInv' /\ CursorStep
PROOF
<1>1. PICK d : d = [client EXCEPT !.wake = FALSE]
  OBVIOUS
<1>2. /\ d \in Client /\ d.cursor = client.cursor /\ d.task = client.task
      /\ d.runs = client.runs /\ d.saved = client.saved /\ d.pending = client.pending
  BY <1>1, ClientIsSound DEF Client
<1>3. Keeps(client, d) /\ (Free(client) => Free(d))
  BY <1>2, ClientIsSound, KeepsSame
<1>4. Free(client) /\ client' = Sync(d)
  BY <1>1 DEF SyncTimer, Room, Free
<1>5. Keeps(client, client')
  BY <1>3, <1>4, ClientIsSound, KeepsThenSync
<1>6. log' = log /\ receipts' \subseteq receipts /\ AroundTyped
  BY ClientIsSound DEF SyncTimer, AroundTyped
<1>. QED
  BY <1>5, <1>6, ClientStepKeepsInv

LEMMA ConnectStep ==
    ASSUME ClientInv, Connect
    PROVE  ClientInv' /\ CursorStep
PROOF
<1>1. PICK d : d = [client EXCEPT !.redial = FALSE,
                        !.socket = IF client.phase = "live" THEN "connecting" ELSE @]
  OBVIOUS
<1>2. /\ d \in Client /\ d.cursor = client.cursor /\ d.task = client.task
      /\ d.runs = client.runs /\ d.saved = client.saved /\ d.pending = client.pending
  BY <1>1, ClientIsSound DEF Client
<1>3. Keeps(client, d) /\ (Free(client) => Free(d))
  BY <1>2, ClientIsSound, KeepsSame
<1>4. client' = d
  BY <1>1 DEF Connect
<1>5. Keeps(client, client')
  BY <1>3, <1>4
<1>6. log' = log /\ receipts' \subseteq receipts /\ AroundTyped
  BY ClientIsSound DEF Connect, AroundTyped
<1>. QED
  BY <1>5, <1>6, ClientStepKeepsInv

LEMMA PeriodicStep ==
    ASSUME ClientInv, Periodic
    PROVE  ClientInv' /\ CursorStep
PROOF
<1>1. Free(client) /\ client' = Sync(client)
  BY DEF Periodic, Room, Free
<1>2. Keeps(client, client')
  BY <1>1, ClientIsSound, SyncKeeps
<1>3. log' = log /\ receipts' \subseteq receipts /\ AroundTyped
  BY ClientIsSound DEF Periodic, AroundTyped
<1>. QED
  BY <1>2, <1>3, ClientStepKeepsInv

LEMMA OnCloseStep ==
    ASSUME ClientInv, OnClose
    PROVE  ClientInv' /\ CursorStep
PROOF
<1>1. PICK d : d = [client EXCEPT !.socket = "none", !.connected = FALSE]
  OBVIOUS
<1>2. /\ d \in Client /\ d.cursor = client.cursor /\ d.task = client.task
      /\ d.runs = client.runs /\ d.saved = client.saved /\ d.pending = client.pending
  BY <1>1, ClientIsSound DEF Client
<1>3. Keeps(client, d) /\ TaskSound(d)
  BY <1>2, ClientIsSound, KeepsSame
<1>4. PICK e : e = AbortSync(d)
  OBVIOUS
<1>5. Keeps(d, e) /\ e \in Client /\ TaskSound(e)
  BY <1>2, <1>3, <1>4, AbortSyncKeeps DEF Keeps
<1>6. PICK f : f = MarkUncertain(e)
  OBVIOUS
<1>7. Keeps(e, f) /\ f \in Client /\ TaskSound(f)
  BY <1>5, <1>6, MarkUncertainKeeps DEF Keeps
<1>8. client' = Reconnect(f)
  BY <1>1, <1>4, <1>6 DEF OnClose
<1>9. Keeps(f, client')
  BY <1>7, <1>8, ReconnectKeeps
<1>10. Keeps(client, client')
  <2>1. Keeps(client, e)
    BY <1>3, <1>5, KeepsTransitive
  <2>2. Keeps(client, f)
    BY <2>1, <1>7, KeepsTransitive
  <2>. QED
    BY <2>2, <1>9, KeepsTransitive
<1>11. wire' \in Seq(Id) /\ late' \subseteq Id /\ receipts' \subseteq receipts
  BY SocketGoneTyped DEF OnClose
<1>12. log' = log /\ troubles' \in Nat /\ clicks' \in Nat
  BY ClientIsSound DEF OnClose, Trouble
<1>. QED
  BY <1>10, <1>11, <1>12, ClientStepKeepsInv DEF AroundTyped

LEMMA SelectStep ==
    ASSUME ClientInv, NEW h \in Chat, Select(h)
    PROVE  ClientInv' /\ CursorStep
PROOF
<1>1. PICK e : e = AbortSync(client)
  OBVIOUS
<1>2. Keeps(client, e) /\ e \in Client /\ TaskSound(e) /\ e.runs = client.runs
  BY <1>1, ClientIsSound, AbortSyncKeeps DEF Keeps
<1>3. PICK d : d = [e EXCEPT !.wake = FALSE, !.current = h, !.chats = @ \cup {h}]
  OBVIOUS
<1>4. /\ d \in Client /\ d.cursor = e.cursor /\ d.task = e.task
      /\ d.runs = e.runs /\ d.saved = e.saved /\ d.pending = e.pending
  BY <1>2, <1>3 DEF Client
<1>5. Keeps(e, d)
  BY <1>2, <1>4, KeepsSame
<1>6. Free(d) /\ client' = Sync(d)
  BY <1>1, <1>2, <1>3, <1>4 DEF Select, Room, Free
<1>7. Keeps(client, d)
  BY <1>2, <1>5, KeepsTransitive
<1>8. Keeps(client, client')
  BY <1>6, <1>7, ClientIsSound, KeepsThenSync
<1>9. log' = log /\ receipts' \subseteq receipts /\ AroundTyped
  BY ClientIsSound DEF Select, Click, AroundTyped
<1>. QED
  BY <1>8, <1>9, ClientStepKeepsInv

LEMMA TimerStep ==
    ASSUME ClientInv, NEW id \in Id, Timer(id)
    PROVE  ClientInv' /\ CursorStep
PROOF
<1>1. PICK d : d = [client EXCEPT !.timers = @ \ {id}]
  OBVIOUS
<1>2. /\ d \in Client /\ d.cursor = client.cursor /\ d.task = client.task
      /\ d.runs = client.runs /\ d.saved = client.saved /\ d.pending = client.pending
  BY <1>1, ClientIsSound DEF Client
<1>3. Keeps(client, d) /\ TaskSound(d)
  BY <1>2, ClientIsSound, KeepsSame
<1>4. PICK e : e = Uncertain(d, id)
  OBVIOUS
<1>5. Keeps(d, e) /\ e.runs = client.runs
  BY <1>2, <1>3, <1>4, UncertainKeeps
<1>6. Keeps(client, e)
  BY <1>3, <1>5, KeepsTransitive
<1>7. Free(e) /\ client' = Sync(e)
  BY <1>1, <1>4, <1>5 DEF Timer, Room, Free
<1>8. Keeps(client, client')
  BY <1>6, <1>7, ClientIsSound, KeepsThenSync
<1>9. log' = log /\ receipts' \subseteq receipts /\ AroundTyped
  BY ClientIsSound DEF Timer, AroundTyped
<1>. QED
  BY <1>8, <1>9, ClientStepKeepsInv

LEMMA OnBadFrameStep ==
    ASSUME ClientInv, OnBadFrame
    PROVE  ClientInv' /\ CursorStep
PROOF
<1>1. PICK d : d = MarkUncertain(client)
  OBVIOUS
<1>2. Keeps(client, d) /\ d.runs = client.runs
  BY <1>1, ClientIsSound, MarkUncertainKeeps
<1>3. Free(d) /\ client' = Sync(d)
  BY <1>1, <1>2 DEF OnBadFrame, Room, Free
<1>4. Keeps(client, client')
  BY <1>2, <1>3, ClientIsSound, KeepsThenSync
<1>5. log' = log /\ receipts' \subseteq receipts /\ AroundTyped
  BY ClientIsSound DEF OnBadFrame, Trouble, AroundTyped
<1>. QED
  BY <1>4, <1>5, ClientStepKeepsInv

LEMMA OnMessageStep ==
    ASSUME ClientInv, NEW p \in DOMAIN log, OnMessage(p)
    PROVE  ClientInv' /\ CursorStep
PROOF
<1>1. p \in Nat /\ log[p] \in Message
  BY ClientIsSound
<1>2. log[p].chat \in Chat
  BY <1>1 DEF Message
<1>3. Keeps(client, client')
  BY <1>1, <1>2, ClientIsSound, ReceiveKeeps DEF OnMessage
<1>4. log' = log /\ receipts' \subseteq receipts /\ AroundTyped
  BY ClientIsSound DEF OnMessage, AroundTyped
<1>. QED
  BY <1>3, <1>4, ClientStepKeepsInv

LEMMA PageFailsStep ==
    ASSUME ClientInv, NEW r \in Run, PageFails(r)
    PROVE  ClientInv' /\ CursorStep
PROOF
<1>1. client.runs[r] # Nil /\ client' = EndRun(client, r, TRUE)
  BY DEF PageFails
<1>2. Keeps(client, client')
  BY <1>1, ClientIsSound, EndRunKeeps
<1>3. log' = log /\ receipts' \subseteq receipts /\ AroundTyped
  BY ClientIsSound DEF PageFails, Trouble, AroundTyped
<1>. QED
  BY <1>2, <1>3, ClientStepKeepsInv

LEMMA PutStep ==
    ASSUME ClientInv, NEW c, Keeps(client, c), c.runs = client.runs, Room,
           NEW id \in Id, NEW ok \in BOOLEAN, Put(c, id, ok), clicks' \in Nat
    PROVE  ClientInv' /\ CursorStep
PROOF
<1>1. c \in Client /\ TaskSound(c) /\ Free(c)
  BY DEF Keeps, Room, Free
<1>2. Keeps(c, client')
  BY <1>1, ClientIsSound, TransmitKeeps DEF Put
<1>3. Keeps(client, client')
  BY <1>2, KeepsTransitive
<1>4. wire' \in Seq(Id)
  <2>1. wire \in Seq(Id) /\ Append(wire, id) \in Seq(Id)
    BY ClientIsSound
  <2>2. wire' = Append(wire, id) \/ wire' = wire
    BY DEF Put
  <2>. QED
    BY <2>1, <2>2
<1>5. log' = log /\ receipts' \subseteq receipts /\ AroundTyped
  BY <1>4, ClientIsSound DEF Put, Trouble, AroundTyped
<1>. QED
  BY <1>3, <1>5, ClientStepKeepsInv

LEMMA SendStep ==
    ASSUME ClientInv, NEW id \in Id, NEW ok \in BOOLEAN, Send(id, ok)
    PROVE  ClientInv' /\ CursorStep
PROOF
<1>1. client.current \in Chat /\ Room
  BY ClientIsSound DEF Send, Sendable, Client
<1>2. PICK b : b = [chat |-> client.current, status |-> "pending", retryable |-> TRUE]
  OBVIOUS
<1>3. b \in Bubble /\ b.status = "pending"
  BY <1>1, <1>2 DEF Bubble
<1>4. PICK c : c = [client EXCEPT !.pending = [client.pending EXCEPT ![id] = b]]
  OBVIOUS
<1>5. /\ c \in Client /\ c.cursor = client.cursor /\ c.task = client.task
      /\ c.runs = client.runs /\ c.saved = client.saved
      /\ c.pending = [client.pending EXCEPT ![id] = b]
  BY <1>3, <1>4, ClientIsSound DEF Client
<1>6. c.pending[id] = b /\ \A j \in Id : j # id => c.pending[j] = client.pending[j]
  BY <1>5, ClientIsSound DEF Client
<1>7. \A j \in Id : Resolved(c, j) =>
          Resolved(client, j) /\ c.pending[j].chat = client.pending[j].chat
  BY <1>3, <1>6 DEF Resolved, Found
<1>8. Keeps(client, c)
  BY <1>5, <1>7, ClientIsSound, KeepsByFields
<1>9. Put(c, id, ok) /\ clicks' \in Nat
  BY <1>2, <1>4, ClientIsSound DEF Send
<1>. QED
  BY <1>1, <1>5, <1>8, <1>9, PutStep

LEMMA RetryStep ==
    ASSUME ClientInv, NEW id \in Id, NEW ok \in BOOLEAN, Retry(id, ok)
    PROVE  ClientInv' /\ CursorStep
PROOF
<1>1. client.pending[id] \in Bubble /\ Room
  BY ClientIsSound, BubbleTyped DEF Retry, Sendable, Found
<1>2. PICK b : b = [client.pending[id] EXCEPT !.status = "pending"]
  OBVIOUS
<1>3. b \in Bubble /\ b.status = "pending"
  BY <1>1, <1>2 DEF Bubble
<1>4. PICK c : c = [client EXCEPT !.pending = [client.pending EXCEPT ![id] = b]]
  OBVIOUS
<1>5. /\ c \in Client /\ c.cursor = client.cursor /\ c.task = client.task
      /\ c.runs = client.runs /\ c.saved = client.saved
      /\ c.pending = [client.pending EXCEPT ![id] = b]
  BY <1>3, <1>4, ClientIsSound DEF Client
<1>6. c.pending[id] = b /\ \A j \in Id : j # id => c.pending[j] = client.pending[j]
  BY <1>5, ClientIsSound DEF Client
<1>7. \A j \in Id : Resolved(c, j) =>
          Resolved(client, j) /\ c.pending[j].chat = client.pending[j].chat
  BY <1>3, <1>6 DEF Resolved, Found
<1>8. Keeps(client, c)
  BY <1>5, <1>7, ClientIsSound, KeepsByFields
<1>9. Put(c, id, ok) /\ clicks' \in Nat
  BY <1>2, <1>4, ClientIsSound DEF Retry, Click
<1>. QED
  BY <1>1, <1>5, <1>8, <1>9, PutStep

\* A page of the task is merged: the cursor goes on to the end of the page, and
\* what lies between is saved.
LEMMA PageMerged ==
    ASSUME ClientInv, NEW r \in Run, client.runs[r] # Nil, client.task = r,
           NEW n \in Nat, n <= Len(log),
           NEW h \in Chat, h = client.runs[r].chat,
           NEW page, page = Page(h, client.runs[r].cursor, n),
           NEW merged, merged = MergePage(client, h, page)
    PROVE  /\ merged \in Client
           /\ merged.pending = client.pending /\ merged.task = client.task
           /\ merged.runs = client.runs
           /\ merged.cursor[h] = page.next
           /\ page.next \in Nat /\ page.more \in BOOLEAN
           /\ \A g \in Chat : /\ merged.cursor[g] >= client.cursor[g]
                              /\ client.saved[g] \subseteq merged.saved[g]
           /\ \A g \in Chat : \A p \in 1..merged.cursor[g] :
                  p <= Len(log) /\ (log[p].chat = g => p \in merged.saved[g])
PROOF
<1>1. PICK cursor \in Nat : cursor = client.runs[r].cursor /\ cursor = client.cursor[h]
  <2>1. client.runs[r].cursor \in Nat
    BY ClientIsSound, RunsTyped
  <2>2. client.runs[r].cursor = client.cursor[h]
    <3>1. r # Nil
      BY ClientConstants
    <3>. QED
      BY <3>1, ClientIsSound DEF TaskSound
  <2>. QED
    BY <2>1, <2>2
<1>2. /\ page.got \subseteq (cursor + 1)..n
      /\ page.more \in BOOLEAN
      /\ page.next \in Nat /\ page.next >= cursor
      /\ page.got = {} => page.next = cursor
      /\ page.got # {} => page.next <= n
      /\ \A p \in (cursor + 1)..page.next : log[p].chat = h => p \in page.got
  <2>1. page = Page(h, cursor, n)
    BY <1>1
  <2>. QED
    BY <2>1, PageHasNoGap, Zenon
<1>3. PICK got : got = page.got
  OBVIOUS
<1>4. PICK next \in Nat : next = page.next
  BY <1>2
<1>5. PICK s : s = [client.saved EXCEPT ![h] = @ \cup got]
  OBVIOUS
<1>6. PICK u : u = [client.cursor EXCEPT ![h] = next]
  OBVIOUS
<1>7. got \subseteq Nat
  BY <1>2, <1>3
<1>8. /\ s \in [Chat -> SUBSET Nat] /\ s[h] = client.saved[h] \cup got
      /\ \A g \in Chat : g # h => s[g] = client.saved[g]
  BY <1>5, <1>7, ClientIsSound DEF Client
<1>9. /\ u \in [Chat -> Nat] /\ u[h] = next
      /\ \A g \in Chat : g # h => u[g] = client.cursor[g]
  BY <1>6, ClientIsSound DEF Client
<1>10. merged = [client EXCEPT !.saved = s, !.cursor = u]
  BY <1>3, <1>4, <1>5, <1>6 DEF MergePage
<1>11. /\ merged \in Client /\ merged.saved = s /\ merged.cursor = u
       /\ merged.pending = client.pending /\ merged.task = client.task
       /\ merged.runs = client.runs
  BY <1>8, <1>9, <1>10, ClientIsSound DEF Client
<1>12. \A g \in Chat : client.saved[g] \subseteq s[g]
  BY <1>8
<1>13. ASSUME NEW g \in Chat
       PROVE  u[g] >= client.cursor[g]
  <2>1. client.cursor[g] \in Nat
    BY NoGapTyped
  <2>2. CASE g = h
    BY <2>1, <2>2, <1>1, <1>2, <1>4, <1>9
  <2>3. CASE g # h
    BY <2>1, <2>3, <1>9
  <2>. QED
    BY <2>2, <2>3
<1>14. ASSUME NEW g \in Chat, NEW p \in 1..u[g]
       PROVE  p <= Len(log) /\ (log[p].chat = g => p \in s[g])
  <2>1. CASE p \in 1..client.cursor[g]
    BY <2>1, <1>12 DEF ClientInv, NoGap
  <2>2. CASE p \notin 1..client.cursor[g]
    <3>1. client.cursor[g] \in Nat /\ u[g] \in Nat /\ Len(log) \in Nat
      BY NoGapTyped, ClientIsSound, <1>9
    <3>2. g = h
      BY <2>2, <1>9, <1>14
    <3>3. p \in (cursor + 1)..next /\ next # cursor
      BY <2>2, <3>1, <3>2, <1>1, <1>9, <1>14
    <3>4. next <= n
      BY <3>3, <1>2, <1>4
    <3>5. p <= Len(log)
      BY <3>1, <3>3, <3>4
    <3>6. log[p].chat = h => p \in got
      BY <1>2, <1>3, <1>4, <3>3
    <3>. QED
      BY <3>2, <3>5, <3>6, <1>8
  <2>. QED
    BY <2>1, <2>2
<1>15. merged.cursor[h] = page.next
  BY <1>4, <1>9, <1>11
<1>. QED
  BY <1>2, <1>11, <1>12, <1>13, <1>14, <1>15

\* The client after a page: as after the merge, however sync() goes on.
LEMMA MergedKeepsInv ==
    ASSUME ClientInv, AroundTyped, log' = log, receipts' \subseteq receipts,
           NEW merged \in Client, merged.pending = client.pending,
           \A g \in Chat : /\ merged.cursor[g] >= client.cursor[g]
                           /\ client.saved[g] \subseteq merged.saved[g],
           \A g \in Chat : \A p \in 1..merged.cursor[g] :
               p <= Len(log) /\ (log[p].chat = g => p \in merged.saved[g]),
           Keeps(merged, client')
    PROVE  ClientInv' /\ CursorStep
PROOF
<1>1. ClientTypeOK' /\ TaskSound(client)'
  BY DEF ClientInv, ClientTypeOK, Keeps, AroundTyped, TaskSound
<1>2. ReceiptsTrue'
  BY DEF ClientInv, ReceiptsTrue, Stored
<1>3. NoGap'
  <2> SUFFICES ASSUME NEW h \in Chat, NEW p \in 1..merged.cursor[h]
               PROVE  p <= Len(log) /\ (log[p].chat = h => p \in client'.saved[h])
    BY DEF NoGap, Keeps
  <2>. QED
    BY DEF Keeps
<1>4. ResolvedIsSaved'
  <2> SUFFICES ASSUME NEW i \in Id, Resolved(client', i)
               PROVE  \E p \in client'.saved[client'.pending[i].chat] :
                          p \in DOMAIN log /\ log[p].key = i
    BY DEF ResolvedIsSaved, Resolved, Found
  <2>1. Resolved(client, i) /\ client'.pending[i].chat = client.pending[i].chat
    BY DEF Keeps, Resolved, Found
  <2>2. PICK h \in Chat : h = client.pending[i].chat
    BY <2>1, ClientIsSound, BubbleTyped DEF Resolved
  <2>3. PICK p \in client.saved[h] : p \in DOMAIN log /\ log[p].key = i
    BY <2>1, <2>2 DEF ClientInv, ResolvedIsSaved, Resolved
  <2>4. p \in client'.saved[h]
    BY <2>3 DEF Keeps
  <2>. QED
    BY <2>1, <2>2, <2>3, <2>4
<1>5. CursorStep
  BY DEF CursorStep, Keeps
<1>. QED
  BY <1>1, <1>2, <1>3, <1>4, <1>5 DEF ClientInv

LEMMA PageArrivesStep ==
    ASSUME ClientInv, NEW r \in Run, NEW n \in 0..Len(log), PageArrives(r, n)
    PROVE  ClientInv' /\ CursorStep
PROOF
<1>1. PICK run : run = client.runs[r]
  OBVIOUS
<1>2. run \in SyncRun /\ run # Nil /\ client.runs[r] # Nil
  BY <1>1, ClientIsSound, RunsTyped DEF PageArrives
<1>3. PICK h \in Chat : h = run.chat
  BY <1>2 DEF SyncRun
<1>4. PICK page : page = Page(h, run.cursor, n)
  OBVIOUS
<1>5. log' = log /\ receipts' \subseteq receipts /\ AroundTyped
  BY ClientIsSound DEF PageArrives, AroundTyped
<1>6. ASSUME NEW again \in BOOLEAN, client' = EndRun(client, r, again)
      PROVE  ClientInv' /\ CursorStep
  BY <1>2, <1>5, <1>6, ClientIsSound, EndRunKeeps, ClientStepKeepsInv
<1>7. CASE ~Current(client, r)
  <2>1. client' = EndRun(client, r, FALSE)
    BY <1>7 DEF PageArrives
  <2>. QED
    BY <2>1, <1>6
<1>8. CASE Current(client, r) /\ ~ValidPage(client, h, page)
  <2>1. client' = EndRun(client, r, TRUE)
    BY <1>1, <1>3, <1>4, <1>8 DEF PageArrives
  <2>. QED
    BY <2>1, <1>6
<1>9. CASE Current(client, r) /\ ValidPage(client, h, page)
  <2>1. PICK merged : merged = MergePage(client, h, page)
    OBVIOUS
  <2>2. n \in Nat /\ n <= Len(log) /\ client.task = r
    BY <1>9, ClientIsSound DEF Current
  <2>3. /\ merged \in Client
        /\ merged.pending = client.pending /\ merged.task = client.task
        /\ merged.runs = client.runs
        /\ merged.cursor[h] = page.next
        /\ page.next \in Nat /\ page.more \in BOOLEAN
        /\ \A g \in Chat : /\ merged.cursor[g] >= client.cursor[g]
                           /\ client.saved[g] \subseteq merged.saved[g]
        /\ \A g \in Chat : \A p \in 1..merged.cursor[g] :
               p <= Len(log) /\ (log[p].chat = g => p \in merged.saved[g])
    BY <1>1, <1>2, <1>3, <1>4, <2>1, <2>2, PageMerged
  <2>4. CASE page.more /\ run.pages + 1 < BatchPages
    <3>1. PICK next : next = [run EXCEPT !.cursor = page.next, !.since = Len(log),
                                         !.pages = @ + 1]
      OBVIOUS
    <3>2. Len(log) \in Nat /\ run.pages + 1 \in Nat
      BY <1>2, ClientIsSound DEF SyncRun
    <3>3. next \in SyncRun /\ next.chat = h /\ next.cursor = page.next
      BY <1>2, <1>3, <2>3, <3>1, <3>2 DEF SyncRun
    <3>4. PICK d : d = [merged EXCEPT !.runs = [merged.runs EXCEPT ![r] = next]]
      OBVIOUS
    <3>5. client' = d
      <4>1. client' = [merged EXCEPT !.runs[r] = [run EXCEPT !.cursor = page.next,
                                                             !.since = Len(log),
                                                             !.pages = @ + 1]]
        BY <1>1, <1>3, <1>4, <1>9, <2>1, <2>4 DEF PageArrives
      <4>. QED
        BY <3>1, <3>4, <4>1
    <3>6. /\ d \in Client /\ d.task = r /\ d.cursor = merged.cursor /\ d.saved = merged.saved
          /\ d.pending = merged.pending /\ d.runs[r] = next
      BY <2>2, <2>3, <3>3, <3>4 DEF Client
    <3>7. next # Nil
      BY <3>3, ClientConstants
    <3>8. TaskSound(d)
      BY <2>3, <3>3, <3>6, <3>7 DEF TaskSound
    <3>9. Keeps(merged, d)
      BY <3>6, <3>8 DEF Keeps, Resolved, Found
    <3>. QED
      BY <1>5, <2>3, <3>5, <3>9, MergedKeepsInv
  <2>5. CASE ~(page.more /\ run.pages + 1 < BatchPages)
    <3>1. PICK again \in BOOLEAN : again = (page.more \/ run.again)
      OBVIOUS
    <3>2. client' = EndRun(merged, r, again)
      BY <1>1, <1>3, <1>4, <1>9, <2>1, <2>5, <3>1 DEF PageArrives
    <3>3. Keeps(merged, EndRun(merged, r, again))
      BY <1>2, <2>2, <2>3, EndRunKeeps
    <3>. QED
      BY <1>5, <2>3, <3>2, <3>3, MergedKeepsInv
  <2>. QED
    BY <2>4, <2>5
<1>. QED
  BY <1>7, <1>8, <1>9

LEMMA PositionTyped ==
    ASSUME ClientInv, NEW id
    PROVE  /\ PositionOf(id) \in Nat
           /\ Stored(id) => PositionOf(id) \in DOMAIN log /\ log[PositionOf(id)].key = id
PROOF
<1>1. CASE Stored(id)
  <2>1. \E p \in DOMAIN log : log[p].key = id
    BY <1>1 DEF Stored
  <2>2. PositionOf(id) = CHOOSE p \in DOMAIN log : log[p].key = id
    BY <1>1 DEF PositionOf
  <2>3. PositionOf(id) \in DOMAIN log /\ log[PositionOf(id)].key = id
    BY <2>1, <2>2
  <2>4. DOMAIN log \subseteq Nat
    BY ClientIsSound
  <2>. QED
    BY <2>3, <2>4
<1>2. CASE ~Stored(id)
  BY <1>2 DEF PositionOf
<1>. QED
  BY <1>1, <1>2

LEMMA OnReceiptStep ==
    ASSUME ClientInv, NEW f \in receipts, NEW reply \in Replies(f.stored), OnReceipt(f, reply)
    PROVE  ClientInv' /\ CursorStep
PROOF
<1>1. PICK i \in Id : i = f.id
  BY DEF ClientInv, ClientTypeOK
<1>2. PICK q \in Nat : q = PositionOf(i)
  BY PositionTyped
<1>3. Settles(client, client', i, q, reply \in Refusal)
  <2>1. Free(client) /\ client' = Receipt(client, i, reply, q)
    BY <1>1, <1>2 DEF OnReceipt, Room, Free
  <2>. QED
    BY <2>1, ClientIsSound, ReceiptSettles
<1>4. reply \notin Refusal => q \in DOMAIN log /\ log[q].key = i
  <2>1. SUFFICES ASSUME reply \notin Refusal
                 PROVE  q \in DOMAIN log /\ log[q].key = i
    OBVIOUS
  <2>2. f.stored
    BY <2>1 DEF Replies
  <2>3. Stored(i)
    BY <1>1, <2>2 DEF ClientInv, ReceiptsTrue
  <2>. QED
    BY <1>2, <2>3, PositionTyped
<1>5. log' = log /\ AroundTyped /\ receipts' \subseteq receipts
  <2>1. wire' \in Seq(Id) /\ late' \subseteq Id /\ receipts' \subseteq receipts
    BY SocketGoneTyped, ClientIsSound DEF OnReceipt
  <2>2. log' = log /\ troubles' \in Nat /\ clicks' \in Nat
    BY ClientIsSound DEF OnReceipt
  <2>. QED
    BY <2>1, <2>2 DEF AroundTyped
<1>6. ClientTypeOK' /\ TaskSound(client)'
  BY <1>3, <1>5 DEF ClientInv, ClientTypeOK, Settles, AroundTyped, TaskSound
<1>7. ReceiptsTrue'
  BY <1>5 DEF ClientInv, ReceiptsTrue, Stored
<1>8. NoGap'
  <2> SUFFICES ASSUME NEW h \in Chat, NEW p \in 1..client.cursor[h]
               PROVE  p <= Len(log) /\ (log[p].chat = h => p \in client'.saved[h])
    BY <1>3, <1>5 DEF NoGap, Settles
  <2>. QED
    BY <1>3 DEF ClientInv, NoGap, Settles
<1>9. ResolvedIsSaved'
  <2> SUFFICES ASSUME NEW j \in Id, Resolved(client', j)
               PROVE  \E p \in client'.saved[client'.pending[j].chat] :
                          p \in DOMAIN log /\ log[p].key = j
    BY <1>5 DEF ResolvedIsSaved, Resolved, Found
  <2>1. CASE Resolved(client, j) /\ client'.pending[j].chat = client.pending[j].chat
    <3>1. PICK h \in Chat : h = client.pending[j].chat
      BY <2>1, ClientIsSound, BubbleTyped DEF Resolved
    <3>2. PICK p \in client.saved[h] : p \in DOMAIN log /\ log[p].key = j
      BY <2>1, <3>1 DEF ClientInv, ResolvedIsSaved, Resolved
    <3>3. p \in client'.saved[h]
      BY <3>2, <1>3 DEF Settles
    <3>. QED
      BY <2>1, <3>1, <3>2, <3>3
  <2>2. CASE reply \notin Refusal /\ j = i /\ q \in client'.saved[client'.pending[j].chat]
    BY <2>2, <1>4
  <2>. QED
    BY <2>1, <2>2, <1>3 DEF Settles
<1>10. CursorStep
  <2>1. \A h \in Chat : client.cursor[h] \in Nat
    BY NoGapTyped
  <2>2. client'.cursor = client.cursor
    BY <1>3 DEF Settles
  <2>3. \A h \in Chat : client'.cursor[h] >= client.cursor[h]
    BY <2>1, <2>2
  <2>. QED
    BY <2>3 DEF CursorStep
<1>. QED
  BY <1>6, <1>7, <1>8, <1>9, <1>10 DEF ClientInv

LEMMA DisposeStep ==
    ASSUME ClientInv, Dispose
    PROVE  ClientInv' /\ CursorStep
PROOF
<1>1. PICK e : e = AbortSync(client)
  OBVIOUS
<1>2. e \in Client /\ e.task = Nil
  BY <1>1, ClientIsSound, AbortSyncKeeps DEF Keeps
<1>3. client' = [e EXCEPT !.phase = "disposed", !.socket = "none",
                    !.connected = FALSE, !.redial = FALSE, !.wake = FALSE, !.timers = {},
                    !.chats = {}, !.saved = [h \in Chat |-> {}], !.cursor = [h \in Chat |-> 0],
                    !.pending = [i \in Id |-> Nil]]
  BY <1>1 DEF Dispose
<1>4. /\ client' \in Client /\ client'.phase = "disposed" /\ client'.task = Nil
      /\ client'.cursor = [h \in Chat |-> 0] /\ client'.pending = [i \in Id |-> Nil]
  BY <1>2, <1>3 DEF Client
<1>5. ClientTypeOK'
  BY <1>4, ClientIsSound DEF Dispose, ClientTypeOK
<1>6. TaskSound(client)' /\ CursorStep
  BY <1>4 DEF TaskSound, CursorStep
<1>7. ReceiptsTrue'
  BY DEF Dispose, ReceiptsTrue
<1>8. NoGap'
  <2>1. \A h \in Chat : 1..client'.cursor[h] = {}
    BY <1>4
  <2>. QED
    BY <2>1 DEF NoGap
<1>9. ResolvedIsSaved'
  <2>1. \A i \in Id : client'.pending[i] = Nil
    BY <1>4
  <2>. QED
    BY <2>1 DEF ResolvedIsSaved
<1>. QED
  BY <1>5, <1>6, <1>7, <1>8, <1>9 DEF ClientInv

LEMMA OthersWriteStep ==
    ASSUME ClientInv, NEW h \in Chat, OthersWrite(h)
    PROVE  ClientInv' /\ CursorStep
PROOF
<1>1. PICK m \in Message : log' = Append(log, m)
  BY DEF OthersWrite, Message
<1>2. LogKept /\ \A id : Stored(id) => Stored(id)'
  BY <1>1, ClientIsSound, AppendKeepsLog
<1>3. receipts' = receipts /\ AroundTyped /\ client' = client
  BY ClientIsSound DEF OthersWrite, AroundTyped
<1>4. ReceiptsTrue' /\ receipts' \in SUBSET [id: Id, stored: BOOLEAN]
  BY <1>2, <1>3 DEF ClientInv, ClientTypeOK, ReceiptsTrue
<1>. QED
  BY <1>2, <1>3, <1>4, ClientStays, StepKeepsInv

LEMMA SubmitsKeepsLog ==
    ASSUME ClientInv, NEW id \in Id, NEW h \in Chat, NEW stored \in BOOLEAN,
           Submits(id, h, stored)
    PROVE  LogKept /\ (\A j : Stored(j) => Stored(j)') /\ (stored => Stored(id)')
PROOF
<1>1. CASE stored /\ ~Stored(id)
  <2>1. PICK m : m = [chat |-> h, key |-> id]
    OBVIOUS
  <2>2. m \in Message /\ m.key = id /\ log' = Append(log, m)
    BY <1>1, <2>1 DEF Message, Submits
  <2>. QED
    BY <2>2, ClientIsSound, AppendKeepsLog
<1>2. CASE ~(stored /\ ~Stored(id))
  <2>1. log' = log
    BY <1>2 DEF Submits
  <2>2. LogKept
    BY <2>1, ClientIsSound DEF LogKept
  <2>. QED
    BY <1>2, <2>1, <2>2 DEF Stored
<1>. QED
  BY <1>1, <1>2

LEMMA ReadStep ==
    ASSUME ClientInv, NEW stored \in BOOLEAN, Read(stored)
    PROVE  ClientInv' /\ CursorStep
PROOF
<1>1. PICK id \in Id : id = Head(wire)
  BY ClientIsSound DEF Read
<1>2. PICK h \in Chat : h = client.pending[id].chat
  BY <1>1, ClientIsSound, BubbleTyped DEF Read
<1>3. LogKept /\ (\A j : Stored(j) => Stored(j)') /\ (stored => Stored(id)')
  BY <1>1, <1>2, SubmitsKeepsLog DEF Read
<1>4. receipts' = receipts \cup {[id |-> id, stored |-> stored]}
  BY <1>1 DEF Read
<1>5. client' = client /\ AroundTyped
  <2>1. wire' \in Seq(Id)
    BY ClientIsSound DEF Read
  <2>. QED
    BY <2>1, ClientIsSound DEF Read, AroundTyped
<1>6. receipts' \in SUBSET [id: Id, stored: BOOLEAN]
  BY <1>4 DEF ClientInv, ClientTypeOK
<1>7. ReceiptsTrue'
  BY <1>3, <1>4 DEF ClientInv, ReceiptsTrue
<1>. QED
  BY <1>3, <1>5, <1>6, <1>7, ClientStays, StepKeepsInv

LEMMA ReadLateStep ==
    ASSUME ClientInv, NEW id \in Id, ReadLate(id)
    PROVE  ClientInv' /\ CursorStep
PROOF
<1>1. PICK h \in Chat : h = client.pending[id].chat
  BY ClientIsSound, BubbleTyped DEF ReadLate
<1>2. LogKept /\ \A j : Stored(j) => Stored(j)'
  BY <1>1, SubmitsKeepsLog DEF ReadLate
<1>3. client' = client /\ receipts' = receipts /\ AroundTyped
  BY ClientIsSound DEF ReadLate, AroundTyped
<1>4. ReceiptsTrue' /\ receipts' \in SUBSET [id: Id, stored: BOOLEAN]
  BY <1>2, <1>3 DEF ClientInv, ClientTypeOK, ReceiptsTrue
<1>. QED
  BY <1>2, <1>3, <1>4, ClientStays, StepKeepsInv

-----------------------------------------------------------------------------
(* The theorems. *)

LEMMA InitEstablishes == Init => ClientInv
PROOF
<1> SUFFICES ASSUME Init PROVE ClientInv
  OBVIOUS
<1>1. /\ client \in Client /\ client.task = Nil
      /\ client.cursor = [h \in Chat |-> 0] /\ client.pending = [i \in Id |-> Nil]
  BY DEF Init, Client
<1>2. ClientTypeOK
  BY <1>1 DEF Init, ClientTypeOK
<1>3. TaskSound(client) /\ ReceiptsTrue
  BY <1>1 DEF Init, TaskSound, ReceiptsTrue
<1>4. NoGap
  <2>1. \A h \in Chat : 1..client.cursor[h] = {}
    BY <1>1
  <2>. QED
    BY <2>1 DEF NoGap
<1>5. ResolvedIsSaved
  <2>1. \A i \in Id : client.pending[i] = Nil
    BY <1>1
  <2>. QED
    BY <2>1 DEF ResolvedIsSaved
<1>. QED
  BY <1>2, <1>3, <1>4, <1>5 DEF ClientInv

LEMMA StutterStep ==
    ASSUME ClientInv, UNCHANGED vars
    PROVE  ClientInv' /\ CursorStep
PROOF
<1>1. log' = log /\ receipts' \subseteq receipts /\ AroundTyped /\ client' = client
  BY ClientIsSound DEF vars, AroundTyped
<1>. QED
  BY <1>1, ClientStays, ClientStepKeepsInv

LEMMA NextPreserves == ClientInv /\ [Next]_vars => ClientInv' /\ CursorStep
PROOF
<1> SUFFICES ASSUME ClientInv, [Next]_vars
             PROVE  ClientInv' /\ CursorStep
  OBVIOUS
<1>1. CASE OnOpen
  BY <1>1, OnOpenStep
<1>2. CASE OnClose
  BY <1>2, OnCloseStep
<1>3. CASE Connect
  BY <1>3, ConnectStep
<1>4. CASE SyncTimer
  BY <1>4, SyncTimerStep
<1>5. CASE Periodic
  BY <1>5, PeriodicStep
<1>6. CASE OnBadFrame
  BY <1>6, OnBadFrameStep
<1>7. CASE Dispose
  BY <1>7, DisposeStep
<1>8. CASE \E h \in Chat : Select(h) \/ OthersWrite(h)
  BY <1>8, SelectStep, OthersWriteStep
<1>9. CASE \E id \in Id : Timer(id) \/ ReadLate(id)
  BY <1>9, TimerStep, ReadLateStep
<1>10. CASE \E id \in Id, ok \in BOOLEAN : Send(id, ok) \/ Retry(id, ok)
  BY <1>10, SendStep, RetryStep
<1>11. CASE \E r \in Run : PageFails(r) \/ \E n \in 0..Len(log) : PageArrives(r, n)
  BY <1>11, PageFailsStep, PageArrivesStep
<1>12. CASE \E p \in DOMAIN log : OnMessage(p)
  BY <1>12, OnMessageStep
<1>13. CASE \E f \in receipts : \E reply \in Replies(f.stored) : OnReceipt(f, reply)
  BY <1>13, OnReceiptStep
<1>14. CASE \E stored \in BOOLEAN : Read(stored)
  BY <1>14, ReadStep
<1>15. CASE UNCHANGED vars
  BY <1>15, StutterStep
<1>. QED
  BY <1>1, <1>2, <1>3, <1>4, <1>5, <1>6, <1>7, <1>8, <1>9, <1>10, <1>11, <1>12, <1>13,
     <1>14, <1>15 DEF Next

\* The client keeps its inductive invariant: the call of sync() that is the task pages
\* from the cursor of its conversation (sync, abortSync, mergePage), a receipt that
\* says stored is true, no cursor has passed a message that is not saved, and what is
\* resolved is saved.
THEOREM ClientInvariant == Spec => []ClientInv
PROOF
<1>1. Init => ClientInv
  BY InitEstablishes
<1>2. ClientInv /\ [Next]_vars => ClientInv'
  BY NextPreserves
<1>. QED
  BY <1>1, <1>2, PTL DEF Spec

\* However live messages, buffers and pages interleave, aborted calls of sync()
\* included, every stored message of a conversation up to its cursor is in the client
\* (mergePage, receive).
THEOREM CursorLeavesNoGap == Spec => []CursorGapFree
PROOF
<1>1. ClientInv => CursorGapFree
  <2> SUFFICES ASSUME ClientInv PROVE CursorGapFree
    OBVIOUS
  <2>1. client.chats \subseteq Chat
    BY ClientIsSound DEF Client
  <2>. QED
    BY <2>1 DEF ClientInv, NoGap, CursorGapFree
<1>. QED
  BY <1>1, ClientInvariant, PTL

-----------------------------------------------------------------------------
(* The timers of the bubbles. *)

Timed(c, i) == c.pending[i] # Nil /\ c.pending[i].status = "pending" => i \in c.timers

\* Bubbles and timers are as they were.
Quiet(c, d) == d.pending = c.pending /\ d.timers = c.timers

\* A bubble that is timed stays so.
KeepsTimed(c, d) == \A i \in Id : Timed(c, i) => Timed(d, i)

HasBubbles(c) == {"pending", "timers"} \subseteq DOMAIN c

LEMMA ClientHasBubbles == ASSUME NEW c \in Client PROVE HasBubbles(c)
PROOF
  BY DEF Client, HasBubbles

LEMMA QuietKeepsTimed ==
    ASSUME NEW c, NEW d, Quiet(c, d)
    PROVE  KeepsTimed(c, d)
PROOF
  BY DEF Quiet, KeepsTimed, Timed

LEMMA QuietTransitive ==
    ASSUME NEW c, NEW d, NEW e, Quiet(c, d), Quiet(d, e)
    PROVE  Quiet(c, e)
PROOF
  BY DEF Quiet

\* The methods that touch no bubble.
LEMMA FinishSyncQuiet ==
    ASSUME NEW c, HasBubbles(c), NEW h
    PROVE  Quiet(c, FinishSync(c, h)) /\ HasBubbles(FinishSync(c, h))
PROOF
  BY DEF Quiet, HasBubbles, FinishSync

LEMMA AbortSyncQuiet ==
    ASSUME NEW c, HasBubbles(c)
    PROVE  Quiet(c, AbortSync(c)) /\ HasBubbles(AbortSync(c))
PROOF
<1>1. PICK f : f = FinishSync(c, c.runs[c.task].chat)
  OBVIOUS
<1>2. Quiet(c, f) /\ HasBubbles(f)
  BY <1>1, FinishSyncQuiet
<1>3. AbortSync(c) = c \/ AbortSync(c) = [f EXCEPT !.task = Nil]
  BY <1>1 DEF AbortSync
<1>. QED
  BY <1>2, <1>3 DEF Quiet, HasBubbles

LEMMA SyncQuiet ==
    ASSUME NEW c, HasBubbles(c)
    PROVE  Quiet(c, Sync(c)) /\ HasBubbles(Sync(c))
PROOF
  BY DEF Quiet, HasBubbles, Sync

LEMMA EndRunQuiet ==
    ASSUME NEW c, HasBubbles(c), NEW r, NEW again
    PROVE  Quiet(c, EndRun(c, r, again))
PROOF
<1>1. PICK over : over = [c EXCEPT !.runs[r] = Nil]
  OBVIOUS
<1>2. Quiet(c, over) /\ HasBubbles(over)
  BY <1>1 DEF Quiet, HasBubbles
<1>3. PICK f : f = FinishSync(over, c.runs[r].chat)
  OBVIOUS
<1>4. Quiet(over, f) /\ HasBubbles(f)
  BY <1>2, <1>3, FinishSyncQuiet
<1>5. \/ EndRun(c, r, again) = over
      \/ EndRun(c, r, again) = [f EXCEPT !.task = Nil, !.wake = again]
  BY <1>1, <1>3 DEF EndRun
<1>. QED
  BY <1>2, <1>4, <1>5 DEF Quiet, HasBubbles

\* A bubble that is changed to one that is not pending.
LEMMA SettledIsTimed ==
    ASSUME NEW c \in Client, NEW i \in Id, NEW b \in Bubble, b.status # "pending",
           NEW d, d.timers = c.timers, d.pending = [c.pending EXCEPT ![i] = b]
    PROVE  KeepsTimed(c, d) /\ Timed(d, i)
PROOF
<1>1. d.pending[i] = b /\ \A j \in Id : j # i => d.pending[j] = c.pending[j]
  BY DEF Client
<1>. QED
  BY <1>1 DEF KeepsTimed, Timed

LEMMA UncertainTimed ==
    ASSUME NEW c \in Client, NEW i \in Id
    PROVE  KeepsTimed(c, Uncertain(c, i)) /\ Timed(Uncertain(c, i), i)
PROOF
<1>1. CASE ~Found(c, i)
  BY <1>1 DEF Uncertain, Found, Timed, KeepsTimed
<1>2. CASE Found(c, i)
  <2>1. c.pending[i] \in Bubble
    BY <1>2 DEF Found, Client
  <2>2. PICK b : b = [c.pending[i] EXCEPT !.status = "uncertain"]
    OBVIOUS
  <2>3. b \in Bubble /\ b.status # "pending"
    BY <2>1, <2>2 DEF Bubble
  <2>4. PICK d : d = [c EXCEPT !.pending = [c.pending EXCEPT ![i] = b]]
    OBVIOUS
  <2>5. Uncertain(c, i) = d
    BY <1>2, <2>2, <2>4 DEF Uncertain
  <2>6. d.timers = c.timers /\ d.pending = [c.pending EXCEPT ![i] = b]
    BY <2>4 DEF Client
  <2>7. KeepsTimed(c, d) /\ Timed(d, i)
    BY <2>3, <2>6, SettledIsTimed
  <2>. QED
    BY <2>5, <2>7
<1>. QED
  BY <1>1, <1>2

LEMMA ResultTimed ==
    ASSUME NEW c \in Client, NEW i \in Id, Found(c, i), NEW reply, NEW p
    PROVE  KeepsTimed(c, Result(c, i, reply, p)) /\ Timed(Result(c, i, reply, p), i)
PROOF
<1>1. c.pending[i] \in Bubble
  BY BubbleTyped DEF Found
<1>2. CASE reply \in Refusal
  <2>1. PICK again \in BOOLEAN : again = (reply \notin {"do_not_retry", "reauthenticate"})
    OBVIOUS
  <2>2. PICK b : b = [c.pending[i] EXCEPT !.status = "uncertain", !.retryable = again]
    OBVIOUS
  <2>3. b \in Bubble /\ b.status # "pending"
    BY <1>1, <2>1, <2>2 DEF Bubble
  <2>4. PICK d : d = [c EXCEPT !.pending = [c.pending EXCEPT ![i] = b]]
    OBVIOUS
  <2>5. Result(c, i, reply, p) = d
    BY <1>2, <2>1, <2>2, <2>4 DEF Result
  <2>6. d.timers = c.timers /\ d.pending = [c.pending EXCEPT ![i] = b]
    BY <2>4 DEF Client
  <2>7. KeepsTimed(c, d) /\ Timed(d, i)
    BY <2>3, <2>6, SettledIsTimed
  <2>. QED
    BY <2>5, <2>7
<1>3. CASE reply \notin Refusal
  <2>1. PICK s : s = [c.saved EXCEPT ![c.pending[i].chat] = @ \cup {p}]
    OBVIOUS
  <2>2. PICK b : b = [c.pending[i] EXCEPT !.status = "resolved"]
    OBVIOUS
  <2>3. b \in Bubble /\ b.status # "pending"
    BY <1>1, <2>2 DEF Bubble
  <2>4. PICK d : d = [c EXCEPT !.saved = s, !.pending = [c.pending EXCEPT ![i] = b]]
    OBVIOUS
  <2>5. Result(c, i, reply, p) = d
    BY <1>3, <2>1, <2>2, <2>4 DEF Result
  <2>6. d.timers = c.timers /\ d.pending = [c.pending EXCEPT ![i] = b]
    BY <2>4 DEF Client
  <2>7. KeepsTimed(c, d) /\ Timed(d, i)
    BY <2>3, <2>6, SettledIsTimed
  <2>. QED
    BY <2>5, <2>7
<1>. QED
  BY <1>2, <1>3

\* markUncertain stops every timer, and leaves none of their bubbles pending.
LEMMA MarkUncertainTimed ==
    ASSUME NEW c \in Client
    PROVE  KeepsTimed(c, MarkUncertain(c))
PROOF
<1>1. PICK P : P = [i \in Id |-> IF i \in c.timers /\ Found(c, i)
                                 THEN [c.pending[i] EXCEPT !.status = "uncertain"]
                                 ELSE c.pending[i]]
  OBVIOUS
<1>2. PICK d : d = [c EXCEPT !.pending = P, !.timers = {}]
  OBVIOUS
<1>3. MarkUncertain(c) = d
  BY <1>1, <1>2 DEF MarkUncertain
<1>4. d.pending = P
  BY <1>2 DEF Client
<1>5. ASSUME NEW i \in Id, Timed(c, i)
      PROVE  Timed(d, i)
  <2>1. CASE i \in c.timers /\ Found(c, i)
    <3>1. c.pending[i] \in Bubble /\ P[i] = [c.pending[i] EXCEPT !.status = "uncertain"]
      BY <1>1, <2>1 DEF Found, Client
    <3>2. P[i].status = "uncertain"
      BY <3>1 DEF Bubble
    <3>. QED
      BY <1>4, <3>2 DEF Timed
  <2>2. CASE ~(i \in c.timers /\ Found(c, i))
    <3>1. P[i] = c.pending[i]
      BY <1>1, <2>2
    <3>2. ~(c.pending[i] # Nil /\ c.pending[i].status = "pending")
      BY <1>5, <2>2 DEF Timed, Found
    <3>. QED
      BY <1>4, <3>1, <3>2 DEF Timed
  <2>. QED
    BY <2>1, <2>2
<1>. QED
  BY <1>3, <1>5 DEF KeepsTimed

LEMMA KeepsTimedTransitive ==
    ASSUME NEW c, NEW d, NEW e, KeepsTimed(c, d), KeepsTimed(d, e)
    PROVE  KeepsTimed(c, e)
PROOF
  BY DEF KeepsTimed

\* One timer is stopped and its bubble settled at once.
LEMMA StoppedIsTimed ==
    ASSUME NEW c \in Client, NEW i \in Id, NEW d, NEW e, d.pending = c.pending,
           d.timers = c.timers \ {i}, KeepsTimed(d, e), Timed(e, i)
    PROVE  KeepsTimed(c, e)
PROOF
<1>1. \A j \in Id : j # i /\ Timed(c, j) => Timed(d, j)
  BY DEF Timed
<1>. QED
  BY <1>1 DEF KeepsTimed

LEMMA ReceiptTimed ==
    ASSUME NEW c \in Client, TaskSound(c), Free(c), log \in Seq(Message),
           NEW i \in Id, NEW reply, NEW p \in Nat
    PROVE  KeepsTimed(c, Receipt(c, i, reply, p))
PROOF
<1>1. CASE ~Found(c, i)
  BY <1>1 DEF Receipt, KeepsTimed
<1>2. CASE Found(c, i)
  <2>1. PICK heard : heard = [c EXCEPT !.timers = @ \ {i}]
    OBVIOUS
  <2>2. /\ heard \in Client /\ heard.cursor = c.cursor /\ heard.task = c.task
        /\ heard.runs = c.runs /\ heard.pending = c.pending /\ heard.timers = c.timers \ {i}
    BY <2>1 DEF Client
  <2>3. Found(heard, i) /\ TaskSound(heard)
    BY <1>2, <2>2 DEF Found, TaskSound
  <2>4. PICK result : result = IF reply = "mismatch" THEN Uncertain(heard, i)
                               ELSE Result(heard, i, reply, p)
    OBVIOUS
  <2>5. KeepsTimed(heard, result) /\ Timed(result, i)
    <3>1. CASE reply = "mismatch"
      BY <3>1, <2>2, <2>4, UncertainTimed
    <3>2. CASE reply # "mismatch"
      BY <3>2, <2>2, <2>3, <2>4, ResultTimed
    <3>. QED
      BY <3>1, <3>2
  <2>6. result \in Client /\ TaskSound(result) /\ result.runs = c.runs
    <3>1. CASE reply = "mismatch"
      BY <3>1, <2>2, <2>3, <2>4, UncertainKeeps DEF Keeps
    <3>2. CASE reply # "mismatch"
      BY <3>2, <2>2, <2>3, <2>4, ResultSettles DEF Settles
    <3>. QED
      BY <3>1, <3>2
  <2>7. KeepsTimed(c, result)
    BY <2>2, <2>5, StoppedIsTimed
  <2>8. PICK synced : synced = IF reply = "queued" THEN result ELSE Sync(result)
    OBVIOUS
  <2>9. synced \in Client /\ TaskSound(synced)
    <3>1. Free(result)
      BY <2>6 DEF Free
    <3>. QED
      BY <2>6, <2>8, <3>1, SyncKeeps DEF Keeps
  <2>10. KeepsTimed(c, synced)
    <3>1. Quiet(result, synced)
      BY <2>6, <2>8, ClientHasBubbles, SyncQuiet DEF Quiet
    <3>. QED
      BY <2>7, <3>1, QuietKeepsTimed, KeepsTimedTransitive
  <2>11. CASE reply = "reauthenticate"
    <3>1. PICK d : d = [synced EXCEPT !.phase = "authRequired", !.connected = FALSE]
      OBVIOUS
    <3>2. /\ d \in Client /\ d.cursor = synced.cursor /\ d.task = synced.task
          /\ d.runs = synced.runs /\ Quiet(synced, d)
      BY <2>9, <3>1 DEF Client, Quiet
    <3>3. TaskSound(d)
      BY <2>9, <3>2 DEF TaskSound
    <3>4. PICK e : e = AbortSync(d)
      OBVIOUS
    <3>5. e \in Client /\ Quiet(d, e)
      BY <3>2, <3>3, <3>4, AbortSyncKeeps, AbortSyncQuiet, ClientHasBubbles DEF Keeps
    <3>6. PICK f : f = MarkUncertain(e)
      OBVIOUS
    <3>7. KeepsTimed(e, f)
      BY <3>5, <3>6, MarkUncertainTimed
    <3>8. HasBubbles(f)
      BY <3>5, <3>6, ClientHasBubbles DEF MarkUncertain, HasBubbles
    <3>9. PICK g : g = CloseSocket(f)
      OBVIOUS
    <3>10. Quiet(f, g)
      BY <3>8, <3>9 DEF CloseSocket, HasBubbles, Quiet
    <3>11. Receipt(c, i, reply, p) = g
      BY <1>2, <2>1, <2>4, <2>8, <2>11, <3>1, <3>4, <3>6, <3>9 DEF Receipt
    <3>12. KeepsTimed(synced, e)
      BY <3>2, <3>5, QuietTransitive, QuietKeepsTimed
    <3>13. KeepsTimed(c, e)
      BY <2>10, <3>12, KeepsTimedTransitive
    <3>14. KeepsTimed(c, f)
      BY <3>7, <3>13, KeepsTimedTransitive
    <3>. QED
      BY <3>10, <3>11, <3>14, QuietKeepsTimed, KeepsTimedTransitive
  <2>12. CASE reply # "reauthenticate" /\ reply = "reconnect" /\ synced.socket # "none"
    <3>1. PICK d : d = [synced EXCEPT !.socket = "closing"]
      OBVIOUS
    <3>2. Quiet(synced, d)
      BY <2>9, <3>1 DEF Client, Quiet
    <3>3. Receipt(c, i, reply, p) = d
      BY <1>2, <2>1, <2>4, <2>8, <2>12, <3>1 DEF Receipt
    <3>. QED
      BY <2>10, <3>2, <3>3, QuietKeepsTimed, KeepsTimedTransitive
  <2>13. CASE reply # "reauthenticate" /\ ~(reply = "reconnect" /\ synced.socket # "none")
    <3>1. Receipt(c, i, reply, p) = synced
      BY <1>2, <2>1, <2>4, <2>8, <2>13 DEF Receipt
    <3>. QED
      BY <2>10, <3>1
  <2>. QED
    BY <2>11, <2>12, <2>13
<1>. QED
  BY <1>1, <1>2

\* A handler whose change of the client keeps the timed bubbles timed.
LEMMA TimedStep ==
    ASSUME PendingIsTimed(client), KeepsTimed(client, client')
    PROVE  PendingIsTimed(client)'
PROOF
  BY DEF PendingIsTimed, KeepsTimed, Timed

LEMMA QuietStep ==
    ASSUME PendingIsTimed(client), Quiet(client, client')
    PROVE  PendingIsTimed(client)'
PROOF
  BY QuietKeepsTimed, TimedStep

LEMMA PutTimed ==
    ASSUME ClientInv, PendingIsTimed(client), NEW id \in Id, NEW ok \in BOOLEAN,
           NEW b \in Bubble, NEW c, Put(c, id, ok),
           c = [client EXCEPT !.pending = [client.pending EXCEPT ![id] = b]]
    PROVE  PendingIsTimed(client)'
PROOF
<1>1. c \in Client /\ c.timers = client.timers /\ c.pending = [client.pending EXCEPT ![id] = b]
  BY ClientIsSound DEF Client
<1>2. c.pending[id] = b /\ \A j \in Id : j # id => c.pending[j] = client.pending[j]
  BY <1>1, ClientIsSound DEF Client
<1>3. \A j \in Id : j # id => Timed(c, j)
  BY <1>1, <1>2 DEF Timed, PendingIsTimed
<1>4. \A j \in Id : Timed(client', j)
  <2>1. CASE ok
    <3>1. client' = [c EXCEPT !.timers = @ \cup {id}]
      BY <2>1 DEF Put, Transmit
    <3>2. client'.pending = c.pending /\ client'.timers = c.timers \cup {id}
      BY <1>1, <3>1 DEF Client
    <3>. QED
      BY <1>3, <3>2 DEF Timed
  <2>2. CASE ~ok
    <3>1. PICK d : d = Uncertain(c, id)
      OBVIOUS
    <3>2. client' = Sync(d)
      BY <2>2, <3>1 DEF Put, Transmit
    <3>3. KeepsTimed(c, d) /\ Timed(d, id)
      BY <1>1, <3>1, UncertainTimed
    <3>4. HasBubbles(d)
      BY <1>1, <3>1, ClientHasBubbles DEF Uncertain, HasBubbles
    <3>5. Quiet(d, client')
      BY <3>2, <3>4, SyncQuiet
    <3>6. \A j \in Id : Timed(d, j)
      BY <1>3, <3>3 DEF KeepsTimed
    <3>. QED
      BY <3>5, <3>6 DEF Quiet, Timed
  <2>. QED
    BY <2>1, <2>2
<1>. QED
  BY <1>4 DEF PendingIsTimed, Timed

\* Receipts, pages and closing sockets: the handlers of more than one call.
LEMMA OnReceiptTimed ==
    ASSUME ClientInv, PendingIsTimed(client), NEW f \in receipts,
           NEW reply \in Replies(f.stored), OnReceipt(f, reply)
    PROVE  PendingIsTimed(client)'
PROOF
<1>1. PICK i \in Id : i = f.id
  BY DEF ClientInv, ClientTypeOK
<1>2. PICK q \in Nat : q = PositionOf(i)
  BY PositionTyped
<1>3. Free(client) /\ client' = Receipt(client, i, reply, q)
  BY <1>1, <1>2 DEF OnReceipt, Room, Free
<1>4. KeepsTimed(client, client')
  BY <1>3, ClientIsSound, ReceiptTimed
<1>. QED
  BY <1>4, TimedStep

LEMMA PageArrivesTimed ==
    ASSUME ClientInv, PendingIsTimed(client), NEW r \in Run, NEW n \in 0..Len(log),
           PageArrives(r, n)
    PROVE  PendingIsTimed(client)'
PROOF
<1>1. PICK run : run = client.runs[r]
  OBVIOUS
<1>2. PICK page : page = Page(run.chat, run.cursor, n)
  OBVIOUS
<1>3. PICK merged : merged = MergePage(client, run.chat, page)
  OBVIOUS
<1>4. HasBubbles(client)
  BY ClientIsSound, ClientHasBubbles
<1>5. Quiet(client, merged) /\ HasBubbles(merged)
  BY <1>3, <1>4 DEF MergePage, Quiet, HasBubbles
<1>6. PICK next : next = [run EXCEPT !.cursor = page.next, !.since = Len(log), !.pages = @ + 1]
  OBVIOUS
<1>7. \/ \E again : client' = EndRun(client, r, again)
      \/ \E again : client' = EndRun(merged, r, again)
      \/ client' = [merged EXCEPT !.runs[r] = next]
  BY <1>1, <1>2, <1>3, <1>6 DEF PageArrives
<1>8. CASE \E again : client' = EndRun(client, r, again)
  BY <1>4, <1>8, EndRunQuiet, QuietStep
<1>9. CASE \E again : client' = EndRun(merged, r, again)
  BY <1>5, <1>9, EndRunQuiet, QuietTransitive, QuietStep
<1>10. CASE client' = [merged EXCEPT !.runs[r] = next]
  <2>1. Quiet(merged, client')
    BY <1>5, <1>10 DEF Quiet, HasBubbles
  <2>. QED
    BY <1>5, <2>1, QuietTransitive, QuietStep
<1>. QED
  BY <1>7, <1>8, <1>9, <1>10

LEMMA OnCloseTimed ==
    ASSUME ClientInv, PendingIsTimed(client), OnClose
    PROVE  PendingIsTimed(client)'
PROOF
<1>1. PICK d : d = [client EXCEPT !.socket = "none", !.connected = FALSE]
  OBVIOUS
<1>2. /\ d \in Client /\ d.cursor = client.cursor /\ d.task = client.task
      /\ d.runs = client.runs /\ Quiet(client, d)
  BY <1>1, ClientIsSound DEF Client, Quiet
<1>3. TaskSound(d)
  BY <1>2, ClientIsSound DEF TaskSound
<1>4. PICK e : e = AbortSync(d)
  OBVIOUS
<1>5. e \in Client /\ Quiet(d, e)
  BY <1>2, <1>3, <1>4, AbortSyncKeeps, AbortSyncQuiet, ClientHasBubbles DEF Keeps
<1>6. PICK f : f = MarkUncertain(e)
  OBVIOUS
<1>7. KeepsTimed(e, f)
  BY <1>5, <1>6, MarkUncertainTimed
<1>8. HasBubbles(f)
  BY <1>5, <1>6, ClientHasBubbles DEF MarkUncertain, HasBubbles
<1>9. client' = Reconnect(f)
  BY <1>1, <1>4, <1>6 DEF OnClose
<1>10. Quiet(f, client')
  BY <1>8, <1>9 DEF Reconnect, HasBubbles, Quiet
<1>11. KeepsTimed(client, e)
  BY <1>2, <1>5, QuietTransitive, QuietKeepsTimed
<1>12. KeepsTimed(client, f)
  BY <1>7, <1>11, KeepsTimedTransitive
<1>13. KeepsTimed(client, client')
  BY <1>10, <1>12, QuietKeepsTimed, KeepsTimedTransitive
<1>. QED
  BY <1>13, TimedStep

LEMMA TimerTimed ==
    ASSUME ClientInv, PendingIsTimed(client), NEW id \in Id, Timer(id)
    PROVE  PendingIsTimed(client)'
PROOF
<1>1. PICK d : d = [client EXCEPT !.timers = @ \ {id}]
  OBVIOUS
<1>2. d \in Client /\ d.pending = client.pending /\ d.timers = client.timers \ {id}
  BY <1>1, ClientIsSound DEF Client
<1>3. PICK e : e = Uncertain(d, id)
  OBVIOUS
<1>4. KeepsTimed(client, e)
  BY <1>2, <1>3, ClientIsSound, UncertainTimed, StoppedIsTimed
<1>5. HasBubbles(e)
  BY <1>2, <1>3, ClientHasBubbles DEF Uncertain, HasBubbles
<1>6. client' = Sync(e)
  BY <1>1, <1>3 DEF Timer
<1>7. Quiet(e, client')
  BY <1>5, <1>6, SyncQuiet
<1>. QED
  BY <1>4, <1>7, QuietKeepsTimed, KeepsTimedTransitive, TimedStep

LEMMA NextKeepsTimed ==
    ClientInv /\ PendingIsTimed(client) /\ [Next]_vars => PendingIsTimed(client)'
PROOF
<1> SUFFICES ASSUME ClientInv, PendingIsTimed(client), [Next]_vars
             PROVE  PendingIsTimed(client)'
  OBVIOUS
<1>0. client \in Client /\ HasBubbles(client)
  BY ClientIsSound, ClientHasBubbles
<1>1. CASE OnOpen \/ SyncTimer \/ Periodic
  <2>1. PICK d : Quiet(client, d) /\ HasBubbles(d) /\ client' = Sync(d)
    <3>1. CASE OnOpen
      <4>1. PICK d : d = [client EXCEPT !.socket = "open", !.connected = TRUE]
        OBVIOUS
      <4>2. Quiet(client, d) /\ HasBubbles(d)
        BY <1>0, <4>1 DEF Quiet, HasBubbles
      <4>. QED
        BY <3>1, <4>1, <4>2 DEF OnOpen
    <3>2. CASE SyncTimer
      <4>1. PICK d : d = [client EXCEPT !.wake = FALSE]
        OBVIOUS
      <4>2. Quiet(client, d) /\ HasBubbles(d)
        BY <1>0, <4>1 DEF Quiet, HasBubbles
      <4>. QED
        BY <3>2, <4>1, <4>2 DEF SyncTimer
    <3>3. CASE Periodic
      BY <1>0, <3>3 DEF Periodic, Quiet
    <3>. QED
      BY <1>1, <3>1, <3>2, <3>3
  <2>2. Quiet(d, client')
    BY <2>1, SyncQuiet
  <2>. QED
    BY <2>1, <2>2, QuietTransitive, QuietStep
<1>2. CASE OnClose
  BY <1>2, OnCloseTimed
<1>3. CASE Connect
  <2>1. Quiet(client, client')
    BY <1>0, <1>3 DEF Connect, Quiet, HasBubbles
  <2>. QED
    BY <2>1, QuietStep
<1>4. CASE OnBadFrame
  <2>1. PICK d : d = MarkUncertain(client)
    OBVIOUS
  <2>2. KeepsTimed(client, d) /\ HasBubbles(d) /\ client' = Sync(d)
    BY <1>0, <1>4, <2>1, MarkUncertainTimed DEF OnBadFrame, MarkUncertain, HasBubbles
  <2>3. Quiet(d, client')
    BY <2>2, SyncQuiet
  <2>. QED
    BY <2>2, <2>3, QuietKeepsTimed, KeepsTimedTransitive, TimedStep
<1>5. CASE Dispose
  <2>1. PICK e : e = AbortSync(client)
    OBVIOUS
  <2>2. HasBubbles(e)
    BY <1>0, <2>1, AbortSyncQuiet
  <2>3. client'.pending = [i \in Id |-> Nil]
    BY <1>5, <2>1, <2>2 DEF Dispose, HasBubbles
  <2>. QED
    BY <2>3 DEF PendingIsTimed
<1>6. ASSUME NEW h \in Chat, Select(h)
      PROVE  PendingIsTimed(client)'
  <2>1. PICK e : e = AbortSync(client)
    OBVIOUS
  <2>2. Quiet(client, e) /\ HasBubbles(e)
    BY <1>0, <2>1, AbortSyncQuiet
  <2>3. PICK d : d = [e EXCEPT !.wake = FALSE, !.current = h, !.chats = @ \cup {h}]
    OBVIOUS
  <2>4. Quiet(e, d) /\ HasBubbles(d)
    BY <2>2, <2>3 DEF Quiet, HasBubbles
  <2>5. client' = Sync(d)
    BY <1>6, <2>1, <2>3 DEF Select
  <2>6. Quiet(d, client')
    BY <2>4, <2>5, SyncQuiet
  <2>7. Quiet(client, d)
    BY <2>2, <2>4, QuietTransitive
  <2>. QED
    BY <2>6, <2>7, QuietTransitive, QuietStep
<1>7. CASE \E id \in Id : Timer(id)
  BY <1>7, TimerTimed
<1>8. ASSUME NEW id \in Id, NEW ok \in BOOLEAN, Send(id, ok)
      PROVE  PendingIsTimed(client)'
  <2>1. client.current \in Chat
    BY <1>0, <1>8 DEF Send, Client
  <2>2. PICK b : b = [chat |-> client.current, status |-> "pending", retryable |-> TRUE]
    OBVIOUS
  <2>3. b \in Bubble
    BY <2>1, <2>2 DEF Bubble
  <2>4. PICK c : c = [client EXCEPT !.pending = [client.pending EXCEPT ![id] = b]]
    OBVIOUS
  <2>5. Put(c, id, ok)
    BY <1>8, <2>2, <2>4 DEF Send
  <2>. QED
    BY <2>3, <2>4, <2>5, PutTimed
<1>9. ASSUME NEW id \in Id, NEW ok \in BOOLEAN, Retry(id, ok)
      PROVE  PendingIsTimed(client)'
  <2>1. client.pending[id] \in Bubble
    BY <1>0, <1>9, BubbleTyped DEF Retry, Found
  <2>2. PICK b : b = [client.pending[id] EXCEPT !.status = "pending"]
    OBVIOUS
  <2>3. b \in Bubble
    BY <2>1, <2>2 DEF Bubble
  <2>4. PICK c : c = [client EXCEPT !.pending = [client.pending EXCEPT ![id] = b]]
    OBVIOUS
  <2>5. Put(c, id, ok)
    BY <1>9, <2>2, <2>4 DEF Retry
  <2>. QED
    BY <2>3, <2>4, <2>5, PutTimed
<1>10. CASE \E r \in Run : PageFails(r)
  <2>1. PICK r \in Run : client' = EndRun(client, r, TRUE)
    BY <1>10 DEF PageFails
  <2>. QED
    BY <1>0, <2>1, EndRunQuiet, QuietStep
<1>11. CASE \E r \in Run : \E n \in 0..Len(log) : PageArrives(r, n)
  BY <1>11, PageArrivesTimed
<1>12. CASE \E p \in DOMAIN log : OnMessage(p)
  <2>1. Quiet(client, client')
    BY <1>0, <1>12 DEF OnMessage, Receive, Quiet, HasBubbles
  <2>. QED
    BY <2>1, QuietStep
<1>13. CASE \E f \in receipts : \E reply \in Replies(f.stored) : OnReceipt(f, reply)
  BY <1>13, OnReceiptTimed
<1>14. CASE client' = client
  <2>1. Quiet(client, client')
    BY <1>14 DEF Quiet
  <2>. QED
    BY <2>1, QuietStep
<1>. QED
  BY <1>1, <1>2, <1>3, <1>4, <1>5, <1>6, <1>7, <1>8, <1>9, <1>10, <1>11, <1>12, <1>13,
     <1>14 DEF Next, vars, OthersWrite, Read, ReadLate

\* What the user sent is a bubble or a saved message of its conversation until the
\* client is disposed of, whatever receipts say or are lost (result, receive), and a
\* bubble that is pending has its timer running (transmit, markUncertain).
THEOREM SentStaysShown == Spec => []SentIsShown
PROOF
<1>1. ClientInv => ResolvedIsSaved
  BY DEF ClientInv
<1>2. Init => PendingIsTimed(client)
  BY DEF Init, PendingIsTimed
<1>3. ClientInv /\ PendingIsTimed(client) /\ [Next]_vars => PendingIsTimed(client)'
  BY NextKeepsTimed
<1>4. Spec => []PendingIsTimed(client)
  BY <1>2, <1>3, ClientInvariant, PTL DEF Spec
<1>5. ResolvedIsSaved /\ PendingIsTimed(client) => SentIsShown
  BY DEF SentIsShown
<1>. QED
  BY <1>1, <1>4, <1>5, ClientInvariant, PTL

\* No step moves a cursor back, save disposal: a page is merged only for the task,
\* which paged from where the cursor still is (current() of sync).
THEOREM CursorNeverBack == Spec => CursorForward
PROOF
<1>1. ClientInv /\ [Next]_vars => [CursorStep]_vars
  BY NextPreserves
<1>2. CursorForward <=> [][CursorStep]_vars
  BY DEF CursorForward, CursorStep
<1>. QED
  BY <1>1, <1>2, ClientInvariant, PTL DEF Spec

=============================================================================
