-------------------------- MODULE ChatServerProofs --------------------------
(* Proofs about the single-process chat server. A step is seen twice: as what *)
(* it does to requests, rows, cache and calls (ServiceMove), and as what it   *)
(* does to the table of connections (HubMove). One lemma per step says where  *)
(* the step takes its call (...Moves); one lemma per part of the invariant    *)
(* concludes from those.                                                      *)
EXTENDS ChatServer, FiniteSetTheorems, SequenceTheorems, TLAPS

LEMMA AppendRange ==
    ASSUME NEW S, NEW s \in Seq(S), NEW x \in S
    PROVE  /\ Append(s, x) \in Seq(S)
           /\ Range(Append(s, x)) = Range(s) \cup {x}
           /\ Len(Append(s, x)) = Len(s) + 1
  <1>1. Append(s, x) \in Seq(S) /\ Len(Append(s, x)) = Len(s) + 1
    OBVIOUS
  <1>2. \A y \in Range(Append(s, x)) : y \in Range(s) \cup {x}
    BY DEF Range
  <1>3. \A y \in Range(s) : y \in Range(Append(s, x))
    BY DEF Range
  <1>4. x \in Range(Append(s, x))
    <2>1. Append(s, x)[Len(s) + 1] = x /\ Len(s) + 1 \in DOMAIN Append(s, x)
      OBVIOUS
    <2> QED BY <2>1 DEF Range
  <1> QED BY <1>1, <1>2, <1>3, <1>4

LEMMA TailRange ==
    ASSUME NEW S, NEW s \in Seq(S), s # << >>
    PROVE  /\ Head(s) \in S
           /\ Tail(s) \in Seq(S)
           /\ Range(Tail(s)) \subseteq Range(s)
           /\ Range(s) \subseteq Range(Tail(s)) \cup {Head(s)}
           /\ Head(s) \in Range(s)
           /\ Len(Tail(s)) = Len(s) - 1
  <1>1. Head(s) \in S /\ Tail(s) \in Seq(S) /\ Len(Tail(s)) = Len(s) - 1
    OBVIOUS
  <1>2. \A y \in Range(Tail(s)) : y \in Range(s)
    BY DEF Range
  <1>3. \A y \in Range(s) : y \in Range(Tail(s)) \cup {Head(s)}
    <2> SUFFICES ASSUME NEW i \in 1..Len(s), i # 1 PROVE s[i] \in Range(Tail(s))
      BY DEF Range
    <2> DEFINE j == i - 1
    <2>1. j \in 1..Len(Tail(s)) /\ j + 1 = i
      BY <1>1
    <2>2. Tail(s)[j] = s[j + 1]
      BY <2>1
    <2>3. DOMAIN Tail(s) = 1..Len(Tail(s))
      BY <1>1
    <2> HIDE DEF j
    <2> QED BY <2>1, <2>2, <2>3 DEF Range
  <1>4. Head(s) \in Range(s)
    BY DEF Range
  <1> QED BY <1>1, <1>2, <1>3, <1>4

-----------------------------------------------------------------------------
(* what becomes of a call *)

Record(p, k, t, v, i, s) ==
    [pc |-> p, key |-> k, then |-> t, val |-> v, id |-> i, status |-> s]

\* A step of one call is no step of another.
Others(c) == \A d \in Call : d # c => call'[d] = call[d]

LEMMA EndedRecord ==
    ASSUME NEW status
    PROVE  Ended(status) = Record("ended", Nil, "none", Nil, 0, status)
  <1>1. [Idle EXCEPT !.pc = "ended"] = Record("ended", Nil, "none", Nil, 0, 0)
    BY DEF Idle, Record
  <1>2. [Record("ended", Nil, "none", Nil, 0, 0) EXCEPT !.status = status]
          = Record("ended", Nil, "none", Nil, 0, status)
    BY DEF Record
  <1> QED
    BY <1>1, <1>2 DEF Ended

LEMMA SetCall ==
    ASSUME CallShaped, NEW c \in Call, NEW new, call' = [call EXCEPT ![c] = new],
           new = Record(new.pc, new.key, new.then, new.val, new.id, new.status)
    PROVE  CallShaped' /\ Others(c) /\ call'[c] = new
  <1>1. call = [d \in Call |-> call[d]]
    BY DEF CallShaped
  <1>2. /\ call' = [d \in Call |-> call'[d]] /\ call'[c] = new
        /\ \A d \in Call : d # c => call'[d] = call[d]
    BY <1>1
  <1>3. \A d \in Call : call'[d] = Record(call'[d].pc, call'[d].key, call'[d].then,
                                          call'[d].val, call'[d].id, call'[d].status)
    BY <1>2 DEF CallShaped, Record
  <1>4. CallShaped'
    BY <1>2, <1>3 DEF CallShaped, Record
  <1> QED
    BY <1>2, <1>4 DEF Others

LEMMA GotoRecord ==
    ASSUME CallShaped, NEW c \in Call, NEW p, Goto(c, p)
    PROVE  /\ CallShaped' /\ Others(c)
           /\ call'[c].pc = p
           /\ call'[c].key = call[c].key
           /\ call'[c].then = call[c].then
           /\ call'[c].val = call[c].val
           /\ call'[c].id = call[c].id
           /\ call'[c].status = call[c].status
  <1> DEFINE o == call[c]
             new == Record(p, o.key, o.then, o.val, o.id, o.status)
  <1>1. o = Record(o.pc, o.key, o.then, o.val, o.id, o.status)
    BY DEF CallShaped, Record
  <1>2. call' = [call EXCEPT ![c] = new]
    <2>1. [o EXCEPT !.pc = p] = new
      BY <1>1 DEF Record
    <2>2. call' = [call EXCEPT ![c] = [o EXCEPT !.pc = p]]
      BY DEF Goto
    <2> QED
      BY <2>1, <2>2
  <1>2a. new = Record(new.pc, new.key, new.then, new.val, new.id, new.status)
    BY DEF Record
  <1> HIDE DEF new
  <1>3. CallShaped' /\ Others(c) /\ call'[c] = new
    BY <1>2, <1>2a, SetCall
  <1> QED
    BY <1>3 DEF new, Record

LEMMA GotoFacts ==
    ASSUME CallShaped, NEW c \in Call, NEW p, Goto(c, p)
    PROVE  /\ CallShaped' /\ Others(c)
           /\ call'[c].pc = p
           /\ call'[c].key = call[c].key
           /\ call'[c].then = call[c].then
           /\ call'[c].val = call[c].val
  BY GotoRecord

LEMMA GotoIds ==
    ASSUME CallShaped, NEW c \in Call, NEW p, Goto(c, p)
    PROVE  /\ call'[c].id = call[c].id
           /\ call'[c].status = call[c].status
  BY GotoRecord

LEMMA GotoWithRecord ==
    ASSUME CallShaped, NEW c \in Call, NEW p, NEW v, GotoWith(c, p, v)
    PROVE  /\ CallShaped' /\ Others(c)
           /\ call'[c].pc = p
           /\ call'[c].key = call[c].key
           /\ call'[c].then = call[c].then
           /\ call'[c].val = v
           /\ call'[c].id = call[c].id
           /\ call'[c].status = call[c].status
  <1> DEFINE o == call[c]
             new == Record(p, o.key, o.then, v, o.id, o.status)
  <1>1. o = Record(o.pc, o.key, o.then, o.val, o.id, o.status)
    BY DEF CallShaped, Record
  <1>2. call' = [call EXCEPT ![c] = new]
    <2>1. [o EXCEPT !.pc = p, !.val = v] = new
      <3>1. [o EXCEPT !.pc = p] = Record(p, o.key, o.then, o.val, o.id, o.status)
        BY <1>1 DEF Record
      <3>2. [Record(p, o.key, o.then, o.val, o.id, o.status) EXCEPT !.val = v]
              = Record(p, o.key, o.then, v, o.id, o.status)
        BY <1>1 DEF Record
      <3> QED
        BY <3>1, <3>2
    <2>2. call' = [call EXCEPT ![c] = [o EXCEPT !.pc = p, !.val = v]]
      BY DEF GotoWith
    <2> QED
      BY <2>1, <2>2
  <1>2a. new = Record(new.pc, new.key, new.then, new.val, new.id, new.status)
    BY DEF Record
  <1> HIDE DEF new
  <1>3. CallShaped' /\ Others(c) /\ call'[c] = new
    BY <1>2, <1>2a, SetCall
  <1> QED
    BY <1>3 DEF new, Record

LEMMA GotoWithFacts ==
    ASSUME CallShaped, NEW c \in Call, NEW p, NEW v, GotoWith(c, p, v)
    PROVE  /\ CallShaped' /\ Others(c)
           /\ call'[c].pc = p
           /\ call'[c].key = call[c].key
           /\ call'[c].then = call[c].then
           /\ call'[c].val = v
  BY GotoWithRecord

LEMMA GotoWithIds ==
    ASSUME CallShaped, NEW c \in Call, NEW p, NEW v, GotoWith(c, p, v)
    PROVE  /\ call'[c].id = call[c].id
           /\ call'[c].status = call[c].status
  BY GotoWithRecord

LEMMA WantRecord ==
    ASSUME CallShaped, NEW c \in Call, NEW k, NEW p, Want(c, k, p)
    PROVE  /\ CallShaped' /\ Others(c)
           /\ call'[c].pc = "lookup"
           /\ call'[c].key = k
           /\ call'[c].then = p
           /\ call'[c].val = call[c].val
           /\ call'[c].id = call[c].id
           /\ call'[c].status = call[c].status
  <1> DEFINE o == call[c]
             new == Record("lookup", k, p, o.val, o.id, o.status)
  <1>1. o = Record(o.pc, o.key, o.then, o.val, o.id, o.status)
    BY DEF CallShaped, Record
  <1>2. call' = [call EXCEPT ![c] = new]
    <2>1. [o EXCEPT !.pc = "lookup", !.key = k, !.then = p] = new
      <3>1. [o EXCEPT !.pc = "lookup"] = Record("lookup", o.key, o.then, o.val, o.id, o.status)
        BY <1>1 DEF Record
      <3>2. [Record("lookup", o.key, o.then, o.val, o.id, o.status) EXCEPT !.key = k]
              = Record("lookup", k, o.then, o.val, o.id, o.status)
        BY <1>1 DEF Record
      <3>3. [Record("lookup", k, o.then, o.val, o.id, o.status) EXCEPT !.then = p]
              = Record("lookup", k, p, o.val, o.id, o.status)
        BY <1>1 DEF Record
      <3> QED
        BY <3>1, <3>2, <3>3
    <2>2. call' = [call EXCEPT ![c] = [o EXCEPT !.pc = "lookup", !.key = k, !.then = p]]
      BY DEF Want
    <2> QED
      BY <2>1, <2>2
  <1>2a. new = Record(new.pc, new.key, new.then, new.val, new.id, new.status)
    BY DEF Record
  <1> HIDE DEF new
  <1>3. CallShaped' /\ Others(c) /\ call'[c] = new
    BY <1>2, <1>2a, SetCall
  <1> QED
    BY <1>3 DEF new, Record

LEMMA WantFacts ==
    ASSUME CallShaped, NEW c \in Call, NEW k, NEW p, Want(c, k, p)
    PROVE  /\ CallShaped' /\ Others(c)
           /\ call'[c].pc = "lookup"
           /\ call'[c].key = k
           /\ call'[c].then = p
           /\ call'[c].val = call[c].val
  BY WantRecord

LEMMA WantIds ==
    ASSUME CallShaped, NEW c \in Call, NEW k, NEW p, Want(c, k, p)
    PROVE  /\ call'[c].id = call[c].id
           /\ call'[c].status = call[c].status
  BY WantRecord

LEMMA EndRecord ==
    ASSUME CallShaped, NEW c \in Call, NEW status, End(c, status)
    PROVE  /\ CallShaped' /\ Others(c)
           /\ call'[c].pc = "ended"
           /\ call'[c].key = Nil
           /\ call'[c].then = "none"
           /\ call'[c].val = Nil
           /\ call'[c].id = 0
           /\ call'[c].status = status
  <1> DEFINE o == call[c]
             new == Record("ended", Nil, "none", Nil, 0, status)
  <1>1. o = Record(o.pc, o.key, o.then, o.val, o.id, o.status)
    BY DEF CallShaped, Record
  <1>2. call' = [call EXCEPT ![c] = new]
    <2>1. Ended(status) = new
      BY EndedRecord DEF new
    <2>2. call' = [call EXCEPT ![c] = Ended(status)]
      BY DEF End
    <2> QED
      BY <2>1, <2>2
  <1>2a. new = Record(new.pc, new.key, new.then, new.val, new.id, new.status)
    BY DEF Record
  <1> HIDE DEF new
  <1>3. CallShaped' /\ Others(c) /\ call'[c] = new
    BY <1>2, <1>2a, SetCall
  <1> QED
    BY <1>3 DEF new, Record

LEMMA EndFacts ==
    ASSUME CallShaped, NEW c \in Call, NEW status, End(c, status)
    PROVE  /\ CallShaped' /\ Others(c)
           /\ call'[c].pc = "ended"
           /\ call'[c].key = Nil
           /\ call'[c].then = "none"
           /\ call'[c].val = Nil
  BY EndRecord

LEMMA EndIds ==
    ASSUME CallShaped, NEW c \in Call, NEW status, End(c, status)
    PROVE  /\ call'[c].id = 0
           /\ call'[c].status = status
  BY EndRecord

LEMMA ResultRecord ==
    ASSUME CallShaped, NEW c \in Call, NEW v, Result(c, v)
    PROVE  /\ CallShaped' /\ Others(c)
           /\ call'[c].pc = "ended"
           /\ call'[c].key = Nil
           /\ call'[c].then = "none"
           /\ call'[c].val = v
           /\ call'[c].id = 0
           /\ call'[c].status = StatusOf(req[c], "ok")
  <1> DEFINE o == call[c]
             new == Record("ended", Nil, "none", v, 0, StatusOf(req[c], "ok"))
  <1>1. o = Record(o.pc, o.key, o.then, o.val, o.id, o.status)
    BY DEF CallShaped, Record
  <1>2. call' = [call EXCEPT ![c] = new]
    <2>1. [Ended(StatusOf(req[c], "ok")) EXCEPT !.val = v] = new
      <3>1. Ended(StatusOf(req[c], "ok")) = Record("ended", Nil, "none", Nil, 0, StatusOf(req[c], "ok"))
        BY EndedRecord
      <3>2. [Record("ended", Nil, "none", Nil, 0, StatusOf(req[c], "ok")) EXCEPT !.val = v] = new
        BY DEF Record
      <3> QED
        BY <3>1, <3>2
    <2>2. call' = [call EXCEPT ![c] = [Ended(StatusOf(req[c], "ok")) EXCEPT !.val = v]]
      BY DEF Result
    <2> QED
      BY <2>1, <2>2
  <1>2a. new = Record(new.pc, new.key, new.then, new.val, new.id, new.status)
    BY DEF Record
  <1> HIDE DEF new
  <1>3. CallShaped' /\ Others(c) /\ call'[c] = new
    BY <1>2, <1>2a, SetCall
  <1> QED
    BY <1>3 DEF new, Record

LEMMA ResultFacts ==
    ASSUME CallShaped, NEW c \in Call, NEW v, Result(c, v)
    PROVE  /\ CallShaped' /\ Others(c)
           /\ call'[c].pc = "ended"
           /\ call'[c].key = Nil
           /\ call'[c].then = "none"
           /\ call'[c].val = v
  BY ResultRecord

LEMMA ResultIds ==
    ASSUME CallShaped, NEW c \in Call, NEW v, Result(c, v)
    PROVE  /\ call'[c].id = 0
           /\ call'[c].status = StatusOf(req[c], "ok")
  BY ResultRecord

LEMMA StoredRecord ==
    ASSUME CallShaped, NEW c \in Call, NEW p, NEW k, NEW i, GotoStored(c, p, k, i)
    PROVE  /\ CallShaped' /\ Others(c)
           /\ call'[c].pc = p
           /\ call'[c].key = k
           /\ call'[c].then = call[c].then
           /\ call'[c].val = call[c].val
           /\ call'[c].id = i
           /\ call'[c].status = call[c].status
  <1> DEFINE o == call[c]
             new == Record(p, k, o.then, o.val, i, o.status)
  <1>1. o = Record(o.pc, o.key, o.then, o.val, o.id, o.status)
    BY DEF CallShaped, Record
  <1>2. call' = [call EXCEPT ![c] = new]
    <2>1. [o EXCEPT !.pc = p, !.key = k, !.id = i] = new
      <3>1. [o EXCEPT !.pc = p] = Record(p, o.key, o.then, o.val, o.id, o.status)
        BY <1>1 DEF Record
      <3>2. [Record(p, o.key, o.then, o.val, o.id, o.status) EXCEPT !.key = k]
              = Record(p, k, o.then, o.val, o.id, o.status)
        BY <1>1 DEF Record
      <3>3. [Record(p, k, o.then, o.val, o.id, o.status) EXCEPT !.id = i]
              = Record(p, k, o.then, o.val, i, o.status)
        BY <1>1 DEF Record
      <3> QED
        BY <3>1, <3>2, <3>3
    <2>2. call' = [call EXCEPT ![c] = [o EXCEPT !.pc = p, !.key = k, !.id = i]]
      BY DEF GotoStored
    <2> QED
      BY <2>1, <2>2
  <1>2a. new = Record(new.pc, new.key, new.then, new.val, new.id, new.status)
    BY DEF Record
  <1> HIDE DEF new
  <1>3. CallShaped' /\ Others(c) /\ call'[c] = new
    BY <1>2, <1>2a, SetCall
  <1> QED
    BY <1>3 DEF new, Record

LEMMA StoredFacts ==
    ASSUME CallShaped, NEW c \in Call, NEW p, NEW k, NEW i, GotoStored(c, p, k, i)
    PROVE  /\ CallShaped' /\ Others(c)
           /\ call'[c].pc = p
           /\ call'[c].key = k
           /\ call'[c].then = call[c].then
           /\ call'[c].val = call[c].val
  BY StoredRecord

LEMMA StoredIds ==
    ASSUME CallShaped, NEW c \in Call, NEW p, NEW k, NEW i, GotoStored(c, p, k, i)
    PROVE  /\ call'[c].id = i
           /\ call'[c].status = call[c].status
  BY StoredRecord

-----------------------------------------------------------------------------
(* what steps do to requests, rows, cache and calls *)

ServicesRest == UNCHANGED <<serviceVars, kafkaVars>>

\* Connections and the process aside, a step is one of these.
ServiceMove ==
    \/ \E c \in Call : (Work(c) \/ AIWork(c)) /\ UNCHANGED kafkaVars
    \/ \E k \in Key : Expire(k) /\ UNCHANGED kafkaVars
    \/ \E c \in Conn : PublishEvent(c)
    \/ FetchEvent \/ HandleEvent \/ ConsumeGoesOn
    \/ \E c \in Call : Enqueue(c) \/ EnqueueTool(c)
    \/ ServicesRest

LEMMA StepsAreMoves == [Next]_vars => ServiceMove
  <1> SUFFICES ASSUME [Next]_vars PROVE ServiceMove
    OBVIOUS
  <1> USE ServerAssumption
  <1>1. CASE ServiceStep
    BY <1>1 DEF ServiceStep, ServiceMove, ServicesRest, kafkaVars
  <1>2. CASE HubStep
    BY <1>2 DEF HubStep, ServiceMove, ServicesRest, kafkaVars
  <1>3. ASSUME NEW c \in Conn, ReadMessage(c) PROVE ServiceMove
    BY <1>3 DEF ReadMessage, ServiceMove, ServicesRest, Work, kafkaVars
  <1>4. ASSUME NEW c \in Conn, PublishEvent(c) PROVE ServiceMove
    BY <1>4 DEF ServiceMove
  <1>5. CASE FetchEvent \/ HandleEvent \/ ConsumeGoesOn
    BY <1>5 DEF ServiceMove
  <1>6. ASSUME NEW c \in Call, Enqueue(c) \/ EnqueueTool(c) PROVE ServiceMove
    BY <1>6 DEF ServiceMove
  <1>7. CASE Signal \/ ShutdownReturns \/ Exit
    BY <1>7 DEF Signal, ShutdownReturns, Exit, ServiceMove, ServicesRest, kafkaVars
  <1>8. CASE UNCHANGED vars
    BY <1>8 DEF vars, ServiceMove, ServicesRest, kafkaVars
  <1> QED
    BY <1>1, <1>2, <1>3, <1>4, <1>5, <1>6, <1>7, <1>8 DEF Next

LEMMA WorkKeepsRequests ==
    ASSUME NEW c, Work(c) \/ AIWork(c)
    PROVE  UNCHANGED req
  BY DEF Work, Unauthorized, Malformed, Begin, RegisterCheck, Register, Login, LoginRefused,
         CreateGroup, JoinSnapshot, JoinGroup, LeaveGroup, ApproveGroupJoin, OpenCheck,
         OpenSession, FindSession, InsertMessage, AppendGet, AppendSkipped, AppendSet, Hit,
     Miss, Query, Fill, FillSkipped, Delete, DeleteFails, StatementFails, AIWork, BeginSetting,
     CountSessions, ReplaceAccess, AnswerSetting, BeginTool, CheckAccess, GetRecentMessages,
     SearchMessages, ListAllowedSessions

LEMMA RequestsKept ==
    ASSUME ServerInv, ServiceMove
    PROVE  RequestsOK'
  <1> USE ServerAssumption DEF ServerInv
  <1>1. CASE UNCHANGED <<req, topic, consumed>>
    BY <1>1 DEF RequestsOK
  <1>2. ASSUME NEW c \in Conn, PublishEvent(c) PROVE RequestsOK'
    <2>1. UNCHANGED req /\ req[c] \in Sent
      BY <1>2 DEF PublishEvent, RequestsOK
    <2>2. topic' \in Seq(Sent)
      BY <1>2, <2>1, AppendRange DEF PublishEvent, RequestsOK
    <2> QED
      BY <1>2, <2>1, <2>2 DEF PublishEvent, RequestsOK
  <1>3. CASE FetchEvent
    <2> DEFINE e == topic[consumed + 1]
    <2>1. e \in Sent
      <3>1. topic \in Seq(Sent) /\ consumed < Len(topic)
        BY <1>3 DEF FetchEvent, RequestsOK
      <3>2. consumed \in Nat
        BY DEF RequestsOK
      <3> QED
        BY <3>1, <3>2
    <2>2. req' = [req EXCEPT ![Consumer] = e] /\ UNCHANGED <<topic, consumed>>
      BY <1>3 DEF FetchEvent, kafkaVars
    <2> HIDE DEF e
    <2>3. IsRequest(e) /\ e.op = "send"
      BY <2>1 DEF Sent, IsRequest, Operation
    <2>4. req' = [c \in Call |-> req'[c]] /\ req'[Consumer] = e
          /\ \A c \in Call : c # Consumer => req'[c] = req[c]
      BY <2>2 DEF RequestsOK
    <2>5. \A c \in Call : IsRequest(req'[c])
      BY <2>3, <2>4 DEF RequestsOK
    <2>6. \A c \in Conn : req'[c] = req[c]
      BY <2>4
    <2>7. \A c \in Conn \cup {Consumer} : req'[c].op = "send" => req'[c] \in Sent
      BY <2>1, <2>4, <2>6 DEF RequestsOK
    <2>8. (\A c \in Call : IsRequest(req[c]))'
      BY <2>5 DEF IsRequest
    <2> QED
      BY <2>2, <2>3, <2>4, <2>6, <2>7, <2>8 DEF RequestsOK
  <1>4. CASE HandleEvent
    BY <1>1, <1>4 DEF HandleEvent, kafkaVars
  <1>6. CASE ConsumeGoesOn
    <2>1. UNCHANGED <<req, topic>> /\ consumed' \in {consumed, consumed + 1}
      BY <1>6 DEF ConsumeGoesOn
    <2>2. consumed' \in Nat
      BY <2>1 DEF RequestsOK
    <2> QED
      BY <2>1, <2>2 DEF RequestsOK
  <1>5. ASSUME NEW c \in Call, Enqueue(c) \/ EnqueueTool(c) PROVE RequestsOK'
    BY <1>1, <1>5 DEF Enqueue, EnqueueTool, kafkaVars
  <1> QED
    BY <1>1, <1>2, <1>3, <1>4, <1>5, <1>6, WorkKeepsRequests
       DEF ServiceMove, ServicesRest, serviceVars, kafkaVars, Expire

LEMMA CountOf ==
    ASSUME NEW S \in SUBSET User
    PROVE  Cardinality(S) \in 0..Cardinality(User)
  <1>1. IsFiniteSet(User)
    BY ServicesAssumption
  <1>2. Cardinality(S) <= Cardinality(User) /\ IsFiniteSet(S)
    BY <1>1, FS_Subset
  <1> QED
    BY <1>1, <1>2, FS_CardinalityType

LEMMA RowOf ==
    ASSUME NEW S \in SUBSET User, NEW m \in Mode
    PROVE  [members |-> S, count |-> Cardinality(S), mode |-> m] \in GroupRow
  BY CountOf DEF GroupRow

LEMMA RowExcept ==
    ASSUME NEW g \in GroupRow, NEW S, NEW n
    PROVE  [g EXCEPT !.members = S, !.count = n] = [members |-> S, count |-> n, mode |-> g.mode]
  <1>1. [g EXCEPT !.members = S] = [members |-> S, count |-> g.count, mode |-> g.mode]
    BY DEF GroupRow
  <1>2. [[members |-> S, count |-> g.count, mode |-> g.mode] EXCEPT !.count = n]
          = [members |-> S, count |-> n, mode |-> g.mode]
    OBVIOUS
  <1> QED
    BY <1>1, <1>2

\* The rows of a group after a change of its members.
LEMMA MembersSet ==
    ASSUME NEW S \in SUBSET User, NEW m \in Mode, Owner \in S,
           group' = [members |-> S, count |-> Cardinality(S), mode |-> m],
           contacts' = S, gsessions' = S
    PROVE  GroupOK'
  <1>1. group' \in GroupRow
    BY RowOf
  <1>2. group' # Nil
    BY <1>1, ServicesAssumption
  <1> QED
    BY <1>1, <1>2 DEF GroupOK, RowsAgree

LEMMA EnterKeeps ==
    ASSUME GroupOK, NEW u \in User, group # Nil, Enter(u)
    PROVE  GroupOK'
  <1> DEFINE S == group.members \cup {u}
  <1>1. group \in GroupRow /\ S \in SUBSET User /\ Owner \in S /\ group.mode \in Mode
    BY DEF GroupOK, GroupRow, RowsAgree
  <1>2. group' = [members |-> S, count |-> Cardinality(S), mode |-> group.mode]
    BY <1>1, RowExcept DEF Enter
  <1>3. contacts' = S /\ gsessions' = S
    BY DEF Enter, GroupOK, RowsAgree
  <1> HIDE DEF S
  <1> QED
    BY <1>1, <1>2, <1>3, MembersSet

LEMMA GroupKept ==
    ASSUME ServerInv, ServiceMove
    PROVE  GroupOK'
  <1> USE DEF ServerInv
  <1>1. CASE UNCHANGED <<group, contacts, gsessions>>
    BY <1>1 DEF RowsOK, GroupOK, RowsAgree
  <1>2. ASSUME NEW c \in Call, CreateGroup(c) PROVE GroupOK'
    <2>1. CASE req[c].u \notin users
      BY <1>1, <1>2, <2>1 DEF CreateGroup
    <2>2. CASE req[c].u \in users
      <3>1. req[c].u = Owner /\ req[c].v \in Mode /\ Owner \in User
        BY <1>2, ServicesAssumption DEF CreateGroup, At, RequestsOK, IsRequest
      <3>2. Cardinality({Owner}) = 1
        BY FS_Singleton
      <3>3. group' = [members |-> {Owner}, count |-> Cardinality({Owner}), mode |-> req[c].v]
            /\ contacts' = {Owner} /\ gsessions' = {Owner}
        BY <1>2, <2>2, <3>1, <3>2 DEF CreateGroup
      <3> QED
        BY <3>1, <3>3, MembersSet
    <2> QED
      BY <2>1, <2>2
  <1>3. ASSUME NEW c \in Call, JoinGroup(c) PROVE GroupOK'
    BY <1>1, <1>3, EnterKeeps DEF JoinGroup, RowsOK, RequestsOK, IsRequest
  <1>4. ASSUME NEW c \in Call, LeaveGroup(c) PROVE GroupOK'
    <2> DEFINE u == req[c].u
               S == group.members \ {u}
    <2>1. CASE UNCHANGED <<group, contacts, gsessions>>
      BY <1>1, <2>1
    <2>2. CASE group # Nil /\ u # Owner /\ Member(u)
      <3>1. group \in GroupRow /\ S \in SUBSET User /\ Owner \in S /\ group.mode \in Mode
        BY <2>2 DEF RowsOK, GroupOK, GroupRow, RowsAgree
      <3>2. group' = [members |-> S, count |-> Cardinality(S), mode |-> group.mode]
        BY <1>4, <2>2, <3>1, RowExcept DEF LeaveGroup
      <3>3. contacts' = S /\ gsessions' = S
        BY <1>4, <2>2 DEF LeaveGroup, RowsOK, GroupOK, RowsAgree
      <3> HIDE DEF S
      <3> QED
        BY <3>1, <3>2, <3>3, MembersSet
    <2> QED
      BY <1>4, <2>1, <2>2 DEF LeaveGroup
  <1>5. ASSUME NEW c \in Call, ApproveGroupJoin(c) PROVE GroupOK'
    <2>1. req[c].v \in User
      BY <1>5 DEF ApproveGroupJoin, At, RequestsOK, IsRequest
    <2> QED
      BY <1>1, <1>5, <2>1, EnterKeeps DEF ApproveGroupJoin, RowsOK
  <1>6. ASSUME NEW c \in Call,
               Unauthorized(c) \/ Malformed(c) \/ Begin(c) \/ RegisterCheck(c)
               \/ Register(c) \/ Login(c) \/ LoginRefused(c) \/ JoinSnapshot(c)
               \/ OpenCheck(c) \/ FindSession(c) \/ AppendGet(c) \/ AppendSkipped(c)
               \/ AppendSet(c)
        PROVE  GroupOK'
    BY <1>1, <1>6 DEF rows, Unauthorized, Malformed, Begin, RegisterCheck, Register, Login,
                      LoginRefused, JoinSnapshot, OpenCheck, FindSession, AppendGet,
                      AppendSkipped, AppendSet
  <1>7. ASSUME NEW c \in Call,
               Hit(c) \/ Miss(c) \/ Query(c) \/ Fill(c) \/ FillSkipped(c) \/ Delete(c)
               \/ DeleteFails(c) \/ StatementFails(c) \/ OpenSession(c) \/ InsertMessage(c)
        PROVE  GroupOK'
    BY <1>1, <1>7 DEF rows, Hit, Miss, Query, Fill, FillSkipped, Delete, DeleteFails,
                      StatementFails, OpenSession, InsertMessage
  <1>8. ASSUME NEW c \in Call,
               BeginSetting(c) \/ CountSessions(c) \/ ReplaceAccess(c) \/ AnswerSetting(c)
               \/ BeginTool(c) \/ CheckAccess(c)
               \/ GetRecentMessages(c) \/ SearchMessages(c) \/ ListAllowedSessions(c)
        PROVE  GroupOK'
    BY <1>1, <1>8 DEF rows, BeginSetting, CountSessions, ReplaceAccess, AnswerSetting,
                      BeginTool, CheckAccess, GetRecentMessages, SearchMessages,
                      ListAllowedSessions
  <1>9. CASE ServicesRest \/ FetchEvent \/ HandleEvent \/ ConsumeGoesOn
    BY <1>1, <1>9 DEF ServicesRest, FetchEvent, HandleEvent, ConsumeGoesOn, serviceVars, rows
  <1>10. ASSUME NEW c \in Call, PublishEvent(c) \/ Enqueue(c) \/ EnqueueTool(c) PROVE GroupOK'
    BY <1>1, <1>10 DEF PublishEvent, Enqueue, EnqueueTool, rows
  <1>11. ASSUME NEW k \in Key, Expire(k) PROVE GroupOK'
    BY <1>1, <1>11 DEF Expire, rows
  <1> QED
    BY <1>2, <1>3, <1>4, <1>5, <1>6, <1>7, <1>8, <1>9, <1>10, <1>11, ServerAssumption
       DEF ServiceMove, Work, AIWork

\* The steps that change rows; of the group they change the members.
ChangesMembers(c) ==
    CreateGroup(c) \/ JoinGroup(c) \/ LeaveGroup(c) \/ ApproveGroupJoin(c)
ChangesRows(c) ==
    \/ ChangesMembers(c)
    \/ Register(c) \/ Login(c) \/ OpenSession(c) \/ InsertMessage(c) \/ ReplaceAccess(c)

LEMMA RowSteps ==
    ASSUME ServiceMove, ~UNCHANGED rows
    PROVE  \E c \in Call : ChangesRows(c)
  <1>1. ASSUME NEW c \in Call, Work(c) \/ AIWork(c) PROVE ChangesRows(c) \/ UNCHANGED rows
    BY <1>1 DEF Work, AIWork, ChangesRows, ChangesMembers,
       Unauthorized, Malformed, Begin, RegisterCheck, LoginRefused, JoinSnapshot, OpenCheck,
       FindSession, AppendGet, AppendSkipped, AppendSet, Hit, Miss, Query, Fill, FillSkipped,
       Delete, DeleteFails, StatementFails, BeginSetting, CountSessions, AnswerSetting,
       BeginTool, CheckAccess, GetRecentMessages, SearchMessages, ListAllowedSessions
  <1>2. ASSUME NEW k \in Key, Expire(k) PROVE UNCHANGED rows
    BY <1>2 DEF Expire
  <1>3. ASSUME NEW c \in Conn, PublishEvent(c) PROVE UNCHANGED rows
    BY <1>3 DEF PublishEvent
  <1>4. ASSUME FetchEvent \/ HandleEvent \/ ConsumeGoesOn PROVE UNCHANGED rows
    BY <1>4 DEF FetchEvent, HandleEvent, ConsumeGoesOn
  <1>5. ASSUME NEW c \in Call, Enqueue(c) \/ EnqueueTool(c) PROVE UNCHANGED rows
    BY <1>5 DEF Enqueue, EnqueueTool
  <1>6. ASSUME ServicesRest PROVE UNCHANGED rows
    BY <1>6 DEF ServicesRest, serviceVars
  <1> QED
    BY <1>1, <1>2, <1>3, <1>4, <1>5, <1>6 DEF ServiceMove

LEMMA PairOf ==
    ASSUME NEW u \in User, NEW v \in User, u # v
    PROVE  {u, v} \in Pairs
  <1>1. IsFiniteSet({u}) /\ Cardinality({u}) = 1
    BY FS_Singleton
  <1>2. {u, v} = {u} \cup {v}
    OBVIOUS
  <1>3. Cardinality({u, v}) = 2
    BY <1>1, <1>2, FS_AddElement
  <1> QED
    BY <1>3 DEF Pairs

LEMMA MessagesKept ==
    ASSUME ServerInv, ServiceMove
    PROVE  MessagesOK'
  <1> USE DEF ServerInv
  <1>1. CASE UNCHANGED <<sessions, log>>
    BY <1>1 DEF RowsOK, MessagesOK
  <1>2. ASSUME NEW c \in Call, OpenSession(c) PROVE MessagesOK'
    <2>1. {req[c].u, req[c].v} \in Pairs
      BY <1>2, PairOf DEF OpenSession, At, CallsOnCourse, OnCourse, RequestsOK, IsRequest
    <2> QED
      BY <1>2, <2>1 DEF OpenSession, RowsOK, MessagesOK
  <1>3. ASSUME NEW c \in Call, InsertMessage(c) PROVE MessagesOK'
    <2> DEFINE m == [from |-> req[c].u, to |-> DestOf(req[c]), ai |-> req[c].op # "send"]
    <2>1. m \in [from : User, to : Dest, ai : BOOLEAN]
      BY <1>3 DEF InsertMessage, CallsOnCourse, OnCourse, RequestsOK, IsRequest
    <2>2. log' = Append(log, m) /\ UNCHANGED sessions
      BY <1>3 DEF InsertMessage
    <2> HIDE DEF m
    <2> QED
      BY <2>1, <2>2, AppendRange DEF RowsOK, MessagesOK
  <1>4. ASSUME NEW c \in Call, ChangesMembers(c) \/ Register(c) \/ Login(c) \/ ReplaceAccess(c)
        PROVE  MessagesOK'
    BY <1>1, <1>4 DEF ChangesMembers, CreateGroup, JoinGroup, LeaveGroup, ApproveGroupJoin,
                      Register, Login, ReplaceAccess
  <1> QED
    BY <1>1, <1>2, <1>3, <1>4, RowSteps DEF ChangesRows, rows

\* Sessions are not lost, but for that of a member who leaves.
LEMMA AccessKept ==
    ASSUME ServerInv, ServiceMove
    PROVE  AccessOK'
  <1> USE DEF ServerInv
  <1>1. ASSUME access' \subseteq access,
               \A u \in User, d \in Dest :
                 <<u, d>> \in access' /\ d \in OwnSessions(u) => d \in OwnSessions(u)'
        PROVE  AccessOK'
    BY <1>1 DEF AccessOK
  <1>2. CASE UNCHANGED <<access, sessions, gsessions>>
    BY <1>2 DEF AccessOK, OwnSessions
  <1>3. ASSUME NEW c \in Call, CreateGroup(c) \/ JoinGroup(c) \/ ApproveGroupJoin(c)
        PROVE  AccessOK'
    <2>1. gsessions \subseteq gsessions' /\ UNCHANGED <<access, sessions>>
      BY <1>3 DEF CreateGroup, JoinGroup, ApproveGroupJoin, Enter, RowsOK, GroupOK
    <2> QED
      BY <1>1, <2>1 DEF OwnSessions
  <1>4. ASSUME NEW c \in Call, LeaveGroup(c) PROVE AccessOK'
    <2>1. UNCHANGED sessions
      BY <1>4 DEF LeaveGroup
    <2>2. \/ UNCHANGED <<access, gsessions>>
          \/ /\ gsessions' = gsessions \ {req[c].u}
             /\ access' = access \ {<<req[c].u, Group>>}
      BY <1>4 DEF LeaveGroup
    <2> QED
      BY <1>1, <2>1, <2>2 DEF OwnSessions
  <1>5. ASSUME NEW c \in Call, OpenSession(c) PROVE AccessOK'
    <2>1. sessions \subseteq sessions' /\ UNCHANGED <<access, gsessions>>
      BY <1>5 DEF OpenSession
    <2> QED
      BY <1>1, <2>1 DEF OwnSessions
  <1>6. ASSUME NEW c \in Call, ReplaceAccess(c) PROVE AccessOK'
    <2> DEFINE u == req[c].u
    <2>1. u \in User /\ UNCHANGED <<sessions, gsessions>>
      BY <1>6 DEF ReplaceAccess, RequestsOK, IsRequest
    <2>2. \A v \in User : OwnSessions(v)' = OwnSessions(v) /\ OwnSessions(v) \subseteq Dest
      BY <2>1 DEF OwnSessions, RowsOK, MessagesOK, Dest
    <2>3. CASE UNCHANGED access
      BY <1>2, <2>1, <2>3
    <2>4. ASSUME NEW allowed \in SUBSET OwnSessions(u),
                 access' = {a \in access : a[1] # u} \cup ({u} \X allowed)
          PROVE  AccessOK'
      BY <2>1, <2>2, <2>4 DEF AccessOK
    <2> DEFINE S       == Range(req[c].v)
               kept    == {d \in S : <<u, d>> \in access}
               create  == S \ (IF S = {} THEN {} ELSE call[c].val)
               allowed == (kept \cup create) \cap OwnSessions(u)
    <2>5. \/ UNCHANGED access
          \/ access' = {a \in access : a[1] # u} \cup ({u} \X allowed)
      BY <1>6 DEF ReplaceAccess
    <2>6. allowed \in SUBSET OwnSessions(u)
      OBVIOUS
    <2> HIDE DEF allowed
    <2> QED
      BY <2>3, <2>4, <2>5, <2>6
  <1>7. ASSUME NEW c \in Call, Register(c) \/ Login(c) \/ InsertMessage(c) PROVE AccessOK'
    BY <1>2, <1>7 DEF Register, Login, InsertMessage
  <1> QED
    BY <1>2, <1>3, <1>4, <1>5, <1>6, <1>7, RowSteps DEF ChangesRows, ChangesMembers, rows

-----------------------------------------------------------------------------
(* calls *)

\* A step of one call, beside those the consumer takes by itself.
CallStep(c) ==
    \/ Work(c) \/ AIWork(c)
    \/ PublishEvent(c) \/ Enqueue(c) \/ EnqueueTool(c)

LEMMA OneCall ==
    ASSUME CallShaped, NEW c \in Call,
           CallStep(c)
    PROVE  CallShaped' /\ Others(c)
  <1> USE GotoFacts, GotoWithFacts, WantFacts, StoredFacts, EndFacts, ResultFacts DEF Answer, Committed
  <1>1. CASE Unauthorized(c) \/ Malformed(c) \/ Begin(c) \/ RegisterCheck(c) \/ Register(c)
             \/ Login(c) \/ LoginRefused(c) \/ CreateGroup(c) \/ JoinSnapshot(c)
    BY <1>1 DEF Unauthorized, Malformed, Begin, IsDirect, RegisterCheck, Register, Login,
                LoginRefused, CreateGroup, JoinSnapshot
  <1>2. CASE JoinGroup(c) \/ LeaveGroup(c) \/ ApproveGroupJoin(c) \/ OpenCheck(c)
             \/ OpenSession(c) \/ FindSession(c)
    BY <1>2 DEF JoinGroup, LeaveGroup, ApproveGroupJoin, OpenCheck, OpenSession, FindSession
  <1>3. CASE InsertMessage(c) \/ AppendGet(c) \/ AppendSkipped(c) \/ AppendSet(c) \/ Hit(c)
    BY <1>3 DEF InsertMessage, AppendGet, AfterAppend, AppendSkipped, AppendSet, Hit, Continue,
                GetGroupMessageList, SendGroupMessage
  <1>4. CASE Miss(c) \/ Query(c) \/ Fill(c) \/ FillSkipped(c) \/ Delete(c) \/ DeleteFails(c)
             \/ StatementFails(c)
    BY <1>4 DEF Miss, Query, Fill, Continue, GetGroupMessageList, SendGroupMessage,
                FillSkipped, Delete, AfterDelete, DeleteFails, StatementFails
  <1>5. CASE BeginSetting(c) \/ CountSessions(c) \/ ReplaceAccess(c) \/ AnswerSetting(c)
             \/ BeginTool(c) \/ CheckAccess(c) \/ GetRecentMessages(c) \/ SearchMessages(c)
             \/ ListAllowedSessions(c)
    BY <1>5 DEF BeginSetting, CountSessions, ReplaceAccess, AnswerSetting, BeginTool,
                CheckAccess, GetRecentMessages, SearchMessages, ListAllowedSessions
  <1>6. CASE PublishEvent(c) \/ Enqueue(c) \/ EnqueueTool(c)
    BY <1>6 DEF PublishEvent, Enqueue, EnqueueTool
  <1> QED
    BY <1>1, <1>2, <1>3, <1>4, <1>5, <1>6 DEF CallStep, Work, AIWork

(* Where each step takes a call. *)

LEMMA EndMoves ==
    ASSUME NEW c \in Call, CallShaped,
           Unauthorized(c) \/ Malformed(c) \/ Register(c) \/ Login(c) \/ LoginRefused(c)
           \/ StatementFails(c) \/ PublishEvent(c) \/ Enqueue(c)
    PROVE  call'[c].pc = "ended" /\ call'[c].val = Nil
  BY EndFacts DEF Unauthorized, Malformed, Register, Login, LoginRefused, StatementFails,
                  PublishEvent, Enqueue, Answer

LEMMA ResultMoves ==
    ASSUME NEW c \in Call, CallShaped,
           AnswerSetting(c) \/ GetRecentMessages(c) \/ SearchMessages(c) \/ ListAllowedSessions(c)
    PROVE  call'[c].pc = "ended"
  BY EndFacts, ResultFacts DEF AnswerSetting, GetRecentMessages, SearchMessages,
                               ListAllowedSessions, Answer

LEMMA BeginMoves ==
    ASSUME NEW c \in Call, CallShaped,
           Begin(c)
    PROVE  /\ call[c].pc = "idle" /\ req[c].op \notin AISettings \cup AITools
           /\ \/ call'[c].pc \in {"ended", "tx", "snapshot", "pair"}
              \/ /\ call'[c].pc = "check" /\ ~Sends(c)
                 /\ req[c].op = "open" => req[c].u # req[c].v
              \/ /\ call'[c].pc = "lookup"
                 /\ IsRequest(req[c]) => call'[c].key \in Key
                 /\ \/ call'[c].then \in {"answer", "member"}
                    \/ /\ call'[c].then = "authorize" /\ req[c].op # "open"
                       /\ Sends(c) => DestOf(req[c]) = Group
  BY GotoFacts, EndFacts, WantFacts DEF Begin, Answer, IsDirect, DestOf, Sends, IsRequest, Key,
                                        Dest, AITools

LEMMA CheckMoves ==
    ASSUME NEW c \in Call, CallShaped,
           RegisterCheck(c) \/ CreateGroup(c) \/ JoinSnapshot(c) \/ JoinGroup(c)
           \/ LeaveGroup(c) \/ ApproveGroupJoin(c) \/ OpenSession(c)
    PROVE  /\ req[c].op \in {"register", "create", "join", "leave", "approve", "open"}
           /\ call'[c].pc \in {"ended", "tx", "delete"} \/ (call'[c].pc = "insert" /\ req[c].op # "open")
  BY GotoFacts, GotoWithFacts, EndFacts DEF RegisterCheck, CreateGroup, JoinSnapshot,
                                            JoinGroup, LeaveGroup, ApproveGroupJoin,
                                            OpenSession, At, Answer, Committed

LEMMA OpenMoves ==
    ASSUME NEW c \in Call, CallShaped,
           OpenCheck(c)
    PROVE  /\ req[c].op = "open" /\ call[c].pc = "check"
           /\ call'[c].pc \in {"ended", "insert"}
  BY GotoFacts, EndFacts DEF OpenCheck, At, Answer

LEMMA FindMoves ==
    ASSUME NEW c \in Call, CallShaped,
           FindSession(c)
    PROVE  /\ Sends(c) /\ call[c].pc = "pair"
           /\ \/ call'[c].pc = "ended" /\ call'[c].val = Nil
              \/ call'[c].pc = "insert" /\ DestOf(req[c]) \in OwnSessions(req[c].u)
  BY GotoFacts, EndFacts DEF FindSession, Answer

LEMMA InsertMoves ==
    ASSUME NEW c \in Call, CallShaped,
           InsertMessage(c)
    PROVE  /\ Sends(c) /\ call[c].pc = "insert"
           /\ call'[c].key = <<"list", DestOf(req[c])>>
           /\ \/ call'[c].pc = "appendGet" /\ (req[c].op = "send" \/ req[c].v # Group)
              \/ call'[c].pc = "delete" /\ req[c].op # "send"
  BY StoredFacts DEF InsertMessage

LEMMA AppendMoves ==
    ASSUME NEW c \in Call, CallShaped,
           AppendGet(c) \/ AppendSkipped(c) \/ AppendSet(c)
    PROVE  /\ Appending(c)
           /\ \/ call'[c].pc = "appendSet" /\ call'[c].key = call[c].key
              \/ call'[c].pc = "delete" /\ DestOf(req[c]) # Group
              \/ /\ call'[c].pc = "lookup" /\ DestOf(req[c]) = Group
                 /\ call'[c].key = <<"info", Group>> /\ call'[c].then = "recipients"
  BY GotoFacts, GotoWithFacts, WantFacts DEF AppendGet, AppendSkipped, AppendSet, AfterAppend,
                                             Appending

\* What a call does with the value v it asked for.
Continued(c, v) ==
    \/ call'[c].pc = "ended"
    \/ /\ call'[c].pc = "lookup" /\ call'[c].then \in {"answer", "member again"}
       /\ call'[c].key = <<"info", Group>> \/ call'[c].key = <<"list", Group>>
    \/ call'[c].pc = "insert" /\ call[c].then = "authorize"
    \/ /\ call'[c].pc = "enqueue" /\ call'[c].val = v
       /\ call[c].then \notin {"answer", "member", "member again", "authorize"}

LEMMA ContinueFacts ==
    ASSUME NEW c \in Call, CallShaped, NEW v, Continue(c, v)
    PROVE  Continued(c, v)
  <1>1. CASE call[c].then = "answer"
    BY <1>1, EndFacts DEF Continue, Continued, Answer
  <1>2. CASE call[c].then = "member"
    <2>1. Want(c, <<"info", Group>>, "member again") \/ Answer(c, "NotAMember")
      BY <1>2 DEF Continue
    <2>2. ASSUME Want(c, <<"info", Group>>, "member again") PROVE Continued(c, v)
      <3>1. /\ call'[c].pc = "lookup" /\ call'[c].key = <<"info", Group>>
            /\ call'[c].then = "member again"
        BY <2>2, WantFacts
      <3> QED
        BY <3>1 DEF Continued
    <2> QED
      BY <2>1, <2>2, EndFacts DEF Continued, Answer
  <1>3. CASE call[c].then = "member again"
    <2>1. Want(c, <<"list", Group>>, "answer") \/ Answer(c, "ErrNotGroupMember")
      BY <1>3 DEF Continue, GetGroupMessageList
    <2>2. ASSUME Want(c, <<"list", Group>>, "answer") PROVE Continued(c, v)
      <3>1. /\ call'[c].pc = "lookup" /\ call'[c].key = <<"list", Group>>
            /\ call'[c].then = "answer"
        BY <2>2, WantFacts
      <3> QED
        BY <3>1 DEF Continued
    <2> QED
      BY <2>1, <2>2, EndFacts DEF Continued, Answer
  <1>4. CASE call[c].then = "authorize"
    BY <1>4, EndFacts, GotoFacts DEF Continue, Continued, Answer, SendGroupMessage
  <1>5. CASE call[c].then \notin {"answer", "member", "member again", "authorize"}
    BY <1>5, GotoWithFacts DEF Continue, Continued
  <1> QED
    BY <1>1, <1>2, <1>3, <1>4, <1>5

LEMMA ContinueMoves ==
    ASSUME NEW c \in Call, CallShaped,
           Hit(c) \/ Fill(c) \/ FillSkipped(c)
    PROVE  \/ /\ call[c].pc = "lookup" /\ cache[call[c].key] # Nil
              /\ Continued(c, cache[call[c].key])
           \/ call[c].pc = "fill" /\ Continued(c, call[c].val)
  BY ContinueFacts DEF Hit, Fill, FillSkipped

LEMMA QueryMoves ==
    ASSUME NEW c \in Call, CallShaped,
           Miss(c) \/ Query(c)
    PROVE  /\ Fetching(c)
           /\ \/ call'[c].pc = "ended"
              \/ /\ call'[c].pc \in {"query", "fill"}
                 /\ call'[c].key = call[c].key /\ call'[c].then = call[c].then
                 /\ call'[c].pc = "fill" => call'[c].val = View(call[c].key) /\ call'[c].val # Nil
  BY GotoFacts, GotoWithFacts, EndFacts DEF Miss, Query, Answer, Fetching

LEMMA DeleteMoves ==
    ASSUME NEW c \in Call, CallShaped,
           Delete(c) \/ DeleteFails(c)
    PROVE  /\ call[c].pc = "delete"
           /\ \/ call'[c].pc = "ended"
              \/ Sends(c) /\ call'[c].pc = "enqueue" /\ call'[c].val = Receiver(req[c])
  BY GotoWithFacts, EndFacts DEF Delete, DeleteFails, AfterDelete, Answer

LEMMA SettingMoves ==
    ASSUME NEW c \in Call, CallShaped,
           BeginSetting(c) \/ CountSessions(c) \/ ReplaceAccess(c)
    PROVE  /\ req[c].op \in AISettings
           /\ call'[c].pc \in {"ended", "setting", "replace", "count"}
  BY GotoFacts, GotoWithFacts, EndFacts DEF BeginSetting, CountSessions, ReplaceAccess, Answer,
                                            At, AISettings

LEMMA ToolMoves ==
    ASSUME NEW c \in Call, CallShaped,
           BeginTool(c)
    PROVE  /\ req[c].op \in AITools /\ call[c].pc = "idle"
           /\ \/ call'[c].pc = "ended" /\ call'[c].val = Nil
              \/ call'[c].pc \in {"access", "page"} /\ call'[c].val = call[c].val
           /\ call'[c].pc = "page" => \/ req[c].op = "listSessions"
                                      \/ req[c].op = "searchMessages" /\ req[c].v.session = Nil
  BY GotoFacts, EndFacts DEF BeginTool, Answer, AITools

LEMMA AccessMoves ==
    ASSUME NEW c \in Call, CallShaped,
           CheckAccess(c)
    PROVE  /\ call[c].pc = "access"
           /\ \/ call'[c].pc = "ended" /\ call'[c].val = Nil
              \/ /\ call'[c].pc \in {"page", "pair"} /\ call'[c].val = call[c].val
                 /\ SessionOf(req[c]) \in Allowed(req[c].u)
                 /\ call'[c].pc = "pair" <=> req[c].op = "sendAIMessage"
  BY GotoFacts, EndFacts DEF CheckAccess, Answer, EnsureSessionAccess

LEMMA RouteMoves ==
    ASSUME NEW c \in Call, CallShaped,
           EnqueueTool(c)
    PROVE  /\ call[c].pc = "enqueue" /\ req[c].op = "sendAIMessage"
           /\ \/ call'[c].pc = "ended"
              \/ call'[c].pc = "enqueue" /\ call'[c].val = {req[c].u}
  BY GotoWithFacts, EndFacts DEF EnqueueTool, Answer

LEMMA GroupKeys == <<"info", Group>> \in Key /\ <<"list", Group>> \in Key
  BY DEF Key, Dest

LEMMA OneCallKeepsRequests ==
    ASSUME NEW c \in Call,
           CallStep(c)
    PROVE  req' = req
  BY WorkKeepsRequests DEF CallStep, PublishEvent, Enqueue, EnqueueTool

LEMMA OnCourseStep ==
    ASSUME NEW c \in Call, CallShaped, MessagesOK, OnCourse(c), IsRequest(req[c]),
           CallStep(c)
    PROVE  OnCourse(c)'
  <1>0. req' = req
    BY OneCallKeepsRequests
  <1> USE <1>0 DEF OnCourse, At, Sends, Fetching, Appending
  <1>1. CASE Unauthorized(c) \/ Malformed(c) \/ Register(c) \/ Login(c) \/ LoginRefused(c)
             \/ StatementFails(c) \/ PublishEvent(c) \/ Enqueue(c)
    BY <1>1, EndMoves
  <1>2. CASE AnswerSetting(c) \/ GetRecentMessages(c) \/ SearchMessages(c)
             \/ ListAllowedSessions(c)
    BY <1>2, ResultMoves
  <1>3. CASE Begin(c)
    BY <1>3, BeginMoves
  <1>4. CASE RegisterCheck(c) \/ CreateGroup(c) \/ JoinSnapshot(c) \/ JoinGroup(c)
             \/ LeaveGroup(c) \/ ApproveGroupJoin(c) \/ OpenSession(c)
    BY <1>4, CheckMoves
  <1>5. CASE OpenCheck(c)
    BY <1>5, OpenMoves
  <1>6. CASE FindSession(c)
    <2>1. OwnSessions(req[c].u) \subseteq Dest
      BY DEF OwnSessions, MessagesOK, Dest
    <2> QED
      BY <1>6, <2>1, FindMoves
  <1>7. CASE InsertMessage(c)
    <2>1. DestOf(req[c]) \in Dest /\ call[c].pc = "insert" /\ Sends(c)
      BY <1>7, InsertMoves
    <2>2. <<"list", DestOf(req[c])>> \in Key
      BY <2>1 DEF Key
    <2>3. call'[c].key = <<"list", DestOf(req'[c])>>
      BY <1>7, InsertMoves
    <2> QED
      BY <1>7, <2>1, <2>2, <2>3, InsertMoves
  <1>8. CASE AppendGet(c) \/ AppendSkipped(c) \/ AppendSet(c)
    <2>1. Appending(c) /\ call[c].key \in Key
      BY <1>8, AppendMoves
    <2>2. CASE call'[c].pc = "appendSet" /\ call'[c].key = call[c].key
      <3>1. Sends(c) /\ call[c].key = <<"list", DestOf(req[c])>> /\ DestOf(req[c]) \in Dest
        BY <2>1
      <3> QED
        BY <2>1, <2>2, <3>1
    <2>3. CASE call'[c].pc = "delete" /\ DestOf(req[c]) # Group
      BY <2>1, <2>3 DEF DestOf, IsDirect
    <2>4. CASE call'[c].pc = "lookup" /\ call'[c].key = <<"info", Group>> /\ call'[c].then = "recipients"
      BY <2>4, GroupKeys
    <2> QED
      BY <1>8, <2>2, <2>3, <2>4, AppendMoves
  <1>9. CASE Hit(c) \/ Fill(c) \/ FillSkipped(c)
    <2>1. Fetching(c)
      BY <1>9, ContinueMoves
    <2>2. CASE call'[c].pc \in {"ended", "enqueue"}
      BY <2>2
    <2>3. CASE /\ call'[c].pc = "lookup" /\ call'[c].then \in {"answer", "member again"}
               /\ call'[c].key = <<"info", Group>> \/ call'[c].key = <<"list", Group>>
      BY <2>3, GroupKeys
    <2>4. CASE call'[c].pc = "insert" /\ call[c].then = "authorize"
      BY <2>1, <2>4 DEF Dest
    <2> QED
      BY <1>9, <2>2, <2>3, <2>4, ContinueMoves DEF Continued
  <1>10. CASE Miss(c) \/ Query(c)
    BY <1>10, QueryMoves
  <1>11. CASE Delete(c) \/ DeleteFails(c)
    BY <1>11, DeleteMoves
  <1>12. CASE BeginSetting(c) \/ CountSessions(c) \/ ReplaceAccess(c)
    BY <1>12, SettingMoves DEF AISettings
  <1>13. CASE BeginTool(c)
    BY <1>13, ToolMoves
  <1>14. CASE CheckAccess(c)
    BY <1>14, AccessMoves
  <1>15. CASE EnqueueTool(c)
    BY <1>15, RouteMoves
  <1> QED
    BY <1>1, <1>2, <1>3, <1>4, <1>5, <1>6, <1>7, <1>8, <1>9, <1>10, <1>11, <1>12, <1>13, <1>14,
       <1>15 DEF CallStep, Work, AIWork

\* Every step of a call ends it, takes it on, or stores its message.
Ends(c) == End(c, 401) \/ (\E err : Answer(c, err)) \/ (\E v : Result(c, v))
Goes(c) == \/ \E p : Goto(c, p) /\ p # "ended"
           \/ \E p, v : GotoWith(c, p, v) /\ p # "ended"
           \/ \E k, p : Want(c, k, p)

LEMMA StepOfContinue ==
    ASSUME NEW c, NEW v, Continue(c, v)
    PROVE  Ends(c) \/ Goes(c)
  <1>1. CASE call[c].then = "answer"
    BY <1>1 DEF Continue, Ends
  <1>2. CASE call[c].then = "member"
    BY <1>2 DEF Continue, Ends, Goes
  <1>3. CASE call[c].then = "member again"
    BY <1>3 DEF Continue, Ends, Goes, GetGroupMessageList
  <1>4. CASE call[c].then = "authorize"
    BY <1>4 DEF Continue, Ends, Goes, SendGroupMessage
  <1>5. CASE call[c].then \notin {"answer", "member", "member again", "authorize"}
    <2>1. GotoWith(c, "enqueue", v)
      BY <1>5 DEF Continue
    <2> QED
      BY <2>1 DEF Goes
  <1> QED
    BY <1>1, <1>2, <1>3, <1>4, <1>5

LEMMA StepOfCall ==
    ASSUME NEW c,
           CallStep(c)
    PROVE  Ends(c) \/ Goes(c) \/ InsertMessage(c)
  <1> USE DEF Ends, Goes, Committed
  <1>1. CASE Unauthorized(c) \/ Malformed(c)
    BY <1>1 DEF Unauthorized, Malformed
  <1>2. CASE Begin(c)
    BY <1>2 DEF Begin
  <1>3. CASE RegisterCheck(c) \/ Register(c) \/ Login(c) \/ LoginRefused(c)
    BY <1>3 DEF RegisterCheck, Register, Login, LoginRefused
  <1>4. CASE CreateGroup(c) \/ JoinSnapshot(c)
    BY <1>4 DEF CreateGroup, JoinSnapshot
  <1>5. CASE JoinGroup(c)
    BY <1>5 DEF JoinGroup
  <1>6. CASE LeaveGroup(c) \/ ApproveGroupJoin(c)
    BY <1>6 DEF LeaveGroup, ApproveGroupJoin
  <1>7. CASE OpenCheck(c) \/ OpenSession(c)
    BY <1>7 DEF OpenCheck, OpenSession
  <1>8. CASE FindSession(c) \/ InsertMessage(c)
    BY <1>8 DEF FindSession, InsertMessage
  <1>9. CASE AppendGet(c) \/ AppendSkipped(c) \/ AppendSet(c)
    BY <1>9 DEF AppendGet, AfterAppend, AppendSkipped, AppendSet
  <1>10. CASE Hit(c) \/ Fill(c) \/ FillSkipped(c)
    BY <1>10, StepOfContinue DEF Hit, Fill, FillSkipped
  <1>13. CASE Miss(c) \/ Query(c)
    BY <1>13 DEF Miss, Query
  <1>14. CASE Delete(c) \/ DeleteFails(c)
    BY <1>14 DEF Delete, AfterDelete, DeleteFails
  <1>15. CASE StatementFails(c)
    BY <1>15 DEF StatementFails
  <1>16. CASE BeginSetting(c) \/ CountSessions(c) \/ ReplaceAccess(c) \/ AnswerSetting(c)
    BY <1>16 DEF BeginSetting, CountSessions, ReplaceAccess, AnswerSetting
  <1>17. CASE BeginTool(c) \/ CheckAccess(c)
    BY <1>17 DEF BeginTool, CheckAccess
  <1>18. CASE GetRecentMessages(c) \/ SearchMessages(c) \/ ListAllowedSessions(c)
    BY <1>18 DEF GetRecentMessages, SearchMessages, ListAllowedSessions
  <1>19. CASE PublishEvent(c) \/ Enqueue(c) \/ EnqueueTool(c)
    BY <1>19 DEF PublishEvent, Enqueue, EnqueueTool
  <1> QED
    BY <1>1, <1>2, <1>3, <1>4, <1>5, <1>6, <1>7, <1>8, <1>9, <1>10, <1>13, <1>14, <1>15, <1>16,
       <1>17, <1>18, <1>19 DEF CallStep, Work, AIWork

LEMMA EndsFacts ==
    ASSUME CallShaped, NEW c \in Call, Ends(c)
    PROVE  /\ call'[c].pc = "ended"
           /\ call'[c].id = 0
           /\ \/ call'[c].status = 401
              \/ \E err : call'[c].status = StatusOf(req[c], err)
  <1>1. CASE End(c, 401)
    BY <1>1, EndFacts, EndIds
  <1>2. ASSUME NEW err, Answer(c, err)
        PROVE  call'[c].pc = "ended" /\ call'[c].id = 0 /\ call'[c].status = StatusOf(req[c], err)
    BY <1>2, EndFacts, EndIds DEF Answer
  <1>3. ASSUME NEW v, Result(c, v)
        PROVE  call'[c].pc = "ended" /\ call'[c].id = 0 /\ call'[c].status = StatusOf(req[c], "ok")
    BY <1>3, ResultFacts, ResultIds
  <1> QED
    BY <1>1, <1>2, <1>3 DEF Ends

LEMMA GoesFacts ==
    ASSUME CallShaped, NEW c \in Call, Goes(c)
    PROVE  call'[c].pc # "ended" /\ call'[c].id = call[c].id
  <1>1. ASSUME NEW p, Goto(c, p), p # "ended"
        PROVE  call'[c].pc # "ended" /\ call'[c].id = call[c].id
    BY <1>1, GotoFacts, GotoIds
  <1>2. ASSUME NEW p, NEW v, GotoWith(c, p, v), p # "ended"
        PROVE  call'[c].pc # "ended" /\ call'[c].id = call[c].id
    BY <1>2, GotoWithFacts, GotoWithIds
  <1>3. ASSUME NEW k, NEW p, Want(c, k, p)
        PROVE  call'[c].pc # "ended" /\ call'[c].id = call[c].id
    BY <1>3, WantFacts, WantIds
  <1> QED
    BY <1>1, <1>2, <1>3 DEF Goes

(* Each table of statuses answers what its route declares. *)
LEMMA StatusesAreDeclared ==
    ASSUME NEW r, NEW err
    PROVE  StatusOf(r, err) \in Declared(r)
  <1> DEFINE e == Endpoint(r)
  <1> HIDE DEF e
  <1>1. CASE e = "register"
    BY <1>1 DEF e, StatusOf, Declared, RegisterStatus, AISettings, AITools
  <1>2. CASE e = "login"
    BY <1>2 DEF e, StatusOf, Declared, LoginStatus, AISettings, AITools
  <1>3. CASE e = "create"
    BY <1>3 DEF e, StatusOf, Declared, CreateGroupStatus, AISettings, AITools
  <1>4. CASE e = "approve"
    BY <1>4 DEF e, StatusOf, Declared, ApproveStatus, AISettings, AITools
  <1>5. CASE e = "open"
    BY <1>5 DEF e, StatusOf, Declared, OpenSessionStatus, AISettings, AITools
  <1>6. CASE e = "info"
    BY <1>6 DEF e, StatusOf, Declared, GroupInfoStatus, AISettings, AITools
  <1>7. CASE e = "user"
    BY <1>7 DEF e, StatusOf, Declared, UserInfoStatus, AISettings, AITools
  <1>8. CASE e = "session"
    BY <1>8 DEF e, StatusOf, Declared, SessionListStatus, AISettings, AITools
  <1>9. CASE e = "glist"
    BY <1>9 DEF e, StatusOf, Declared, GroupMessageListStatus, AISettings, AITools
  <1>10. CASE e = "list"
    BY <1>10 DEF e, StatusOf, Declared, MessageListStatus, AISettings, AITools
  <1>11. CASE e \in {"join", "leave"}
    BY <1>11 DEF e, StatusOf, Declared, GroupActionStatus, AISettings, AITools
  <1>12. CASE e \in {"joined", "owned", "gsession"}
    BY <1>12 DEF e, StatusOf, Declared, ListStatus, AISettings, AITools
  <1>13. CASE e \in AISettings
    BY <1>13 DEF e, StatusOf, Declared, AISettingStatus, AISettings, AITools
  <1>14. CASE e \in AITools
    BY <1>14 DEF e, StatusOf, Declared, ToolStatus, AISettings, AITools, ToolAnswers
  <1>15. CASE e \notin {"register", "login", "create", "approve", "open", "info", "user",
                       "session", "glist", "list", "join", "leave",
                       "joined", "owned", "gsession"} \cup AISettings \cup AITools
    BY <1>15 DEF e, StatusOf, Declared, ListStatus, AISettings, AITools
  <1> QED
    BY <1>1, <1>2, <1>3, <1>4, <1>5, <1>6, <1>7, <1>8, <1>9, <1>10, <1>11, <1>12, <1>13, <1>14,
       <1>15

(* The consumer's own steps. *)

ConsumerStep == FetchEvent \/ HandleEvent \/ ConsumeGoesOn

LEMMA IdleRecord == Idle = Record("idle", Nil, "none", Nil, 0, 0)
  BY DEF Idle, Record

LEMMA ConsumerMoves ==
    ASSUME CallShaped, RequestsOK, ConsumerStep
    PROVE  /\ CallShaped' /\ Others(Consumer)
           /\ \A d \in Call : d # Consumer => req'[d] = req[d]
           /\ \/ call'[Consumer].pc = "fetched"
              \/ call'[Consumer].pc = "pair" /\ req' = req /\ call[Consumer].pc = "fetched"
              \/ /\ call'[Consumer].pc = "lookup" /\ req' = req
                 /\ call'[Consumer].key = <<"info", Group>> /\ call'[Consumer].then = "authorize"
                 /\ req[Consumer].op = "send" => req[Consumer].v = Group
              \/ call' = call /\ req' = req
              \/ call'[Consumer] = Idle
  <1> USE ServerAssumption
  <1>1. CASE FetchEvent
    <2>1. Goto(Consumer, "fetched") /\ req' = [req EXCEPT ![Consumer] = topic[consumed + 1]]
      BY <1>1 DEF FetchEvent
    <2>2. \A d \in Call : d # Consumer => req'[d] = req[d]
      BY <2>1 DEF RequestsOK
    <2> QED
      BY <2>1, <2>2, GotoFacts
  <1>2. CASE HandleEvent /\ IsDirect(req[Consumer])
    <2>1. Goto(Consumer, "pair") /\ req' = req /\ call[Consumer].pc = "fetched"
      BY <1>2 DEF HandleEvent
    <2> QED
      BY <2>1, GotoFacts
  <1>3. CASE HandleEvent /\ ~IsDirect(req[Consumer])
    <2>1. Want(Consumer, <<"info", Group>>, "authorize") /\ req' = req
      BY <1>3 DEF HandleEvent
    <2>2. /\ CallShaped' /\ Others(Consumer) /\ call'[Consumer].pc = "lookup"
          /\ call'[Consumer].key = <<"info", Group>> /\ call'[Consumer].then = "authorize"
      BY <2>1, WantFacts
    <2>3. req[Consumer].op = "send" => req[Consumer].v = Group
      BY <1>3 DEF IsDirect
    <2> QED
      BY <2>1, <2>2, <2>3
  <1>4. CASE ConsumeGoesOn
    <2>1. req' = req /\ (call' = call \/ call' = [call EXCEPT ![Consumer] = Idle])
      BY <1>4 DEF ConsumeGoesOn
    <2>2. CASE call' = call
      BY <2>1, <2>2 DEF CallShaped, Others
    <2>3. CASE call' = [call EXCEPT ![Consumer] = Idle]
      <3>1. Idle = Record(Idle.pc, Idle.key, Idle.then, Idle.val, Idle.id, Idle.status)
        BY IdleRecord DEF Record
      <3>2. CallShaped' /\ Others(Consumer) /\ call'[Consumer] = Idle
        BY <2>3, <3>1, SetCall
      <3> QED
        BY <2>1, <3>2
    <2> QED
      BY <2>1, <2>2, <2>3
  <1> QED
    BY <1>1, <1>2, <1>3, <1>4 DEF ConsumerStep

LEMMA ConsumerIds ==
    ASSUME CallShaped, RequestsOK, ConsumerStep
    PROVE  call'[Consumer].id = call[Consumer].id \/ call'[Consumer].id = 0
  <1> USE ServerAssumption
  <1>1. CASE FetchEvent
    BY <1>1, GotoIds DEF FetchEvent
  <1>2. CASE HandleEvent
    BY <1>2, GotoIds, WantIds DEF HandleEvent
  <1>3. CASE ConsumeGoesOn
    <2>1. call' = call \/ call' = [call EXCEPT ![Consumer] = Idle]
      BY <1>3 DEF ConsumeGoesOn
    <2>2. ASSUME call' = [call EXCEPT ![Consumer] = Idle] PROVE call'[Consumer] = Idle
      BY <2>2 DEF CallShaped
    <2>3. Idle.id = 0
      BY DEF Idle
    <2> QED
      BY <2>1, <2>2, <2>3
  <1> QED
    BY <1>1, <1>2, <1>3 DEF ConsumerStep

LEMMA OtherOnCourse ==
    ASSUME NEW d, OnCourse(d), call'[d] = call[d], req'[d] = req[d]
    PROVE  OnCourse(d)'
  BY DEF OnCourse, At, Sends, Fetching, Appending, DestOf, IsDirect

LEMMA ConsumerOnCourse ==
    ASSUME CallShaped, RequestsOK, OnCourse(Consumer), ConsumerStep
    PROVE  OnCourse(Consumer)'
  <1> USE ServerAssumption
  <1>1. CASE call'[Consumer].pc = "fetched"
    BY <1>1 DEF OnCourse, At, Sends, Fetching, Appending
  <1>2. CASE call'[Consumer].pc = "pair"
    BY <1>2 DEF OnCourse, At, Sends, Fetching, Appending
  <1>3. CASE /\ call'[Consumer].pc = "lookup" /\ req' = req
             /\ call'[Consumer].key = <<"info", Group>> /\ call'[Consumer].then = "authorize"
             /\ req[Consumer].op = "send" => req[Consumer].v = Group
    <2>1. req[Consumer].op \in {"none", "send"}
      BY DEF RequestsOK
    <2>2. (Sends(Consumer) => DestOf(req[Consumer]) = Group)'
      BY <1>3, <2>1 DEF Sends, DestOf, IsDirect
    <2> QED
      BY <1>3, <2>1, <2>2, GroupKeys DEF OnCourse, At, Fetching, Appending
  <1>4. CASE call' = call /\ req' = req
    BY <1>4, OtherOnCourse
  <1>5. CASE call'[Consumer] = Idle
    <2>1. Idle.pc = "idle"
      BY DEF Idle
    <2> QED
      BY <1>5, <2>1 DEF OnCourse, At, Sends, Fetching, Appending
  <1> QED
    BY <1>1, <1>2, <1>3, <1>4, <1>5, ConsumerMoves

LEMMA IdStep ==
    ASSUME NEW c \in Call, CallShaped, call[c].id \in Nat, MessagesOK,
           CallStep(c)
    PROVE  call'[c].id \in Nat
  <1>1. CASE Ends(c)
    BY <1>1, EndsFacts
  <1>2. CASE Goes(c)
    BY <1>2, GoesFacts
  <1>3. CASE InsertMessage(c)
    <2>1. call'[c].id = Len(log) + 1
      BY <1>3, StoredIds DEF InsertMessage
    <2>2. Len(log) \in Nat
      BY DEF MessagesOK
    <2> QED
      BY <2>1, <2>2
  <1> QED
    BY <1>1, <1>2, <1>3, StepOfCall

\* Beside its own request, a step of the server is a step of one call, an
\* expiry, or nothing to the services.
LEMMA MovesOfCalls ==
    ASSUME ServiceMove
    PROVE  \/ \E c \in Call : CallStep(c)
           \/ \E k \in Key : Expire(k)
           \/ ConsumerStep
           \/ UNCHANGED serviceVars
  BY ServerAssumption DEF ServiceMove, ServicesRest, ConsumerStep, CallStep

LEMMA CallsKept ==
    ASSUME RequestsOK, MessagesOK, CallShaped, CallsOnCourse, ServiceMove
    PROVE  CallShaped' /\ CallsOnCourse'
  <1>1. ASSUME NEW c \in Call, CallStep(c)
        PROVE  CallShaped' /\ CallsOnCourse'
    <2>1. CallShaped' /\ Others(c) /\ req' = req
      BY <1>1, OneCall, OneCallKeepsRequests
    <2>2. OnCourse(c)'
      BY <1>1, OnCourseStep DEF RequestsOK, CallsOnCourse
    <2>3. call'[c].id \in Nat
      <3>1. call[c].id \in Nat
        BY DEF CallsOnCourse
      <3> QED
        BY <1>1, <3>1, IdStep
    <2>4. \A d \in Call : d # c => OnCourse(d)' /\ call'[d].id \in Nat
      BY <2>1, OtherOnCourse DEF Others, CallsOnCourse
    <2> QED
      BY <2>1, <2>2, <2>3, <2>4 DEF CallsOnCourse
  <1>2. CASE call' = call /\ req' = req
    BY <1>2, OtherOnCourse DEF CallsOnCourse, CallShaped
  <1>3. CASE ConsumerStep
    <2>1. CallShaped' /\ Others(Consumer) /\ \A d \in Call : d # Consumer => req'[d] = req[d]
      BY <1>3, ConsumerMoves
    <2>2. Consumer \in Call /\ OnCourse(Consumer)
      BY ServerAssumption DEF CallsOnCourse
    <2>3. OnCourse(Consumer)'
      BY <1>3, <2>2, ConsumerOnCourse
    <2>4. call'[Consumer].id \in Nat
      BY <1>3, <2>2, ConsumerIds DEF CallsOnCourse
    <2>5. \A d \in Call : d # Consumer => OnCourse(d)' /\ call'[d].id \in Nat
      BY <2>1, OtherOnCourse DEF Others, CallsOnCourse
    <2> QED
      BY <2>1, <2>3, <2>4, <2>5 DEF CallsOnCourse
  <1> QED
    BY <1>1, <1>2, <1>3, MovesOfCalls DEF Expire, serviceVars

LEMMA StatusKept ==
    ASSUME RequestsOK, CallShaped, StatusDeclared, ServiceMove
    PROVE  StatusDeclared'
  <1> USE DEF StatusDeclared
  <1>1. ASSUME NEW c \in Call, CallStep(c)
        PROVE  StatusDeclared'
    <2>1. Others(c) /\ req' = req
      BY <1>1, OneCall, OneCallKeepsRequests
    <2>2. (call[c].pc = "ended" => call[c].status \in Declared(req[c]) \cup {401})'
      <3>1. CASE Ends(c)
        BY <2>1, <3>1, EndsFacts, StatusesAreDeclared
      <3>2. CASE Goes(c)
        BY <3>2, GoesFacts
      <3>3. CASE InsertMessage(c)
        BY <3>3, InsertMoves
      <3> QED
        BY <1>1, <3>1, <3>2, <3>3, StepOfCall
    <2> QED
      BY <2>1, <2>2 DEF Others
  <1>2. CASE call' = call /\ req' = req
    BY <1>2
  <1>3. CASE ConsumerStep
    <2>1. Others(Consumer) /\ \A d \in Call : d # Consumer => req'[d] = req[d]
      BY <1>3, ConsumerMoves
    <2>2. \A d \in Call : d # Consumer =>
             (call'[d].pc = "ended" => call'[d].status \in Declared(req'[d]) \cup {401})
      BY <2>1 DEF Others
    <2>3. call'[Consumer].pc # "ended" \/ (call' = call /\ req' = req)
      <3>1. Idle.pc = "idle"
        BY DEF Idle
      <3>2. \/ call'[Consumer].pc \in {"fetched", "pair", "lookup"}
            \/ call' = call /\ req' = req
            \/ call'[Consumer] = Idle
        BY <1>3, ConsumerMoves
      <3> QED
        BY <3>1, <3>2
    <2> QED
      BY <1>2, <2>2, <2>3
  <1> QED
    BY <1>1, <1>2, <1>3, MovesOfCalls DEF Expire, serviceVars

-----------------------------------------------------------------------------
(* the cache *)

\* The steps of a call that touch the cache, or what is known of it.
ChangesCache(c) ==
    AppendSkipped(c) \/ AppendSet(c) \/ Fill(c) \/ Delete(c) \/ DeleteFails(c)

LEMMA CacheSteps ==
    ASSUME NEW c, CallStep(c)
    PROVE  ChangesCache(c) \/ UNCHANGED <<cache, late>>
  BY DEF ChangesCache, history, CallStep, Work, AIWork, PublishEvent, Enqueue, EnqueueTool,
     Unauthorized,
         Malformed, Begin, RegisterCheck, Register, Login, LoginRefused, CreateGroup,
         JoinSnapshot, JoinGroup, LeaveGroup, ApproveGroupJoin, OpenCheck, OpenSession,
     FindSession, InsertMessage, AppendGet, Hit, Miss, Query, FillSkipped, StatementFails,
     BeginSetting, CountSessions, ReplaceAccess, AnswerSetting, BeginTool, CheckAccess,
     GetRecentMessages, SearchMessages, ListAllowedSessions

LEMMA CacheShapeKept ==
    ASSUME CacheShaped, ServiceMove
    PROVE  CacheShaped'
  <1> USE DEF CacheShaped
  <1>1. CASE cache' = cache
    BY <1>1
  <1>2. ASSUME NEW c, ChangesCache(c) PROVE CacheShaped'
    BY <1>2 DEF ChangesCache, AppendSkipped, AppendSet, Fill, Delete, DeleteFails
  <1>3. ASSUME NEW k \in Key, Expire(k) PROVE CacheShaped'
    BY <1>3 DEF Expire
  <1>4. CASE ConsumerStep
    BY <1>1, <1>4 DEF ConsumerStep, FetchEvent, HandleEvent, ConsumeGoesOn
  <1> QED
    BY <1>1, <1>2, <1>3, <1>4, CacheSteps, MovesOfCalls DEF serviceVars

\* Nothing but a list is appended to.
LEMMA AppendsToLists ==
    ASSUME NEW c, OnCourse(c), Appending(c)
    PROVE  call[c].key[1] = "list" /\ call[c].key # <<"info", Group>>
  <1>1. call[c].key = <<"list", DestOf(req[c])>>
    BY DEF OnCourse
  <1> QED
    BY <1>1

LEMMA MembersKept ==
    ASSUME RequestsOK, CacheShaped, CallsOnCourse, RecipientsOK, ServiceMove
    PROVE  (cache[<<"info", Group>>] \in {Nil} \cup SUBSET User)'
  <1> DEFINE i == <<"info", Group>>
  <1>0. i \in Key /\ cache[i] \in {Nil} \cup SUBSET User
    BY GroupKeys DEF RecipientsOK
  <1>1. CASE cache' = cache
    BY <1>0, <1>1
  <1>2. ASSUME NEW c \in Call, ChangesCache(c) PROVE cache'[i] \in {Nil} \cup SUBSET User
    <2>1. CASE AppendSkipped(c) \/ DeleteFails(c)
      BY <1>0, <2>1 DEF AppendSkipped, DeleteFails
    <2>2. CASE AppendSet(c)
      <3>1. call[c].key # i
        BY <2>2, AppendsToLists DEF AppendSet, Appending, CallsOnCourse
      <3> HIDE DEF i
      <3>2. \E v : cache' = [cache EXCEPT ![call[c].key] = v]
        BY <2>2 DEF AppendSet
      <3> QED
        BY <1>0, <3>1, <3>2 DEF CacheShaped
    <2>3. CASE Fill(c)
      <3>1. call[c].key = i => call[c].val \subseteq User
        BY <2>3 DEF Fill, RecipientsOK
      <3>2. cache' = [cache EXCEPT ![call[c].key] = call[c].val]
        BY <2>3 DEF Fill
      <3> HIDE DEF i
      <3> QED
        BY <1>0, <3>1, <3>2 DEF CacheShaped
    <2>4. CASE Delete(c)
      <3> HIDE DEF i
      <3> QED
        BY <1>0, <2>4 DEF Delete
    <2> QED
      BY <1>2, <2>1, <2>2, <2>3, <2>4 DEF ChangesCache
  <1>3. ASSUME NEW k \in Key, Expire(k) PROVE cache'[i] \in {Nil} \cup SUBSET User
    <2> HIDE DEF i
    <2> QED
      BY <1>0, <1>3 DEF Expire, CacheShaped
  <1>4. CASE ConsumerStep
    BY <1>1, <1>4 DEF ConsumerStep, FetchEvent, HandleEvent, ConsumeGoesOn
  <1> QED
    BY <1>1, <1>2, <1>3, <1>4, CacheSteps, MovesOfCalls DEF serviceVars

\* A call carries the users its message goes to.
Addressed(c) ==
    call[c].pc = "enqueue" \/ (call[c].pc = "fill" /\ call[c].key = <<"info", Group>>) =>
      call[c].val \subseteq User

LEMMA ReceiverIsUsers ==
    ASSUME NEW c \in Call, OnCourse(c), IsRequest(req[c]), Sends(c), call[c].pc = "delete"
    PROVE  Receiver(req[c]) \subseteq User
  <1>1. CASE req[c].op = "send"
    <2>1. req[c].v \in User
      BY <1>1 DEF OnCourse, At, IsRequest
    <2> QED
      BY <1>1, <2>1 DEF Receiver
  <1>2. CASE req[c].op # "send"
    <2>1. req[c].v \in Pairs \cup {Group}
      BY <1>2 DEF OnCourse, DestOf, IsDirect, Dest
    <2> QED
      BY <1>2, <2>1 DEF Receiver, Pairs
  <1> QED
    BY <1>1, <1>2

LEMMA AddressedStep ==
    ASSUME NEW c \in Call, CallShaped, GroupOK, OnCourse(c), IsRequest(req[c]),
           cache[<<"info", Group>>] \in {Nil} \cup SUBSET User, Addressed(c),
           CallStep(c)
    PROVE  Addressed(c)'
  <1> USE DEF Addressed
  <1>1. CASE Unauthorized(c) \/ Malformed(c) \/ Register(c) \/ Login(c) \/ LoginRefused(c)
             \/ StatementFails(c) \/ PublishEvent(c) \/ Enqueue(c)
    BY <1>1, EndMoves
  <1>2. CASE AnswerSetting(c) \/ GetRecentMessages(c) \/ SearchMessages(c)
             \/ ListAllowedSessions(c)
    BY <1>2, ResultMoves
  <1>3. CASE Begin(c)
    BY <1>3, BeginMoves
  <1>4. CASE RegisterCheck(c) \/ CreateGroup(c) \/ JoinSnapshot(c) \/ JoinGroup(c)
             \/ LeaveGroup(c) \/ ApproveGroupJoin(c) \/ OpenSession(c)
    BY <1>4, CheckMoves
  <1>5. CASE OpenCheck(c)
    BY <1>5, OpenMoves
  <1>6. CASE FindSession(c)
    BY <1>6, FindMoves
  <1>7. CASE InsertMessage(c)
    BY <1>7, InsertMoves DEF Key, DestOf
  <1>8. CASE AppendGet(c) \/ AppendSkipped(c) \/ AppendSet(c)
    BY <1>8, AppendMoves, GroupKeys DEF DestOf
  <1>9. CASE Hit(c) \/ Fill(c) \/ FillSkipped(c)
    <2>1. CASE call'[c].pc # "enqueue"
      BY <1>9, <2>1, ContinueMoves DEF Continued
    <2>2. CASE call'[c].pc = "enqueue"
      <3>1. /\ call[c].pc \in {"lookup", "fill"}
            /\ call[c].then \notin {"answer", "member", "member again", "authorize"}
            /\ \/ cache[call[c].key] # Nil /\ call'[c].val = cache[call[c].key]
               \/ call[c].pc = "fill" /\ call'[c].val = call[c].val
        BY <1>9, <2>2, ContinueMoves DEF Continued
      <3>2. call[c].key = <<"info", Group>>
        BY <3>1 DEF OnCourse, Fetching
      <3> QED
        BY <2>2, <3>1, <3>2
    <2> QED
      BY <2>1, <2>2
  <1>10. CASE Miss(c) \/ Query(c)
    <2>1. CASE call'[c].pc # "fill"
      BY <1>10, <2>1, QueryMoves
    <2>2. CASE call'[c].pc = "fill"
      <3>1. call'[c].key = call[c].key /\ call'[c].val = View(call[c].key) /\ call'[c].val # Nil
        BY <1>10, <2>2, QueryMoves
      <3>2. call[c].key = <<"info", Group>> => View(call[c].key) = GroupResponse
        BY DEF View
      <3>3. GroupResponse # Nil => GroupResponse \subseteq User
        BY DEF GroupResponse, GroupOK, GroupRow
      <3> QED
        BY <2>2, <3>1, <3>2, <3>3
    <2> QED
      BY <2>1, <2>2
  <1>11. CASE Delete(c) \/ DeleteFails(c)
    BY <1>11, DeleteMoves, ReceiverIsUsers
  <1>12. CASE BeginSetting(c) \/ CountSessions(c) \/ ReplaceAccess(c)
    BY <1>12, SettingMoves DEF AISettings
  <1>13. CASE BeginTool(c)
    BY <1>13, ToolMoves
  <1>14. CASE CheckAccess(c)
    BY <1>14, AccessMoves
  <1>15. CASE EnqueueTool(c)
    <2>1. req[c].u \in User
      BY DEF IsRequest
    <2> QED
      BY <1>15, <2>1, RouteMoves
  <1> QED
    BY <1>1, <1>2, <1>3, <1>4, <1>5, <1>6, <1>7, <1>8, <1>9, <1>10, <1>11, <1>12, <1>13, <1>14,
       <1>15 DEF CallStep, Work, AIWork

LEMMA RecipientsKept ==
    ASSUME RequestsOK, GroupOK, CallShaped, CacheShaped, CallsOnCourse, RecipientsOK,
           ServiceMove
    PROVE  RecipientsOK'
  <1>0. (cache[<<"info", Group>>] \in {Nil} \cup SUBSET User)'
    BY MembersKept
  <1> SUFFICES \A d \in Call : Addressed(d)'
    BY <1>0 DEF RecipientsOK, Addressed
  <1>1. \A d \in Call : Addressed(d)
    BY DEF RecipientsOK, Addressed
  <1>2. ASSUME NEW d \in Call, call'[d] = call[d] PROVE Addressed(d)'
    BY <1>1, <1>2 DEF Addressed
  <1>3. ASSUME NEW c \in Call, CallStep(c)
        PROVE  Addressed(c)' /\ Others(c)
    BY <1>1, <1>3, AddressedStep, OneCall DEF CallsOnCourse, RequestsOK, RecipientsOK
  <1>4. CASE ConsumerStep
    <2>1. \/ call'[Consumer].pc \in {"fetched", "pair", "lookup"}
          \/ call'[Consumer] = call[Consumer]
          \/ call'[Consumer] = Idle
      BY <1>4, ConsumerMoves
    <2>2. Idle.pc = "idle"
      BY DEF Idle
    <2>3. Addressed(Consumer)'
      BY <1>2, <2>1, <2>2, ServerAssumption DEF Addressed
    <2> QED
      BY <1>2, <1>4, <2>3, ConsumerMoves DEF Others
  <1>5. CASE call' = call
    BY <1>2, <1>5
  <1> QED
    BY <1>2, <1>3, <1>4, <1>5, MovesOfCalls DEF Others, Expire, serviceVars

-----------------------------------------------------------------------------
(* the assistant *)

\* The steps of a call that a tool which reads can take.
ReaderStep(c) ==
    \/ call'[c].pc = "ended" /\ call'[c].val = Nil
    \/ BeginTool(c) \/ CheckAccess(c)
    \/ GetRecentMessages(c) \/ SearchMessages(c) \/ ListAllowedSessions(c)

LEMMA ReaderMoves ==
    ASSUME NEW c \in Call, CallShaped, OnCourse(c), ToolOnCourse(c), req[c].op \in Readers,
           CallStep(c)
    PROVE  ReaderStep(c)
  <1>0. /\ call[c].pc \in {"idle", "access", "page", "ended"}
        /\ req[c].op \in {"listSessions", "getRecentMessages", "searchMessages"}
    BY DEF ToolOnCourse, Readers
  <1> USE <1>0 DEF ReaderStep
  <1>1. CASE Unauthorized(c) \/ Malformed(c) \/ Register(c) \/ Login(c) \/ LoginRefused(c)
             \/ StatementFails(c) \/ PublishEvent(c) \/ Enqueue(c)
    BY <1>1, EndMoves
  <1>2. CASE AnswerSetting(c) \/ GetRecentMessages(c) \/ SearchMessages(c)
             \/ ListAllowedSessions(c)
    BY <1>2 DEF AnswerSetting
  <1>3. CASE Begin(c)
    BY <1>3, BeginMoves DEF AITools
  <1>4. CASE RegisterCheck(c) \/ CreateGroup(c) \/ JoinSnapshot(c) \/ JoinGroup(c)
             \/ LeaveGroup(c) \/ ApproveGroupJoin(c) \/ OpenSession(c)
    BY <1>4, CheckMoves
  <1>5. CASE OpenCheck(c)
    BY <1>5, OpenMoves
  <1>6. CASE FindSession(c)
    BY <1>6, FindMoves DEF Sends
  <1>7. CASE InsertMessage(c)
    BY <1>7, InsertMoves DEF Sends
  <1>8. CASE AppendGet(c) \/ AppendSkipped(c) \/ AppendSet(c)
    BY <1>8, AppendMoves DEF Appending
  <1>9. CASE Hit(c) \/ Fill(c) \/ FillSkipped(c)
    BY <1>9, ContinueMoves
  <1>10. CASE Miss(c) \/ Query(c)
    BY <1>10, QueryMoves DEF Fetching
  <1>11. CASE Delete(c) \/ DeleteFails(c)
    BY <1>11, DeleteMoves
  <1>12. CASE BeginSetting(c) \/ CountSessions(c) \/ ReplaceAccess(c)
    BY <1>12, SettingMoves DEF AISettings
  <1>13. CASE BeginTool(c)
    BY <1>13
  <1>14. CASE CheckAccess(c)
    BY <1>14
  <1>15. CASE EnqueueTool(c)
    BY <1>15, RouteMoves
  <1> QED
    BY <1>1, <1>2, <1>3, <1>4, <1>5, <1>6, <1>7, <1>8, <1>9, <1>10, <1>11, <1>12, <1>13, <1>14,
       <1>15 DEF CallStep, Work, AIWork

\* Where the tool that sends goes.
SenderStep(c) ==
    \/ call'[c].pc = "ended"
    \/ call[c].pc = "idle" /\ call'[c].pc = "access" /\ BeginTool(c)
    \/ call[c].pc = "access" /\ call'[c].pc = "pair" /\ req[c].v \in Allowed(req[c].u)
    \/ call[c].pc = "pair" /\ call'[c].pc = "insert"
    \/ /\ call[c].pc = "insert"
       /\ call'[c].pc = "delete" \/ (call'[c].pc = "appendGet" /\ req[c].v # Group)
    \/ Appending(c) /\ call'[c].pc \in {"appendSet", "delete"}
    \/ call[c].pc \in {"delete", "enqueue"} /\ call'[c].pc = "enqueue"

LEMMA SenderMoves ==
    ASSUME NEW c \in Call, CallShaped, OnCourse(c), ToolOnCourse(c),
           req[c].op = "sendAIMessage",
           CallStep(c)
    PROVE  SenderStep(c)
  <1>0. ~Fetching(c) /\ (Appending(c) => req[c].v # Group)
    BY DEF ToolOnCourse
  <1> USE <1>0 DEF SenderStep
  <1>1. CASE Unauthorized(c) \/ Malformed(c) \/ Register(c) \/ Login(c) \/ LoginRefused(c)
             \/ StatementFails(c) \/ PublishEvent(c) \/ Enqueue(c)
    BY <1>1, EndMoves
  <1>2. CASE AnswerSetting(c) \/ GetRecentMessages(c) \/ SearchMessages(c)
             \/ ListAllowedSessions(c)
    BY <1>2, ResultMoves
  <1>3. CASE Begin(c)
    BY <1>3, BeginMoves DEF AITools
  <1>4. CASE RegisterCheck(c) \/ CreateGroup(c) \/ JoinSnapshot(c) \/ JoinGroup(c)
             \/ LeaveGroup(c) \/ ApproveGroupJoin(c) \/ OpenSession(c)
    BY <1>4, CheckMoves
  <1>5. CASE OpenCheck(c)
    BY <1>5, OpenMoves
  <1>6. CASE FindSession(c)
    BY <1>6, FindMoves
  <1>7. CASE InsertMessage(c)
    BY <1>7, InsertMoves DEF Key, DestOf
  <1>8. CASE AppendGet(c) \/ AppendSkipped(c) \/ AppendSet(c)
    BY <1>8, AppendMoves DEF DestOf, IsDirect
  <1>9. CASE Hit(c) \/ Fill(c) \/ FillSkipped(c)
    BY <1>9, ContinueMoves DEF Fetching
  <1>10. CASE Miss(c) \/ Query(c)
    BY <1>10, QueryMoves
  <1>11. CASE Delete(c) \/ DeleteFails(c)
    BY <1>11, DeleteMoves
  <1>12. CASE BeginSetting(c) \/ CountSessions(c) \/ ReplaceAccess(c)
    BY <1>12, SettingMoves DEF AISettings
  <1>13. CASE BeginTool(c)
    BY <1>13, ToolMoves
  <1>14. CASE CheckAccess(c)
    BY <1>14, AccessMoves DEF SessionOf
  <1>15. CASE EnqueueTool(c)
    BY <1>15, RouteMoves
  <1> QED
    BY <1>1, <1>2, <1>3, <1>4, <1>5, <1>6, <1>7, <1>8, <1>9, <1>10, <1>11, <1>12, <1>13, <1>14,
       <1>15 DEF CallStep, Work, AIWork

LEMMA EntitledSteps ==
    ASSUME NEW c, CallStep(c)
    PROVE  ReplaceAccess(c) \/ BeginTool(c) \/ UNCHANGED entitled
  BY DEF history, CallStep, Work, AIWork, PublishEvent, Enqueue, EnqueueTool, Unauthorized,
     Malformed,
         Begin, RegisterCheck, Register, Login, LoginRefused, CreateGroup, JoinSnapshot,
         JoinGroup, LeaveGroup, ApproveGroupJoin, OpenCheck, OpenSession, FindSession,
     InsertMessage, AppendGet, AppendSkipped, AppendSet, Hit, Miss, Query, Fill, FillSkipped,
     Delete, DeleteFails, StatementFails, BeginSetting, CountSessions, AnswerSetting,
     CheckAccess, GetRecentMessages, SearchMessages, ListAllowedSessions

LEMMA EntitledGrows ==
    ASSUME ServiceMove
    PROVE  entitled \subseteq entitled'
  <1>1. ASSUME NEW c, ReplaceAccess(c) \/ BeginTool(c) PROVE entitled \subseteq entitled'
    BY <1>1 DEF ReplaceAccess, BeginTool
  <1>2. CASE ConsumerStep
    BY <1>2 DEF ConsumerStep, FetchEvent, HandleEvent, ConsumeGoesOn, history
  <1> QED
    BY <1>1, <1>2, EntitledSteps, MovesOfCalls DEF Expire, serviceVars, history

LEMMA OwnIsDest ==
    ASSUME MessagesOK, NEW u
    PROVE  OwnSessions(u) \subseteq Dest
  BY DEF OwnSessions, MessagesOK, Dest

LEMMA EntitledTyped ==
    ASSUME MessagesOK, entitled \subseteq Call \X Dest, ServiceMove
    PROVE  (entitled \subseteq Call \X Dest)'
  <1>1. ASSUME NEW c \in Call, ReplaceAccess(c) PROVE entitled' \subseteq Call \X Dest
    <2>1. \E S \in SUBSET Call, T \in SUBSET OwnSessions(req[c].u) :
            entitled' = entitled \/ entitled' = entitled \cup (S \X T)
      <3> DEFINE A == Range(req[c].v)
                 kept == {d \in A : <<req[c].u, d>> \in access}
                 existing == IF A = {} THEN {} ELSE call[c].val
                 allowed  == (kept \cup (A \ existing)) \cap OwnSessions(req[c].u)
                 B == {b \in Call : /\ req[b].op \in AITools /\ req[b].u = req[c].u
                                    /\ call[b].pc \notin {"idle", "ended"}}
      <3>1. entitled' = entitled \/ entitled' = entitled \cup (B \X allowed)
        BY <1>1 DEF ReplaceAccess
      <3>2. B \subseteq Call /\ allowed \subseteq OwnSessions(req[c].u)
        OBVIOUS
      <3> HIDE DEF B, allowed
      <3> QED
        BY <3>1, <3>2
    <2> QED
      BY <2>1, OwnIsDest
  <1>2. ASSUME NEW c \in Call, BeginTool(c) PROVE entitled' \subseteq Call \X Dest
    <2>1. entitled' = entitled \cup ({c} \X Allowed(req[c].u)) /\ Allowed(req[c].u) \subseteq Dest
      BY <1>2, OwnIsDest DEF BeginTool, Allowed
    <2> QED
      BY <2>1
  <1>3. CASE ConsumerStep
    BY <1>3 DEF ConsumerStep, FetchEvent, HandleEvent, ConsumeGoesOn, history
  <1> QED
    BY <1>1, <1>2, <1>3, EntitledSteps, MovesOfCalls DEF Expire, serviceVars, history

\* An allowed session is a row of access, and rows are only added by a setting.
LEMMA AllowedIs ==
    ASSUME AccessOK, MessagesOK, NEW u \in User
    PROVE  Allowed(u) = {d \in Dest : <<u, d>> \in access}
  BY OwnIsDest DEF AccessOK, Allowed

LEMMA AccessSteps ==
    ASSUME ServiceMove
    PROVE  access' \subseteq access \/ \E c \in Call : ReplaceAccess(c)
  <1>1. CASE UNCHANGED rows
    BY <1>1 DEF rows
  <1>2. ASSUME NEW c \in Call, ChangesRows(c), ~ReplaceAccess(c) PROVE access' \subseteq access
    BY <1>2 DEF ChangesRows, ChangesMembers, CreateGroup, JoinGroup, LeaveGroup,
       ApproveGroupJoin, Register, Login, OpenSession, InsertMessage
  <1> QED
    BY <1>1, <1>2, RowSteps

LEMMA AllowedGrows ==
    ASSUME AccessOK, MessagesOK, (access \subseteq User \X Dest)', ServiceMove,
           NEW u \in User, NEW d, (d \in Allowed(u))', d \notin Allowed(u)
    PROVE  \E c \in Call :
             /\ ReplaceAccess(c)
             /\ \A b \in Call :
                  req[b].op \in AITools /\ req[b].u = u /\ call[b].pc \notin {"idle", "ended"} =>
                    <<b, d>> \in entitled'
  <1>1. <<u, d>> \in access' /\ d \in Dest
    BY DEF Allowed
  <1>2. <<u, d>> \notin access
    BY <1>1, AllowedIs
  <1>3. PICK c \in Call : ReplaceAccess(c)
    BY <1>1, <1>2, AccessSteps
  <1> DEFINE A == Range(req[c].v)
             kept == {x \in A : <<req[c].u, x>> \in access}
             existing == IF A = {} THEN {} ELSE call[c].val
             allowed  == (kept \cup (A \ existing)) \cap OwnSessions(req[c].u)
             B == {b \in Call : /\ req[b].op \in AITools /\ req[b].u = req[c].u
                                /\ call[b].pc \notin {"idle", "ended"}}
  <1>4. \/ access' = access
        \/ /\ access' = {a \in access : a[1] # req[c].u} \cup ({req[c].u} \X allowed)
           /\ entitled' = entitled \cup (B \X allowed)
    BY <1>3 DEF ReplaceAccess
  <1> HIDE DEF allowed
  <1>5. entitled' = entitled \cup (B \X allowed) /\ u = req[c].u /\ d \in allowed
    BY <1>1, <1>2, <1>4
  <1>6. \A b \in Call :
          req[b].op \in AITools /\ req[b].u = u /\ call[b].pc \notin {"idle", "ended"} => b \in B
    BY <1>5
  <1> HIDE DEF B
  <1> QED
    BY <1>3, <1>5, <1>6

\* Between its beginning and its end, a tool stays entitled to what is allowed.
LEMMA StaysEntitled ==
    ASSUME AccessOK, MessagesOK, (access \subseteq User \X Dest)', ServiceMove,
           NEW b \in Call, IsRequest(req[b]), req'[b] = req[b], req[b].op \in AITools,
           call[b].pc \notin {"idle", "ended"},
           \A d \in Allowed(req[b].u) : <<b, d>> \in entitled
    PROVE  (\A d \in Allowed(req[b].u) : <<b, d>> \in entitled)'
  <1>1. req[b].u \in User
    BY DEF IsRequest
  <1> SUFFICES ASSUME NEW d, (d \in Allowed(req[b].u))' PROVE <<b, d>> \in entitled'
    OBVIOUS
  <1>2. CASE d \in Allowed(req[b].u)
    BY <1>2, EntitledGrows
  <1>3. CASE d \notin Allowed(req[b].u)
    <2>1. PICK u : u = req[b].u
      OBVIOUS
    <2>2. (d \in Allowed(u))'
      BY <2>1 DEF Allowed, OwnSessions
    <2>3. u \in User /\ d \notin Allowed(u)
      BY <1>1, <1>3, <2>1
    <2> QED
      BY <2>1, <2>2, <2>3, AllowedGrows
  <1> QED
    BY <1>2, <1>3

LEMMA OtherTool ==
    ASSUME AccessOK, MessagesOK, (access \subseteq User \X Dest)', ServiceMove,
           NEW b \in Call, IsRequest(req[b]), ToolOnCourse(b), call'[b] = call[b], req'[b] = req[b]
    PROVE  ToolOnCourse(b)'
  <1>1. entitled \subseteq entitled'
    BY EntitledGrows
  <1>2. (req[b].op \in AITools /\ call[b].pc \notin {"idle", "ended"} =>
           \A d \in Allowed(req[b].u) : <<b, d>> \in entitled)'
    BY StaysEntitled DEF ToolOnCourse
  <1> HIDE DEF ToolOnCourse
  <1> QED
    BY <1>1, <1>2 DEF ToolOnCourse, Fetching, Appending, At

LEMMA ToolStep ==
    ASSUME AccessOK, MessagesOK, (access \subseteq User \X Dest)', ServiceMove, CallShaped,
           NEW c \in Call, IsRequest(req[c]), OnCourse(c), ToolOnCourse(c),
           req[c].op \in AITools,
           CallStep(c)
    PROVE  ToolOnCourse(c)'
  <1>0. req' = req
    BY OneCallKeepsRequests
  <1>1. entitled \subseteq entitled'
    BY EntitledGrows
  <1>2. ASSUME BeginTool(c) PROVE (\A d \in Allowed(req[c].u) : <<c, d>> \in entitled)'
    <2>1. entitled' = entitled \cup ({c} \X Allowed(req[c].u))
      BY <1>2 DEF BeginTool
    <2>2. (Allowed(req[c].u))' = Allowed(req[c].u)
      BY <1>0, <1>2 DEF BeginTool, rows, Allowed, OwnSessions
    <2> QED
      BY <2>1, <2>2
  <1>3. CASE req[c].op \in Readers
    <2>1. ReaderStep(c)
      BY <1>3, ReaderMoves
    <2>2. CASE call'[c].pc = "ended"
      BY <1>0, <1>3, <2>2 DEF ToolOnCourse, Readers, At
    <2>3. CASE call'[c].pc # "ended" /\ BeginTool(c)
      <3>1. /\ call[c] = Idle /\ call'[c].val = call[c].val /\ call'[c].pc \in {"access", "page"}
            /\ call'[c].pc = "page" => \/ req[c].op = "listSessions"
                                       \/ req[c].op = "searchMessages" /\ req[c].v.session = Nil
        BY <2>3, ToolMoves DEF OnCourse
      <3>2. Idle.val = Nil
        BY DEF Idle
      <3> QED
        BY <1>0, <1>2, <1>3, <2>3, <3>1, <3>2 DEF ToolOnCourse, Readers, At
    <2>4. CASE call'[c].pc # "ended" /\ CheckAccess(c)
      <3>1. /\ call[c].pc = "access" /\ call'[c].pc \in {"page", "pair"} /\ call'[c].val = call[c].val
            /\ SessionOf(req[c]) \in Allowed(req[c].u)
            /\ call'[c].pc = "pair" => req[c].op = "sendAIMessage"
        BY <2>4, AccessMoves
      <3>2. /\ call'[c].pc = "page" /\ call'[c].val = Nil
            /\ <<c, SessionOf(req[c])>> \in entitled'
        BY <1>1, <1>3, <3>1 DEF ToolOnCourse, Readers
      <3>3. SessionOf(req[c]) = req[c].v.session
        BY <1>3 DEF SessionOf, Readers
      <3>4. (\A d \in Allowed(req[c].u) : <<c, d>> \in entitled)'
        BY <1>0, <3>1, StaysEntitled DEF ToolOnCourse
      <3> QED
        BY <1>0, <1>3, <3>2, <3>3, <3>4 DEF ToolOnCourse, Readers, At
    <2>5. CASE GetRecentMessages(c) \/ SearchMessages(c) \/ ListAllowedSessions(c)
      BY <2>2, <2>5, ResultMoves
    <2> QED
      BY <2>1, <2>2, <2>3, <2>4, <2>5 DEF ReaderStep
  <1>4. CASE req[c].op = "sendAIMessage"
    <2>1. SenderStep(c)
      BY <1>4, SenderMoves
    <2>2. CASE call'[c].pc = "ended"
      BY <1>0, <1>4, <2>2 DEF ToolOnCourse, Readers, At, Fetching, Appending
    <2>3. CASE call[c].pc = "idle" /\ call'[c].pc = "access" /\ BeginTool(c)
      BY <1>0, <1>2, <1>4, <2>3 DEF ToolOnCourse, Readers, At, Fetching, Appending
    <2>4. CASE call[c].pc \notin {"idle", "ended"} /\ call'[c].pc # "ended"
      <3>1. (\A d \in Allowed(req[c].u) : <<c, d>> \in entitled)'
        BY <1>0, <2>4, StaysEntitled DEF ToolOnCourse
      <3>2. call'[c].pc \in {"pair", "insert"} => <<c, req[c].v>> \in entitled'
        BY <1>1, <1>4, <2>1, <2>4 DEF SenderStep, ToolOnCourse, Appending
      <3>3. (~Fetching(c) /\ call[c].pc # "fetched" /\ (Appending(c) => req[c].v # Group))'
        BY <1>0, <1>4, <2>1, <2>4 DEF SenderStep, ToolOnCourse, Appending, Fetching
      <3> QED
        BY <1>0, <1>4, <3>1, <3>2, <3>3 DEF ToolOnCourse, Readers, At
    <2> QED
      BY <2>1, <2>2, <2>3, <2>4 DEF SenderStep, Appending
  <1> QED
    BY <1>3, <1>4 DEF AITools, Readers

LEMMA NoToolNext ==
    ASSUME NEW c, req'[c].op \notin AITools
    PROVE  ToolOnCourse(c)'
  BY DEF ToolOnCourse, AITools, Readers, At

LEMMA ToolsKept ==
    ASSUME RequestsOK, RequestsOK', AccessOK, AccessOK', MessagesOK, CallShaped, CallsOnCourse,
           ToolsOnCourse, ServiceMove
    PROVE  ToolsOnCourse'
  <1>0. (entitled \subseteq Call \X Dest)'
    BY EntitledTyped DEF ToolsOnCourse
  <1>1. (access \subseteq User \X Dest)'
    BY DEF AccessOK
  <1> SUFFICES \A d \in Call : ToolOnCourse(d)'
    BY <1>0 DEF ToolsOnCourse
  <1>2. \A d \in Call : ToolOnCourse(d) /\ IsRequest(req[d]) /\ OnCourse(d)
    BY DEF ToolsOnCourse, RequestsOK, CallsOnCourse
  <1>3. ASSUME NEW d \in Call, call'[d] = call[d], req'[d] = req[d] PROVE ToolOnCourse(d)'
    BY <1>1, <1>2, <1>3, OtherTool
  <1>4. ASSUME NEW c \in Call, CallStep(c)
        PROVE  ToolOnCourse(c)' /\ Others(c) /\ req' = req
    <2>1. Others(c) /\ req' = req
      BY <1>4, OneCall, OneCallKeepsRequests
    <2>2. CASE req[c].op \in AITools
      BY <1>1, <1>2, <1>4, <2>1, <2>2, ToolStep
    <2>3. CASE req[c].op \notin AITools
      BY <2>1, <2>3, NoToolNext
    <2> QED
      BY <2>1, <2>2, <2>3
  <1>5. CASE ConsumerStep
    <2>1. req'[Consumer].op \notin AITools
      BY DEF RequestsOK, AITools
    <2> QED
      BY <1>3, <1>5, <2>1, NoToolNext, ConsumerMoves DEF Others
  <1>6. CASE call' = call /\ req' = req
    BY <1>3, <1>6
  <1> QED
    BY <1>3, <1>4, <1>5, <1>6, MovesOfCalls DEF Others, Expire, serviceVars

LEMMA LogSteps ==
    ASSUME ServiceMove
    PROVE  log' = log \/ \E c \in Call : InsertMessage(c)
  <1>1. CASE UNCHANGED rows
    BY <1>1 DEF rows
  <1>2. ASSUME NEW c \in Call, ChangesRows(c), ~InsertMessage(c) PROVE log' = log
    BY <1>2 DEF ChangesRows, ChangesMembers, CreateGroup, JoinGroup, LeaveGroup,
       ApproveGroupJoin, Register, Login, OpenSession, ReplaceAccess
  <1> QED
    BY <1>1, <1>2, RowSteps

\* Messages are stored, and stay.
LEMMA LogGrows ==
    ASSUME MessagesOK, ServiceMove
    PROVE  \A i \in 1..Len(log) : i \in 1..Len(log') /\ log'[i] = log[i]
  <1>1. ASSUME NEW c \in Call, InsertMessage(c)
        PROVE  \A i \in 1..Len(log) : i \in 1..Len(log') /\ log'[i] = log[i]
    <2>1. PICK m : log' = Append(log, m)
      BY <1>1 DEF InsertMessage
    <2> QED
      BY <2>1 DEF MessagesOK
  <1> QED
    BY <1>1, LogSteps

LEMMA SessionRowsGrow ==
    ASSUME MessagesOK, ServiceMove, NEW u, NEW d, NEW i \in SessionRows(u, d)
    PROVE  (i \in SessionRows(u, d))'
  <1>1. i \in 1..Len(log) /\ log[i].to = d /\ (d = Group => log[i].ai /\ log[i].from = u)
    BY DEF SessionRows, RowsTo
  <1>2. i \in 1..Len(log') /\ log'[i] = log[i]
    BY <1>1, LogGrows
  <1> QED
    BY <1>1, <1>2 DEF SessionRows, RowsTo

\* What a call touched it was entitled to.
Rightful(c) ==
    \A i \in Touched(c) :
      \E d \in Dest : <<c, d>> \in entitled /\ i \in SessionRows(req[c].u, d)

LEMMA StaysRightful ==
    ASSUME MessagesOK, ServiceMove, NEW c, Rightful(c), req'[c] = req[c],
           (Touched(c))' \subseteq Touched(c)
    PROVE  Rightful(c)'
  <1> SUFFICES ASSUME NEW i \in Touched(c)
               PROVE  \E d \in Dest : (<<c, d>> \in entitled /\ i \in SessionRows(req[c].u, d))'
    BY DEF Rightful
  <1>1. PICK d \in Dest : <<c, d>> \in entitled /\ i \in SessionRows(req[c].u, d)
    BY DEF Rightful
  <1>2. <<c, d>> \in entitled'
    BY <1>1, EntitledGrows
  <1>3. PICK u : u = req[c].u
    OBVIOUS
  <1>4. (i \in SessionRows(u, d))'
    BY <1>1, <1>3, SessionRowsGrow
  <1>5. req'[c].u = u
    BY <1>3
  <1>6. (SessionRows(req[c].u, d))' = (SessionRows(u, d))'
    BY <1>5 DEF SessionRows
  <1> QED
    BY <1>2, <1>3, <1>4, <1>6

LEMMA NewestOf ==
    ASSUME NEW S, NEW n
    PROVE  Newest(S, n) \subseteq S
  BY DEF Newest

LEMMA ReadsAreRightful ==
    ASSUME MessagesOK, ServiceMove, CallShaped, NEW c \in Call, entitled \subseteq Call \X Dest,
           ToolOnCourse(c), Rightful(c), req' = req,
           req[c].op \in {"getRecentMessages", "searchMessages"}, ReaderStep(c), OnCourse(c),
           ToolOnCourse(c)'
    PROVE  Rightful(c)'
  <1>1. CASE call'[c].val = Nil
    BY <1>1 DEF Rightful, Touched
  <1>2. CASE call'[c].val # Nil /\ GetRecentMessages(c)
    <2> DEFINE all == SessionRows(req[c].u, req[c].v.session)
               older == IF req[c].v.before = 0 THEN all ELSE {i \in all : i < req[c].v.before}
               n == NormalizeLimit(req[c].v.limit)
               h == Cardinality(older) > n
    <2>1. /\ At(c, "getRecentMessages", "page")
          /\ Answer(c, "ErrMessageNotFound") \/ Result(c, [messages |-> Newest(older, n), hasMore |-> h])
      BY <1>2 DEF GetRecentMessages
    <2>2. older \subseteq all
      OBVIOUS
    <2>3. <<c, req[c].v.session>> \in entitled
      BY <2>1 DEF ToolOnCourse
    <2>4. UNCHANGED <<log, entitled>>
      BY <1>2 DEF GetRecentMessages, rows, history
    <2> HIDE DEF older, n, h
    <2>5. call'[c].val = [messages |-> Newest(older, n), hasMore |-> h]
      BY <1>2, <2>1, EndFacts, ResultFacts DEF Answer
    <2>6. (Touched(c))' \subseteq all
      BY <2>2, <2>5, NewestOf DEF Touched
    <2> QED
      BY <2>3, <2>4, <2>6 DEF Rightful, SessionRows, RowsTo
  <1>3. CASE call'[c].val # Nil /\ SearchMessages(c)
    <2> DEFINE in == IF req[c].v.session = Nil THEN Allowed(req[c].u) ELSE {req[c].v.session}
               hits == UNION {SessionRows(req[c].u, d) : d \in in}
               n == NormalizeLimit(req[c].v.limit)
    <2>1. /\ At(c, "searchMessages", "page")
          /\ Result(c, [messages |-> Newest(hits, n), hasMore |-> FALSE])
      BY <1>3 DEF SearchMessages
    <2>2. \A d \in in : <<c, d>> \in entitled
      BY <2>1 DEF ToolOnCourse, At, AITools
    <2>3. \A i \in hits : \E d \in in : i \in SessionRows(req[c].u, d)
      OBVIOUS
    <2>4. UNCHANGED <<log, entitled>>
      BY <1>3 DEF SearchMessages, rows, history
    <2> HIDE DEF in, hits, n
    <2>5. call'[c].val = [messages |-> Newest(hits, n), hasMore |-> FALSE]
      BY <2>1, ResultFacts
    <2>6. (Touched(c))' \subseteq hits
      BY <2>5, NewestOf DEF Touched
    <2>7. \A i \in (Touched(c))' :
            \E d \in Dest : <<c, d>> \in entitled /\ i \in SessionRows(req[c].u, d)
      BY <2>2, <2>3, <2>6
    <2> QED
      BY <2>4, <2>7 DEF Rightful, SessionRows, RowsTo
  <1>4. CASE BeginTool(c) \/ CheckAccess(c)
    <2>1. call'[c].pc = "ended" => call'[c].val = Nil
      BY <1>4, ToolMoves, AccessMoves
    <2>2. call'[c].pc # "ended" => call'[c].val = Nil
      BY DEF ToolOnCourse, Readers
    <2> QED
      BY <1>1, <2>1, <2>2
  <1>5. CASE ListAllowedSessions(c)
    BY <1>5 DEF ListAllowedSessions, At
  <1> QED
    BY <1>1, <1>2, <1>3, <1>4, <1>5 DEF ReaderStep

LEMMA InsertIsRightful ==
    ASSUME MessagesOK, CallShaped, NEW c \in Call, IsRequest(req[c]),
           entitled \subseteq Call \X Dest,
           ToolOnCourse(c), req[c].op = "sendAIMessage", InsertMessage(c)
    PROVE  Rightful(c)'
  <1>1. <<c, req[c].v>> \in entitled
    BY DEF InsertMessage, ToolOnCourse
  <1>2. PICK m : m = [from |-> req[c].u, to |-> req[c].v, ai |-> TRUE]
    OBVIOUS
  <1>3. PICK i : i = Len(log) + 1
    OBVIOUS
  <1>4. log' = Append(log, m) /\ UNCHANGED <<req, entitled>>
    BY <1>2 DEF InsertMessage, DestOf, IsDirect, history
  <1>5. call'[c].id = i
    BY <1>3, StoredIds DEF InsertMessage
  <1>6. i \in 1..Len(log') /\ log'[i] = m
    BY <1>3, <1>4 DEF MessagesOK
  <1>7. m.from = req'[c].u /\ m.to = req'[c].v /\ m.ai
    BY <1>2, <1>4
  <1>8. (i \in SessionRows(req[c].u, req[c].v))'
    BY <1>6, <1>7 DEF SessionRows, RowsTo
  <1>9. (Touched(c))' \subseteq {i}
    BY <1>4, <1>5 DEF Touched
  <1> QED
    BY <1>1, <1>4, <1>8, <1>9 DEF Rightful

LEMMA RightsStep ==
    ASSUME MessagesOK, ServiceMove, CallShaped, NEW c \in Call, IsRequest(req[c]),
           entitled \subseteq Call \X Dest,
           OnCourse(c), ToolOnCourse(c), ToolOnCourse(c)', Rightful(c), req[c].op \in AITools,
           CallStep(c)
    PROVE  Rightful(c)'
  <1>0. req' = req
    BY OneCallKeepsRequests
  <1>1. CASE req[c].op \in {"getRecentMessages", "searchMessages"}
    BY <1>0, <1>1, ReaderMoves, ReadsAreRightful DEF Readers
  <1>2. CASE req[c].op = "listSessions"
    BY <1>0, <1>2 DEF Rightful, Touched
  <1>3. CASE req[c].op = "sendAIMessage"
    <2>1. CASE InsertMessage(c)
      BY <1>3, <2>1, InsertIsRightful
    <2>2. CASE Ends(c) \/ Goes(c)
      <3>1. call'[c].id = call[c].id \/ call'[c].id = 0
        BY <2>2, EndsFacts, GoesFacts
      <3>2. (Touched(c))' \subseteq Touched(c)
        BY <1>0, <1>3, <3>1 DEF Touched
      <3> QED
        BY <1>0, <3>2, StaysRightful
    <2> QED
      BY <2>1, <2>2, StepOfCall
  <1> QED
    BY <1>1, <1>2, <1>3 DEF AITools

LEMMA RightsKept ==
    ASSUME RequestsOK, RequestsOK', MessagesOK, CallShaped, CallsOnCourse,
           ToolsOnCourse, ToolsOnCourse', AssistantWithinRights, ServiceMove
    PROVE  AssistantWithinRights'
  <1> SUFFICES \A d \in Call : req'[d].op \in AITools => Rightful(d)'
    BY DEF AssistantWithinRights, Rightful
  <1>1. \A d \in Call : /\ req[d].op \in AITools => Rightful(d)
                        /\ ToolOnCourse(d) /\ ToolOnCourse(d)' /\ IsRequest(req[d]) /\ OnCourse(d)
    BY DEF AssistantWithinRights, Rightful, ToolsOnCourse, RequestsOK, CallsOnCourse
  <1>2. entitled \subseteq Call \X Dest
    BY DEF ToolsOnCourse
  <1>3. ASSUME NEW d \in Call, call'[d] = call[d], req'[d] = req[d], req'[d].op \in AITools
        PROVE  Rightful(d)'
    BY <1>1, <1>3, StaysRightful DEF Touched
  <1>4. ASSUME NEW c \in Call, CallStep(c)
        PROVE  (req'[c].op \in AITools => Rightful(c)') /\ Others(c) /\ req' = req
    BY <1>1, <1>2, <1>4, RightsStep, OneCall, OneCallKeepsRequests
  <1>5. CASE ConsumerStep
    <2>1. req'[Consumer].op \notin AITools
      BY DEF RequestsOK, AITools
    <2> QED
      BY <1>3, <1>5, <2>1, ConsumerMoves DEF Others
  <1>6. CASE call' = call /\ req' = req
    BY <1>3, <1>6
  <1> QED
    BY <1>3, <1>4, <1>5, <1>6, MovesOfCalls DEF Others, Expire, serviceVars

-----------------------------------------------------------------------------
(* stale entries *)

LEMMA KeyCases ==
    ASSUME NEW k \in Key
    PROVE  \/ k = <<"info", Group>>
           \/ \E u \in User : \/ k = <<"joined", u>> \/ k = <<"owned", u>> \/ k = <<"gsession", u>>
                              \/ k = <<"session", u>> \/ k = <<"user", u>>
           \/ \E d \in Dest : k = <<"list", d>>
  BY DEF Key

(* What it takes for an entry of each kind to say what the query would. *)

LEMMA AgreesInfo ==
    ASSUME NEW v
    PROVE  /\ Agrees(<<"info", Group>>, v) <=> v = GroupResponse
           /\ (Agrees(<<"info", Group>>, v) <=> v = GroupResponse)'
  BY DEF Agrees, View

LEMMA AgreesJoined ==
    ASSUME NEW u, NEW v
    PROVE  /\ Agrees(<<"joined", u>>, v) <=> ((v = {}) <=> (group = Nil \/ u \notin contacts))
           /\ (Agrees(<<"joined", u>>, v) <=> ((v = {}) <=> (group = Nil \/ u \notin contacts)))'
  BY DEF Agrees, View, JoinedGroups

LEMMA AgreesOwned ==
    ASSUME NEW u, NEW v
    PROVE  /\ Agrees(<<"owned", u>>, v) <=> ((v = {}) <=> (group = Nil \/ u # Owner))
           /\ (Agrees(<<"owned", u>>, v) <=> ((v = {}) <=> (group = Nil \/ u # Owner)))'
  BY DEF Agrees, View, OwnedGroups

LEMMA AgreesGSession ==
    ASSUME NEW u, NEW v
    PROVE  /\ Agrees(<<"gsession", u>>, v) <=> (v => u \in gsessions)
           /\ (Agrees(<<"gsession", u>>, v) <=> (v => u \in gsessions))'
  BY DEF Agrees, View, GroupSessions

LEMMA AgreesSession ==
    ASSUME NEW u, NEW v
    PROVE  /\ Agrees(<<"session", u>>, v) <=> v = UserSessions(u)
           /\ (Agrees(<<"session", u>>, v) <=> v = UserSessions(u))'
  BY DEF Agrees, View

LEMMA AgreesUser ==
    ASSUME NEW u, NEW v
    PROVE  /\ Agrees(<<"user", u>>, v) <=> v = UserInfo(u)
           /\ (Agrees(<<"user", u>>, v) <=> v = UserInfo(u))'
  BY DEF Agrees, View

LEMMA AgreesList ==
    ASSUME NEW d, NEW v
    PROVE  /\ Agrees(<<"list", d>>, v) <=> v.inOrder /\ v.ids \ Unlisted(d) = RowsTo(d) \ Unlisted(d)
           /\ (Agrees(<<"list", d>>, v) <=> v.inOrder /\ v.ids \ Unlisted(d) = RowsTo(d) \ Unlisted(d))'
  BY DEF Agrees

LEMMA ViewAgrees ==
    ASSUME NEW k \in Key
    PROVE  Agrees(k, View(k))
  <1>1. ASSUME NEW d, k = <<"list", d>> PROVE Agrees(k, View(k))
    <2>1. View(k) = Listed(RowsTo(d))
      BY <1>1 DEF View, GroupMessages, DirectMessages
    <2> QED
      BY <1>1, <2>1, AgreesList DEF Listed
  <1>2. ASSUME k[1] # "list" PROVE Agrees(k, View(k))
    BY <1>2 DEF Agrees
  <1> QED
    BY <1>1, <1>2, KeyCases

\* The rows the cached queries read.
read == <<users, group, contacts, gsessions, sessions, log>>

LEMMA SameRows ==
    ASSUME NEW k \in Key, NEW v, UNCHANGED read, Agrees(k, v)
    PROVE  Agrees(k, v)'
  <1> USE DEF read
  <1>1. CASE k = <<"info", Group>>
    BY <1>1, AgreesInfo DEF GroupResponse
  <1>2. ASSUME NEW u \in User, k = <<"joined", u>> PROVE Agrees(k, v)'
    BY <1>2, AgreesJoined
  <1>3. ASSUME NEW u \in User, k = <<"owned", u>> PROVE Agrees(k, v)'
    BY <1>3, AgreesOwned
  <1>4. ASSUME NEW u \in User, k = <<"gsession", u>> PROVE Agrees(k, v)'
    BY <1>4, AgreesGSession
  <1>5. ASSUME NEW u \in User, k = <<"session", u>> PROVE Agrees(k, v)'
    BY <1>5, AgreesSession DEF UserSessions
  <1>6. ASSUME NEW u \in User, k = <<"user", u>> PROVE Agrees(k, v)'
    BY <1>6, AgreesUser DEF UserInfo
  <1>7. ASSUME NEW d \in Dest, k = <<"list", d>> PROVE Agrees(k, v)'
    BY <1>7, AgreesList DEF RowsTo, Unlisted
  <1> QED
    BY <1>1, <1>2, <1>3, <1>4, <1>5, <1>6, <1>7, KeyCases

\* One call is about to put an entry right.
RepairedBy(c, k) ==
    \/ call[c].pc = "delete" /\ k \in Deletes(req[c])
    \/ Appending(c) /\ k = call[c].key

(* Somebody enters or leaves a group there is. *)
LEMMA MembersChange ==
    ASSUME UNCHANGED <<users, sessions, log>>, group # Nil, group' # Nil, NEW w \in User,
           \A x \in User : x # w => /\ x \in contacts' <=> x \in contacts
                                    /\ x \in gsessions' <=> x \in gsessions,
           NEW k \in Key, NEW v, Agrees(k, v),
           k # <<"info", Group>>, k # <<"joined", w>>, k # <<"gsession", w>> \/ w \in gsessions'
    PROVE  Agrees(k, v)'
  <1>2. ASSUME NEW u \in User, k = <<"joined", u>> PROVE Agrees(k, v)'
    BY <1>2, AgreesJoined
  <1>3. ASSUME NEW u \in User, k = <<"owned", u>> PROVE Agrees(k, v)'
    BY <1>3, AgreesOwned
  <1>4. ASSUME NEW u \in User, k = <<"gsession", u>> PROVE Agrees(k, v)'
    BY <1>4, AgreesGSession
  <1>5. ASSUME NEW u \in User, k = <<"session", u>> PROVE Agrees(k, v)'
    BY <1>5, AgreesSession DEF UserSessions
  <1>6. ASSUME NEW u \in User, k = <<"user", u>> PROVE Agrees(k, v)'
    BY <1>6, AgreesUser DEF UserInfo
  <1>7. ASSUME NEW d \in Dest, k = <<"list", d>> PROVE Agrees(k, v)'
    BY <1>7, AgreesList DEF RowsTo, Unlisted
  <1> QED
    BY <1>2, <1>3, <1>4, <1>5, <1>6, <1>7, KeyCases

LEMMA CreateRepairs ==
    ASSUME NEW c \in Call, CallShaped, GroupOK, IsRequest(req[c]), CreateGroup(c),
           NEW k \in Key, NEW v, v # Nil, Agrees(k, v)
    PROVE  Agrees(k, v)' \/ RepairedBy(c, k)'
  <1>1. CASE UNCHANGED <<group, contacts, gsessions>>
    BY <1>1, SameRows DEF CreateGroup, read
  <1>2. CASE /\ group' = [members |-> {req[c].u}, count |-> 1, mode |-> req[c].v]
             /\ contacts' = {req[c].u} /\ gsessions' = {req[c].u} /\ Committed(c)
    <2>1. /\ UNCHANGED <<users, sessions, log, req>> /\ group = Nil /\ gsessions = {}
          /\ req[c].op = "create" /\ req[c].u = Owner
      BY DEF CreateGroup, At, GroupOK, IsRequest
    <2>2. call'[c].pc = "delete"
      BY <1>2, GotoFacts DEF Committed
    <2>3. Deletes(req'[c]) = {<<"owned", Owner>>, <<"joined", Owner>>, <<"info", Group>>}
      BY <2>1 DEF Deletes
    <2>4. k \in Deletes(req'[c]) => RepairedBy(c, k)'
      BY <2>2 DEF RepairedBy
    <2>5. CASE k = <<"info", Group>>
      BY <2>3, <2>4, <2>5
    <2>6. ASSUME NEW u \in User, k = <<"joined", u>> PROVE Agrees(k, v)' \/ RepairedBy(c, k)'
      BY <1>2, <2>1, <2>3, <2>4, <2>6, AgreesJoined
    <2>7. ASSUME NEW u \in User, k = <<"owned", u>> PROVE Agrees(k, v)' \/ RepairedBy(c, k)'
      BY <1>2, <2>1, <2>3, <2>4, <2>7, AgreesOwned
    <2>8. ASSUME NEW u \in User, k = <<"gsession", u>> PROVE Agrees(k, v)'
      BY <2>1, <2>8, AgreesGSession
    <2>9. ASSUME NEW u \in User, k = <<"session", u>> PROVE Agrees(k, v)'
      BY <2>1, <2>9, AgreesSession DEF UserSessions
    <2>10. ASSUME NEW u \in User, k = <<"user", u>> PROVE Agrees(k, v)'
      BY <2>1, <2>10, AgreesUser DEF UserInfo
    <2>11. ASSUME NEW d \in Dest, k = <<"list", d>> PROVE Agrees(k, v)'
      BY <2>1, <2>11, AgreesList DEF RowsTo, Unlisted
    <2> QED
      BY <2>5, <2>6, <2>7, <2>8, <2>9, <2>10, <2>11, KeyCases
  <1> QED
    BY <1>1, <1>2 DEF CreateGroup

LEMMA EnterRepairs ==
    ASSUME NEW c \in Call, CallShaped, GroupOK, group # Nil, NEW w \in User, Enter(w),
           Committed(c),
           UNCHANGED <<users, sessions, log, req>>,
           <<"info", Group>> \in Deletes(req[c]), <<"joined", w>> \in Deletes(req[c]),
           NEW k \in Key, NEW v, Agrees(k, v)
    PROVE  Agrees(k, v)' \/ RepairedBy(c, k)'
  <1>1. call'[c].pc = "delete"
    BY GotoFacts DEF Committed
  <1>2. k \in Deletes(req[c]) => RepairedBy(c, k)'
    BY <1>1 DEF RepairedBy
  <1>3. contacts' = contacts \cup {w} /\ gsessions' = gsessions \cup {w}
    BY DEF Enter
  <1>4. group' # Nil
    BY <1>3, EnterKeeps DEF GroupOK
  <1>5. CASE k # <<"info", Group>> /\ k # <<"joined", w>>
    BY <1>3, <1>4, <1>5, MembersChange
  <1> QED
    BY <1>2, <1>5

LEMMA JoinRepairs ==
    ASSUME NEW c \in Call, CallShaped, GroupOK, IsRequest(req[c]), JoinGroup(c),
           NEW k \in Key, NEW v, Agrees(k, v)
    PROVE  Agrees(k, v)' \/ RepairedBy(c, k)'
  <1>1. CASE UNCHANGED <<group, contacts, gsessions>>
    BY <1>1, SameRows DEF JoinGroup, read
  <1>2. CASE ~UNCHANGED <<group, contacts, gsessions>>
    <2>1. /\ group # Nil /\ Enter(req[c].u) /\ Committed(c)
          /\ UNCHANGED <<users, sessions, log, req>> /\ req[c].op = "join"
      BY <1>2 DEF JoinGroup, At
    <2>2. Deletes(req[c]) = {<<"info", Group>>, <<"joined", req[c].u>>}
      BY <2>1 DEF Deletes
    <2>3. PICK w : w = req[c].u
      OBVIOUS
    <2>4. w \in User /\ Enter(w)
      BY <2>1, <2>3 DEF IsRequest
    <2> QED
      BY <2>1, <2>2, <2>3, <2>4, EnterRepairs
  <1> QED
    BY <1>1, <1>2

LEMMA ApproveRepairs ==
    ASSUME NEW c \in Call, CallShaped, GroupOK, IsRequest(req[c]), ApproveGroupJoin(c),
           NEW k \in Key, NEW v, Agrees(k, v)
    PROVE  Agrees(k, v)' \/ RepairedBy(c, k)'
  <1>1. CASE UNCHANGED <<group, contacts, gsessions>>
    BY <1>1, SameRows DEF ApproveGroupJoin, read
  <1>2. CASE ~UNCHANGED <<group, contacts, gsessions>>
    <2>1. /\ group # Nil /\ Enter(req[c].v) /\ Committed(c)
          /\ UNCHANGED <<users, sessions, log, req>> /\ req[c].op = "approve"
      BY <1>2 DEF ApproveGroupJoin, At
    <2>2. Deletes(req[c]) = {<<"info", Group>>, <<"joined", req[c].v>>, <<"gsession", req[c].v>>}
      BY <2>1 DEF Deletes
    <2>3. PICK w : w = req[c].v
      OBVIOUS
    <2>4. w \in User /\ Enter(w)
      BY <2>1, <2>3 DEF IsRequest
    <2> QED
      BY <2>1, <2>2, <2>3, <2>4, EnterRepairs
  <1> QED
    BY <1>1, <1>2

LEMMA LeaveRepairs ==
    ASSUME NEW c \in Call, CallShaped, GroupOK, GroupOK', IsRequest(req[c]), LeaveGroup(c),
           NEW k \in Key, NEW v, Agrees(k, v)
    PROVE  Agrees(k, v)' \/ RepairedBy(c, k)'
  <1>1. CASE UNCHANGED <<group, contacts, gsessions>>
    BY <1>1, SameRows DEF LeaveGroup, read
  <1>2. CASE ~UNCHANGED <<group, contacts, gsessions>>
    <2>1. /\ group # Nil /\ Committed(c) /\ req[c].u # Owner
          /\ contacts' = contacts \ {req[c].u} /\ gsessions' = gsessions \ {req[c].u}
          /\ UNCHANGED <<users, sessions, log, req>> /\ req[c].op = "leave"
      BY <1>2 DEF LeaveGroup, At
    <2>2. PICK w : w = req[c].u
      OBVIOUS
    <2>3. Deletes(req'[c]) = {<<"info", Group>>, <<"joined", w>>, <<"gsession", w>>}
      BY <2>1, <2>2 DEF Deletes
    <2>4. w \in User /\ w # Owner /\ contacts' = contacts \ {w} /\ gsessions' = gsessions \ {w}
      BY <2>1, <2>2 DEF IsRequest
    <2>5. group' # Nil
      <3>1. Owner \in contacts
        BY <2>1 DEF GroupOK, RowsAgree
      <3> QED
        BY <2>4, <3>1 DEF GroupOK
    <2>6. call'[c].pc = "delete"
      BY <2>1, GotoFacts DEF Committed
    <2>7. k \in Deletes(req'[c]) => RepairedBy(c, k)'
      BY <2>6 DEF RepairedBy
    <2>8. CASE k # <<"info", Group>> /\ k # <<"joined", w>> /\ k # <<"gsession", w>>
      BY <2>1, <2>4, <2>5, <2>8, MembersChange
    <2> QED
      BY <2>3, <2>7, <2>8
  <1> QED
    BY <1>1, <1>2

LEMMA RegisterRepairs ==
    ASSUME NEW c \in Call, Register(c), NEW k \in Key, NEW v, v # Nil, Agrees(k, v)
    PROVE  Agrees(k, v)'
  <1>1. UNCHANGED <<group, contacts, gsessions, sessions, log>> /\ users \subseteq users'
    BY DEF Register
  <1>2. ASSUME NEW u \in User, k = <<"user", u>> PROVE Agrees(k, v)'
    BY <1>1, <1>2, AgreesUser DEF UserInfo
  <1>3. CASE k = <<"info", Group>>
    BY <1>1, <1>3, AgreesInfo DEF GroupResponse
  <1>4. ASSUME NEW u \in User, k = <<"joined", u>> PROVE Agrees(k, v)'
    BY <1>1, <1>4, AgreesJoined
  <1>5. ASSUME NEW u \in User, k = <<"owned", u>> PROVE Agrees(k, v)'
    BY <1>1, <1>5, AgreesOwned
  <1>6. ASSUME NEW u \in User, k = <<"gsession", u>> PROVE Agrees(k, v)'
    BY <1>1, <1>6, AgreesGSession
  <1>7. ASSUME NEW u \in User, k = <<"session", u>> PROVE Agrees(k, v)'
    BY <1>1, <1>7, AgreesSession DEF UserSessions
  <1>8. ASSUME NEW d \in Dest, k = <<"list", d>> PROVE Agrees(k, v)'
    BY <1>1, <1>8, AgreesList DEF RowsTo, Unlisted
  <1> QED
    BY <1>2, <1>3, <1>4, <1>5, <1>6, <1>7, <1>8, KeyCases

LEMMA OpenRepairs ==
    ASSUME NEW c \in Call, CallShaped, IsRequest(req[c]), OnCourse(c), OpenSession(c),
           NEW k \in Key, NEW v, Agrees(k, v)
    PROVE  Agrees(k, v)' \/ RepairedBy(c, k)'
  <1> DEFINE pair == {req[c].u, req[c].v}
  <1>1. /\ UNCHANGED <<users, group, contacts, gsessions, log, req>>
        /\ sessions' = sessions \cup {pair} /\ req[c].op = "open"
    BY DEF OpenSession, At
  <1>2. CASE pair \in sessions
    <2>1. sessions' = sessions
      BY <1>1, <1>2
    <2> QED
      BY <1>1, <2>1, SameRows DEF read
  <1>3. CASE pair \notin sessions
    <2>1. Committed(c)
      BY <1>3 DEF OpenSession
    <2>2. call'[c].pc = "delete"
      BY <2>1, GotoFacts DEF Committed
    <2>3. Deletes(req'[c]) = {<<"session", req[c].u>>, <<"session", req[c].v>>}
      BY <1>1 DEF Deletes
    <2>4. k \in Deletes(req'[c]) => RepairedBy(c, k)'
      BY <2>2 DEF RepairedBy
    <2>5. ASSUME NEW u \in User, k = <<"session", u>>, u \notin pair PROVE Agrees(k, v)'
      <3>1. (UserSessions(u))' = UserSessions(u)
        BY <1>1, <2>5 DEF UserSessions
      <3> QED
        BY <2>5, <3>1, AgreesSession
    <2>6. ASSUME NEW u \in User, k = <<"session", u>>, u \in pair PROVE RepairedBy(c, k)'
      BY <2>3, <2>4, <2>6
    <2>7. CASE k = <<"info", Group>>
      BY <1>1, <2>7, AgreesInfo DEF GroupResponse
    <2>8. ASSUME NEW u \in User, k = <<"joined", u>> PROVE Agrees(k, v)'
      BY <1>1, <2>8, AgreesJoined
    <2>9. ASSUME NEW u \in User, k = <<"owned", u>> PROVE Agrees(k, v)'
      BY <1>1, <2>9, AgreesOwned
    <2>10. ASSUME NEW u \in User, k = <<"gsession", u>> PROVE Agrees(k, v)'
      BY <1>1, <2>10, AgreesGSession
    <2>11. ASSUME NEW u \in User, k = <<"user", u>> PROVE Agrees(k, v)'
      BY <1>1, <2>11, AgreesUser DEF UserInfo
    <2>12. ASSUME NEW d \in Dest, k = <<"list", d>> PROVE Agrees(k, v)'
      BY <1>1, <2>12, AgreesList DEF RowsTo, Unlisted
    <2> QED
      BY <2>5, <2>6, <2>7, <2>8, <2>9, <2>10, <2>11, <2>12, KeyCases
  <1> QED
    BY <1>2, <1>3

(* A message stored for d: the rows to another destination are the same, and *)
(* those to d are one more.                                                  *)
LEMMA RowsAfter ==
    ASSUME MessagesOK, NEW m, log' = Append(log, m), NEW d
    PROVE  /\ m.to # d => (RowsTo(d))' = RowsTo(d) /\ (Unlisted(d))' = Unlisted(d)
           /\ m.to = d => (RowsTo(d))' = RowsTo(d) \cup {Len(log) + 1}
           /\ m.to = d /\ d = Group /\ m.ai => (Unlisted(d))' = Unlisted(d) \cup {Len(log) + 1}
  <1> DEFINE n == Len(log) + 1
  <1>1. /\ 1..Len(log') = (1..Len(log)) \cup {n}
        /\ n \notin 1..Len(log) /\ log'[n] = m
    BY DEF MessagesOK
  <1>2. \A i \in 1..Len(log) : log'[i] = log[i]
    BY DEF MessagesOK
  <1> HIDE DEF n
  <1>3. (RowsTo(d))' = RowsTo(d) \cup (IF m.to = d THEN {n} ELSE {})
    BY <1>1, <1>2 DEF RowsTo
  <1>4. m.to # d => (Unlisted(d))' = Unlisted(d)
    BY <1>1, <1>2, <1>3 DEF Unlisted, RowsTo
  <1>5. m.to = d /\ d = Group /\ m.ai => (Unlisted(d))' = Unlisted(d) \cup {n}
    BY <1>1, <1>2, <1>3 DEF Unlisted, RowsTo
  <1> QED
    BY <1>3, <1>4, <1>5 DEF n

LEMMA InsertRepairs ==
    ASSUME NEW c \in Call, CallShaped, MessagesOK, InsertMessage(c),
           NEW k \in Key, NEW v, Agrees(k, v)
    PROVE  Agrees(k, v)' \/ RepairedBy(c, k)'
  <1>1. UNCHANGED <<users, group, contacts, gsessions, sessions, req>>
    BY DEF InsertMessage
  <1>2. PICK m : m = [from |-> req[c].u, to |-> DestOf(req[c]), ai |-> req[c].op # "send"]
    OBVIOUS
  <1>3. log' = Append(log, m)
    BY <1>2 DEF InsertMessage
  <1>4. m.to = DestOf(req[c]) /\ m.ai = (req[c].op # "send")
    BY <1>2
  <1>5. ASSUME NEW d \in Dest, k = <<"list", d>> PROVE Agrees(k, v)' \/ RepairedBy(c, k)'
    <2>1. CASE m.to # d
      <3>1. (RowsTo(d))' = RowsTo(d) /\ (Unlisted(d))' = Unlisted(d)
        BY <1>3, <2>1, RowsAfter
      <3> QED
        BY <1>5, <3>1, AgreesList
    <2>2. CASE m.to = d /\ req[c].op # "send" /\ req[c].v = Group
      <3>1. d = Group
        BY <1>4, <2>2 DEF DestOf, IsDirect
      <3>2. PICK n : n = Len(log) + 1
        OBVIOUS
      <3>3. (RowsTo(d))' = RowsTo(d) \cup {n} /\ (Unlisted(d))' = Unlisted(d) \cup {n}
        BY <1>3, <1>4, <2>2, <3>1, <3>2, RowsAfter
      <3>4. v.inOrder /\ v.ids \ Unlisted(d) = RowsTo(d) \ Unlisted(d)
        BY <1>5, AgreesList
      <3>5. v.ids \ (Unlisted(d) \cup {n}) = (RowsTo(d) \cup {n}) \ (Unlisted(d) \cup {n})
        BY <3>4
      <3>6. (v.inOrder /\ v.ids \ Unlisted(d) = RowsTo(d) \ Unlisted(d))'
        BY <3>3, <3>4, <3>5
      <3> QED
        BY <1>5, <3>6, AgreesList
    <2>3. CASE m.to = d /\ ~(req[c].op # "send" /\ req[c].v = Group)
      <3>1. GotoStored(c, "appendGet", <<"list", DestOf(req[c])>>, Len(log) + 1)
        BY <2>3 DEF InsertMessage
      <3>2. call'[c].pc = "appendGet" /\ call'[c].key = <<"list", DestOf(req[c])>>
        BY <3>1, StoredFacts
      <3>3. call'[c].key = k
        BY <1>4, <1>5, <2>3, <3>2
      <3> QED
        BY <3>2, <3>3 DEF RepairedBy, Appending
    <2> QED
      BY <2>1, <2>2, <2>3
  <1>6. CASE k = <<"info", Group>>
    BY <1>1, <1>6, AgreesInfo DEF GroupResponse
  <1>7. ASSUME NEW u \in User, k = <<"joined", u>> PROVE Agrees(k, v)'
    BY <1>1, <1>7, AgreesJoined
  <1>8. ASSUME NEW u \in User, k = <<"owned", u>> PROVE Agrees(k, v)'
    BY <1>1, <1>8, AgreesOwned
  <1>9. ASSUME NEW u \in User, k = <<"gsession", u>> PROVE Agrees(k, v)'
    BY <1>1, <1>9, AgreesGSession
  <1>10. ASSUME NEW u \in User, k = <<"session", u>> PROVE Agrees(k, v)'
    BY <1>1, <1>10, AgreesSession DEF UserSessions
  <1>11. ASSUME NEW u \in User, k = <<"user", u>> PROVE Agrees(k, v)'
    BY <1>1, <1>11, AgreesUser DEF UserInfo
  <1> QED
    BY <1>5, <1>6, <1>7, <1>8, <1>9, <1>10, <1>11, KeyCases

\* A step that changes rows leaves the cache alone, and comes from none of the
\* places where an entry is repaired.
LEMMA RowStepsElsewhere ==
    ASSUME NEW c, ChangesRows(c)
    PROVE  /\ UNCHANGED <<cache, late>>
           /\ call[c].pc \in {"tx", "check", "insert", "replace"}
  BY DEF ChangesRows, ChangesMembers, CreateGroup, JoinGroup, LeaveGroup, ApproveGroupJoin,
         Register, Login, OpenSession, InsertMessage, ReplaceAccess, At, history

LEMMA RowStepRepairs ==
    ASSUME NEW c \in Call, CallShaped, GroupOK, GroupOK', MessagesOK, IsRequest(req[c]),
           OnCourse(c),
           ChangesRows(c), NEW k \in Key, NEW v, v # Nil, Agrees(k, v)
    PROVE  Agrees(k, v)' \/ RepairedBy(c, k)'
  <1>1. CASE Login(c) \/ ReplaceAccess(c)
    BY <1>1, SameRows DEF Login, ReplaceAccess, read
  <1> QED
    BY <1>1, CreateRepairs, JoinRepairs, LeaveRepairs, ApproveRepairs, RegisterRepairs,
       OpenRepairs, InsertRepairs DEF ChangesRows, ChangesMembers

\* An entry is absent, right, known to be wrong, or about to be repaired.
Excused(k) == cache[k] = Nil \/ Agrees(k, cache[k]) \/ k \in late \/ Repairing(k)

LEMMA RepairingIs ==
    ASSUME NEW k
    PROVE  /\ Repairing(k) <=> \E c \in Call : RepairedBy(c, k)
           /\ (Repairing(k) <=> \E c \in Call : RepairedBy(c, k))'
  BY DEF Repairing, RepairedBy, Appending

LEMMA StillRepaired ==
    ASSUME NEW c, NEW k, RepairedBy(c, k), call'[c] = call[c], req'[c] = req[c]
    PROVE  RepairedBy(c, k)'
  BY DEF RepairedBy, Appending, Deletes

\* The steps from where an entry is repaired.
LEMMA RepairSteps ==
    ASSUME NEW c \in Call, NEW k, RepairedBy(c, k),
           CallStep(c)
    PROVE  \/ AppendGet(c) \/ AppendSkipped(c) \/ AppendSet(c)
           \/ Delete(c) \/ DeleteFails(c)
  <1>1. call[c].pc \in {"delete", "appendGet", "appendSet"}
    BY DEF RepairedBy, Appending
  <1> QED
    BY <1>1 DEF CallStep, Work, AIWork, PublishEvent, Enqueue, EnqueueTool, At, Unauthorized,
       Malformed,
                Begin, RegisterCheck, Register, Login, LoginRefused, CreateGroup, JoinSnapshot,
                JoinGroup, LeaveGroup, ApproveGroupJoin, OpenCheck, OpenSession, FindSession,
       InsertMessage, Hit, Miss, Query, Fill, FillSkipped, StatementFails, BeginSetting,
       CountSessions, ReplaceAccess, AnswerSetting, BeginTool, CheckAccess, GetRecentMessages,
       SearchMessages, ListAllowedSessions

LEMMA RowStepOfCall ==
    ASSUME NEW c, CallStep(c)
    PROVE  ChangesRows(c) \/ UNCHANGED read
  BY DEF read, rows, ChangesRows, ChangesMembers, CallStep, Work, AIWork, PublishEvent, Enqueue,
         EnqueueTool, Unauthorized, Malformed, Begin, RegisterCheck, LoginRefused,
         JoinSnapshot, OpenCheck, FindSession, AppendGet, AppendSkipped, AppendSet, Hit, Miss,
     Query, Fill, FillSkipped, Delete, DeleteFails, StatementFails, BeginSetting,
     CountSessions, AnswerSetting, BeginTool, CheckAccess, GetRecentMessages, SearchMessages,
     ListAllowedSessions

LEMMA WrittenIsExcused ==
    ASSUME NEW k \in Key, NEW v, UNCHANGED read, Written(k, v)
    PROVE  Agrees(k, v)' \/ k \in late'
  <1>1. CASE v = View(k)
    <2>1. Agrees(k, v)
      BY <1>1, ViewAgrees
    <2> QED
      BY <2>1, SameRows
  <1>2. CASE v # View(k)
    BY <1>2 DEF Written
  <1> QED
    BY <1>1, <1>2

LEMMA ExcusedNext ==
    ASSUME NEW k, NEW v, cache'[k] = v,
           v = Nil \/ Agrees(k, v)' \/ k \in late' \/ Repairing(k)'
    PROVE  Excused(k)'
  <1>1. CASE Agrees(k, v)'
    <2>1. (Agrees(k, cache[k]))'
      BY <1>1 DEF Agrees
    <2> QED
      BY <2>1 DEF Excused
  <1> QED
    BY <1>1 DEF Excused

(* A step that leaves the rows and the entry alone. *)
LEMMA UntouchedEntry ==
    ASSUME NEW k \in Key, Excused(k), UNCHANGED read, cache'[k] = cache[k],
           k \in late => k \in late' \/ cache[k] = Nil,
           Repairing(k) => Repairing(k)' \/ k \in late' \/ cache[k] = Nil
    PROVE  Excused(k)'
  <1>1. PICK v : v = cache[k]
    OBVIOUS
  <1>2. CASE v = Nil
    BY <1>1, <1>2 DEF Excused
  <1>3. CASE Agrees(k, cache[k])
    <2>1. Agrees(k, v)
      BY <1>1, <1>3
    <2>2. Agrees(k, v)'
      BY <2>1, SameRows
    <2> QED
      BY <1>1, <2>2, ExcusedNext
  <1>4. CASE k \in late'
    BY <1>4 DEF Excused
  <1>5. CASE Repairing(k)'
    BY <1>5 DEF Excused
  <1> QED
    BY <1>1, <1>2, <1>3, <1>4, <1>5 DEF Excused

LEMMA ExcusedByRows ==
    ASSUME NEW c \in Call, CallShaped, GroupOK, GroupOK', MessagesOK, IsRequest(req[c]),
           OnCourse(c),
           Others(c), req' = req, ChangesRows(c), NEW k \in Key, Excused(k)
    PROVE  Excused(k)'
  <1>1. UNCHANGED <<cache, late>> /\ call[c].pc \in {"tx", "check", "insert", "replace"}
    BY RowStepsElsewhere
  <1>2. PICK v : v = cache[k]
    OBVIOUS
  <1>3. cache'[k] = v
    BY <1>1, <1>2
  <1>4. CASE v = Nil \/ k \in late
    BY <1>1, <1>3, <1>4 DEF Excused
  <1>5. CASE v # Nil /\ Agrees(k, cache[k])
    <2>1. Agrees(k, v)
      BY <1>2, <1>5
    <2>2. Agrees(k, v)' \/ RepairedBy(c, k)'
      BY <1>5, <2>1, RowStepRepairs
    <2> QED
      BY <1>3, <2>2, RepairingIs, ExcusedNext
  <1>6. CASE Repairing(k)
    <2>1. PICK d \in Call : RepairedBy(d, k)
      BY <1>6, RepairingIs
    <2>2. d # c
      BY <1>1, <2>1 DEF RepairedBy, Appending
    <2>3. RepairedBy(d, k)'
      BY <2>1, <2>2, StillRepaired DEF Others
    <2>4. Repairing(k)'
      BY <2>3, RepairingIs
    <2> QED
      BY <2>4 DEF Excused
  <1> QED
    BY <1>2, <1>4, <1>5, <1>6 DEF Excused

LEMMA ExcusedByCache ==
    ASSUME NEW c \in Call, CallShaped, CacheShaped, OnCourse(c), Others(c), req' = req,
           UNCHANGED read,
           NEW k \in Key, Excused(k),
           CallStep(c)
    PROVE  Excused(k)'
  <1>1. ASSUME NEW d \in Call, d # c, RepairedBy(d, k) PROVE Repairing(k)'
    <2>1. RepairedBy(d, k)'
      BY <1>1, StillRepaired DEF Others
    <2> QED
      BY <2>1, RepairingIs
  <1>2. Repairing(k) => Repairing(k)' \/ RepairedBy(c, k)
    BY <1>1, RepairingIs
  <1>3. CASE AppendSet(c) \/ Fill(c)
    <2>1. PICK v : cache' = [cache EXCEPT ![call[c].key] = v] /\ Written(call[c].key, v)
      BY <1>3 DEF AppendSet, Fill
    <2>2. CASE call[c].key = k
      <3>1. cache'[k] = v /\ Written(k, v)
        BY <2>1, <2>2 DEF CacheShaped
      <3> QED
        BY <3>1, WrittenIsExcused, ExcusedNext
    <2>3. CASE call[c].key # k
      <3>1. cache'[k] = cache[k]
        BY <2>1, <2>3 DEF CacheShaped
      <3>2. k \in late => k \in late'
        BY <2>1, <2>3 DEF Written
      <3>3. ~RepairedBy(c, k)
        BY <1>3, <2>3 DEF RepairedBy, AppendSet, Fill
      <3> QED
        BY <1>2, <3>1, <3>2, <3>3, UntouchedEntry
    <2> QED
      BY <2>2, <2>3
  <1>4. CASE Delete(c)
    <2>1. CASE k \in Deletes(req[c])
      BY <1>4, <2>1 DEF Delete, Excused
    <2>2. CASE k \notin Deletes(req[c])
      <3>1. cache'[k] = cache[k] /\ (k \in late => k \in late') /\ call[c].pc = "delete"
        BY <1>4, <2>2 DEF Delete
      <3>2. ~RepairedBy(c, k)
        BY <2>2, <3>1 DEF RepairedBy, Appending
      <3> QED
        BY <1>2, <3>1, <3>2, UntouchedEntry
    <2> QED
      BY <2>1, <2>2
  <1>5. CASE DeleteFails(c)
    <2>1. /\ cache' = cache /\ call[c].pc = "delete"
          /\ late' = late \cup {x \in Deletes(req[c]) : cache[x] # Nil}
      BY <1>5 DEF DeleteFails
    <2>2. RepairedBy(c, k) => k \in late' \/ cache[k] = Nil
      BY <2>1 DEF RepairedBy, Appending
    <2> QED
      BY <1>2, <2>1, <2>2, UntouchedEntry
  <1>6. CASE AppendSkipped(c)
    <2>1. /\ cache' = cache /\ call[c].pc # "delete"
          /\ late' = IF cache[call[c].key] = Nil THEN late ELSE late \cup {call[c].key}
      BY <1>6 DEF AppendSkipped
    <2>2. RepairedBy(c, k) => k \in late' \/ cache[k] = Nil
      BY <2>1 DEF RepairedBy
    <2> QED
      BY <1>2, <2>1, <2>2, UntouchedEntry
  <1>7. CASE AppendGet(c)
    <2>1. UNCHANGED <<cache, late>> /\ call[c].pc = "appendGet"
      BY <1>7 DEF AppendGet, history
    <2>2. RepairedBy(c, k) => cache[k] = Nil \/ RepairedBy(c, k)'
      <3>1. SUFFICES ASSUME call[c].key = k, cache[k] # Nil PROVE RepairedBy(c, k)'
        BY <2>1 DEF RepairedBy
      <3>2. GotoWith(c, "appendSet", cache[k])
        BY <1>7, <3>1 DEF AppendGet
      <3>3. call'[c].pc = "appendSet" /\ call'[c].key = call[c].key
        BY <3>2, GotoWithFacts
      <3> QED
        BY <3>1, <3>3 DEF RepairedBy, Appending
    <2> QED
      BY <1>2, <2>1, <2>2, RepairingIs, UntouchedEntry
  <1>8. CASE ~(AppendGet(c) \/ ChangesCache(c))
    <2>1. UNCHANGED <<cache, late>>
      BY <1>8, CacheSteps
    <2>2. ~RepairedBy(c, k)
      BY <1>8, RepairSteps DEF ChangesCache
    <2> QED
      BY <1>2, <2>1, <2>2, UntouchedEntry
  <1> QED
    BY <1>3, <1>4, <1>5, <1>6, <1>7, <1>8 DEF ChangesCache

LEMMA StaleKept ==
    ASSUME RequestsOK, GroupOK, GroupOK', MessagesOK, CallShaped, CacheShaped, CallsOnCourse,
           StaleOnlyIfOvertaken, ServiceMove
    PROVE  StaleOnlyIfOvertaken'
  <1> SUFFICES ASSUME NEW k \in Key PROVE Excused(k)'
    BY DEF StaleOnlyIfOvertaken, Excused
  <1>0. Excused(k)
    BY DEF StaleOnlyIfOvertaken, Excused
  <1>1. ASSUME NEW c \in Call, CallStep(c)
        PROVE  Excused(k)'
    <2>1. Others(c) /\ req' = req
      BY <1>1, OneCall, OneCallKeepsRequests
    <2>2. IsRequest(req[c]) /\ OnCourse(c)
      BY DEF RequestsOK, CallsOnCourse
    <2> QED
      BY <1>0, <1>1, <2>1, <2>2, RowStepOfCall, ExcusedByRows, ExcusedByCache
  <1>2. ASSUME NEW x \in Key, Expire(x) PROVE Excused(k)'
    <2>1. /\ UNCHANGED <<read, req, call>>
          /\ cache' = [cache EXCEPT ![x] = Nil] /\ late' = late \ {x}
      BY <1>2 DEF Expire, rows, read
    <2>2. Repairing(k) => Repairing(k)'
      BY <2>1, RepairingIs, StillRepaired
    <2>3. CASE x = k
      BY <2>1, <2>3 DEF CacheShaped, Excused
    <2>4. CASE x # k
      <3>1. cache'[k] = cache[k] /\ (k \in late => k \in late')
        BY <2>1, <2>4 DEF CacheShaped
      <3> QED
        BY <1>0, <2>1, <2>2, <3>1, UntouchedEntry
    <2> QED
      BY <2>3, <2>4
  <1>3. CASE ConsumerStep
    <2>1. UNCHANGED <<read, cache, late>>
      BY <1>3 DEF ConsumerStep, FetchEvent, HandleEvent, ConsumeGoesOn, rows, read, history
    <2>2. call[Consumer].pc \in {"idle", "fetched", "ended"}
      BY <1>3 DEF ConsumerStep, FetchEvent, HandleEvent, ConsumeGoesOn
    <2>3. Others(Consumer) /\ \A d \in Call : d # Consumer => req'[d] = req[d]
      BY <1>3, ConsumerMoves
    <2>4. ASSUME NEW d \in Call, RepairedBy(d, k) PROVE Repairing(k)'
      <3>1. d # Consumer
        BY <2>2, <2>4 DEF RepairedBy, Appending
      <3>2. RepairedBy(d, k)'
        BY <2>3, <2>4, <3>1, StillRepaired DEF Others
      <3> QED
        BY <3>2, RepairingIs
    <2> QED
      BY <1>0, <2>1, <2>4, RepairingIs, UntouchedEntry
  <1>4. CASE UNCHANGED serviceVars
    <2>1. UNCHANGED <<read, cache, late, call, req>>
      BY <1>4 DEF serviceVars, rows, read, history
    <2>2. Repairing(k) => Repairing(k)'
      BY <2>1, RepairingIs, StillRepaired
    <2> QED
      BY <1>0, <2>1, <2>2, UntouchedEntry
  <1> QED
    BY <1>1, <1>2, <1>3, <1>4, MovesOfCalls

-----------------------------------------------------------------------------
(* the table of connections *)

LEMMA CountAdds ==
    ASSUME NEW f \in [User -> Conn \cup {Nil}], NEW u \in User, NEW c \in Conn
    PROVE  LET g == [f EXCEPT ![u] = c]
               n == Cardinality({v \in User : f[v] # Nil})
           IN  Cardinality({v \in User : g[v] # Nil}) = IF f[u] = Nil THEN n + 1 ELSE n
  <1> DEFINE g == [f EXCEPT ![u] = c]
             F == {v \in User : f[v] # Nil}
             G == {v \in User : g[v] # Nil}
  <1>1. G = F \cup {u}
    BY ServerAssumption
  <1>2. IsFiniteSet(F)
    BY ServicesAssumption, FS_Subset
  <1> QED
    BY <1>1, <1>2, FS_AddElement

LEMMA CountRemoves ==
    ASSUME NEW f \in [User -> Conn \cup {Nil}], NEW u \in User, f[u] # Nil
    PROVE  LET g == [f EXCEPT ![u] = Nil]
           IN  Cardinality({v \in User : g[v] # Nil})
                 = Cardinality({v \in User : f[v] # Nil}) - 1
  <1> DEFINE g == [f EXCEPT ![u] = Nil]
             F == {v \in User : f[v] # Nil}
             G == {v \in User : g[v] # Nil}
  <1>1. G = F \ {u} /\ u \in F
    OBVIOUS
  <1>2. IsFiniteSet(F)
    BY ServicesAssumption, FS_Subset
  <1> QED
    BY <1>1, <1>2, FS_RemoveElement

LEMMA HubInitInv == Init => HubInv
  <1> SUFFICES ASSUME Init PROVE HubInv
    OBVIOUS
  <1> USE ServicesAssumption, ServerAssumption DEF Init, ServerInit
  <1>1. ServerTypeOK
    <2>1. /\ clients \in [User -> Conn \cup {Nil}]
          /\ life \in [Conn -> {"idle", "registering", "open", "closed"}]
      OBVIOUS
    <2>2. online \in Int /\ spawned \subseteq Conn /\ closing \subseteq Conn
      OBVIOUS
    <2>3. unregister \in Seq(Conn) /\ Len(unregister) <= QueueSize
      OBVIOUS
    <2>4. routeQueue \in Seq([recipients : SUBSET User, message : Nat]) /\ Len(routeQueue) <= QueueSize
      OBVIOUS
    <2>5. \A c \in Conn : outbound[c] = << >>
      OBVIOUS
    <2>6. << >> \in Seq(Nat) /\ Len(<< >>) <= Outbound
      OBVIOUS
    <2>7. outbound \in [Conn -> Seq(Nat)]
      BY <2>6
    <2>8. \A c \in Conn : Len(outbound[c]) <= Outbound
      BY <2>5, <2>6
    <2>9. done \in BOOLEAN /\ loop = "running" /\ main = "serving"
      OBVIOUS
    <2> QED
      BY <2>1, <2>2, <2>3, <2>4, <2>7, <2>8, <2>9 DEF ServerTypeOK
  <1>2. TableOK /\ ClosedOnce
    BY DEF TableOK, ClosedOnce, Range
  <1>3. {u \in User : clients[u] # Nil} = {}
    OBVIOUS
  <1>4. TableIsLive
    BY <1>3, FS_EmptySet DEF TableIsLive
  <1> QED
    BY <1>1, <1>2, <1>4 DEF HubInv


\* For the table a step is one of these.
HubMove ==
    \/ HubStep
    \/ \E c \in Call : Enqueue(c) \/ EnqueueTool(c)
    \/ ShutdownReturns
    \/ UNCHANGED hubVars /\ main' \in {main, "shutdown", "exited"}

LEMMA StepsAreHubMoves == [Next]_vars => HubMove
  <1> SUFFICES ASSUME [Next]_vars PROVE HubMove
    OBVIOUS
  <1>1. CASE ServiceStep
    BY <1>1 DEF ServiceStep, HubMove, hubVars
  <1>2. CASE HubStep
    BY <1>2 DEF HubMove
  <1>3. ASSUME NEW c \in Conn, ReadMessage(c) \/ PublishEvent(c) PROVE HubMove
    BY <1>3 DEF ReadMessage, PublishEvent, HubMove, hubVars
  <1>4. CASE FetchEvent \/ HandleEvent \/ ConsumeGoesOn
    BY <1>4 DEF FetchEvent, HandleEvent, ConsumeGoesOn, HubMove, hubVars
  <1>5. ASSUME NEW c \in Call, Enqueue(c) \/ EnqueueTool(c) PROVE HubMove
    BY <1>5 DEF HubMove
  <1>6. CASE Signal \/ ShutdownReturns \/ Exit
    BY <1>6 DEF Signal, Exit, HubMove, hubVars
  <1>7. CASE UNCHANGED vars
    BY <1>7 DEF vars, HubMove, hubVars
  <1> QED
    BY <1>1, <1>2, <1>3, <1>4, <1>5, <1>6, <1>7 DEF Next

\* What the table's invariant says of queues is kept where nothing else moves.
LEMMA RouteTyped ==
    ASSUME ServerTypeOK, CallShaped, CallsOnCourse, RecipientsOK, NEW c \in Call,
           Enqueue(c) \/ EnqueueTool(c)
    PROVE  ServerTypeOK'
  <1> USE ServerAssumption
  <1>1. UNCHANGED <<clients, online, life, spawned, closing, unregister, outbound, done, loop, main>>
    BY DEF Enqueue, EnqueueTool
  <1>2. \/ UNCHANGED routeQueue
        \/ CanRoute /\ Route(call[c].val, call[c].id)
    BY DEF Enqueue, EnqueueTool
  <1>3. call[c].val \in SUBSET User
    BY DEF Enqueue, EnqueueTool, RecipientsOK
  <1>4. call[c].id \in Nat
    BY DEF CallsOnCourse
  <1> DEFINE e == [recipients |-> call[c].val, message |-> call[c].id]
             E == [recipients : SUBSET User, message : Nat]
  <1>5. e \in E
    BY <1>3, <1>4
  <1>6. routeQueue \in Seq(E) /\ Len(routeQueue) <= QueueSize
    BY DEF ServerTypeOK
  <1>7. UNCHANGED routeQueue \/ (Len(routeQueue) < QueueSize /\ routeQueue' = Append(routeQueue, e))
    BY <1>2 DEF CanRoute, Route
  <1> HIDE DEF e, E
  <1>8. routeQueue' \in Seq(E) /\ Len(routeQueue') <= QueueSize
    BY <1>5, <1>6, <1>7
  <1> QED
    BY <1>1, <1>8 DEF ServerTypeOK, E

LEMMA ServerTypesKept ==
    ASSUME ServerTypeOK, main' = main, HubStep
    PROVE  ServerTypeOK'
  <1> USE ServicesAssumption, ServerAssumption
  <1>1. ASSUME NEW c \in Conn, Connect(c) PROVE ServerTypeOK'
    BY <1>1, AppendRange, TailRange DEF Connect, ServerTypeOK
  <1>2. ASSUME NEW c \in Conn, RegisterRefused(c) \/ SocketFails(c) PROVE ServerTypeOK'
    BY <1>2, AppendRange, TailRange DEF RegisterRefused, SocketFails, BeginClose, ServerTypeOK
  <1>3. ASSUME NEW c \in Conn, SpawnedClose(c) PROVE ServerTypeOK'
    BY <1>3, AppendRange, TailRange DEF SpawnedClose, BeginClose, ServerTypeOK
  <1>4. ASSUME NEW c \in Conn, UnregisterClient(c) PROVE ServerTypeOK'
    <2>1. /\ UNCHANGED <<clients, online, life, spawned, routeQueue, outbound, done, loop, main>>
          /\ closing' = closing \ {c}
          /\ UNCHANGED unregister \/ (Len(unregister) < QueueSize /\ unregister' = Append(unregister, c))
      BY <1>4 DEF UnregisterClient
    <2>2. unregister \in Seq(Conn) /\ Len(unregister) <= QueueSize
      BY DEF ServerTypeOK
    <2>3. unregister' \in Seq(Conn) /\ Len(unregister') <= QueueSize
      BY <2>1, <2>2
    <2> QED
      BY <2>1, <2>3 DEF ServerTypeOK
  <1>5. ASSUME NEW c \in Conn, Write(c) PROVE ServerTypeOK'
    BY <1>5, AppendRange, TailRange DEF Write, ServerTypeOK
  <1>6. ASSUME NEW c \in Conn, RegisterClient(c) PROVE ServerTypeOK'
    BY <1>6, AppendRange, TailRange DEF RegisterClient, ServerTypeOK
  <1>7. CASE LoopUnregister
    <2>1. /\ UNCHANGED <<life, spawned, closing, routeQueue, outbound, done, loop, main>>
          /\ unregister # << >> /\ unregister' = Tail(unregister)
          /\ RemoveClient(Head(unregister))
      BY <1>7 DEF LoopUnregister
    <2>2. unregister \in Seq(Conn) /\ Len(unregister) <= QueueSize
      BY DEF ServerTypeOK
    <2>3. unregister' \in Seq(Conn) /\ Len(unregister') <= QueueSize
      BY <2>1, <2>2
    <2>4. clients' \in [User -> Conn \cup {Nil}] /\ online' \in Int
      <3>1. clients \in [User -> Conn \cup {Nil}] /\ online \in Int
        BY DEF ServerTypeOK
      <3>2. PICK u : clients' = [clients EXCEPT ![u] = Nil] \/ clients' = clients
        BY <2>1 DEF RemoveClient
      <3>3. online' = online - 1 \/ online' = online
        BY <2>1 DEF RemoveClient
      <3> QED
        BY <3>1, <3>2, <3>3
    <2> QED
      BY <2>1, <2>3, <2>4 DEF ServerTypeOK
  <1>8. CASE LoopRoute
    <2> DEFINE E == [recipients : SUBSET User, message : Nat]
               S == Head(routeQueue).recipients
               m == Head(routeQueue).message
               T == {clients[u] : u \in S} \ {Nil}
               Live == {x \in T : life[x] # "closed"}
               Full == {x \in Live : Len(outbound[x]) = Outbound}
    <2>1. /\ UNCHANGED <<clients, online, life, closing, unregister, done, loop, main>>
          /\ routeQueue # << >> /\ routeQueue' = Tail(routeQueue)
          /\ outbound' = [x \in Conn |-> IF x \in Live \ Full THEN Append(outbound[x], m) ELSE outbound[x]]
          /\ spawned' = spawned \cup Full
      BY <1>8 DEF LoopRoute, Deliver
    <2>2. routeQueue \in Seq(E) /\ Len(routeQueue) <= QueueSize
      BY DEF ServerTypeOK
    <2>3. Head(routeQueue) \in E /\ routeQueue' \in Seq(E) /\ Len(routeQueue') <= QueueSize
      <3> HIDE DEF E
      <3> QED
        BY <2>1, <2>2
    <2>4. S \subseteq User /\ m \in Nat
      BY <2>3
    <2> HIDE DEF S, m
    <2>5. T \subseteq Conn
      BY <2>4 DEF ServerTypeOK
    <2>6. spawned' \subseteq Conn
      BY <2>1, <2>5 DEF ServerTypeOK
    <2>7. \A x \in Conn : outbound[x] \in Seq(Nat) /\ Len(outbound[x]) <= Outbound
      BY DEF ServerTypeOK
    <2>8. \A x \in Conn : x \in Live \ Full => Len(outbound[x]) # Outbound
      OBVIOUS
    <2> HIDE DEF Live, Full
    <2>9. ASSUME NEW x \in Conn PROVE outbound'[x] \in Seq(Nat) /\ Len(outbound'[x]) <= Outbound
      <3>1. Len(outbound[x]) \in Nat /\ Append(outbound[x], m) \in Seq(Nat)
            /\ Len(Append(outbound[x], m)) = Len(outbound[x]) + 1
        BY <2>4, <2>7
      <3> QED
        BY <2>1, <2>7, <2>8, <3>1
    <2>10. outbound' \in [Conn -> Seq(Nat)]
      <3>1. outbound' = [x \in Conn |-> outbound'[x]]
        BY <2>1
      <3> QED
        BY <2>9, <3>1
    <2> QED
      BY <2>1, <2>3, <2>6, <2>9, <2>10 DEF ServerTypeOK
  <1>9. CASE CloseClients
    BY <1>9, AppendRange, TailRange DEF CloseClients, BeginClose, ServerTypeOK
  <1>10. CASE LoopStops
    BY <1>10, AppendRange, TailRange DEF LoopStops, ServerTypeOK
  <1> QED
    BY <1>1, <1>2, <1>3, <1>4, <1>5, <1>6, <1>7, <1>8, <1>9, <1>10 DEF HubStep, SocketStep,
                                                                       LoopStep

LEMMA TableKept ==
    ASSUME ServerTypeOK, TableOK, HubStep
    PROVE  TableOK'
  <1> USE ServicesAssumption, ServerAssumption
  <1>1. ASSUME NEW c \in Conn, Connect(c) PROVE TableOK'
    BY <1>1 DEF Connect, ServerTypeOK, TableOK
  <1>2. ASSUME NEW c \in Conn, RegisterRefused(c) \/ SocketFails(c) PROVE TableOK'
    BY <1>2 DEF RegisterRefused, SocketFails, BeginClose, ServerTypeOK, TableOK
  <1>3. ASSUME NEW c \in Conn, SpawnedClose(c) PROVE TableOK'
    BY <1>3 DEF SpawnedClose, BeginClose, ServerTypeOK, TableOK
  <1>4. ASSUME NEW c \in Conn, UnregisterClient(c) PROVE TableOK'
    BY <1>4 DEF UnregisterClient, ServerTypeOK, TableOK
  <1>5. ASSUME NEW c \in Conn, Write(c) PROVE TableOK'
    BY <1>5 DEF Write, ServerTypeOK, TableOK
  <1>6. ASSUME NEW c \in Conn, RegisterClient(c) PROVE TableOK'
    BY <1>6 DEF RegisterClient, ServerTypeOK, TableOK
  <1>7. CASE LoopUnregister
    BY <1>7 DEF LoopUnregister, RemoveClient, ServerTypeOK, TableOK
  <1>8. CASE LoopRoute
    BY <1>8 DEF LoopRoute, Deliver, ServerTypeOK, TableOK
  <1>9. CASE CloseClients
    BY <1>9 DEF CloseClients, BeginClose, ServerTypeOK, TableOK
  <1>10. CASE LoopStops
    BY <1>10 DEF LoopStops, ServerTypeOK, TableOK
  <1> QED
    BY <1>1, <1>2, <1>3, <1>4, <1>5, <1>6, <1>7, <1>8, <1>9, <1>10 DEF HubStep, SocketStep,
                                                                       LoopStep

LEMMA ClosedKept ==
    ASSUME ServerTypeOK, ClosedOnce, HubStep
    PROVE  ClosedOnce'
  <1> USE ServicesAssumption, ServerAssumption
  <1>1. ASSUME NEW c \in Conn, Connect(c) PROVE ClosedOnce'
    BY <1>1, AppendRange, TailRange DEF Connect, ServerTypeOK, ClosedOnce
  <1>2. ASSUME NEW c \in Conn, RegisterRefused(c) \/ SocketFails(c) PROVE ClosedOnce'
    BY <1>2, AppendRange, TailRange DEF RegisterRefused, SocketFails, BeginClose, ServerTypeOK,
                                        ClosedOnce
  <1>3. ASSUME NEW c \in Conn, SpawnedClose(c) PROVE ClosedOnce'
    BY <1>3, AppendRange, TailRange DEF SpawnedClose, BeginClose, ServerTypeOK, ClosedOnce
  <1>4. ASSUME NEW c \in Conn, UnregisterClient(c) PROVE ClosedOnce'
    <2>1. /\ c \in closing /\ closing' = closing \ {c} /\ UNCHANGED life
          /\ unregister' = Append(unregister, c) \/ UNCHANGED unregister
      BY <1>4 DEF UnregisterClient
    <2>2. Range(unregister') \subseteq Range(unregister) \cup {c}
      <3>1. unregister \in Seq(Conn)
        BY DEF ServerTypeOK
      <3>2. Range(Append(unregister, c)) = Range(unregister) \cup {c}
        BY <3>1, AppendRange
      <3>3. CASE unregister' = Append(unregister, c)
        BY <3>2, <3>3
      <3>4. CASE unregister' = unregister
        BY <3>4
      <3> QED
        BY <2>1, <3>3, <3>4
    <2> QED
      BY <2>1, <2>2 DEF ClosedOnce
  <1>5. ASSUME NEW c \in Conn, Write(c) PROVE ClosedOnce'
    BY <1>5, AppendRange, TailRange DEF Write, ServerTypeOK, ClosedOnce
  <1>6. ASSUME NEW c \in Conn, RegisterClient(c) PROVE ClosedOnce'
    BY <1>6, AppendRange, TailRange DEF RegisterClient, ServerTypeOK, ClosedOnce
  <1>7. CASE LoopUnregister
    BY <1>7, AppendRange, TailRange DEF LoopUnregister, RemoveClient, ServerTypeOK, ClosedOnce
  <1>8. CASE LoopRoute
    BY <1>8, AppendRange, TailRange DEF LoopRoute, Deliver, ServerTypeOK, ClosedOnce
  <1>9. CASE CloseClients
    BY <1>9, AppendRange, TailRange DEF CloseClients, BeginClose, ServerTypeOK, ClosedOnce
  <1>10. CASE LoopStops
    BY <1>10, AppendRange, TailRange DEF LoopStops, ServerTypeOK, ClosedOnce
  <1> QED
    BY <1>1, <1>2, <1>3, <1>4, <1>5, <1>6, <1>7, <1>8, <1>9, <1>10 DEF HubStep, SocketStep,
                                                                       LoopStep

(* The three parts of TableIsLive. *)

Counted == loop = "running" => online = Cardinality({u \in User : clients[u] # Nil})

Reached ==
    loop = "running" =>
      \A c \in Conn : life[c] = "open" => clients[UserOf[c]] = c \/ c \in spawned

Leaving ==
    loop = "running" =>
      \A c \in Conn : clients[UserOf[c]] = c /\ life[c] = "closed" =>
        c \in closing \/ c \in Range(unregister) \/ done

LEMMA CountKept ==
    ASSUME ServerTypeOK, Counted, HubStep
    PROVE  Counted'
  <1> USE ServicesAssumption, ServerAssumption
  <1>1. ASSUME NEW c \in Conn, Connect(c) PROVE Counted'
    BY <1>1 DEF Connect, Counted
  <1>2. ASSUME NEW c \in Conn, RegisterRefused(c) \/ SocketFails(c) PROVE Counted'
    BY <1>2 DEF RegisterRefused, SocketFails, BeginClose, Counted
  <1>3. ASSUME NEW c \in Conn, SpawnedClose(c) PROVE Counted'
    BY <1>3 DEF SpawnedClose, BeginClose, Counted
  <1>4. ASSUME NEW c \in Conn, UnregisterClient(c) PROVE Counted'
    BY <1>4 DEF UnregisterClient, Counted
  <1>5. ASSUME NEW c \in Conn, Write(c) PROVE Counted'
    BY <1>5 DEF Write, Counted
  <1>6. ASSUME NEW c \in Conn, RegisterClient(c) PROVE Counted'
    <2>1. UserOf[c] \in User /\ clients \in [User -> Conn \cup {Nil}]
      BY <1>6 DEF ServerTypeOK
    <2>2. PICK u \in User : u = UserOf[c]
      BY <2>1
    <2>3. /\ loop = "running" /\ clients' = [clients EXCEPT ![u] = c]
          /\ online' = IF clients[u] = Nil THEN online + 1 ELSE online
      BY <1>6, <2>2 DEF RegisterClient
    <2>4. Cardinality({x \in User : clients'[x] # Nil}) =
            IF clients[u] = Nil THEN Cardinality({x \in User : clients[x] # Nil}) + 1
            ELSE Cardinality({x \in User : clients[x] # Nil})
      BY <1>6, <2>1, <2>3, CountAdds
    <2>5. online = Cardinality({x \in User : clients[x] # Nil})
      BY <2>3 DEF Counted
    <2>6. online' = Cardinality({x \in User : clients'[x] # Nil})
      BY <2>3, <2>4, <2>5
    <2> QED
      BY <2>6 DEF Counted
  <1>7. CASE LoopUnregister
    <2>1. unregister \in Seq(Conn) /\ unregister # << >> /\ clients \in [User -> Conn \cup {Nil}]
      BY <1>7 DEF ServerTypeOK, LoopUnregister
    <2>2. PICK c \in Conn : c = Head(unregister)
      BY <2>1, TailRange
    <2>3. loop = "running" /\ RemoveClient(c)
      BY <1>7, <2>2 DEF LoopUnregister
    <2>4. CASE clients[UserOf[c]] # c
      <3>1. UNCHANGED <<clients, online, loop>>
        BY <1>7, <2>3, <2>4 DEF RemoveClient, LoopUnregister
      <3> QED
        BY <3>1 DEF Counted
    <2>5. CASE clients[UserOf[c]] = c
      <3>1. PICK u \in User : u = UserOf[c]
        OBVIOUS
      <3>2. clients' = [clients EXCEPT ![u] = Nil] /\ online' = online - 1 /\ clients[u] # Nil
        BY <2>3, <2>5, <3>1 DEF RemoveClient
      <3>3. Cardinality({x \in User : clients'[x] # Nil}) = Cardinality({x \in User : clients[x] # Nil}) - 1
        BY <2>1, <3>2, CountRemoves
      <3>4. online = Cardinality({x \in User : clients[x] # Nil})
        BY <2>3 DEF Counted
      <3>5. online' = Cardinality({x \in User : clients'[x] # Nil})
        BY <3>2, <3>3, <3>4
      <3> QED
        BY <3>5 DEF Counted
    <2> QED
      BY <2>4, <2>5
  <1>8. CASE LoopRoute
    BY <1>8 DEF LoopRoute, Deliver, Counted
  <1>9. CASE CloseClients
    BY <1>9 DEF CloseClients, BeginClose, Counted
  <1>10. CASE LoopStops
    BY <1>10 DEF LoopStops, Counted
  <1> QED
    BY <1>1, <1>2, <1>3, <1>4, <1>5, <1>6, <1>7, <1>8, <1>9, <1>10 DEF HubStep, SocketStep,
                                                                       LoopStep

LEMMA ReachedKept ==
    ASSUME ServerTypeOK, TableOK, ClosedOnce, Reached, HubStep
    PROVE  Reached'
  <1> USE ServicesAssumption, ServerAssumption
  <1>1. ASSUME NEW c \in Conn, Connect(c) PROVE Reached'
    BY <1>1 DEF Connect, ServerTypeOK, Reached
  <1>2. ASSUME NEW c \in Conn, RegisterRefused(c) \/ SocketFails(c) PROVE Reached'
    BY <1>2 DEF RegisterRefused, SocketFails, BeginClose, ServerTypeOK, Reached
  <1>3. ASSUME NEW c \in Conn, SpawnedClose(c) PROVE Reached'
    BY <1>3 DEF SpawnedClose, BeginClose, ServerTypeOK, Reached
  <1>4. ASSUME NEW c \in Conn, UnregisterClient(c) PROVE Reached'
    BY <1>4 DEF UnregisterClient, ServerTypeOK, Reached
  <1>5. ASSUME NEW c \in Conn, Write(c) PROVE Reached'
    BY <1>5 DEF Write, ServerTypeOK, Reached
  <1>6. ASSUME NEW c \in Conn, RegisterClient(c) PROVE Reached'
    BY <1>6 DEF RegisterClient, ServerTypeOK, Reached
  <1>7. CASE LoopUnregister
    <2>1. unregister \in Seq(Conn) /\ unregister # << >> /\ clients \in [User -> Conn \cup {Nil}]
      BY <1>7 DEF ServerTypeOK, LoopUnregister
    <2>2. PICK c \in Conn : c = Head(unregister) /\ c \in Range(unregister)
      BY <2>1, TailRange
    <2>3. life[c] = "closed"
      BY <2>2 DEF ClosedOnce
    <2>4. RemoveClient(c) /\ loop = "running" /\ UNCHANGED <<life, spawned>>
      BY <1>7, <2>2 DEF LoopUnregister
    <2>5. \A d \in Conn : d # c /\ clients[UserOf[d]] = d => clients'[UserOf[d]] = d
      BY <2>1, <2>4 DEF RemoveClient
    <2> QED
      BY <2>3, <2>4, <2>5 DEF Reached
  <1>8. CASE LoopRoute
    BY <1>8 DEF LoopRoute, Deliver, ServerTypeOK, Reached
  <1>9. CASE CloseClients
    BY <1>9 DEF CloseClients, BeginClose, ServerTypeOK, Reached
  <1>10. CASE LoopStops
    BY <1>10 DEF LoopStops, ServerTypeOK, Reached
  <1> QED
    BY <1>1, <1>2, <1>3, <1>4, <1>5, <1>6, <1>7, <1>8, <1>9, <1>10 DEF HubStep, SocketStep,
                                                                       LoopStep

LEMMA LeavingKept ==
    ASSUME ServerTypeOK, ClosedOnce, Leaving, HubStep
    PROVE  Leaving'
  <1> USE ServicesAssumption, ServerAssumption
  <1>1. ASSUME NEW c \in Conn, Connect(c) PROVE Leaving'
    BY <1>1 DEF Connect, ServerTypeOK, Leaving
  <1>2. ASSUME NEW c \in Conn, RegisterRefused(c) \/ SocketFails(c) PROVE Leaving'
    BY <1>2 DEF RegisterRefused, SocketFails, BeginClose, ServerTypeOK, Leaving
  <1>3. ASSUME NEW c \in Conn, SpawnedClose(c) PROVE Leaving'
    BY <1>3 DEF SpawnedClose, BeginClose, ServerTypeOK, Leaving
  <1>4. ASSUME NEW c \in Conn, UnregisterClient(c) PROVE Leaving'
    <2>1. /\ UNCHANGED <<clients, life, loop, done>> /\ closing' = closing \ {c}
          /\ unregister' = Append(unregister, c) \/ (done /\ UNCHANGED unregister)
      BY <1>4 DEF UnregisterClient
    <2>2. unregister \in Seq(Conn)
      BY DEF ServerTypeOK
    <2>3. Range(Append(unregister, c)) = Range(unregister) \cup {c}
      BY <1>4, <2>2, AppendRange
    <2>4. CASE unregister' = Append(unregister, c)
      BY <2>1, <2>3, <2>4 DEF Leaving
    <2>5. CASE done /\ UNCHANGED unregister
      BY <2>1, <2>5 DEF Leaving
    <2> QED
      BY <2>1, <2>4, <2>5
  <1>5. ASSUME NEW c \in Conn, Write(c) PROVE Leaving'
    BY <1>5 DEF Write, ServerTypeOK, Leaving
  <1>6. ASSUME NEW c \in Conn, RegisterClient(c) PROVE Leaving'
    BY <1>6 DEF RegisterClient, ServerTypeOK, Leaving
  <1>7. CASE LoopUnregister
    <2>1. unregister \in Seq(Conn) /\ unregister # << >> /\ clients \in [User -> Conn \cup {Nil}]
      BY <1>7 DEF ServerTypeOK, LoopUnregister
    <2>2. PICK c \in Conn : /\ c = Head(unregister)
                            /\ Range(unregister) \subseteq Range(Tail(unregister)) \cup {c}
      BY <2>1, TailRange
    <2>3. /\ RemoveClient(c) /\ loop = "running" /\ UNCHANGED <<life, closing, done, loop>>
          /\ unregister' = Tail(unregister)
      BY <1>7, <2>2 DEF LoopUnregister
    <2>4. clients'[UserOf[c]] # c
      BY <2>1, <2>3 DEF RemoveClient
    <2>5. \A d \in Conn : clients'[UserOf[d]] = d => clients[UserOf[d]] = d
      BY <2>1, <2>3 DEF RemoveClient
    <2>6. \A d \in Conn : d # c /\ d \in Range(unregister) => d \in Range(unregister')
      BY <2>2, <2>3
    <2> QED
      BY <2>3, <2>4, <2>5, <2>6 DEF Leaving
  <1>8. CASE LoopRoute
    BY <1>8 DEF LoopRoute, Deliver, ServerTypeOK, Leaving
  <1>9. CASE CloseClients
    BY <1>9 DEF CloseClients, BeginClose, ServerTypeOK, Leaving
  <1>10. CASE LoopStops
    BY <1>10 DEF LoopStops, ServerTypeOK, Leaving
  <1> QED
    BY <1>1, <1>2, <1>3, <1>4, <1>5, <1>6, <1>7, <1>8, <1>9, <1>10 DEF HubStep, SocketStep,
                                                                       LoopStep

LEMMA HubInvKept ==
    ASSUME HubInv, CallShaped, CallsOnCourse, RecipientsOK, HubMove
    PROVE  HubInv'
  <1>0. /\ ServerTypeOK /\ TableOK /\ ClosedOnce /\ TableIsLive
        /\ Counted /\ Reached /\ Leaving
    BY DEF HubInv, TableIsLive, Counted, Reached, Leaving
  <1>1. CASE HubStep
    <2>1. ServerTypeOK' /\ TableOK' /\ ClosedOnce'
      BY <1>0, <1>1, ServerTypesKept, TableKept, ClosedKept DEF HubStep
    <2>2. Counted' /\ Reached' /\ Leaving'
      BY <1>0, <1>1, CountKept, ReachedKept, LeavingKept
    <2> QED
      BY <2>1, <2>2 DEF HubInv, TableIsLive, Counted, Reached, Leaving
  <1>2. ASSUME NEW c \in Call, Enqueue(c) \/ EnqueueTool(c) PROVE HubInv'
    <2>1. UNCHANGED <<clients, online, life, spawned, closing, unregister, done, loop>>
      BY <1>2 DEF Enqueue, EnqueueTool
    <2>2. ServerTypeOK'
      BY <1>0, <1>2, RouteTyped
    <2> QED
      BY <1>0, <2>1, <2>2 DEF HubInv, TableOK, ClosedOnce, TableIsLive
  <1>3. CASE ShutdownReturns
    <2>1. /\ UNCHANGED <<clients, online, life, spawned, closing, unregister, routeQueue, outbound, loop>>
          /\ done' = TRUE /\ main' = "closing"
      BY <1>3 DEF ShutdownReturns, CloseServer
    <2> QED
      BY <1>0, <2>1 DEF HubInv, ServerTypeOK, TableOK, ClosedOnce, TableIsLive
  <1>4. CASE UNCHANGED hubVars /\ main' \in {main, "shutdown", "exited"}
    BY <1>0, <1>4 DEF HubInv, ServerTypeOK, TableOK, ClosedOnce, TableIsLive, hubVars
  <1> QED
    BY <1>1, <1>2, <1>3, <1>4 DEF HubMove

-----------------------------------------------------------------------------
(* the theorems *)

LEMMA ServerInitInv == Init => ServerInv
  <1> SUFFICES ASSUME Init PROVE ServerInv
    OBVIOUS
  <1>1. /\ cache = [k \in Key |-> Nil] /\ call = [c \in Call |-> Idle]
        /\ entitled = {} /\ late = {}
        /\ RequestsOK /\ RowsOK /\ AccessOK
    BY DEF Init, ServicesInit
  <1>2. /\ Idle.pc = "idle" /\ Idle.val = Nil /\ Idle.key = Nil /\ Idle.then = "none"
    BY DEF Idle
  <1>3. Idle.id = 0 /\ Idle.status = 0
    BY DEF Idle
  <1>4. \A c \in Call : call[c] = Idle
    BY <1>1
  <1>5. CallShaped
    BY <1>1, <1>4 DEF CallShaped, Idle
  <1>6. CacheShaped
    BY <1>1 DEF CacheShaped
  <1>7. \A c \in Call : OnCourse(c)
    BY <1>2, <1>4 DEF OnCourse, Fetching, Appending, At
  <1>8. CallsOnCourse
    BY <1>3, <1>4, <1>7 DEF CallsOnCourse
  <1>9. RecipientsOK
    <2>1. cache[<<"info", Group>>] = Nil
      BY <1>1, GroupKeys
    <2> QED
      BY <1>2, <1>4, <2>1 DEF RecipientsOK
  <1>10. \A c \in Call : ToolOnCourse(c)
    BY <1>2, <1>4 DEF ToolOnCourse, Fetching, Appending, At
  <1>11. ToolsOnCourse
    BY <1>1, <1>10 DEF ToolsOnCourse
  <1>12. AssistantWithinRights
    BY <1>2, <1>3, <1>4 DEF AssistantWithinRights, Touched
  <1>13. StaleOnlyIfOvertaken
    BY <1>1 DEF StaleOnlyIfOvertaken
  <1>14. StatusDeclared
    BY <1>2, <1>4 DEF StatusDeclared
  <1> QED
    BY <1>1, <1>5, <1>6, <1>8, <1>9, <1>11, <1>12, <1>13, <1>14 DEF ServerInv

LEMMA ServerInvKept ==
    ASSUME ServerInv, ServiceMove
    PROVE  ServerInv'
  <1>1. /\ RequestsOK /\ GroupOK /\ MessagesOK /\ AccessOK /\ CallShaped /\ CacheShaped
        /\ CallsOnCourse /\ RecipientsOK /\ ToolsOnCourse /\ AssistantWithinRights
        /\ StaleOnlyIfOvertaken /\ StatusDeclared
    BY DEF ServerInv, RowsOK
  <1>2. RequestsOK' /\ GroupOK' /\ MessagesOK' /\ AccessOK'
    BY RequestsKept, GroupKept, MessagesKept, AccessKept
  <1>3. CallShaped' /\ CallsOnCourse' /\ StatusDeclared'
    BY <1>1, CallsKept, StatusKept
  <1>4. CacheShaped' /\ RecipientsOK'
    BY <1>1, CacheShapeKept, RecipientsKept
  <1>5. ToolsOnCourse'
    BY <1>1, <1>2, ToolsKept
  <1>6. AssistantWithinRights'
    BY <1>1, <1>2, <1>5, RightsKept
  <1>7. StaleOnlyIfOvertaken'
    BY <1>1, <1>2, StaleKept
  <1> QED
    BY <1>2, <1>3, <1>4, <1>5, <1>6, <1>7 DEF ServerInv, RowsOK

\* The inductive invariant of the server: requests, rows, cache and calls, and
\* the table of connections, whatever requests, sockets, events, failures and
\* the shutdown interleave (gormservice, redisservice, chatservice).
THEOREM ServerInvariant == Spec => [](ServerInv /\ HubInv)
  <1>1. Init => ServerInv /\ HubInv
    BY ServerInitInv, HubInitInv
  <1>2. ServerInv /\ HubInv /\ [Next]_vars => (ServerInv /\ HubInv)'
    <2> SUFFICES ASSUME ServerInv, HubInv, [Next]_vars PROVE ServerInv' /\ HubInv'
      OBVIOUS
    <2>1. ServiceMove /\ HubMove
      BY StepsAreMoves, StepsAreHubMoves
    <2>2. ServerInv'
      BY <2>1, ServerInvKept
    <2>3. CallShaped /\ CallsOnCourse /\ RecipientsOK
      BY DEF ServerInv
    <2>4. HubInv'
      BY <2>1, <2>3, HubInvKept
    <2> QED
      BY <2>2, <2>4
  <1> QED
    BY <1>1, <1>2, PTL DEF Spec

\* The members of the group, the contact rows, the session rows and the count
\* agree after any joins, approvals and departures (JoinGroup, LeaveGroup,
\* ApproveGroupJoin).
THEOREM GroupRowsAgree == Spec => []RowsAgree
  <1>1. ServerInv => RowsAgree
    BY DEF ServerInv, RowsOK, GroupOK
  <1> QED
    BY <1>1, ServerInvariant, PTL

\* A cache entry that has become wrong is about to be repaired by the request
\* that changed the rows, or was wrong when it was written (Delete after
\* commit, AppendJSON).
THEOREM OvertakenOnly == Spec => []StaleOnlyIfOvertaken
  <1>1. ServerInv => StaleOnlyIfOvertaken
    BY DEF ServerInv
  <1> QED
    BY <1>1, ServerInvariant, PTL

\* Every status a controller answers is one its route declares (legacyRoutes).
THEOREM AnswersAreDeclared == Spec => []StatusDeclared
  <1>1. ServerInv => StatusDeclared
    BY DEF ServerInv
  <1> QED
    BY <1>1, ServerInvariant, PTL

\* A tool reads and writes only in sessions that were the user's and allowed at
\* some moment of the call (ensureSessionAccess, SendMessage).
THEOREM AssistantKeepsToRights == Spec => []AssistantWithinRights
  <1>1. ServerInv => AssistantWithinRights
    BY DEF ServerInv
  <1> QED
    BY <1>1, ServerInvariant, PTL

\* The table of connections and the online count are right while the owner loop
\* runs (Start, removeClient).
THEOREM TableStaysLive == Spec => []TableIsLive
  <1>1. HubInv => TableIsLive
    BY DEF HubInv
  <1> QED
    BY <1>1, ServerInvariant, PTL

=============================================================================
