---------------------------- MODULE ChatServices ----------------------------
(* The business services of the single-process chat server: gormservice over  *)
(* MySQL, redisservice as a cache in front of it, and the HTTP controllers    *)
(* that call them. One group, its owner and the other users; every request    *)
(* is a sequence of SQL statements, transactions and Redis commands, and      *)
(* requests interleave between them.                                          *)
EXTENDS Integers, Sequences, FiniteSets, SequencesExt

CONSTANTS
    User,     \* people with a telephone number, registered or not
    Owner,    \* the user who creates the group
    Group,    \* the group, as a destination
    Call,     \* requests, each handled by a goroutine of its own
    Nil

\* group_info: the members, member_count and add_mode.
Mode     == {"direct", "approve", "forbidden"}
GroupRow == [members : SUBSET User, count : 0..Cardinality(User), mode : Mode]

ASSUME ServicesAssumption ==
    /\ IsFiniteSet(User)
    /\ Owner \in User
    /\ Group \notin User
    /\ Nil \notin User \cup {Group}
    /\ \A row \in GroupRow : row # Nil

VARIABLES
    users,      \* user_info: who is registered
    tokens,     \* who has been given a token
    group,      \* group_info: Nil or [members, count, mode]
    contacts,   \* user_contact: the users with a row for the group
    gsessions,  \* session: the users with a row for the group
    sessions,   \* session: the pairs with a direct session
    applies,    \* contact_apply: pending applications of each user
    log,        \* message: rows [from, to, ai] in the order of their ids
    access,     \* user_ai_session_access: <<user, session>>, see Assistant
    cache,      \* Redis: what each key holds, Nil when absent
    req,        \* the request of each call
    call,       \* where each call is
    late,       \* history: keys whose entry was wrong when it was written
    entitled    \* history: <<call, session>>, the assistant was allowed the
                \* session at some moment of the call

rows == <<users, tokens, group, contacts, gsessions, sessions, applies, log, access>>
history == <<late, entitled>>
serviceVars == <<rows, cache, req, call, history>>

Pairs == {p \in SUBSET User : Cardinality(p) = 2}
Dest  == Pairs \cup {Group}

-----------------------------------------------------------------------------
(* keys and what they cache *)

Key ==
    ({"info"} \X {Group})
      \cup ({"joined", "owned", "gsession", "session", "user"} \X User)
      \cup ({"list"} \X Dest)

\* The rows to a destination.
RowsTo(d) == {i \in 1..Len(log) : log[i].to = d}

\* A list of messages: their ids, and whether they stand in it in the order of
\* the ids, each of them once.
Listed(S) == [ids |-> S, inOrder |-> TRUE]
Appended(list, id) ==
    [ids |-> list.ids \cup {id}, inOrder |-> list.inOrder /\ \A i \in list.ids : i < id]

DirectMessages(pair) == Listed(RowsTo(pair))
GroupMessages == Listed(RowsTo(Group))

\* GetGroup: only a group that exists is answered and cached.
GroupResponse == IF group = Nil THEN Nil ELSE group.members

\* GetJoinedGroupList: through user_contact, each group with its members.
JoinedGroups(u) == IF group # Nil /\ u \in contacts THEN {group.members} ELSE {}

OwnedGroups(u) == IF group # Nil /\ u = Owner THEN {group.members} ELSE {}

GroupSessions(u) == u \in gsessions

UserSessions(u) == {v \in User : {u, v} \in sessions /\ v # u}

UserInfo(u) == IF u \in users THEN u ELSE Nil

\* What the query behind a key answers.
View(k) ==
    CASE k[1] = "info"     -> GroupResponse
      [] k[1] = "joined"   -> JoinedGroups(k[2])
      [] k[1] = "owned"    -> OwnedGroups(k[2])
      [] k[1] = "gsession" -> GroupSessions(k[2])
      [] k[1] = "session"  -> UserSessions(k[2])
      [] k[1] = "user"     -> UserInfo(k[2])
      [] OTHER -> IF k[2] = Group THEN GroupMessages ELSE DirectMessages(k[2])

\* Mutant: a departure leaves the group's entry alone.
DeletesLess(r) ==
    CASE r.op = "create"  -> {<<"owned", r.u>>, <<"joined", r.u>>, <<"info", Group>>}
      [] r.op = "join"    -> {<<"info", Group>>, <<"joined", r.u>>}
      [] r.op = "leave"   -> {<<"joined", r.u>>, <<"gsession", r.u>>}
      [] r.op = "approve" -> {<<"info", Group>>, <<"joined", r.v>>, <<"gsession", r.v>>}
      [] r.op = "open"    -> {<<"session", r.u>>, <<"session", r.v>>}
      [] r.op = "send"    -> {<<"session", r.u>>, <<"session", r.v>>} \cap Key
      [] r.op = "sendAIMessage" -> {"session"} \X ({r.u} \cup (IF r.v = Group THEN {} ELSE r.v))
      [] OTHER            -> {}

\* The keys a request deletes when it has committed. GroupMemberListKey and
\* SessionPairKey are deleted too; nothing reads them.
Deletes(r) ==
    CASE r.op = "create"  -> {<<"owned", r.u>>, <<"joined", r.u>>, <<"info", Group>>}
      [] r.op = "join"    -> {<<"info", Group>>, <<"joined", r.u>>}
      [] r.op = "leave"   -> {<<"info", Group>>, <<"joined", r.u>>, <<"gsession", r.u>>}
      [] r.op = "approve" -> {<<"info", Group>>, <<"joined", r.v>>, <<"gsession", r.v>>}
      [] r.op = "open"    -> {<<"session", r.u>>, <<"session", r.v>>}
      [] r.op = "send"    -> {<<"session", r.u>>, <<"session", r.v>>} \cap Key
      [] r.op = "sendAIMessage" -> {"session"} \X ({r.u} \cup (IF r.v = Group THEN {} ELSE r.v))
      [] OTHER            -> {}

-----------------------------------------------------------------------------
(* what the controllers answer *)

\* The status of each error a service returns, by controller.
CreateGroupStatus(err) ==
    CASE err = "ok" -> 201
      [] err = "BadRequest" -> 400
      [] err = "ErrUserNotFound" -> 404
      [] OTHER -> 500

GroupActionStatus(err) ==
    CASE err = "ok" -> 204
      [] err = "BadRequest" -> 400
      [] err = "ErrGroupJoinPending" -> 202
      [] err \in {"ErrGroupJoinForbidden", "ErrGroupOwnerCannotLeave"} -> 403
      [] err \in {"ErrGroupNotFound", "ErrUserNotFound"} -> 404
      [] OTHER -> 500

\* Mutant: an approval without an application is answered as a join is.
ApproveStatusPending(err) ==
    CASE err = "ok" -> 204
      [] err = "BadRequest" -> 400
      [] err = "ErrGroupJoinPending" -> 202
      [] err = "ErrNotGroupAdmin" -> 403
      [] err = "ErrGroupNotFound" -> 404
      [] OTHER -> 500

ApproveStatus(err) ==
    CASE err = "ok" -> 204
      [] err = "BadRequest" -> 400
      [] err = "ErrNotGroupAdmin" -> 403
      [] err = "ErrGroupNotFound" -> 404
      [] OTHER -> 500

GroupInfoStatus(err) ==
    CASE err = "ok" -> 200
      [] err = "BadRequest" -> 400
      [] err = "ErrGroupNotFound" -> 404
      [] OTHER -> 500

\* The first GetGroup of GetGroupMessageList turns every error into 404.
GroupMessageListStatus(err) ==
    CASE err = "ok" -> 200
      [] err = "BadRequest" -> 400
      [] err = "NotAMember" -> 403
      [] err = "ErrGroupNotFound" -> 404
      [] OTHER -> 500

RegisterStatus(err) ==
    CASE err = "ok" -> 202
      [] err \in {"BadRequest", "ErrCreateUserFailed"} -> 400
      [] err \in {"ErrInvalidRegister", "ErrTelephoneExists", "ErrUsernameExists"} -> 409
      [] OTHER -> 502

LoginStatus(err) ==
    CASE err = "ok" -> 200
      [] err \in {"BadRequest", "ErrUserNotFound", "ErrInvalidPassword"} -> 400
      [] OTHER -> 500

UserInfoStatus(err) ==
    CASE err = "ok" -> 200
      [] err = "BadRequest" -> 400
      [] err = "ErrForbidden" -> 403
      [] OTHER -> 500

OpenSessionStatus(err) ==
    CASE err = "ok" -> 200
      [] err \in {"BadRequest", "ErrInvalidSession"} -> 400
      [] err = "ErrUserNotFound" -> 404
      [] OTHER -> 500

MessageListStatus(err) ==
    CASE err = "ok" -> 200
      [] err \in {"BadRequest", "ErrInvalidUUID"} -> 400
      [] err = "NotAMember" -> 403
      [] OTHER -> 500

\* writeAISettingError.
AISettingStatus(err) ==
    CASE err = "ok" -> 200
      [] err \in {"BadRequest", "ErrInvalidSetting"} -> 400
      [] err = "ErrForbidden" -> 403
      [] OTHER -> 500

\* safeToolError: a result, or one of the four errors a tool may answer.
ToolAnswers == {200, 1, 2, 3, 4}
ToolStatus(err) ==
    CASE err = "ok" -> 200
      [] err \in {"BadRequest", "ErrInvalidToolInput"} -> 1
      [] err = "ErrForbidden" -> 2
      [] err = "ErrMessageNotFound" -> 3
      [] OTHER -> 4

ListStatus(err) == IF err = "ok" THEN 200 ELSE 500

SessionListStatus(err) ==
    CASE err = "ok" -> 200
      [] err = "ErrInvalidUUID" -> 400
      [] OTHER -> 500

\* The requests of the assistant, see module Assistant.
AISettings == {"getAISetting", "changeAISetting"}
AITools    == {"listSessions", "getRecentMessages", "searchMessages", "sendAIMessage"}

\* What a request asks of the API: an operation, or the kind of key it reads.
Endpoint(r) == IF r.op = "get" THEN r.v[1] ELSE r.op

StatusOf(r, err) ==
    LET e == Endpoint(r)
    IN  CASE e = "register" -> RegisterStatus(err)
          [] e = "login"    -> LoginStatus(err)
          [] e = "create"   -> CreateGroupStatus(err)
          [] e \in {"join", "leave"} -> GroupActionStatus(err)
          [] e = "approve"  -> ApproveStatus(err)
          [] e = "open"     -> OpenSessionStatus(err)
          [] e = "info"     -> GroupInfoStatus(err)
          [] e = "user"     -> UserInfoStatus(err)
          [] e = "session"  -> SessionListStatus(err)
          [] e \in {"joined", "owned", "gsession"} -> ListStatus(err)
          [] e = "glist"    -> GroupMessageListStatus(err)
          [] e = "list"     -> MessageListStatus(err)
          [] e \in AISettings -> AISettingStatus(err)
          [] e \in AITools   -> ToolStatus(err)
          [] OTHER          -> ListStatus(err)

\* legacyRoutes: the statuses each route is documented with.
Declared(r) ==
    LET e == Endpoint(r)
    IN  CASE e = "register" -> {202, 400, 409, 502}
          [] e = "login"    -> {200, 400, 500}
          [] e = "create"   -> {201, 400, 404, 500}
          [] e \in {"join", "leave"} -> {204, 202, 400, 403, 404, 500}
          [] e = "approve"  -> {204, 400, 403, 404, 500}
          [] e = "open"     -> {200, 400, 403, 404, 500}
          [] e = "info"     -> {200, 400, 404, 500}
          [] e = "user"     -> {200, 400, 403, 409, 500}
          [] e = "session"  -> {200, 400, 500}
          [] e \in {"joined", "owned", "gsession"} -> {200, 500}
          [] e = "glist"    -> {200, 400, 403, 404, 500}
          [] e = "list"     -> {200, 400, 403, 500}
          [] e \in AISettings -> {200, 400, 403, 500}
          [] e \in AITools   -> ToolAnswers
          [] OTHER          -> {200, 500}

\* Routes behind Auth; register and login are open, and a socket's reader was
\* authenticated when it connected.
Authenticated(r) == r.op \notin {"register", "login", "send"}
HasBody(r) == Endpoint(r) \notin {"joined", "owned", "gsession", "session", "send",
                                  "getAISetting"}

-----------------------------------------------------------------------------
(* calls *)

Idle == [pc |-> "idle", key |-> Nil, then |-> "none", val |-> Nil, id |-> 0, status |-> 0]

ServicesInit ==
    /\ cache = [k \in Key |-> Nil]
    /\ call = [c \in Call |-> Idle]
    /\ late = {}
    /\ entitled = {}

Goto(c, p) == call' = [call EXCEPT ![c] = [@ EXCEPT !.pc = p]]

GotoWith(c, p, v) == call' = [call EXCEPT ![c] = [@ EXCEPT !.pc = p, !.val = v]]

GotoStored(c, p, k, i) == call' = [call EXCEPT ![c] = [@ EXCEPT !.pc = p, !.key = k, !.id = i]]

Ended(status) == [Idle EXCEPT !.pc = "ended", !.status = status]

End(c, status) == call' = [call EXCEPT ![c] = Ended(status)]

Answer(c, err) == End(c, StatusOf(req[c], err))

\* Continue at p when the value of k has been obtained.
Want(c, k, p) ==
    call' = [call EXCEPT ![c] = [@ EXCEPT !.pc = "lookup", !.key = k, !.then = p]]

\* A transaction that committed goes on to delete cache keys.
Committed(c) == Goto(c, "delete")

IsDirect(r) == r.op = "send" /\ r.v # Group
DestOf(r) == IF IsDirect(r) THEN {r.u, r.v} ELSE r.v

\* ParseJWT accepts the token Login gave.
Authorized(u) == u \in tokens

\* Auth: no token, or one that has expired by now, never reaches the
\* controller.
Unauthorized(c) ==
    /\ call[c].pc = "idle"
    /\ Authenticated(req[c])
    /\ End(c, 401)
    /\ UNCHANGED <<rows, cache, req, history>>

\* A body that does not bind.
Malformed(c) ==
    /\ call[c].pc = "idle"
    /\ HasBody(req[c])
    /\ Authenticated(req[c]) => Authorized(req[c].u)
    /\ Answer(c, "BadRequest")
    /\ UNCHANGED <<rows, cache, req, history>>

\* The controller calls the service.
Begin(c) ==
    LET r == req[c]
    IN  /\ call[c].pc = "idle"
        /\ r.op \notin AISettings \cup AITools
        /\ Authenticated(r) => Authorized(r.u)
        /\ CASE r.op \in {"register", "login"} -> Goto(c, "check")
             [] r.op \in {"create", "leave", "approve"} -> Goto(c, "tx")
             [] r.op = "join" -> Goto(c, "snapshot")
             [] r.op = "open" -> IF r.u = r.v THEN Answer(c, "ErrInvalidSession")
                                              ELSE Goto(c, "check")
             [] r.op = "get" -> Want(c, r.v, "answer")
             [] r.op = "glist" -> Want(c, <<"info", Group>>, "member")
             [] r.op = "list" -> IF r.u \notin r.v THEN Answer(c, "NotAMember")
                                 ELSE IF r.v \notin Pairs THEN Answer(c, "ErrInvalidUUID")
                                 ELSE Want(c, <<"list", r.v>>, "answer")
             [] IsDirect(r) -> IF r.u = r.v THEN Answer(c, "ErrInvalidUserPair")
                                            ELSE Goto(c, "pair")
             [] OTHER -> Want(c, <<"info", Group>>, "authorize")
        /\ UNCHANGED <<rows, cache, req, history>>

-----------------------------------------------------------------------------
(* users *)

At(c, op, p) == req[c].op = op /\ call[c].pc = p
Sends(c) == req[c].op \in {"send", "sendAIMessage"}

\* Register looks for the telephone and for the nickname, which may be that of any
\* user, and later inserts under the unique index of the telephone.
RegisterCheck(c) ==
    /\ At(c, "register", "check")
    /\ \/ req[c].u \in users /\ Answer(c, "ErrTelephoneExists")
       \/ req[c].u \notin users /\ users # {} /\ Answer(c, "ErrUsernameExists")
       \/ req[c].u \notin users /\ Goto(c, "insert")
    /\ UNCHANGED <<rows, cache, req, history>>

Register(c) ==
    /\ At(c, "register", "insert")
    /\ Answer(c, IF req[c].u \in users THEN "ErrCreateUserFailed" ELSE "ok")
    /\ users' = users \cup {req[c].u}
    /\ UNCHANGED <<tokens, group, contacts, gsessions, sessions, applies, log, access, cache, req, history>>

GenerateToken(u) == tokens' = tokens \cup {u}

\* Login with the right password gives a token.
Login(c) ==
    /\ At(c, "login", "check")
    /\ req[c].u \in users
    /\ GenerateToken(req[c].u)
    /\ Answer(c, "ok")
    /\ UNCHANGED <<users, group, contacts, gsessions, sessions, applies, log, access, cache, req, history>>

LoginRefused(c) ==
    /\ At(c, "login", "check")
    /\ Answer(c, IF req[c].u \in users THEN "ErrInvalidPassword" ELSE "ErrUserNotFound")
    /\ UNCHANGED <<rows, cache, req, history>>

-----------------------------------------------------------------------------
(* the group *)

Member(u) == group # Nil /\ u \in group.members

Enter(u) ==
    /\ group' = [group EXCEPT !.members = @ \cup {u},
                              !.count = Cardinality(group.members \cup {u})]
    /\ contacts' = contacts \cup {u}
    /\ gsessions' = gsessions \cup {u}

\* uk_user_contact or uk_session_users refuses a second row: the transaction
\* is rolled back.
Refused(u) == u \in contacts \/ u \in gsessions

\* The group of this model is created once: another would have another uuid.
CreateGroup(c) ==
    /\ At(c, "create", "tx")
    /\ group = Nil
    /\ IF req[c].u \notin users
       THEN /\ Answer(c, "ErrUserNotFound")
            /\ UNCHANGED <<group, contacts, gsessions>>
       ELSE /\ group' = [members |-> {req[c].u}, count |-> 1, mode |-> req[c].v]
            /\ contacts' = {req[c].u}
            /\ gsessions' = {req[c].u}
            /\ Committed(c)
    /\ UNCHANGED <<users, tokens, sessions, applies, log, access, cache, req, history>>

\* The first statement of JoinGroup's transaction fixes its snapshot: the
\* pending applications it will see.
JoinSnapshot(c) ==
    /\ At(c, "join", "snapshot")
    /\ IF req[c].u \in users
       THEN GotoWith(c, "tx", applies[req[c].u])
       ELSE Answer(c, "ErrUserNotFound")
    /\ UNCHANGED <<rows, cache, req, history>>

\* Mutant: the group is read without FOR UPDATE, before another's commit.
JoinGroupUnlocked(c) ==
    LET u == req[c].u
    IN  /\ At(c, "join", "tx")
        /\ group # Nil
        /\ ~Refused(u)
        /\ \E seen \in SUBSET group.members :
              /\ Owner \in seen
              /\ group' = [group EXCEPT !.members = seen \cup {u}, !.count = Cardinality(seen \cup {u})]
        /\ contacts' = contacts \cup {u}
        /\ gsessions' = gsessions \cup {u}
        /\ Committed(c)
        /\ UNCHANGED <<users, tokens, sessions, applies, log, access, cache, req, history>>

\* The rest of the transaction, under the lock of the group's row.
JoinGroup(c) ==
    LET u == req[c].u
    IN  /\ At(c, "join", "tx")
        /\ \/ /\ group = Nil
              /\ Answer(c, "ErrGroupNotFound")
              /\ UNCHANGED <<group, contacts, gsessions, applies>>
           \/ /\ Member(u)
              /\ Committed(c)
              /\ UNCHANGED <<group, contacts, gsessions, applies>>
           \/ /\ group # Nil /\ ~Member(u) /\ group.mode = "approve"
              /\ applies' = IF call[c].val = 0 THEN [applies EXCEPT ![u] = @ + 1] ELSE applies
              /\ Answer(c, "ErrGroupJoinPending")
              /\ UNCHANGED <<group, contacts, gsessions>>
           \/ /\ group # Nil /\ ~Member(u) /\ group.mode = "forbidden"
              /\ Answer(c, "ErrGroupJoinForbidden")
              /\ UNCHANGED <<group, contacts, gsessions, applies>>
           \/ /\ group # Nil /\ ~Member(u) /\ group.mode = "direct"
              /\ IF Refused(u)
                 THEN Answer(c, "ErrDatabase") /\ UNCHANGED <<group, contacts, gsessions>>
                 ELSE Enter(u) /\ Committed(c)
              /\ UNCHANGED applies
        /\ UNCHANGED <<users, tokens, sessions, log, access, cache, req, history>>

\* The session goes with the membership; a row that allows it to the assistant
\* stays, and matches no session any more.
LeaveGroup(c) ==
    LET u == req[c].u
    IN  /\ At(c, "leave", "tx")
        /\ IF group = Nil \/ u = Owner
           THEN /\ Answer(c, IF group = Nil THEN "ErrGroupNotFound" ELSE "ErrGroupOwnerCannotLeave")
                /\ UNCHANGED <<group, contacts, gsessions, access>>
           ELSE /\ IF Member(u)
                   THEN /\ group' = [group EXCEPT !.members = @ \ {u},
                                                 !.count = Cardinality(group.members \ {u})]
                        /\ contacts' = contacts \ {u}
                        /\ gsessions' = gsessions \ {u}
                        /\ access' = access \ {<<u, Group>>}
                   ELSE UNCHANGED <<group, contacts, gsessions, access>>
                /\ Committed(c)
        /\ UNCHANGED <<users, tokens, sessions, applies, log, cache, req, history>>

\* Nobody is ever made an administrator: only the owner may approve.
ApproveGroupJoin(c) ==
    LET v == req[c].v
    IN  /\ At(c, "approve", "tx")
        /\ IF group = Nil \/ req[c].u # Owner \/ applies[v] = 0 \/ Refused(v)
           THEN /\ Answer(c, IF group = Nil THEN "ErrGroupNotFound"
                             ELSE IF req[c].u # Owner THEN "ErrNotGroupAdmin"
                             ELSE IF applies[v] = 0 THEN "ErrGroupJoinPending"
                             ELSE "ErrDatabase")
                /\ UNCHANGED <<group, contacts, gsessions, applies>>
           ELSE /\ Enter(v)
                /\ applies' = [applies EXCEPT ![v] = @ - 1]
                /\ Committed(c)
        /\ UNCHANGED <<users, tokens, sessions, log, access, cache, req, history>>

-----------------------------------------------------------------------------
(* direct sessions and messages *)

OpenCheck(c) ==
    LET r == req[c]
    IN  /\ At(c, "open", "check")
        /\ IF r.v \notin users THEN Answer(c, "ErrUserNotFound")
           ELSE IF {r.u, r.v} \in sessions THEN Answer(c, "ok")
           ELSE Goto(c, "insert")
        /\ UNCHANGED <<rows, cache, req, history>>

\* Of two that found no session, uk_session_users refuses the later insert.
OpenSession(c) ==
    LET pair == {req[c].u, req[c].v}
    IN  /\ At(c, "open", "insert")
        /\ IF pair \in sessions THEN Answer(c, "ErrSessionCreateFail") ELSE Committed(c)
        /\ sessions' = sessions \cup {pair}
        /\ UNCHANGED <<users, tokens, group, contacts, gsessions, applies, log, access, cache, req, history>>

\* The sessions a user is a party of; every member has one with the group.
OwnSessions(u) == {p \in sessions : u \in p} \cup (IF u \in gsessions THEN {Group} ELSE {})

\* sendMessage needs the session of the pair.
FindSession(c) ==
    /\ Sends(c) /\ call[c].pc = "pair"
    /\ IF DestOf(req[c]) \in OwnSessions(req[c].u)
       THEN Goto(c, "insert") ELSE Answer(c, "ErrInvalidSession")
    /\ UNCHANGED <<rows, cache, req, history>>

\* A message of the assistant goes to the list of sender and receiver, also
\* where the receiver is a group; nobody reads that one.
InsertMessage(c) ==
    /\ Sends(c) /\ call[c].pc = "insert"
    /\ log' = Append(log, [from |-> req[c].u, to |-> DestOf(req[c]), ai |-> req[c].op # "send"])
    /\ GotoStored(c, IF req[c].op # "send" /\ req[c].v = Group THEN "delete" ELSE "appendGet",
                  <<"list", DestOf(req[c])>>, Len(log) + 1)
    /\ UNCHANGED <<users, tokens, group, contacts, gsessions, sessions, applies, access, cache, req, history>>

AfterAppend(c) == IF DestOf(req[c]) # Group THEN Goto(c, "delete")
                  ELSE Want(c, <<"info", Group>>, "recipients")

\* AppendJSON reads the cached list; an absent list, or a Redis that does not
\* answer, is left alone.
AppendGet(c) ==
    LET k == call[c].key
    IN  /\ call[c].pc = "appendGet"
        /\ IF cache[k] = Nil THEN AfterAppend(c)
           ELSE GotoWith(c, "appendSet", cache[k])
        /\ UNCHANGED <<rows, cache, req, history>>

AppendSkipped(c) ==
    /\ call[c].pc \in {"appendGet", "appendSet"}
    /\ AfterAppend(c)
    /\ late' = IF cache[call[c].key] = Nil THEN late ELSE late \cup {call[c].key}
    /\ UNCHANGED <<rows, cache, req, entitled>>

\* Whether what is written is wrong as it is written.
Written(k, v) == late' = IF v = View(k) THEN late \ {k} ELSE late \cup {k}

\* The list goes back with the message at its end and a fresh TTL, whatever
\* was written to the key meanwhile.
AppendSet(c) ==
    LET k == call[c].key
        v == Appended(call[c].val, call[c].id)
    IN  /\ call[c].pc = "appendSet"
        /\ cache' = [cache EXCEPT ![k] = v]
        /\ Written(k, v)
        /\ AfterAppend(c)
        /\ UNCHANGED <<rows, req, entitled>>

-----------------------------------------------------------------------------
(* the cache in front of the queries *)

\* GetGroupMessageList of the service checks the membership once more.
GetGroupMessageList(c, members) ==
    IF req[c].u \in members THEN Want(c, <<"list", Group>>, "answer")
    ELSE Answer(c, "ErrNotGroupMember")

\* SendGroupMessage goes by the members GetGroup answered.
SendGroupMessage(c, members) ==
    IF req[c].u \in members THEN Goto(c, "insert") ELSE Answer(c, "ErrNotGroupMember")

\* What a call does with the value it asked for.
Continue(c, v) ==
    CASE call[c].then = "answer" -> Answer(c, "ok")
      [] call[c].then = "member" ->
           IF req[c].u \in v THEN Want(c, <<"info", Group>>, "member again")
                             ELSE Answer(c, "NotAMember")
      [] call[c].then = "member again" -> GetGroupMessageList(c, v)
      [] call[c].then = "authorize" -> SendGroupMessage(c, v)
      [] OTHER -> GotoWith(c, "enqueue", v)

\* GetJSON: a hit is answered without the database; an absent entry, or a
\* Redis that does not answer, leads to the query.
Hit(c) ==
    /\ call[c].pc = "lookup"
    /\ cache[call[c].key] # Nil
    /\ Continue(c, cache[call[c].key])
    /\ UNCHANGED <<rows, cache, req, history>>

Miss(c) ==
    /\ call[c].pc = "lookup"
    /\ Goto(c, "query")
    /\ UNCHANGED <<rows, cache, req, history>>

\* No row.
NotFound(c) ==
    CASE call[c].then = "member" -> "ErrGroupNotFound"
      [] call[c].then = "answer" -> IF call[c].key[1] = "user" THEN "ErrForbidden"
                                                               ELSE "ErrGroupNotFound"
      [] OTHER -> "ErrDatabase"

Query(c) ==
    LET v == View(call[c].key)
    IN  /\ call[c].pc = "query"
        /\ IF v = Nil THEN Answer(c, NotFound(c))
           ELSE GotoWith(c, "fill", v)
        /\ UNCHANGED <<rows, cache, req, history>>

\* SetJSON with a TTL, of a value that may be old by now.
Fill(c) ==
    LET k == call[c].key
    IN  /\ call[c].pc = "fill"
        /\ cache' = [cache EXCEPT ![k] = call[c].val]
        /\ Written(k, call[c].val)
        /\ Continue(c, call[c].val)
        /\ UNCHANGED <<rows, req, entitled>>

FillSkipped(c) ==
    /\ call[c].pc = "fill"
    /\ Continue(c, call[c].val)
    /\ UNCHANGED <<rows, cache, req, history>>

\* Whom RouteTo is first called for.
Receiver(r) == IF r.op = "send" THEN {r.v} ELSE IF r.v = Group THEN {} ELSE r.v \ {r.u}

AfterDelete(c) == IF Sends(c)
                  THEN GotoWith(c, "enqueue", Receiver(req[c]))
                  ELSE Answer(c, "ok")

Delete(c) ==
    /\ call[c].pc = "delete"
    /\ cache' = [k \in Key |-> IF k \in Deletes(req[c]) THEN Nil ELSE cache[k]]
    /\ late' = late \ Deletes(req[c])
    /\ AfterDelete(c)
    /\ UNCHANGED <<rows, req, entitled>>

\* The error of a Delete is dropped: the entries stay.
DeleteFails(c) ==
    /\ call[c].pc = "delete"
    /\ late' = late \cup {k \in Deletes(req[c]) : cache[k] # Nil}
    /\ AfterDelete(c)
    /\ UNCHANGED <<rows, cache, req, entitled>>

\* DefaultCacheTTL passes.
Expire(k) ==
    /\ cache[k] # Nil
    /\ cache' = [cache EXCEPT ![k] = Nil]
    /\ late' = late \ {k}
    /\ UNCHANGED <<rows, req, call, entitled>>

\* A statement fails. Register and Login do not look at the error of a Count,
\* and the first read of a group's row turns every error into "not found".
DatabaseError(c) ==
    CASE req[c].op = "register" -> {"ErrCreateUserFailed"}
      [] req[c].op = "login" -> {"ErrUserNotFound", "ErrLoginFailed"}
      [] req[c].op = "open" /\ call[c].pc = "insert" -> {"ErrSessionCreateFail"}
      [] call[c].pc = "query" /\ call[c].then = "member" -> {"ErrGroupNotFound"}
      [] call[c].pc = "query" /\ call[c].key[1] = "user" -> {"ErrForbidden"}
      [] call[c].pc = "tx" /\ req[c].op # "create" -> {"ErrGroupNotFound", "ErrDatabase"}
      [] OTHER -> {"ErrDatabase"}

StatementFails(c) ==
    /\ call[c].pc \in {"check", "snapshot", "tx", "insert", "pair", "query",
                       "access", "page", "count", "replace", "setting"}
    /\ ~At(c, "register", "check")
    /\ \E err \in DatabaseError(c) : Answer(c, err)
    /\ UNCHANGED <<rows, cache, req, history>>

-----------------------------------------------------------------------------

Work(c) ==
    \/ Unauthorized(c) \/ Malformed(c) \/ Begin(c)
    \/ RegisterCheck(c) \/ Register(c) \/ Login(c) \/ LoginRefused(c)
    \/ CreateGroup(c) \/ JoinSnapshot(c) \/ JoinGroup(c) \/ LeaveGroup(c)
    \/ ApproveGroupJoin(c) \/ OpenCheck(c) \/ OpenSession(c)
    \/ FindSession(c) \/ InsertMessage(c) \/ AppendGet(c) \/ AppendSkipped(c) \/ AppendSet(c)
    \/ Hit(c) \/ Miss(c) \/ Query(c) \/ Fill(c) \/ FillSkipped(c)
    \/ Delete(c) \/ DeleteFails(c) \/ StatementFails(c)

ServicesNext ==
    \/ \E c \in Call : Work(c)
    \/ \E k \in Key : Expire(k)

-----------------------------------------------------------------------------
(* properties *)

\* Joins, approvals and departures in any interleaving, double applications
\* and double approvals included, leave the rows of the group in agreement:
\* the members of group_info are the users with a contact row and the users
\* with a session row, member_count counts them, and the owner is among them
\* (JoinGroup, LeaveGroup, ApproveGroupJoin).
RowsAgree ==
    group # Nil =>
      /\ group.members = contacts
      /\ group.members = gsessions
      /\ group.count = Cardinality(group.members)
      /\ Owner \in group.members

\* Whether an entry says what the query would. Lists of groups show members
\* too, which nobody refreshes in the lists of others; JoinGroup does not
\* delete the list of group sessions, which may lack a group until it expires;
\* and nobody appends the assistant's messages to the list of a group.
Unlisted(d) == {i \in RowsTo(d) : d = Group /\ log[i].ai}
Agrees(k, v) ==
    CASE k[1] \in {"joined", "owned"} -> (v = {}) = (View(k) = {})
      [] k[1] = "gsession" -> v => View(k)
      [] k[1] = "list" -> /\ v.inOrder
                          /\ v.ids \ Unlisted(k[2]) = RowsTo(k[2]) \ Unlisted(k[2])
      [] OTHER -> v = View(k)

\* The deletion, or the append, that will put an entry right is still to come.
Repairing(k) ==
    \E c \in Call :
      \/ call[c].pc = "delete" /\ k \in Deletes(req[c])
      \/ call[c].pc \in {"appendGet", "appendSet"} /\ k = call[c].key

\* An entry that was right when it was written and has become wrong is about
\* to be deleted or rewritten by the request that changed the rows: what is
\* stale for longer was stale when it was written (a reader overtaken by a
\* commit and its Delete, two appends at once) or belongs to a Redis that
\* failed. The services delete after they commit.
StaleOnlyIfOvertaken ==
    \A k \in Key :
      (cache[k] # Nil /\ ~Agrees(k, cache[k]) /\ k \notin late) => Repairing(k)

\* Every answer of a controller is one its route declares; Auth adds 401
\* ("Status annotations describe existing controller branches").
StatusDeclared ==
    \A c \in Call :
      call[c].pc = "ended" => call[c].status \in Declared(req[c]) \cup {401}

-----------------------------------------------------------------------------
(* what requests and rows are like, and what makes the properties inductive *)

Operation == {"none", "listen", "send", "register", "login", "create", "join", "leave",
              "approve", "open", "get", "glist", "list"} \cup AISettings \cup AITools

\* Only the owner's request creates the group of this model.
IsRequest(r) ==
    /\ r.op \in Operation
    /\ r.u \in User
    /\ r.op = "create" => r.u = Owner /\ r.v \in Mode
    /\ r.op \in {"approve", "open"} => r.v \in User
    /\ r.op = "get" => r.v \in Key /\ r.v[1] # "list"
    /\ r.op = "send" => r.v \in User \cup {Group}

GroupOK ==
    /\ group \in {Nil} \cup GroupRow
    /\ group = Nil => contacts = {} /\ gsessions = {}
    /\ RowsAgree

MessagesOK ==
    /\ sessions \subseteq Pairs
    /\ log \in Seq([from : User, to : Dest, ai : BOOLEAN])

RowsOK == GroupOK /\ MessagesOK

\* A call is a record of six fields; a cached value belongs to a key.
CallShaped ==
    call = [c \in Call |-> [pc |-> call[c].pc, key |-> call[c].key, then |-> call[c].then,
                            val |-> call[c].val, id |-> call[c].id, status |-> call[c].status]]
CacheShaped == cache = [k \in Key |-> cache[k]]

Fetching(c)  == call[c].pc \in {"lookup", "query", "fill"}
Appending(c) == call[c].pc \in {"appendGet", "appendSet"}

\* What a call has seen to before it got where it is: a session is opened
\* between two people, and a message goes to a conversation there is.
OnCourse(c) ==
    /\ call[c].pc = "idle" => call[c] = Idle
    /\ Fetching(c) \/ Appending(c) => call[c].key \in Key
    /\ Appending(c) => Sends(c) /\ call[c].key = <<"list", DestOf(req[c])>>
    /\ At(c, "open", "check") \/ At(c, "open", "insert") => req[c].u # req[c].v
    /\ Sends(c) /\ (Appending(c) \/ call[c].pc \in {"insert", "delete"}) => DestOf(req[c]) \in Dest
    /\ Fetching(c) /\ call[c].then = "authorize" =>
         req[c].op # "open" /\ (Sends(c) => DestOf(req[c]) = Group)
    /\ At(c, "send", "delete") => req[c].v # Group
    /\ Fetching(c) => \/ call[c].then \in {"answer", "member", "member again", "authorize"}
                      \/ call[c].key = <<"info", Group>>
CallsOnCourse == \A c \in Call : OnCourse(c) /\ call[c].id \in Nat

\* Messages are routed to people.
RecipientsOK ==
    /\ cache[<<"info", Group>>] \in {Nil} \cup SUBSET User
    /\ \A c \in Call :
         call[c].pc = "enqueue" \/ (call[c].pc = "fill" /\ call[c].key = <<"info", Group>>) =>
           call[c].val \subseteq User
=============================================================================
