------------------------------ MODULE Assistant ------------------------------
(* What a user lets an assistant do: aiservice, the settings API, and the MCP *)
(* tools that list sessions, read and search messages and send in the user's *)
(* name. A setting is replaced in one transaction; a tool looks whether its  *)
(* session is allowed and reads or writes afterwards, in other statements.   *)
EXTENDS ChatServices

CONSTANTS
    MaxAllowedSessions,   \* sessions in one setting
    MaxLimit              \* largest page a tool may ask for

ASSUME AssistantAssumption ==
    /\ MaxAllowedSessions \in Nat \ {0}
    /\ MaxLimit \in Nat \ {0}

\* The requests: v is a list of sessions (changeAISetting), a session
\* (sendAIMessage), [session, before, limit] with before = 0 for the newest
\* page (getRecentMessages), [session, limit] with session = Nil for every
\* allowed one (searchMessages), or a limit (listSessions).

Allowed(u) == {d \in OwnSessions(u) : <<u, d>> \in access}

\* The messages whose session_id is the user's session d. Those people send to
\* a group carry the uuid of the group instead, and belong to no session. (The
\* session of one who left and joins again is a new one: that is not mixed with
\* the assistant's requests here.)
SessionRows(u, d) ==
    IF d # Group THEN RowsTo(d)
    ELSE {i \in RowsTo(d) : log[i].ai /\ log[i].from = u}

Result(c, v) == call' = [call EXCEPT ![c] = [Ended(StatusOf(req[c], "ok")) EXCEPT !.val = v]]

-----------------------------------------------------------------------------
(* settings *)

NormalizeSessionUUIDs(list) ==
    IF Len(list) > MaxAllowedSessions \/ Nil \in Range(list) THEN Nil ELSE Range(list)

\* getAISetting: every session of the user, and whether it is allowed.
AISetting(u) == [d \in OwnSessions(u) |-> <<u, d>> \in access]

\* ChangeAISetting up to its transaction; an empty list needs no count.
BeginSetting(c) ==
    LET r == req[c]
        S == NormalizeSessionUUIDs(r.v)
    IN  /\ call[c].pc = "idle"
        /\ Authorized(r.u)
        /\ \/ r.op = "getAISetting" /\ Goto(c, "setting")
           \/ /\ r.op = "changeAISetting"
              /\ IF S = Nil THEN Answer(c, "ErrInvalidSetting")
                 ELSE IF S = {} THEN Goto(c, "replace")
                 ELSE Goto(c, "count")
        /\ UNCHANGED <<rows, cache, req, history>>

\* The count of the user's sessions among those named is the first read of the
\* transaction: the allowed sessions it will find are those of this moment.
CountSessions(c) ==
    LET r == req[c]
    IN  /\ At(c, "changeAISetting", "count")
        /\ IF Range(r.v) \subseteq OwnSessions(r.u)
           THEN GotoWith(c, "replace", Allowed(r.u))
           ELSE Answer(c, "ErrForbidden")
        /\ UNCHANGED <<rows, cache, req, history>>

\* The rest of it. DELETE locks the rows of the user and sees what is there
\* now; the SELECT of the existing rows sees the earlier moment; a row that is
\* inserted a second time violates uk_user_ai_session and rolls all back.
ReplaceAccess(c) ==
    LET u        == req[c].u
        S        == Range(req[c].v)
        kept     == {d \in S : <<u, d>> \in access}
        existing == IF S = {} THEN {} ELSE call[c].val
        toCreate == S \ existing
        allowed  == (kept \cup toCreate) \cap OwnSessions(u)
    IN  /\ At(c, "changeAISetting", "replace")
        /\ IF toCreate \cap kept # {}
           THEN /\ Answer(c, "ErrDatabase")
                /\ UNCHANGED <<access, entitled>>
           ELSE /\ access' = {a \in access : a[1] # u} \cup ({u} \X allowed)
                /\ entitled' = entitled \cup
                     ({b \in Call : /\ req[b].op \in AITools /\ req[b].u = u
                                     /\ call[b].pc \notin {"idle", "ended"}} \X allowed)
                /\ Goto(c, "setting")
        /\ UNCHANGED <<users, tokens, group, contacts, gsessions, sessions, applies, log,
                       cache, req, late>>

\* Both answers are a fresh getAISetting.
AnswerSetting(c) ==
    /\ call[c].pc = "setting"
    /\ Result(c, AISetting(req[c].u))
    /\ UNCHANGED <<rows, cache, req, history>>

-----------------------------------------------------------------------------
(* tools *)

\* normalizeLimit: zero stands for a default.
NormalizeLimit(n) == IF n = 0 THEN MaxLimit ELSE IF n \in 1..MaxLimit THEN n ELSE Nil

\* Mutant: the row that allows the session is not asked for.
EnsureSession(u, d) == d \in OwnSessions(u)

\* Whether the user's session exists and is allowed.
EnsureSessionAccess(u, d) == d \in Allowed(u)

\* requireBearerToken, and the tool up to its first statement.
BeginTool(c) ==
    LET r == req[c]
    IN  /\ call[c].pc = "idle"
        /\ r.op \in AITools
        /\ Authorized(r.u)
        /\ CASE r.op = "listSessions" ->
                  IF NormalizeLimit(r.v) = Nil THEN Answer(c, "ErrInvalidToolInput")
                                               ELSE Goto(c, "page")
             [] r.op = "searchMessages" ->
                  IF NormalizeLimit(r.v.limit) = Nil THEN Answer(c, "ErrInvalidToolInput")
                  ELSE Goto(c, IF r.v.session = Nil THEN "page" ELSE "access")
             [] OTHER -> Goto(c, "access")
        /\ entitled' = entitled \cup ({c} \X Allowed(r.u))
        /\ UNCHANGED <<rows, cache, req, late>>

SessionOf(r) == IF r.op = "sendAIMessage" THEN r.v ELSE r.v.session

\* The check of SendMessage, and ensureSessionAccess of the readers.
CheckAccess(c) ==
    LET r == req[c]
    IN  /\ call[c].pc = "access"
        /\ IF ~EnsureSessionAccess(r.u, SessionOf(r)) THEN Answer(c, "ErrForbidden")
           ELSE IF r.op = "sendAIMessage" THEN Goto(c, "pair")
           ELSE IF NormalizeLimit(r.v.limit) = Nil THEN Answer(c, "ErrInvalidToolInput")
           ELSE Goto(c, "page")
        /\ UNCHANGED <<rows, cache, req, history>>

\* The newest n of a set of rows.
Newest(S, n) == {i \in S : Cardinality({j \in S : j > i}) < n}

\* One row more than the limit says whether there are older ones.
GetRecentMessages(c) ==
    LET r     == req[c]
        all   == SessionRows(r.u, r.v.session)
        older == IF r.v.before = 0 THEN all ELSE {i \in all : i < r.v.before}
        n     == NormalizeLimit(r.v.limit)
    IN  /\ At(c, "getRecentMessages", "page")
        /\ IF r.v.before # 0 /\ r.v.before \notin all
           THEN Answer(c, "ErrMessageNotFound")
           ELSE Result(c, [messages |-> Newest(older, n), hasMore |-> Cardinality(older) > n])
        /\ UNCHANGED <<rows, cache, req, history>>

\* The words of a query match every message here. Without a session the
\* allowed ones are looked up in the same statement.
SearchMessages(c) ==
    LET r    == req[c]
        in   == IF r.v.session = Nil THEN Allowed(r.u) ELSE {r.v.session}
        hits == UNION {SessionRows(r.u, d) : d \in in}
    IN  /\ At(c, "searchMessages", "page")
        /\ Result(c, [messages |-> Newest(hits, NormalizeLimit(r.v.limit)), hasMore |-> FALSE])
        /\ UNCHANGED <<rows, cache, req, history>>

\* The join with the peer's user_info leaves the sessions of groups out. Any of
\* them may be the newest.
ListAllowedSessions(c) ==
    LET direct == Allowed(req[c].u) \ {Group}
        n      == NormalizeLimit(req[c].v)
    IN  /\ At(c, "listSessions", "page")
        /\ \E S \in SUBSET direct :
             /\ Cardinality(S) = IF Cardinality(direct) > n THEN n ELSE Cardinality(direct)
             /\ Result(c, S)
        /\ UNCHANGED <<rows, cache, req, history>>

AIWork(c) ==
    \/ BeginSetting(c) \/ CountSessions(c) \/ ReplaceAccess(c) \/ AnswerSetting(c)
    \/ BeginTool(c) \/ CheckAccess(c)
    \/ GetRecentMessages(c) \/ SearchMessages(c) \/ ListAllowedSessions(c)

-----------------------------------------------------------------------------
(* properties *)

\* The rows a tool call read or wrote.
Touched(c) ==
    IF req[c].op = "sendAIMessage" THEN {call[c].id} \ {0}
    ELSE IF req[c].op \in {"getRecentMessages", "searchMessages"} /\ call[c].val # Nil
         THEN call[c].val.messages ELSE {}

\* However settings change and members leave while tools run, a tool reads and
\* writes only in sessions its user was a party of and had allowed at some
\* moment of that call (ensureSessionAccess, SendMessage, SearchMessages).
AssistantWithinRights ==
    \A c \in Call :
      req[c].op \in AITools =>
        \A i \in Touched(c) :
          \E d \in Dest : <<c, d>> \in entitled /\ i \in SessionRows(req[c].u, d)

-----------------------------------------------------------------------------
(* what makes it inductive *)

\* A row that allows a session belongs to a session of its user.
AccessOK ==
    /\ access \subseteq User \X Dest
    /\ \A u \in User, d \in Dest : <<u, d>> \in access => d \in OwnSessions(u)

\* A tool call is counted as entitled to what is allowed from its beginning
\* on, and only gets to its reads and writes with such a session.
Readers == {"listSessions", "getRecentMessages", "searchMessages"}
ToolOnCourse(c) ==
    /\ req[c].op \in Readers =>
         /\ call[c].pc \in {"idle", "access", "page", "ended"}
         /\ call[c].pc # "ended" => call[c].val = Nil
    /\ req[c].op = "sendAIMessage" =>
         /\ ~Fetching(c) /\ call[c].pc # "fetched"
         /\ Appending(c) => req[c].v # Group
         /\ call[c].pc \in {"pair", "insert"} => <<c, req[c].v>> \in entitled
    /\ At(c, "getRecentMessages", "page") => <<c, req[c].v.session>> \in entitled
    /\ At(c, "searchMessages", "page") /\ req[c].v.session # Nil =>
         <<c, req[c].v.session>> \in entitled
    /\ req[c].op \in AITools /\ call[c].pc \notin {"idle", "ended"} =>
         \A d \in Allowed(req[c].u) : <<c, d>> \in entitled
ToolsOnCourse == entitled \subseteq Call \X Dest /\ \A c \in Call : ToolOnCourse(c)
=============================================================================
