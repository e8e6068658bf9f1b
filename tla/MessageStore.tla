---------------------------- MODULE MessageStore ----------------------------
(***************************************************************************)
(* The message table of Logic (internal/logic/messagestore): Save and      *)
(* SaveAI as transactions of several statements, Sync as the transaction   *)
(* that reads one page after a cursor, and the changes of group membership *)
(* and AI access that run beside them (gormservice, aiservice).            *)
(*                                                                         *)
(* A row lock (SELECT ... FOR UPDATE) is held from its statement to the    *)
(* end of the transaction, so the phase of a transaction says which locks  *)
(* it holds.  Ids are drawn from one counter when a row is inserted; the   *)
(* row is visible to others when its transaction commits.  The locking     *)
(* read of a key that is not there locks the gap of the unique index in    *)
(* which it would be: such locks do not exclude each other, but an insert  *)
(* into the gap waits for all of them.                                     *)
(***************************************************************************)
EXTENDS Integers, FiniteSets

CONSTANTS
    User,
    Registered,     \* the users with a row in user_info
    Group,          \* the conversations whose members may change
    Direct,         \* the sessions of two users
    Call,           \* executions of Save or SaveAI: a retry is a call of its own
    Req,            \* what each call asks for
    GapOf,          \* the gap of the unique index into which a call's key falls
    Reader,         \* devices that page through a conversation with Sync
    Reads,          \* the user and the conversation of a reader
    Owner,          \* the owner of a group, who cannot leave it
    Founders,       \* the members of a conversation at the start
    Limit,          \* messages in a page
    MaxAborts,      \* bound: how often the Sync of a reader is cut off
    Nil

Conversation == Group \cup Direct

\* A request as the fingerprint and the unique key (send_id, client_message_id)
\* see it.
Request ==
    [sender : User, key : Nat, conv : Conversation, body : Nat, ai : BOOLEAN]

\* A row of the message table.
Message ==
    [id : Nat \ {0}, sender : User, key : Nat, conv : Conversation, body : Nat,
     ai : BOOLEAN, recipients : SUBSET User]

ASSUME StoreConstants ==
    /\ Registered \subseteq User
    /\ Group \cap Direct = {}
    /\ Req \in [Call -> Request]
    /\ \A c \in Call : Req[c].ai => Req[c].conv \in Direct
    /\ GapOf \in [Call -> Nat]
    /\ Reads \in [Reader -> [user : User, conv : Conversation]]
    /\ Owner \in [Group -> User]
    /\ Founders \in [Conversation -> SUBSET User]
    /\ Limit \in Nat \ {0}
    /\ MaxAborts \in Nat
    /\ Nil \notin Message

VARIABLES
    rows,       \* the committed messages
    nextId,     \* the AUTO_INCREMENT counter; a rolled back id is not reused
    members,    \* group_info.members, and the two users of a session
    access,     \* user_ai_session_access
    pc,         \* the statement a call has reached
    snapshot,   \* the recipients it read under the lock of the conversation
    draft,      \* the row it inserted and has not committed
    answer,     \* what its caller is told
    phase,      \* the statement of a reader's Sync
    cursor,     \* the cursor the reader holds
    got,        \* the ids of the messages it was given
    aborts      \* how often its Sync was cut off

callVars   == <<pc, snapshot, draft, answer>>
readerVars == <<phase, cursor, got, aborts>>
rightVars  == <<members, access>>
vars       == <<rows, nextId, rightVars, callVars, readerVars>>

\* What a caller is told: a Saved, or the error.  "duplicate" is the refusal of
\* the unique index, which the caller sees as a database error.
Answer ==
    [status : {"none", "saved", "forbidden", "conflict", "duplicate", "database"},
     id : Nat, recipients : SUBSET User]

StoreTypeOK ==
    /\ rows \in SUBSET Message
    /\ nextId \in Nat \ {0}
    /\ members \in [Conversation -> SUBSET User]
    /\ access \in [User -> SUBSET Direct]
    /\ pc \in [Call -> {"idle", "user", "conversation", "allowed", "absent", "inserted", "done"}]
    /\ snapshot \in [Call -> SUBSET User]
    /\ draft \in [Call -> Message \cup {Nil}]
    /\ answer \in [Call -> Answer]
    /\ phase \in [Reader -> {"idle", "user", "conversation"}]
    /\ cursor \in [Reader -> Nat]
    /\ got \in [Reader -> SUBSET (Nat \ {0})]
    /\ aborts \in [Reader -> 0..MaxAborts]

Refused(error) == [status |-> error, id |-> 0, recipients |-> {}]

Saved(m) == [status |-> "saved", id |-> m.id, recipients |-> m.recipients]

Init ==
    /\ rows = {}
    /\ nextId = 1
    /\ members = Founders
    /\ access = [u \in User |-> {}]
    /\ pc = [c \in Call |-> "idle"]
    /\ snapshot = [c \in Call |-> {}]
    /\ draft = [c \in Call |-> Nil]
    /\ answer = [c \in Call |-> Refused("none")]
    /\ phase = [r \in Reader |-> "idle"]
    /\ cursor = [r \in Reader |-> 0]
    /\ got = [r \in Reader |-> {}]
    /\ aborts = [r \in Reader |-> 0]

-----------------------------------------------------------------------------
(* row locks *)

\* Nobody holds the row of u in user_info.
UserFree(u) ==
    /\ \A c \in Call : Req[c].sender = u => pc[c] \in {"idle", "done"}
    /\ \A r \in Reader : Reads[r].user = u => phase[r] = "idle"

HasConversation(c) == pc[c] \in {"conversation", "allowed", "absent", "inserted"}

\* Mutant: the statement on the conversation reads without FOR UPDATE.
ConversationUnlocked(v) == TRUE

\* Nobody holds the row of v in session or group_info.
ConversationFree(v) ==
    /\ \A c \in Call : Req[c].conv = v => ~HasConversation(c)
    /\ \A r \in Reader : Reads[r].conv = v => phase[r] # "conversation"

\* Mutant: the allow-list is read without FOR UPDATE.
AccessUnlocked(u, v) == TRUE

\* Nobody holds the row of (u, v) in user_ai_session_access.
AccessFree(u, v) ==
    \A c \in Call :
        Req[c].ai /\ Req[c].sender = u /\ Req[c].conv = v =>
            pc[c] \notin {"allowed", "absent", "inserted"}

\* The other calls whose locking read left a lock on the gap of c's key.
GapHolders(c) ==
    {d \in Call \ {c} : pc[d] \in {"absent", "inserted"} /\ GapOf[d] = GapOf[c]}

-----------------------------------------------------------------------------
(* Save and SaveAI *)

Goes(c, statement) == pc' = [pc EXCEPT ![c] = statement]

\* The transaction of c ends: every lock is released.
Ends(c, result) ==
    /\ Goes(c, "done")
    /\ answer' = [answer EXCEPT ![c] = result]

SameKey(m, c) == m.sender = Req[c].sender /\ m.key = Req[c].key

\* The rows' own request_fingerprint: destination, content and origin.
SameFingerprint(m, c) ==
    m.conv = Req[c].conv /\ m.body = Req[c].body /\ m.ai = Req[c].ai

LockUser(c) ==
    /\ pc[c] = "idle"
    /\ UserFree(Req[c].sender)
    /\ IF Req[c].sender \in Registered
       THEN Goes(c, "user") /\ UNCHANGED answer
       ELSE Ends(c, Refused("forbidden"))
    /\ UNCHANGED <<rows, nextId, rightVars, snapshot, draft, readerVars>>

\* lockDirect or lockGroup: the recipients are read with the lock.
LockConversation(c) ==
    /\ pc[c] = "user"
    /\ ConversationFree(Req[c].conv)
    /\ IF Req[c].sender \in members[Req[c].conv]
       THEN /\ Goes(c, "conversation")
            /\ snapshot' = [snapshot EXCEPT ![c] = members[Req[c].conv]]
            /\ UNCHANGED answer
       ELSE Ends(c, Refused("forbidden")) /\ UNCHANGED snapshot
    /\ UNCHANGED <<rows, nextId, rightVars, draft, readerVars>>

\* SaveAI takes the row of the allow-list as well.
LockAccess(c) ==
    /\ pc[c] = "conversation"
    /\ Req[c].ai
    /\ IF Req[c].conv \in access[Req[c].sender]
       THEN Goes(c, "allowed") /\ UNCHANGED answer
       ELSE Ends(c, Refused("forbidden"))
    /\ UNCHANGED <<rows, nextId, rightVars, snapshot, draft, readerVars>>

\* Mutant: a repeated key is answered without a look at the fingerprint.
ReplayAnything(m, c) == Saved(m)

\* Mutant: a replay answers with the members of today.
ReplayToMembers(m, c) ==
    IF SameFingerprint(m, c)
    THEN [status |-> "saved", id |-> m.id, recipients |-> snapshot[c]]
    ELSE Refused("conflict")

\* What a call is told whose key is already in the table.
Replay(m, c) == IF SameFingerprint(m, c) THEN Saved(m) ELSE Refused("conflict")

\* Mutant: requireUsers counts the recipients with FOR UPDATE.
LookUpLocksUsers(c) ==
    /\ pc[c] = IF Req[c].ai THEN "allowed" ELSE "conversation"
    /\ \A u \in snapshot[c] \ {Req[c].sender} : UserFree(u)
    /\ IF ~(snapshot[c] \subseteq Registered)
       THEN Ends(c, Refused("forbidden"))
       ELSE \/ \E m \in rows : SameKey(m, c) /\ Ends(c, Replay(m, c))
            \/ /\ ~\E m \in rows : SameKey(m, c)
               /\ Goes(c, "absent")
               /\ UNCHANGED answer
    /\ UNCHANGED <<rows, nextId, rightVars, snapshot, draft, readerVars>>

\* requireUsers, which locks nothing, and the locking read of the key.
LookUp(c) ==
    /\ pc[c] = IF Req[c].ai THEN "allowed" ELSE "conversation"
    /\ IF ~(snapshot[c] \subseteq Registered)
       THEN Ends(c, Refused("forbidden"))
       ELSE \/ \E m \in rows : SameKey(m, c) /\ Ends(c, Replay(m, c))
            \/ /\ ~\E m \in rows : SameKey(m, c)
               /\ Goes(c, "absent")
               /\ UNCHANGED answer
    /\ UNCHANGED <<rows, nextId, rightVars, snapshot, draft, readerVars>>

\* An insert waits for the gap locks of others and, in the unique index, for an
\* uncommitted row of the same key.
InsertFree(c) ==
    /\ GapHolders(c) = {}
    /\ \A d \in Call : draft[d] # Nil => ~SameKey(draft[d], c)

\* The unique index refuses a key that is committed.
Insert(c) ==
    /\ pc[c] = "absent"
    /\ InsertFree(c)
    /\ IF \E m \in rows : SameKey(m, c)
       THEN Ends(c, Refused("duplicate")) /\ UNCHANGED <<draft, nextId>>
       ELSE /\ Goes(c, "inserted")
            /\ draft' = [draft EXCEPT ![c] =
                           [id |-> nextId, sender |-> Req[c].sender, key |-> Req[c].key,
                            conv |-> Req[c].conv, body |-> Req[c].body, ai |-> Req[c].ai,
                            recipients |-> snapshot[c]]]
            /\ nextId' = nextId + 1
            /\ UNCHANGED answer
    /\ UNCHANGED <<rows, rightVars, snapshot, readerVars>>

\* The commit; its caller may not hear of it.
Commit(c, heard) ==
    /\ pc[c] = "inserted"
    /\ rows' = rows \cup {draft[c]}
    /\ draft' = [draft EXCEPT ![c] = Nil]
    /\ Ends(c, IF heard THEN Saved(draft[c]) ELSE Refused("database"))
    /\ UNCHANGED <<nextId, rightVars, snapshot, readerVars>>

\* A statement fails, the context ends or the process dies: rollback.
Abort(c) ==
    /\ pc[c] \notin {"idle", "done"}
    /\ draft' = [draft EXCEPT ![c] = Nil]
    /\ Ends(c, Refused("database"))
    /\ UNCHANGED <<rows, nextId, rightVars, snapshot, readerVars>>

\* Two inserts wait for each other's lock of one gap.
GapCircle(c) == pc[c] = "absent" /\ \E d \in GapHolders(c) : pc[d] = "absent"

\* The server finds the circle and rolls one of them back, which Create returns
\* as an error.
Victim(c) == GapCircle(c) /\ Abort(c)

-----------------------------------------------------------------------------
(* Sync *)

SyncLockUser(r) ==
    /\ phase[r] = "idle"
    /\ UserFree(Reads[r].user)
    /\ Reads[r].user \in Registered
    /\ phase' = [phase EXCEPT ![r] = "user"]
    /\ UNCHANGED <<rows, nextId, rightVars, callVars, cursor, got, aborts>>

\* A reader that is no member is refused, and its transaction ends.
SyncLockConversation(r) ==
    /\ phase[r] = "user"
    /\ ConversationFree(Reads[r].conv)
    /\ phase' = [phase EXCEPT ![r] = IF Reads[r].user \in members[Reads[r].conv]
                                     THEN "conversation" ELSE "idle"]
    /\ UNCHANGED <<rows, nextId, rightVars, callVars, cursor, got, aborts>>

\* Mutant: the cursor is taken for the first position of the next page but one.
AfterSkips(v, position) == {m \in rows : m.conv = v /\ m.id > position + 1}

\* The messages of v after a position, and the first Limit of them.
After(v, position) == {m \in rows : m.conv = v /\ m.id > position}

Page(v, position) ==
    {m \in After(v, position) :
        Cardinality({n \in After(v, position) : n.id < m.id}) < Limit}

\* The reader merges the page and keeps its next_cursor.
ReadPage(r) ==
    LET page == Page(Reads[r].conv, cursor[r])
    IN  /\ phase[r] = "conversation"
        /\ phase' = [phase EXCEPT ![r] = "idle"]
        /\ got' = [got EXCEPT ![r] = @ \cup {m.id : m \in page}]
        /\ \/ page = {} /\ UNCHANGED cursor
           \/ \E m \in page :
                 /\ \A n \in page : n.id <= m.id
                 /\ cursor' = [cursor EXCEPT ![r] = m.id]
        /\ UNCHANGED <<rows, nextId, rightVars, callVars, aborts>>

\* The transaction fails, or the page is lost on its way.
SyncAbort(r) ==
    /\ phase[r] # "idle"
    /\ aborts[r] < MaxAborts
    /\ aborts' = [aborts EXCEPT ![r] = @ + 1]
    /\ phase' = [phase EXCEPT ![r] = "idle"]
    /\ UNCHANGED <<rows, nextId, rightVars, callVars, cursor, got>>

-----------------------------------------------------------------------------
(* the transactions beside them: each takes its one lock and ends *)

JoinGroup(u, g) ==
    /\ ConversationFree(g)
    /\ u \in Registered \ members[g]
    /\ members' = [members EXCEPT ![g] = @ \cup {u}]
    /\ UNCHANGED <<rows, nextId, access, callVars, readerVars>>

LeaveGroup(u, g) ==
    /\ ConversationFree(g)
    /\ u \in members[g] \ {Owner[g]}
    /\ members' = [members EXCEPT ![g] = @ \ {u}]
    /\ UNCHANGED <<rows, nextId, access, callVars, readerVars>>

\* The rows that are deleted must be free.
ChangeAISetting(u, allowed) ==
    /\ \A v \in allowed : u \in members[v]
    /\ \A v \in access[u] \ allowed : AccessFree(u, v)
    /\ allowed # access[u]
    /\ access' = [access EXCEPT ![u] = allowed]
    /\ UNCHANGED <<rows, nextId, members, callVars, readerVars>>

CallNext(c) ==
    \/ LockUser(c)
    \/ LockConversation(c)
    \/ LockAccess(c)
    \/ LookUp(c)
    \/ Insert(c)
    \/ \E heard \in BOOLEAN : Commit(c, heard)
    \/ Abort(c)
    \/ Victim(c)

ReaderNext(r) ==
    \/ SyncLockUser(r)
    \/ SyncLockConversation(r)
    \/ ReadPage(r)
    \/ SyncAbort(r)

RightsNext ==
    \/ \E u \in User, g \in Group : JoinGroup(u, g) \/ LeaveGroup(u, g)
    \/ \E u \in User, allowed \in SUBSET Direct : ChangeAISetting(u, allowed)

StoreNext ==
    \/ \E c \in Call : CallNext(c)
    \/ \E r \in Reader : ReaderNext(r)
    \/ RightsNext

Spec == Init /\ [][StoreNext]_vars

\* Statements return, and a device goes on asking.  A row lock is granted in turn,
\* so a statement that could have its lock again and again gets it (strong
\* fairness); a circle of inserts in one gap is found and broken.
Fairness ==
    /\ \A c \in Call :
          /\ SF_vars(LockUser(c) \/ LockConversation(c))
          /\ WF_vars(LockAccess(c) \/ LookUp(c) \/ Insert(c) \/ \E heard \in BOOLEAN : Commit(c, heard))
    /\ WF_vars(\E c \in Call : Victim(c))
    /\ \A r \in Reader :
          /\ SF_vars(SyncLockUser(r) \/ SyncLockConversation(r))
          /\ WF_vars(ReadPage(r))

FairSpec == Spec /\ Fairness

-----------------------------------------------------------------------------

\* A cursor never runs past a message the reader was not given: whatever commits
\* later in the conversation has a higher id, because the lock of the
\* conversation covers the insert and the commit.
CursorComplete ==
    \A r \in Reader, m \in rows :
        m.conv = Reads[r].conv /\ m.id <= cursor[r] => m.id \in got[r]

\* A message is stored with the rights of the moment it commits: its sender is a
\* member, its recipients are the members, and an AI message has its access.
StoredWithRights ==
    [][\A m \in rows' \ rows :
          /\ m.sender \in members[m.conv]
          /\ m.recipients = members[m.conv]
          /\ m.ai => m.conv \in access[m.sender]]_vars

\* A page is read only by a user who is a member at that moment.
PagesForMembers ==
    [][\A r \in Reader : got'[r] # got[r] => Reads[r].user \in members[Reads[r].conv]]_vars

\* Whoever writes or reads has the rights for it at that moment, although they
\* were checked some statements earlier (SaveUser, SaveAI, Sync).
RightsAtTheMoment == StoredWithRights /\ PagesForMembers

\* However often and however concurrently a request is repeated, every call that
\* is answered is answered with the one message of its key, with the recipients
\* of that message and for the fingerprint it sent.
Idempotent ==
    \A c \in Call : answer[c].status = "saved" =>
        \E m \in rows :
            /\ SameKey(m, c) /\ SameFingerprint(m, c)
            /\ m.id = answer[c].id /\ m.recipients = answer[c].recipients
            /\ \A n \in rows : SameKey(n, c) => n = m

\* The lock of the sender makes the lookup of the key decisive: the unique index
\* never refuses what the lookup let through.
LookUpDecides == \A c \in Call : answer[c].status # "duplicate"

\* Every call ends.  The row locks are taken in one order, that of Save and of Sync
\* alike, so that only two inserts into one gap of the unique index ever wait for
\* each other, and those do not wait for ever.
CallsEnd == \A c \in Call : pc[c] # "idle" ~> pc[c] = "done"

\* A device that goes on asking is given every message of a conversation its user
\* stays in.
ReadersCatchUp ==
    \A r \in Reader, i \in 1..Cardinality(Call) :
        (\E m \in rows : m.id = i /\ m.conv = Reads[r].conv)
            ~> (i \in got[r] \/ Reads[r].user \notin members[Reads[r].conv])

-----------------------------------------------------------------------------
(* What makes the invariants above inductive. *)

Active(c) == pc[c] \notin {"idle", "done"}

\* The next statement of an open call waits for a lock.
Waits(c) ==
    \/ pc[c] = "user" /\ ~ConversationFree(Req[c].conv)
    \/ pc[c] = "absent" /\ ~InsertFree(c)

SyncWaits(r) == phase[r] = "user" /\ ~ConversationFree(Reads[r].conv)

\* Of the open transactions one can always execute its next statement, unless two
\* inserts wait for each other in one gap: Save, SaveAI and Sync are in no other
\* circle, because they take the user, the conversation and the gap in this order.
SomeoneMoves ==
    (\E c \in Call : Active(c)) \/ (\E r \in Reader : phase[r] # "idle") =>
        \/ \E c \in Call : Active(c) /\ ~Waits(c)
        \/ \E r \in Reader : phase[r] # "idle" /\ ~SyncWaits(r)
        \/ \E c \in Call : GapCircle(c)

\* One transaction at a time holds the row of a user, and of a conversation.
LocksExclude ==
    /\ \A c, d \in Call :
          c # d /\ Active(c) /\ Active(d) => Req[c].sender # Req[d].sender
    /\ \A c, d \in Call :
          c # d /\ HasConversation(c) /\ HasConversation(d) => Req[c].conv # Req[d].conv
    /\ \A c \in Call, r \in Reader :
          HasConversation(c) /\ phase[r] = "conversation" => Req[c].conv # Reads[r].conv

\* A draft is what its call asked for, and newer than all that is committed in
\* its conversation.
DraftsAreNewest ==
    \A c \in Call :
        /\ pc[c] = "inserted" <=> draft[c] # Nil
        /\ draft[c] # Nil =>
              /\ SameKey(draft[c], c) /\ SameFingerprint(draft[c], c)
              /\ draft[c].recipients = snapshot[c]
              /\ draft[c].id < nextId
              /\ \A m \in rows : m.conv = Req[c].conv => m.id < draft[c].id

\* What a transaction has read under a lock is still so.
ReadsAreCurrent ==
    /\ \A c \in Call : HasConversation(c) =>
          Req[c].sender \in members[Req[c].conv] /\ snapshot[c] = members[Req[c].conv]
    /\ \A c \in Call : pc[c] \in {"allowed", "absent", "inserted"} /\ Req[c].ai =>
          Req[c].conv \in access[Req[c].sender]
    /\ \A c \in Call : pc[c] \in {"absent", "inserted"} => \A m \in rows : ~SameKey(m, c)
    /\ \A r \in Reader : phase[r] = "conversation" => Reads[r].user \in members[Reads[r].conv]

\* The table is finite, a key names one message, and no id lies ahead of the
\* counter.
RowsAreKeyed ==
    /\ IsFiniteSet(rows)
    /\ \A m \in rows : m.id < nextId
    /\ \A m, n \in rows : m.sender = n.sender /\ m.key = n.key => m = n

\* A cursor is the id of a message of its conversation.
CursorsPoint ==
    \A r \in Reader : cursor[r] # 0 =>
        \E m \in rows : m.conv = Reads[r].conv /\ m.id = cursor[r]

StoreInv ==
    /\ StoreTypeOK
    /\ LocksExclude
    /\ DraftsAreNewest
    /\ ReadsAreCurrent
    /\ RowsAreKeyed
    /\ CursorsPoint
    /\ CursorComplete
    /\ Idempotent
    /\ LookUpDecides

=============================================================================
