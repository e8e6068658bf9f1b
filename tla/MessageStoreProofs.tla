------------------------- MODULE MessageStoreProofs -------------------------
(***************************************************************************)
(* Proofs about MessageStore and Submit, for any number of users,          *)
(* conversations, calls and readers and any size of a page or a chunk.     *)
(* The argument: the lock of a conversation excludes other inserts from    *)
(* the moment an id is drawn to its commit (LocksExclude), so a draft is   *)
(* newer than all that is committed in its conversation (DraftsAreNewest)  *)
(* and lies ahead of every cursor (CursorsPoint).  A stored row is never   *)
(* changed, so every task of a message is cut from the same recipients,    *)
(* and the chunks 0 to ChunkCount - 1 cover them.                          *)
(***************************************************************************)
EXTENDS Submit, FiniteSetTheorems, TLAPS

-----------------------------------------------------------------------------

LEMMA RequestFacts ==
    ASSUME NEW c \in Call
    PROVE  /\ Req[c].sender \in User /\ Req[c].key \in Nat /\ Req[c].conv \in Conversation
           /\ Req[c].body \in Nat /\ Req[c].ai \in BOOLEAN
  BY StoreConstants DEF Request

LEMMA ReadsFacts ==
    ASSUME NEW r \in Reader
    PROVE  Reads[r].user \in User /\ Reads[r].conv \in Conversation
  BY StoreConstants

LEMMA InitInv == Init => StoreInv
  <1> SUFFICES ASSUME Init PROVE StoreInv
    OBVIOUS
  <1>1. StoreTypeOK
    <2>1. \A c \in Call : answer[c] \in Answer
      BY DEF Init, Answer, Refused
    <2> QED
      BY <2>1, StoreConstants DEF Init, StoreTypeOK
  <1>2. LocksExclude /\ ReadsAreCurrent
    BY DEF Init, LocksExclude, ReadsAreCurrent, Active, HasConversation
  <1>3. DraftsAreNewest
    BY DEF Init, DraftsAreNewest
  <1>4. RowsAreKeyed /\ CursorsPoint /\ CursorComplete
    BY FS_EmptySet DEF Init, RowsAreKeyed, CursorsPoint, CursorComplete
  <1>5. Idempotent /\ LookUpDecides
    BY DEF Init, Idempotent, LookUpDecides, Refused
  <1> QED
    BY <1>1, <1>2, <1>3, <1>4, <1>5 DEF StoreInv

-----------------------------------------------------------------------------
(* calls *)


\* A transaction that ends without a commit releases its locks and leaves nothing.
LEMMA EndKeeps ==
    ASSUME StoreInv, NEW c \in Call, NEW a \in Answer, Ends(c, a), a.status # "duplicate",
           a.status = "saved" =>
              \E m \in rows : /\ SameKey(m, c) /\ SameFingerprint(m, c)
                              /\ m.id = a.id /\ m.recipients = a.recipients,
           \/ draft' = [draft EXCEPT ![c] = Nil]
           \/ draft' = draft /\ pc[c] # "inserted",
           UNCHANGED <<rows, nextId, rightVars, snapshot, readerVars>>
    PROVE  StoreInv'
  <1>0. StoreTypeOK
    BY DEF StoreInv
  <1>1. /\ \A d \in Call : pc'[d] = IF d = c THEN "done" ELSE pc[d]
        /\ \A d \in Call : answer'[d] = IF d = c THEN a ELSE answer[d]
    BY <1>0 DEF Ends, Goes, StoreTypeOK
  <1>2. \A d \in Call : draft'[d] = IF d = c THEN Nil ELSE draft[d]
    BY <1>0 DEF StoreInv, DraftsAreNewest, StoreTypeOK
  <1>3. StoreTypeOK'
    <2>1. pc' \in [Call -> {"idle", "user", "conversation", "allowed", "absent", "inserted", "done"}]
      BY <1>0 DEF Ends, Goes, StoreTypeOK
    <2>2. answer' \in [Call -> Answer]
      BY <1>0 DEF Ends, StoreTypeOK
    <2>3. draft' \in [Call -> Message \cup {Nil}]
      BY <1>0 DEF StoreTypeOK
    <2> QED
      BY <1>0, <2>1, <2>2, <2>3 DEF StoreTypeOK, rightVars, readerVars
  <1>4. LocksExclude'
    BY <1>1 DEF StoreInv, LocksExclude, Active, HasConversation, readerVars
  <1>5. DraftsAreNewest'
    <2> SUFFICES ASSUME NEW d \in Call
                 PROVE  (/\ pc[d] = "inserted" <=> draft[d] # Nil
                         /\ draft[d] # Nil =>
                              /\ SameKey(draft[d], d) /\ SameFingerprint(draft[d], d)
                              /\ draft[d].recipients = snapshot[d]
                              /\ draft[d].id < nextId
                              /\ \A m \in rows : m.conv = Req[d].conv => m.id < draft[d].id)'
      BY DEF DraftsAreNewest
    <2>1. CASE d = c
      BY <1>1, <1>2, <2>1
    <2>2. CASE d # c
      BY <1>1, <1>2, <2>2 DEF StoreInv, DraftsAreNewest, SameKey, SameFingerprint
    <2> QED
      BY <2>1, <2>2
  <1>6. ReadsAreCurrent'
    BY <1>1 DEF StoreInv, ReadsAreCurrent, HasConversation, SameKey, rightVars, readerVars
  <1>7. RowsAreKeyed' /\ CursorsPoint' /\ CursorComplete'
    BY DEF StoreInv, RowsAreKeyed, CursorsPoint, CursorComplete, readerVars
  <1>8. Idempotent'
    <2> SUFFICES ASSUME NEW d \in Call, answer'[d].status = "saved"
                 PROVE  \E m \in rows :
                           /\ SameKey(m, d) /\ SameFingerprint(m, d)
                           /\ m.id = answer'[d].id /\ m.recipients = answer'[d].recipients
                           /\ \A n \in rows : SameKey(n, d) => n = m
      BY DEF Idempotent, SameKey, SameFingerprint
    <2>1. CASE d = c
      BY <1>1, <2>1 DEF StoreInv, RowsAreKeyed, SameKey
    <2>2. CASE d # c
      BY <1>1, <2>2 DEF StoreInv, Idempotent
    <2> QED
      BY <2>1, <2>2
  <1>9. LookUpDecides'
    BY <1>1 DEF StoreInv, LookUpDecides
  <1> QED
    BY <1>3, <1>4, <1>5, <1>6, <1>7, <1>8, <1>9 DEF StoreInv

LEMMA RefusedFacts ==
    ASSUME NEW e \in {"none", "forbidden", "conflict", "duplicate", "database"}
    PROVE  Refused(e) \in Answer /\ Refused(e).status = e
  BY DEF Refused, Answer

\* A call that goes on to its next statement, holding what it has to hold there.
LEMMA AdvanceKeeps ==
    ASSUME StoreInv, NEW c \in Call, NEW x \in {"user", "conversation", "allowed", "absent"},
           Goes(c, x), pc[c] \notin {"inserted", "done"},
           NEW to \in SUBSET User, snapshot' = [snapshot EXCEPT ![c] = to],
           x # "user" => /\ to = members[Req[c].conv]
                         /\ Req[c].sender \in members[Req[c].conv],
           ~Active(c) => UserFree(Req[c].sender),
           x # "user" /\ ~HasConversation(c) => ConversationFree(Req[c].conv),
           x \in {"allowed", "absent"} /\ Req[c].ai => Req[c].conv \in access[Req[c].sender],
           x = "absent" => \A m \in rows : ~SameKey(m, c),
           UNCHANGED <<rows, nextId, rightVars, draft, answer, readerVars>>
    PROVE  StoreInv'
  <1>0. StoreTypeOK
    BY DEF StoreInv
  <1>1. /\ \A d \in Call : pc'[d] = IF d = c THEN x ELSE pc[d]
        /\ \A d \in Call : snapshot'[d] = IF d = c THEN to ELSE snapshot[d]
    BY <1>0 DEF Goes, StoreTypeOK
  <1>2. StoreTypeOK'
    <2>1. pc' \in [Call -> {"idle", "user", "conversation", "allowed", "absent", "inserted", "done"}]
      BY <1>0 DEF Goes, StoreTypeOK
    <2>2. snapshot' \in [Call -> SUBSET User]
      BY <1>0 DEF StoreTypeOK
    <2> QED
      BY <1>0, <2>1, <2>2 DEF StoreTypeOK, rightVars, readerVars
  <1>3. LocksExclude'
    <2>1. \A d, e \in Call : d # e /\ Active(d)' /\ Active(e)' => Req[d].sender # Req[e].sender
      BY <1>1 DEF StoreInv, LocksExclude, Active, UserFree
    <2>2. \A d, e \in Call :
             d # e /\ HasConversation(d)' /\ HasConversation(e)' => Req[d].conv # Req[e].conv
      BY <1>1 DEF StoreInv, LocksExclude, HasConversation, ConversationFree
    <2>3. \A d \in Call, r \in Reader :
             HasConversation(d)' /\ phase'[r] = "conversation" => Req[d].conv # Reads[r].conv
      BY <1>1 DEF StoreInv, LocksExclude, HasConversation, ConversationFree, readerVars
    <2> QED
      BY <2>1, <2>2, <2>3 DEF LocksExclude
  <1>4. DraftsAreNewest'
    <2>1. draft[c] = Nil
      BY DEF StoreInv, DraftsAreNewest
    <2> QED
      BY <1>1, <2>1 DEF StoreInv, DraftsAreNewest, SameKey, SameFingerprint
  <1>5. ReadsAreCurrent'
    <2>1. \A d \in Call : HasConversation(d)' =>
             Req[d].sender \in members[Req[d].conv] /\ snapshot'[d] = members[Req[d].conv]
      BY <1>1 DEF StoreInv, ReadsAreCurrent, HasConversation
    <2>2. \A d \in Call : pc'[d] \in {"allowed", "absent", "inserted"} /\ Req[d].ai =>
             Req[d].conv \in access[Req[d].sender]
      BY <1>1 DEF StoreInv, ReadsAreCurrent
    <2>3. \A d \in Call : pc'[d] \in {"absent", "inserted"} => \A m \in rows : ~SameKey(m, d)
      BY <1>1 DEF StoreInv, ReadsAreCurrent
    <2> QED
      BY <2>1, <2>2, <2>3 DEF StoreInv, ReadsAreCurrent, SameKey, rightVars, readerVars
  <1>6. RowsAreKeyed' /\ CursorsPoint' /\ CursorComplete'
    BY DEF StoreInv, RowsAreKeyed, CursorsPoint, CursorComplete, readerVars
  <1>7. Idempotent' /\ LookUpDecides'
    BY DEF StoreInv, Idempotent, LookUpDecides, SameKey, SameFingerprint
  <1> QED
    BY <1>2, <1>3, <1>4, <1>5, <1>6, <1>7 DEF StoreInv

\* The statements before the insert.
LEMMA StatementKeeps ==
    ASSUME StoreInv, NEW c \in Call,
           LockUser(c) \/ LockConversation(c) \/ LockAccess(c) \/ LookUp(c)
    PROVE  StoreInv'
  <1>0. StoreTypeOK
    BY DEF StoreInv
  <1>1. snapshot = [snapshot EXCEPT ![c] = snapshot[c]] /\ snapshot[c] \in SUBSET User
    BY <1>0 DEF StoreTypeOK
  <1>2. CASE LockUser(c)
    <2>1. CASE Req[c].sender \in Registered
      BY <1>1, <1>2, <2>1, AdvanceKeeps DEF LockUser, Active
    <2>2. CASE Req[c].sender \notin Registered
      BY <1>2, <2>2, EndKeeps, RefusedFacts DEF LockUser
    <2> QED
      BY <2>1, <2>2
  <1>3. CASE LockConversation(c)
    <2>1. CASE Req[c].sender \in members[Req[c].conv]
      <3>1. members[Req[c].conv] \in SUBSET User
        BY <1>0, RequestFacts DEF StoreTypeOK
      <3> QED
        BY <1>3, <2>1, <3>1, AdvanceKeeps DEF LockConversation, Active, HasConversation
    <2>2. CASE Req[c].sender \notin members[Req[c].conv]
      BY <1>3, <2>2, EndKeeps, RefusedFacts DEF LockConversation
    <2> QED
      BY <2>1, <2>2
  <1>4. CASE LockAccess(c)
    <2>0. /\ Req[c].sender \in members[Req[c].conv] /\ snapshot[c] = members[Req[c].conv]
          /\ HasConversation(c) /\ Active(c)
      BY <1>4 DEF LockAccess, StoreInv, ReadsAreCurrent, HasConversation, Active
    <2>1. CASE Req[c].conv \in access[Req[c].sender]
      BY <1>1, <1>4, <2>0, <2>1, AdvanceKeeps DEF LockAccess
    <2>2. CASE Req[c].conv \notin access[Req[c].sender]
      BY <1>4, <2>2, EndKeeps, RefusedFacts DEF LockAccess
    <2> QED
      BY <2>1, <2>2
  <1>5. CASE LookUp(c)
    <2>0. /\ Req[c].sender \in members[Req[c].conv] /\ snapshot[c] = members[Req[c].conv]
          /\ HasConversation(c) /\ Active(c) /\ pc[c] \notin {"inserted", "done"}
          /\ Req[c].ai => Req[c].conv \in access[Req[c].sender]
      BY <1>5 DEF LookUp, StoreInv, ReadsAreCurrent, HasConversation, Active
    <2>1. CASE Ends(c, Refused("forbidden"))
      BY <1>5, <2>0, <2>1, EndKeeps, RefusedFacts DEF LookUp
    <2>2. ASSUME NEW m \in rows, SameKey(m, c), Ends(c, Replay(m, c))
          PROVE  StoreInv'
      <3>1. m \in Message
        BY <1>0 DEF StoreTypeOK
      <3>2. CASE SameFingerprint(m, c)
        <4>1. Replay(m, c) = Saved(m) /\ Saved(m) \in Answer /\ Saved(m).id = m.id
              /\ Saved(m).recipients = m.recipients /\ Saved(m).status = "saved"
          BY <3>1, <3>2 DEF Replay, Saved, Answer, Message
        <4> QED
          BY <1>5, <2>0, <2>2, <3>2, <4>1, EndKeeps DEF LookUp
      <3>3. CASE ~SameFingerprint(m, c)
        BY <1>5, <2>0, <2>2, <3>3, EndKeeps, RefusedFacts DEF LookUp, Replay
      <3> QED
        BY <3>2, <3>3
    <2>3. CASE (~\E m \in rows : SameKey(m, c)) /\ Goes(c, "absent") /\ UNCHANGED answer
      BY <1>1, <1>5, <2>0, <2>3, AdvanceKeeps DEF LookUp
    <2> QED
      BY <1>5, <2>1, <2>2, <2>3 DEF LookUp
  <1> QED
    BY <1>2, <1>3, <1>4, <1>5

LEMMA InsertKeeps ==
    ASSUME StoreInv, NEW c \in Call, Insert(c)
    PROVE  StoreInv'
  <1> DEFINE m == [id |-> nextId, sender |-> Req[c].sender, key |-> Req[c].key,
                   conv |-> Req[c].conv, body |-> Req[c].body, ai |-> Req[c].ai,
                   recipients |-> snapshot[c]]
  <1>0. StoreTypeOK
    BY DEF StoreInv
  <1>1. /\ pc[c] = "absent" /\ Goes(c, "inserted") /\ draft' = [draft EXCEPT ![c] = m]
        /\ nextId' = nextId + 1
        /\ UNCHANGED <<rows, rightVars, snapshot, answer, readerVars>>
    BY DEF Insert, StoreInv, ReadsAreCurrent
  <1>2. /\ m \in Message /\ m # Nil /\ m.id = nextId /\ m.conv = Req[c].conv
        /\ m.recipients = snapshot[c] /\ SameKey(m, c) /\ SameFingerprint(m, c)
    BY <1>0, RequestFacts, StoreConstants DEF Message, StoreTypeOK, SameKey, SameFingerprint
  <1> HIDE DEF m
  <1>3. /\ \A d \in Call : pc'[d] = IF d = c THEN "inserted" ELSE pc[d]
        /\ \A d \in Call : draft'[d] = IF d = c THEN m ELSE draft[d]
    BY <1>0, <1>1 DEF Goes, StoreTypeOK
  <1>4. StoreTypeOK'
    <2>1. pc' \in [Call -> {"idle", "user", "conversation", "allowed", "absent", "inserted", "done"}]
      BY <1>0, <1>1 DEF Goes, StoreTypeOK
    <2>2. draft' \in [Call -> Message \cup {Nil}] /\ nextId' \in Nat \ {0}
      BY <1>0, <1>1, <1>2 DEF StoreTypeOK
    <2> QED
      BY <1>0, <1>1, <2>1, <2>2 DEF StoreTypeOK, rightVars, readerVars
  <1>5. LocksExclude'
    BY <1>1, <1>3 DEF StoreInv, LocksExclude, Active, HasConversation, readerVars
  <1>6. DraftsAreNewest'
    <2> SUFFICES ASSUME NEW d \in Call
                 PROVE  (/\ pc[d] = "inserted" <=> draft[d] # Nil
                         /\ draft[d] # Nil =>
                              /\ SameKey(draft[d], d) /\ SameFingerprint(draft[d], d)
                              /\ draft[d].recipients = snapshot[d]
                              /\ draft[d].id < nextId
                              /\ \A n \in rows : n.conv = Req[d].conv => n.id < draft[d].id)'
      BY DEF DraftsAreNewest
    <2>1. CASE d = c
      BY <1>0, <1>1, <1>2, <1>3, <2>1 DEF StoreInv, RowsAreKeyed, StoreTypeOK, SameKey, SameFingerprint
    <2>2. CASE d # c
      <3>1. draft[d] # Nil => draft[d].id \in Nat
        BY <1>0 DEF StoreTypeOK, Message
      <3> QED
        BY <1>0, <1>1, <1>3, <2>2, <3>1
           DEF StoreInv, DraftsAreNewest, StoreTypeOK, SameKey, SameFingerprint
    <2> QED
      BY <2>1, <2>2
  <1>7. ReadsAreCurrent'
    BY <1>1, <1>3 DEF StoreInv, ReadsAreCurrent, HasConversation, SameKey, rightVars, readerVars
  <1>8. RowsAreKeyed'
    <2>1. \A n \in rows : n.id \in Nat
      BY <1>0 DEF StoreTypeOK, Message
    <2> QED
      BY <1>0, <1>1, <2>1 DEF StoreInv, RowsAreKeyed, StoreTypeOK
  <1>9. CursorsPoint' /\ CursorComplete' /\ Idempotent' /\ LookUpDecides'
    BY <1>1 DEF StoreInv, CursorsPoint, CursorComplete, Idempotent, LookUpDecides, SameKey,
       SameFingerprint, readerVars
  <1> QED
    BY <1>4, <1>5, <1>6, <1>7, <1>8, <1>9 DEF StoreInv

LEMMA CommitKeeps ==
    ASSUME StoreInv, NEW c \in Call, NEW heard \in BOOLEAN, Commit(c, heard)
    PROVE  StoreInv'
  <1> DEFINE m == draft[c]
             a == IF heard THEN Saved(m) ELSE Refused("database")
  <1>0. StoreTypeOK
    BY DEF StoreInv
  <1>1. /\ pc[c] = "inserted" /\ Ends(c, a) /\ draft' = [draft EXCEPT ![c] = Nil]
        /\ rows' = rows \cup {m}
        /\ UNCHANGED <<nextId, rightVars, snapshot, readerVars>>
    BY DEF Commit
  <1>2. /\ m \in Message /\ SameKey(m, c) /\ SameFingerprint(m, c) /\ m.id < nextId
        /\ m.conv = Req[c].conv
        /\ \A n \in rows : n.conv = m.conv => n.id < m.id
        /\ \A n \in rows : ~SameKey(n, c)
    BY <1>0, <1>1 DEF StoreInv, DraftsAreNewest, ReadsAreCurrent, StoreTypeOK, SameFingerprint
  <1>3. /\ a \in Answer /\ a.status \in {"saved", "database"}
        /\ a.status = "saved" => a.id = m.id /\ a.recipients = m.recipients
    BY <1>2 DEF Saved, Refused, Answer, Message
  <1> HIDE DEF m, a
  <1>4. /\ \A d \in Call : pc'[d] = IF d = c THEN "done" ELSE pc[d]
        /\ \A d \in Call : draft'[d] = IF d = c THEN Nil ELSE draft[d]
        /\ \A d \in Call : answer'[d] = IF d = c THEN a ELSE answer[d]
    BY <1>0, <1>1 DEF Ends, Goes, StoreTypeOK
  <1>5. StoreTypeOK'
    <2>1. pc' \in [Call -> {"idle", "user", "conversation", "allowed", "absent", "inserted", "done"}]
      BY <1>0, <1>1 DEF Ends, Goes, StoreTypeOK
    <2>2. answer' \in [Call -> Answer]
      BY <1>0, <1>1, <1>3 DEF Ends, StoreTypeOK
    <2>3. draft' \in [Call -> Message \cup {Nil}] /\ rows' \in SUBSET Message
      BY <1>0, <1>1, <1>2 DEF StoreTypeOK
    <2> QED
      BY <1>0, <1>1, <2>1, <2>2, <2>3 DEF StoreTypeOK, rightVars, readerVars
  <1>6. LocksExclude'
    BY <1>1, <1>4 DEF StoreInv, LocksExclude, Active, HasConversation, readerVars
  \* A draft of another call lies in another conversation and has another key.
  <1>7. \A d \in Call : d # c /\ HasConversation(d) => Req[d].conv # m.conv
    BY <1>1, <1>2 DEF StoreInv, LocksExclude, HasConversation
  <1>8. \A d \in Call : d # c /\ Active(d) => ~SameKey(m, d)
    BY <1>1, <1>2 DEF StoreInv, LocksExclude, Active, SameKey
  <1>9. DraftsAreNewest'
    <2> SUFFICES ASSUME NEW d \in Call
                 PROVE  (/\ pc[d] = "inserted" <=> draft[d] # Nil
                         /\ draft[d] # Nil =>
                              /\ SameKey(draft[d], d) /\ SameFingerprint(draft[d], d)
                              /\ draft[d].recipients = snapshot[d]
                              /\ draft[d].id < nextId
                              /\ \A n \in rows : n.conv = Req[d].conv => n.id < draft[d].id)'
      BY DEF DraftsAreNewest
    <2>1. CASE d = c
      BY <1>4, <2>1
    <2>2. CASE d # c
      <3>1. pc[d] = "inserted" => Req[d].conv # m.conv
        BY <1>7, <2>2 DEF HasConversation
      <3> QED
        BY <1>1, <1>4, <2>2, <3>1 DEF StoreInv, DraftsAreNewest, SameKey, SameFingerprint
    <2> QED
      BY <2>1, <2>2
  <1>10. ReadsAreCurrent'
    <2>1. \A d \in Call : pc'[d] \in {"absent", "inserted"} => \A n \in rows' : ~SameKey(n, d)
      BY <1>1, <1>4, <1>8 DEF StoreInv, ReadsAreCurrent, Active
    <2> QED
      BY <1>1, <1>4, <2>1 DEF StoreInv, ReadsAreCurrent, HasConversation, SameKey, rightVars, readerVars
  <1>11. RowsAreKeyed'
    <2>1. IsFiniteSet(rows')
      BY <1>1, FS_AddElement DEF StoreInv, RowsAreKeyed
    <2> QED
      BY <1>1, <1>2, <2>1 DEF StoreInv, RowsAreKeyed, SameKey
  <1>12. CursorsPoint'
    BY <1>1 DEF StoreInv, CursorsPoint, readerVars
  <1>13. CursorComplete'
    <2>1. \A r \in Reader : m.conv = Reads[r].conv => cursor[r] < m.id
      <3> SUFFICES ASSUME NEW r \in Reader, m.conv = Reads[r].conv
                   PROVE  cursor[r] < m.id
        OBVIOUS
      <3>1. CASE cursor[r] = 0
        BY <1>2, <3>1 DEF Message
      <3>2. CASE cursor[r] # 0
        BY <1>2, <3>2 DEF StoreInv, CursorsPoint
      <3> QED
        BY <3>1, <3>2
    <2>2. m.id \in Nat /\ \A r \in Reader : cursor[r] \in Nat
      BY <1>0, <1>2 DEF Message, StoreTypeOK
    <2> QED
      BY <1>1, <2>1, <2>2 DEF StoreInv, CursorComplete, readerVars
  <1>14. Idempotent'
    <2> SUFFICES ASSUME NEW d \in Call, answer'[d].status = "saved"
                 PROVE  \E k \in rows' :
                           /\ SameKey(k, d) /\ SameFingerprint(k, d)
                           /\ k.id = answer'[d].id /\ k.recipients = answer'[d].recipients
                           /\ \A n \in rows' : SameKey(n, d) => n = k
      BY DEF Idempotent, SameKey, SameFingerprint
    <2>1. CASE d = c
      BY <1>1, <1>2, <1>3, <1>4, <2>1
    <2>2. CASE d # c
      <3>1. PICK k \in rows :
               /\ SameKey(k, d) /\ SameFingerprint(k, d)
               /\ k.id = answer[d].id /\ k.recipients = answer[d].recipients
               /\ \A n \in rows : SameKey(n, d) => n = k
        BY <1>4, <2>2 DEF StoreInv, Idempotent
      <3>2. ~SameKey(m, d)
        BY <1>2, <3>1 DEF SameKey
      <3> QED
        BY <1>1, <1>4, <2>2, <3>1, <3>2
    <2> QED
      BY <2>1, <2>2
  <1>15. LookUpDecides'
    BY <1>3, <1>4 DEF StoreInv, LookUpDecides
  <1> QED
    BY <1>5, <1>6, <1>9, <1>10, <1>11, <1>12, <1>13, <1>14, <1>15 DEF StoreInv

LEMMA CallKeeps ==
    ASSUME StoreInv, NEW c \in Call, CallNext(c)
    PROVE  StoreInv'
  <1>1. CASE Abort(c)
    BY <1>1, EndKeeps, RefusedFacts DEF Abort
  <1>2. CASE Victim(c)
    BY <1>1, <1>2 DEF Victim
  <1> QED
    BY <1>1, <1>2, StatementKeeps, InsertKeeps, CommitKeeps DEF CallNext

-----------------------------------------------------------------------------
(* readers *)

\* A page holds every message between the cursor and the last message of it.
LEMMA PageIsGapless ==
    ASSUME StoreInv, NEW v, NEW position \in Nat, NEW m \in Page(v, position),
           NEW n \in After(v, position), n.id < m.id
    PROVE  n \in Page(v, position)
  <1> DEFINE below(k) == {l \in After(v, position) : l.id < k.id}
  <1>1. IsFiniteSet(below(m))
    BY FS_Subset DEF StoreInv, RowsAreKeyed, After
  <1>2. \A l \in rows : l.id \in Nat
    BY DEF StoreInv, StoreTypeOK, Message
  <1>3. below(n) \subseteq below(m)
    BY <1>2 DEF Page, After
  <1>4. /\ IsFiniteSet(below(n)) /\ Cardinality(below(n)) <= Cardinality(below(m))
        /\ Cardinality(below(n)) \in Nat /\ Cardinality(below(m)) \in Nat
    BY <1>1, <1>3, FS_Subset, FS_CardinalityType
  <1>5. Cardinality(below(m)) < Limit
    BY DEF Page
  <1> QED
    BY <1>4, <1>5, StoreConstants DEF Page

\* The steps of a reader change no row, no right and no call.
LEMMA ReaderKeepsRest ==
    ASSUME StoreInv, NEW r \in Reader, NEW x \in {"idle", "user", "conversation"},
           phase' = [phase EXCEPT ![r] = x],
           x = "conversation" => /\ ConversationFree(Reads[r].conv)
                                 /\ Reads[r].user \in members[Reads[r].conv],
           UNCHANGED <<rows, nextId, rightVars, callVars>>
    PROVE  LocksExclude' /\ DraftsAreNewest' /\ ReadsAreCurrent' /\ RowsAreKeyed'
           /\ Idempotent' /\ LookUpDecides'
  <1>1. \A q \in Reader : phase'[q] = IF q = r THEN x ELSE phase[q]
    BY DEF StoreInv, StoreTypeOK
  <1>2. LocksExclude'
    BY <1>1 DEF StoreInv, LocksExclude, Active, HasConversation, ConversationFree, callVars
  <1>3. DraftsAreNewest'
    BY DEF StoreInv, DraftsAreNewest, SameKey, SameFingerprint, callVars
  <1>4. ReadsAreCurrent'
    BY <1>1 DEF StoreInv, ReadsAreCurrent, HasConversation, SameKey, callVars, rightVars
  <1>5. RowsAreKeyed' /\ Idempotent' /\ LookUpDecides'
    BY DEF StoreInv, RowsAreKeyed, Idempotent, LookUpDecides, SameKey, SameFingerprint, callVars
  <1> QED
    BY <1>2, <1>3, <1>4, <1>5

LEMMA ReadPageKeeps ==
    ASSUME StoreInv, NEW r \in Reader, ReadPage(r)
    PROVE  StoreInv'
  <1> DEFINE page == Page(Reads[r].conv, cursor[r])
  <1>0. StoreTypeOK
    BY DEF StoreInv
  <1>1. /\ phase' = [phase EXCEPT ![r] = "idle"]
        /\ got' = [got EXCEPT ![r] = @ \cup {m.id : m \in page}]
        /\ UNCHANGED <<rows, nextId, rightVars, callVars, aborts>>
    BY DEF ReadPage
  <1>2. \A m \in page : m \in rows /\ m.conv = Reads[r].conv /\ m.id \in Nat \ {0}
    BY <1>0 DEF Page, After, StoreTypeOK, Message
  <1>3. /\ \A q \in Reader : got'[q] = IF q = r THEN got[r] \cup {m.id : m \in page} ELSE got[q]
        /\ \A q \in Reader : q # r => cursor'[q] = cursor[q]
        /\ cursor' \in [Reader -> Nat]
    BY <1>0, <1>1, <1>2 DEF StoreTypeOK, ReadPage
  <1>4. StoreTypeOK'
    <2>1. phase' \in [Reader -> {"idle", "user", "conversation"}]
      BY <1>0, <1>1 DEF StoreTypeOK
    <2>2. got' \in [Reader -> SUBSET (Nat \ {0})]
      BY <1>0, <1>1, <1>2 DEF StoreTypeOK
    <2> QED
      BY <1>0, <1>1, <1>3, <2>1, <2>2 DEF StoreTypeOK, rightVars, callVars
  <1>5. \/ page = {} /\ cursor'[r] = cursor[r]
        \/ \E m \in page : (\A n \in page : n.id <= m.id) /\ cursor'[r] = m.id
    BY <1>0 DEF ReadPage, StoreTypeOK
  <1>6. CursorsPoint'
    BY <1>1, <1>2, <1>3, <1>5 DEF StoreInv, CursorsPoint
  <1>7. CursorComplete'
    <2> SUFFICES ASSUME NEW n \in rows, n.conv = Reads[r].conv, n.id <= cursor'[r]
                 PROVE  n.id \in got'[r]
      BY <1>1, <1>3 DEF StoreInv, CursorComplete
    <2>1. n.id \in Nat /\ cursor[r] \in Nat
      BY <1>0 DEF StoreTypeOK, Message
    <2>2. CASE n.id <= cursor[r]
      BY <1>3, <2>2 DEF StoreInv, CursorComplete
    <2>3. CASE n.id > cursor[r]
      <3>1. n \in After(Reads[r].conv, cursor[r])
        BY <2>3 DEF After
      <3>2. PICK m \in page : cursor'[r] = m.id
        BY <1>5, <2>1, <2>3
      <3>3. CASE n.id = m.id
        BY <1>3, <3>2, <3>3
      <3>4. CASE n.id < m.id
        BY <1>3, <2>1, <3>1, <3>2, <3>4, PageIsGapless
      <3> QED
        BY <1>2, <2>1, <3>2, <3>3, <3>4
    <2> QED
      BY <2>1, <2>2, <2>3
  <1> QED
    BY <1>1, <1>4, <1>6, <1>7, ReaderKeepsRest DEF StoreInv

LEMMA ReaderKeeps ==
    ASSUME StoreInv, NEW r \in Reader, ReaderNext(r)
    PROVE  StoreInv'
  <1>0. StoreTypeOK
    BY DEF StoreInv
  <1>1. CASE ReadPage(r)
    BY <1>1, ReadPageKeeps
  <1>2. CASE SyncLockUser(r) \/ SyncLockConversation(r) \/ SyncAbort(r)
    <2>1. PICK x \in {"idle", "user", "conversation"} :
             /\ phase' = [phase EXCEPT ![r] = x]
             /\ x = "conversation" => /\ ConversationFree(Reads[r].conv)
                                      /\ Reads[r].user \in members[Reads[r].conv]
      BY <1>2 DEF SyncLockUser, SyncLockConversation, SyncAbort
    <2>2. UNCHANGED <<rows, nextId, rightVars, callVars, cursor, got>>
      BY <1>2 DEF SyncLockUser, SyncLockConversation, SyncAbort
    <2>3. aborts' \in [Reader -> 0..MaxAborts]
      BY <1>0, <1>2, StoreConstants DEF SyncLockUser, SyncLockConversation, SyncAbort, StoreTypeOK
    <2>4. phase' \in [Reader -> {"idle", "user", "conversation"}]
      BY <1>0, <2>1 DEF StoreTypeOK
    <2>5. StoreTypeOK'
      BY <1>0, <2>2, <2>3, <2>4 DEF StoreTypeOK, rightVars, callVars
    <2>6. CursorsPoint' /\ CursorComplete'
      BY <2>2 DEF StoreInv, CursorsPoint, CursorComplete
    <2> QED
      BY <2>1, <2>2, <2>5, <2>6, ReaderKeepsRest DEF StoreInv
  <1> QED
    BY <1>1, <1>2 DEF ReaderNext

-----------------------------------------------------------------------------
(* rights *)

\* A right is changed only when nobody holds the row it was read from.
LEMMA RightsKeep ==
    ASSUME StoreInv, RightsNext
    PROVE  StoreInv'
  <1>0. StoreTypeOK
    BY DEF StoreInv
  <1>1. UNCHANGED <<rows, nextId, callVars, readerVars>>
    BY DEF RightsNext, JoinGroup, LeaveGroup, ChangeAISetting
  <1>2. /\ members' \in [Conversation -> SUBSET User]
        /\ \A v \in Conversation : ConversationFree(v) \/ members'[v] = members[v]
    <2>1. ASSUME NEW u \in User, NEW g \in Group, JoinGroup(u, g) \/ LeaveGroup(u, g)
          PROVE  \E s \in SUBSET User : /\ members' = [members EXCEPT ![g] = s]
                                        /\ ConversationFree(g)
      BY <1>0, <2>1 DEF JoinGroup, LeaveGroup, StoreTypeOK, Conversation
    <2>2. members' = members
          \/ \E g \in Group, s \in SUBSET User :
                members' = [members EXCEPT ![g] = s] /\ ConversationFree(g)
      BY <2>1 DEF RightsNext, ChangeAISetting
    <2> QED
      BY <1>0, <2>2 DEF StoreTypeOK
  <1>3. /\ access' \in [User -> SUBSET Direct]
        /\ \A u \in User, v \in Conversation :
              AccessFree(u, v) \/ (v \in access[u] => v \in access'[u])
    <2>1. access' = access
          \/ \E u \in User, s \in SUBSET Direct :
                access' = [access EXCEPT ![u] = s] /\ \A v \in access[u] \ s : AccessFree(u, v)
      BY DEF RightsNext, JoinGroup, LeaveGroup, ChangeAISetting
    <2> QED
      BY <1>0, <2>1 DEF StoreTypeOK
  <1>4. StoreTypeOK'
    BY <1>0, <1>1, <1>2, <1>3 DEF StoreTypeOK, callVars, readerVars
  <1>5. ReadsAreCurrent'
    <2>1. \A c \in Call : HasConversation(c) => members'[Req[c].conv] = members[Req[c].conv]
      BY <1>2, RequestFacts DEF ConversationFree
    <2>2. \A r \in Reader : phase[r] = "conversation" =>
             members'[Reads[r].conv] = members[Reads[r].conv]
      BY <1>2, ReadsFacts DEF ConversationFree
    <2>3. \A c \in Call : pc[c] \in {"allowed", "absent", "inserted"} /\ Req[c].ai =>
             Req[c].conv \in access'[Req[c].sender]
      BY <1>3, RequestFacts DEF AccessFree, StoreInv, ReadsAreCurrent
    <2> QED
      BY <1>1, <2>1, <2>2, <2>3
         DEF StoreInv, ReadsAreCurrent, HasConversation, SameKey, callVars, readerVars
  <1>6. LocksExclude' /\ DraftsAreNewest'
    BY <1>1 DEF StoreInv, LocksExclude, DraftsAreNewest, Active, HasConversation, SameKey,
       SameFingerprint, callVars, readerVars
  <1>7. RowsAreKeyed' /\ CursorsPoint' /\ CursorComplete' /\ Idempotent' /\ LookUpDecides'
    BY <1>1 DEF StoreInv, RowsAreKeyed, CursorsPoint, CursorComplete, Idempotent, LookUpDecides,
       SameKey, SameFingerprint, callVars, readerVars
  <1> QED
    BY <1>4, <1>5, <1>6, <1>7 DEF StoreInv

-----------------------------------------------------------------------------

LEMMA StutterKeeps == ASSUME StoreInv, UNCHANGED vars PROVE StoreInv'
  <1> USE DEF vars, rightVars, callVars, readerVars
  <1>1. StoreTypeOK' /\ LocksExclude' /\ ReadsAreCurrent'
    BY DEF StoreInv, StoreTypeOK, LocksExclude, ReadsAreCurrent, Active, HasConversation, SameKey
  <1>2. DraftsAreNewest' /\ RowsAreKeyed' /\ CursorsPoint' /\ CursorComplete'
    BY DEF StoreInv, DraftsAreNewest, RowsAreKeyed, CursorsPoint, CursorComplete, SameKey,
       SameFingerprint
  <1>3. Idempotent' /\ LookUpDecides'
    BY DEF StoreInv, Idempotent, LookUpDecides, SameKey, SameFingerprint
  <1> QED
    BY <1>1, <1>2, <1>3 DEF StoreInv

\* What the transactions of the message table keep, however the calls of Save and
\* SaveAI, the Syncs and the changes of membership and AI access interleave and
\* wherever they are cut off.
THEOREM StoreInvariant == Spec => []StoreInv
  <1>1. StoreInv /\ [StoreNext]_vars => StoreInv'
    BY CallKeeps, ReaderKeeps, RightsKeep, StutterKeeps DEF StoreNext
  <1> QED
    BY InitInv, <1>1, PTL DEF Spec

\* A device that pages with its cursor misses no message: none commits later
\* behind the cursor (Sync's "id > after" under the lock Save also takes).
THEOREM CursorNeverSkips == Spec => []CursorComplete
  <1>1. StoreInv => CursorComplete
    BY DEF StoreInv
  <1> QED
    BY StoreInvariant, <1>1, PTL

\* Retries of a request, one after another or at once, end with one message and
\* every answered one with that message (Save's locking read of the unique key).
THEOREM OneMessagePerKey == Spec => []Idempotent
  <1>1. StoreInv => Idempotent
    BY DEF StoreInv
  <1> QED
    BY StoreInvariant, <1>1, PTL

\* No caller meets the unique index: the lock of the sender already orders the
\* calls of one key.
THEOREM IndexNeverRefuses == Spec => []LookUpDecides
  <1>1. StoreInv => LookUpDecides
    BY DEF StoreInv
  <1> QED
    BY StoreInvariant, <1>1, PTL

\* Membership and AI access cannot be withdrawn between the statement that reads
\* them and the commit (lockGroup, lockDirect and SaveAI's FOR UPDATE).
THEOREM RightsHoldAtCommit == Spec => StoredWithRights
  <1>1. StoreInv /\ [StoreNext]_vars =>
          [\A m \in rows' \ rows :
             /\ m.sender \in members[m.conv]
             /\ m.recipients = members[m.conv]
             /\ m.ai => m.conv \in access[m.sender]]_vars
    <2> SUFFICES ASSUME StoreInv, StoreNext, NEW m \in rows' \ rows
                 PROVE  /\ m.sender \in members[m.conv]
                        /\ m.recipients = members[m.conv]
                        /\ m.ai => m.conv \in access[m.sender]
      BY DEF vars
    <2>1. \/ rows' = rows
          \/ \E c \in Call, heard \in BOOLEAN : Commit(c, heard)
      BY DEF StoreNext, CallNext, LockUser, LockConversation, LockAccess, LookUp, Insert, Abort, Victim,
         ReaderNext, SyncLockUser, SyncLockConversation, ReadPage, SyncAbort,
         RightsNext, JoinGroup, LeaveGroup, ChangeAISetting
    <2>2. PICK c \in Call : pc[c] = "inserted" /\ m = draft[c]
      BY <2>1 DEF Commit
    <2>3. SameKey(m, c) /\ SameFingerprint(m, c) /\ m.recipients = snapshot[c]
      BY <2>2 DEF StoreInv, DraftsAreNewest
    <2> QED
      BY <2>2, <2>3 DEF StoreInv, ReadsAreCurrent, HasConversation, SameKey, SameFingerprint
  <1> QED
    BY StoreInvariant, <1>1, PTL DEF Spec, StoredWithRights

\* A user who has left a group is given no page of it, not even by a Sync that
\* began before (the membership read is under the lock LeaveGroup takes).
THEOREM PagesOnlyForMembers == Spec => PagesForMembers
  <1>1. StoreInv /\ [StoreNext]_vars =>
          [\A r \in Reader : got'[r] # got[r] => Reads[r].user \in members[Reads[r].conv]]_vars
    <2> SUFFICES ASSUME StoreInv, StoreNext, NEW r \in Reader, got'[r] # got[r]
                 PROVE  Reads[r].user \in members[Reads[r].conv]
      BY DEF vars
    <2>1. \/ got' = got
          \/ \E q \in Reader : ReadPage(q)
      BY DEF StoreNext, CallNext, LockUser, LockConversation, LockAccess, LookUp, Insert, Commit, Victim,
         Abort, ReaderNext, SyncLockUser, SyncLockConversation, SyncAbort,
         RightsNext, JoinGroup, LeaveGroup, ChangeAISetting, readerVars
    <2>2. phase[r] = "conversation"
      BY <2>1 DEF ReadPage, StoreInv, StoreTypeOK
    <2> QED
      BY <2>2 DEF StoreInv, ReadsAreCurrent
  <1> QED
    BY StoreInvariant, <1>1, PTL DEF Spec, PagesForMembers

\* Both: what was checked before the locks were taken still holds when the
\* message is stored and when the page is handed out.
THEOREM RightsHold == Spec => RightsAtTheMoment
  BY RightsHoldAtCommit, PagesOnlyForMembers DEF RightsAtTheMoment


-----------------------------------------------------------------------------
(* who waits for whom *)

\* A call that has its conversation goes on, or is behind one that inserted into
\* its gap, or in a circle there: the row of its own key is nobody else's.
LEMMA HolderMoves ==
    ASSUME StoreInv, NEW c \in Call, HasConversation(c)
    PROVE  (\E d \in Call : Active(d) /\ ~Waits(d)) \/ GapCircle(c)
  <1>1. CASE pc[c] # "absent"
    <2>1. Active(c) /\ ~Waits(c)
      BY <1>1 DEF HasConversation, Active, Waits
    <2> QED
      BY <2>1
  <1>2. CASE pc[c] = "absent" /\ GapHolders(c) = {}
    <2>1. \A d \in Call : draft[d] # Nil => ~SameKey(draft[d], c)
      <3> SUFFICES ASSUME NEW d \in Call, draft[d] # Nil, SameKey(draft[d], c)
                   PROVE  FALSE
        OBVIOUS
      <3>1. pc[d] = "inserted" /\ SameKey(draft[d], d)
        BY DEF StoreInv, DraftsAreNewest
      <3>2. c # d /\ Active(c) /\ Active(d) /\ Req[c].sender = Req[d].sender
        BY <1>2, <3>1 DEF Active, SameKey
      <3> QED
        BY <3>2 DEF StoreInv, LocksExclude
    <2>2. Active(c) /\ ~Waits(c)
      BY <1>2, <2>1 DEF Active, Waits, InsertFree
    <2> QED
      BY <2>2
  <1>3. CASE pc[c] = "absent" /\ GapHolders(c) # {}
    <2>1. PICK d \in GapHolders(c) : TRUE
      BY <1>3
    <2>2. d \in Call /\ pc[d] \in {"absent", "inserted"}
      BY <2>1 DEF GapHolders
    <2>3. CASE pc[d] = "absent"
      BY <1>3, <2>1, <2>3 DEF GapCircle
    <2>4. CASE pc[d] = "inserted"
      <3>1. Active(d) /\ ~Waits(d)
        BY <2>4 DEF Active, Waits
      <3> QED
        BY <2>2, <3>1
    <2> QED
      BY <2>2, <2>3, <2>4
  <1> QED
    BY <1>1, <1>2, <1>3

\* A conversation is free, or who has it goes on.
LEMMA ConversationMoves ==
    ASSUME StoreInv, NEW v, ~ConversationFree(v)
    PROVE  \/ \E c \in Call : Active(c) /\ ~Waits(c)
           \/ \E r \in Reader : phase[r] # "idle" /\ ~SyncWaits(r)
           \/ \E c \in Call : GapCircle(c)
  <1>1. CASE \E c \in Call : HasConversation(c)
    BY <1>1, HolderMoves
  <1>2. CASE \E r \in Reader : phase[r] = "conversation"
    <2>1. PICK r \in Reader : phase[r] = "conversation"
      BY <1>2
    <2>2. phase[r] # "idle" /\ ~SyncWaits(r)
      BY <2>1 DEF SyncWaits
    <2> QED
      BY <2>2
  <1> QED
    BY <1>1, <1>2 DEF ConversationFree

\* No transaction of Save, SaveAI or Sync is in a circle of waits other than that
\* of two inserts into one gap of the unique index: of the open ones somebody can
\* always execute its next statement.
THEOREM RowLocksAreOrdered == Spec => []SomeoneMoves
  <1>1. StoreInv => SomeoneMoves
    <2> SUFFICES ASSUME StoreInv,
                        (\E c \in Call : Active(c)) \/ (\E r \in Reader : phase[r] # "idle")
                 PROVE  \/ \E c \in Call : Active(c) /\ ~Waits(c)
                        \/ \E r \in Reader : phase[r] # "idle" /\ ~SyncWaits(r)
                        \/ \E c \in Call : GapCircle(c)
      BY DEF SomeoneMoves
    <2>1. CASE \E c \in Call : Active(c)
      <3>1. PICK c \in Call : Active(c)
        BY <2>1
      <3>2. CASE HasConversation(c)
        BY <3>2, HolderMoves
      <3>3. CASE ~HasConversation(c)
        <4>1. pc[c] \in {"idle", "user", "conversation", "allowed", "absent", "inserted", "done"}
          BY DEF StoreInv, StoreTypeOK
        <4>2. pc[c] = "user"
          BY <3>1, <3>3, <4>1 DEF Active, HasConversation
        <4>3. CASE ConversationFree(Req[c].conv)
          BY <3>1, <4>2, <4>3 DEF Waits
        <4> QED
          BY <4>3, ConversationMoves
      <3> QED
        BY <3>2, <3>3
    <2>2. CASE \E r \in Reader : phase[r] # "idle"
      <3>1. PICK r \in Reader : phase[r] # "idle"
        BY <2>2
      <3>2. CASE ~SyncWaits(r)
        BY <3>1, <3>2
      <3>3. CASE SyncWaits(r)
        BY <3>3, ConversationMoves DEF SyncWaits
      <3> QED
        BY <3>2, <3>3
    <2> QED
      BY <2>1, <2>2
  <1> QED
    BY <1>1, StoreInvariant, PTL


-----------------------------------------------------------------------------
(* chunks *)

\* A call is answered at its end, and not again.
LEMMA CallAnswersOnce ==
    ASSUME SubmitInv, NEW d \in Call, CallNext(d)
    PROVE  /\ rows \subseteq rows'
           /\ \A c \in Call : answer[c].status # "none" => answer'[c] = answer[c]
           /\ AnsweredAtEnd'
  <1> USE DEF SubmitInv, StoreInv, StoreTypeOK
  <1>0. /\ answer \in [Call -> Answer] /\ AnsweredAtEnd
        /\ \A c \in Call : c # d => pc'[c] = pc[c]
    BY DEF CallNext, LockUser, LockConversation, LockAccess, LookUp, Insert, Commit, Abort, Victim,
           Ends, Goes
  <1>1. pc[d] # "done" /\ rows \subseteq rows'
    BY DEF CallNext, LockUser, LockConversation, LockAccess, LookUp, Insert, Commit, Abort, Victim
  <1>2. \/ answer' = answer
        \/ pc'[d] = "done" /\ \E a : answer' = [answer EXCEPT ![d] = a]
    BY DEF CallNext, LockUser, LockConversation, LockAccess, LookUp, Insert, Commit, Abort, Victim,
           Ends, Goes
  <1>3. \A c \in Call : c # d => answer'[c] = answer[c]
    BY <1>0, <1>2
  <1>4. answer[d].status = "none"
    BY <1>0, <1>1 DEF AnsweredAtEnd
  <1>5. AnsweredAtEnd'
    BY <1>0, <1>2, <1>3, <1>4 DEF AnsweredAtEnd
  <1> QED
    BY <1>1, <1>3, <1>4, <1>5

\* A step of the table keeps what is committed and what was answered.
LEMMA StoreStep ==
    ASSUME SubmitInv, StoreNext
    PROVE  /\ StoreInv' /\ AnsweredAtEnd' /\ rows \subseteq rows'
           /\ \A c \in Call : answer[c].status # "none" => answer'[c] = answer[c]
  <1>1. StoreInv'
    BY CallKeeps, ReaderKeeps, RightsKeep DEF SubmitInv, StoreNext
  <1>2. CASE UNCHANGED <<rows, callVars>>
    BY <1>1, <1>2 DEF SubmitInv, AnsweredAtEnd, callVars
  <1>3. (\E c \in Call : CallNext(c)) \/ UNCHANGED <<rows, callVars>>
    BY DEF StoreNext, ReaderNext, SyncLockUser, SyncLockConversation, ReadPage, SyncAbort,
           RightsNext, JoinGroup, LeaveGroup, ChangeAISetting
  <1> QED
    BY <1>1, <1>2, <1>3, CallAnswersOnce

LEMMA DivType == ASSUME NEW n \in Nat, NEW k \in Nat \ {0} PROVE n \div k \in Nat
  OBVIOUS

LEMMA DivUp ==
    ASSUME NEW p \in Nat, NEW n \in Nat, NEW k \in Nat \ {0}, p < n
    PROVE  p \div k < (n + k - 1) \div k
  OBVIOUS

LEMMA CountType == ASSUME NEW to \in SUBSET User PROVE ChunkCount(to) \in Nat
  <1>1. Cardinality(to) \in Nat
    BY SubmitConstants, FS_Subset, FS_CardinalityType
  <1>2. Cardinality(to) + ChunkSize - 1 \in Nat
    BY <1>1, SubmitConstants
  <1> QED
    BY <1>2, DivType, SubmitConstants DEF ChunkCount

\* Every recipient is in a chunk, and the chunk is one of those that are counted.
LEMMA ChunksCover ==
    ASSUME NEW to \in SUBSET User, NEW u \in to
    PROVE  \E i \in 0..(ChunkCount(to) - 1) : u \in Chunk(to, i)
  <1> DEFINE below == {v \in to : v < u}
             i == Place(to, u) \div ChunkSize
  <1>1. IsFiniteSet(to) /\ Cardinality(to) \in Nat
    BY SubmitConstants, FS_Subset, FS_CardinalityType
  <1>2. below \subseteq to /\ u \notin below
    BY SubmitConstants
  <1>3. Place(to, u) \in Nat /\ Place(to, u) < Cardinality(to)
    <2> HIDE DEF below
    <2>1. IsFiniteSet(below) /\ Cardinality(below) \in Nat /\ Cardinality(below) <= Cardinality(to)
      BY <1>1, <1>2, FS_Subset, FS_CardinalityType
    <2>2. Cardinality(below) # Cardinality(to)
      BY <1>1, <1>2, FS_Subset
    <2>3. Place(to, u) = Cardinality(below)
      BY DEF Place, below
    <2> QED
      BY <1>1, <2>1, <2>2, <2>3
  <1>4. i \in Nat
    BY <1>3, DivType, SubmitConstants
  <1>5. i < ChunkCount(to)
    BY <1>1, <1>3, DivUp, SubmitConstants DEF ChunkCount
  <1>6. i \in 0..(ChunkCount(to) - 1)
    BY <1>4, <1>5, CountType
  <1> QED
    BY <1>6 DEF Chunk

-----------------------------------------------------------------------------
(* dispatch *)

LEMMA SubmitInitInv == SubmitInit => SubmitInv
  <1> SUFFICES ASSUME SubmitInit PROVE SubmitInv
    OBVIOUS
  <1>1. StoreInv
    BY InitInv DEF SubmitInit
  <1>2. SubmitTypeOK /\ TasksMatchStore /\ FirstChunkFirst
    BY DEF SubmitInit, SubmitTypeOK, TasksMatchStore, FirstChunkFirst
  <1>3. AnsweredAtEnd
    BY DEF SubmitInit, Init, AnsweredAtEnd, Refused
  <1>4. \A c \in Call : ChunkCount(answer[c].recipients) \in Nat
    BY <1>1, CountType DEF StoreInv, StoreTypeOK, Answer
  <1>5. PublishedIsLogged
    BY <1>4 DEF SubmitInit, PublishedIsLogged
  <1> QED
    BY <1>1, <1>2, <1>3, <1>5 DEF SubmitInv

\* While the table goes on, the topic stays true to it: rows are only added.
LEMMA StoreNextKeeps ==
    ASSUME SubmitInv, StoreNext \/ UNCHANGED vars, UNCHANGED pushVars
    PROVE  SubmitInv'
  <1> USE DEF pushVars
  <1>1. /\ StoreInv' /\ AnsweredAtEnd' /\ rows \subseteq rows'
        /\ \A c \in Call : answer[c].status # "none" => answer'[c] = answer[c]
    <2>1. CASE UNCHANGED vars
      BY <2>1, StutterKeeps DEF SubmitInv, AnsweredAtEnd, vars, callVars
    <2> QED
      BY <2>1, StoreStep
  <1>2. SubmitTypeOK' /\ FirstChunkFirst'
    BY DEF SubmitInv, SubmitTypeOK, FirstChunkFirst
  <1>3. TasksMatchStore'
    BY <1>1 DEF SubmitInv, TasksMatchStore
  <1>4. PublishedIsLogged'
    <2> SUFFICES ASSUME NEW c \in Call
                 PROVE  (/\ answer[c].status # "saved" => published[c] = 0 /\ dispatch[c] = "none"
                         /\ published[c] <= ChunkCount(answer[c].recipients)
                         /\ dispatch[c] = "QUEUED" =>
                               published[c] = ChunkCount(answer[c].recipients)
                         /\ \A i \in 0..(published[c] - 1) :
                               \E t \in log : /\ t.message = answer[c].id
                                              /\ t.recipients = Chunk(answer[c].recipients, i))'
      BY DEF PublishedIsLogged
    <2>1. CASE answer[c].status = "saved"
      BY <1>1, <2>1 DEF SubmitInv, PublishedIsLogged
    <2>2. CASE answer[c].status # "saved"
      <3>1. published'[c] = 0 /\ dispatch'[c] = "none"
        BY <2>2 DEF SubmitInv, PublishedIsLogged
      <3>2. ChunkCount(answer[c].recipients)' \in Nat
        BY <1>1, CountType DEF StoreInv, StoreTypeOK, Answer
      <3> QED
        BY <3>1, <3>2
    <2> QED
      BY <2>1, <2>2
  <1> QED
    BY <1>1, <1>2, <1>3, <1>4 DEF SubmitInv

\* A task of a call whose message is saved is cut from the stored recipients.
LEMMA TaskFacts ==
    ASSUME SubmitInv, NEW c \in Call, Dispatching(c),
           published[c] < ChunkCount(answer[c].recipients)
    PROVE  /\ TaskOf(c) \in Task /\ TaskOf(c).by = c
           /\ TaskOf(c).message = answer[c].id
           /\ TaskOf(c).recipients = Chunk(answer[c].recipients, published[c])
           /\ \E m \in rows :
                 /\ m.id = TaskOf(c).message
                 /\ TaskOf(c).count = ChunkCount(m.recipients)
                 /\ TaskOf(c).index < TaskOf(c).count
                 /\ TaskOf(c).recipients = Chunk(m.recipients, TaskOf(c).index)
  <1>1. PICK m \in rows : m.id = answer[c].id /\ m.recipients = answer[c].recipients
    BY DEF SubmitInv, StoreInv, Idempotent, Dispatching
  <1>2. answer[c].id \in Nat \ {0} /\ answer[c].recipients \in SUBSET User
    BY <1>1 DEF SubmitInv, StoreInv, StoreTypeOK, Message
  <1>3. published[c] \in Nat /\ ChunkCount(answer[c].recipients) \in Nat
    BY <1>2, CountType DEF SubmitInv, SubmitTypeOK
  <1>4. Chunk(answer[c].recipients, published[c]) \in SUBSET User
    BY <1>2 DEF Chunk
  <1>5. TaskOf(c) \in Task
    BY <1>2, <1>3, <1>4 DEF TaskOf, Task
  <1> QED
    BY <1>1, <1>5 DEF TaskOf

LEMMA PublishKeeps ==
    ASSUME SubmitInv, NEW c \in Call, Publish(c)
    PROVE  SubmitInv'
  <1>0. SubmitTypeOK /\ Dispatching(c) /\ published[c] < ChunkCount(answer[c].recipients)
    BY DEF SubmitInv, Publish
  <1>1. UNCHANGED <<vars, dispatch, flying>>
    BY DEF Publish
  <1>2. StoreInv' /\ AnsweredAtEnd'
    BY <1>1, StutterKeeps DEF SubmitInv, AnsweredAtEnd, vars, callVars
  <1>3. UNCHANGED <<rows, answer>>
    BY <1>1 DEF vars, callVars
  <1>4. /\ log' = log \cup {TaskOf(c)}
        /\ \A d \in Call : published'[d] = IF d = c THEN published[c] + 1 ELSE published[d]
    BY <1>0 DEF Publish, SubmitTypeOK
  <1>5. SubmitTypeOK'
    BY <1>0, <1>1, TaskFacts DEF Publish, SubmitTypeOK
  <1>6. TasksMatchStore'
    BY <1>0, <1>1, <1>3, <1>4, TaskFacts DEF SubmitInv, TasksMatchStore
  <1>7. PublishedIsLogged'
    <2> SUFFICES ASSUME NEW d \in Call
                 PROVE  (/\ answer[d].status # "saved" => published[d] = 0 /\ dispatch[d] = "none"
                         /\ published[d] <= ChunkCount(answer[d].recipients)
                         /\ dispatch[d] = "QUEUED" =>
                               published[d] = ChunkCount(answer[d].recipients)
                         /\ \A i \in 0..(published[d] - 1) :
                               \E t \in log : /\ t.message = answer[d].id
                                              /\ t.recipients = Chunk(answer[d].recipients, i))'
      BY DEF PublishedIsLogged
    <2>1. CASE d # c
      BY <1>1, <1>3, <1>4, <2>1 DEF SubmitInv, PublishedIsLogged
    <2>2. CASE d = c
      <3>1. published[c] \in Nat /\ ChunkCount(answer[c].recipients) \in Nat
        BY <1>0, CountType DEF SubmitInv, SubmitTypeOK, StoreInv, StoreTypeOK, Answer
      <3>2. \A i \in 0..(published[c] - 1) :
               \E t \in log' : /\ t.message = answer[c].id
                               /\ t.recipients = Chunk(answer[c].recipients, i)
        BY <1>4 DEF SubmitInv, PublishedIsLogged
      <3>3. \E t \in log' : /\ t.message = answer[c].id
                            /\ t.recipients = Chunk(answer[c].recipients, published[c])
        BY <1>0, <1>4, TaskFacts
      <3>4. \A i \in 0..published[c] :
               \E t \in log' : /\ t.message = answer[c].id
                               /\ t.recipients = Chunk(answer[c].recipients, i)
        <4> SUFFICES ASSUME NEW i \in 0..published[c]
                     PROVE  \E t \in log' : /\ t.message = answer[c].id
                                            /\ t.recipients = Chunk(answer[c].recipients, i)
          OBVIOUS
        <4>1. i \in 0..(published[c] - 1) \/ i = published[c]
          BY <3>1
        <4> QED
          BY <4>1, <3>2, <3>3
      <3>5. published'[c] = published[c] + 1 /\ published'[c] - 1 = published[c]
        BY <1>4, <3>1
      <3>6. published'[c] <= ChunkCount(answer[c].recipients)
        BY <1>0, <3>1, <3>5
      <3> QED
        BY <1>0, <1>1, <1>3, <2>2, <3>4, <3>5, <3>6 DEF Dispatching
    <2> QED
      BY <2>1, <2>2
  <1>8. FirstChunkFirst'
    <2>1. published'[c] # 0 /\ TaskOf(c).by = c /\ dispatch'[c] = "none"
      BY <1>0, <1>1, <1>4, TaskFacts DEF SubmitTypeOK, Dispatching
    <2> QED
      BY <1>1, <1>4, <2>1 DEF SubmitInv, FirstChunkFirst
  <1> QED
    BY <1>2, <1>5, <1>6, <1>7, <1>8 DEF SubmitInv

\* A call whose dispatch is settled: its answer is what its chunks say.
LEMMA SettleKeeps ==
    ASSUME SubmitInv, NEW c \in Call, PublishRefused(c) \/ PublishUncertain(c) \/ Published(c)
    PROVE  SubmitInv'
  <1>0. SubmitTypeOK /\ Dispatching(c)
    BY DEF SubmitInv, PublishRefused, PublishUncertain, Published
  <1>1. UNCHANGED <<vars, published, log>>
    BY DEF PublishRefused, PublishUncertain, Published
  <1>2. StoreInv' /\ AnsweredAtEnd'
    BY <1>1, StutterKeeps DEF SubmitInv, AnsweredAtEnd, vars, callVars
  <1>3. UNCHANGED <<rows, answer>>
    BY <1>1 DEF vars, callVars
  <1>4. PICK x \in {"QUEUED", "NOT_QUEUED", "UNKNOWN"} :
           /\ dispatch' = [dispatch EXCEPT ![c] = x]
           /\ x = "NOT_QUEUED" => published[c] = 0
           /\ x = "QUEUED" => published[c] = ChunkCount(answer[c].recipients)
           /\ x # "UNKNOWN" => flying' = flying
    BY DEF PublishRefused, PublishUncertain, Published, Settles
  <1>5. \A d \in Call : dispatch'[d] = IF d = c THEN x ELSE dispatch[d]
    BY <1>0, <1>4 DEF SubmitTypeOK
  <1>6. \/ flying' = flying
        \/ /\ published[c] < ChunkCount(answer[c].recipients)
           /\ flying' = flying \cup {TaskOf(c)}
    BY DEF PublishRefused, PublishUncertain, Published
  <1>7. SubmitTypeOK'
    BY <1>0, <1>1, <1>4, <1>6, TaskFacts DEF SubmitTypeOK
  <1>8. TasksMatchStore'
    BY <1>0, <1>1, <1>3, <1>6, TaskFacts DEF SubmitInv, TasksMatchStore
  <1>9. PublishedIsLogged'
    BY <1>0, <1>1, <1>3, <1>4, <1>5 DEF SubmitInv, PublishedIsLogged, Dispatching
  <1>10. FirstChunkFirst'
    BY <1>0, <1>1, <1>4, <1>5, <1>6, TaskFacts DEF SubmitInv, FirstChunkFirst, Dispatching
  <1> QED
    BY <1>2, <1>7, <1>8, <1>9, <1>10 DEF SubmitInv

\* A task in flight was already accounted for; landing or vanishing adds none.
LEMMA FlightKeeps ==
    ASSUME SubmitInv, NEW t \in flying, Lands(t) \/ Vanishes(t)
    PROVE  SubmitInv'
  <1>1. UNCHANGED <<vars, published, dispatch>> /\ log \subseteq log'
        /\ log' \cup flying' \subseteq log \cup flying
    BY DEF Lands, Vanishes
  <1>2. StoreInv' /\ AnsweredAtEnd'
    BY <1>1, StutterKeeps DEF SubmitInv, AnsweredAtEnd, vars, callVars
  <1>3. UNCHANGED <<rows, answer>>
    BY <1>1 DEF vars, callVars
  <1>4. SubmitTypeOK'
    BY <1>1 DEF SubmitInv, SubmitTypeOK, Lands, Vanishes
  <1>5. TasksMatchStore' /\ FirstChunkFirst'
    BY <1>1, <1>3 DEF SubmitInv, TasksMatchStore, FirstChunkFirst
  <1>6. PublishedIsLogged'
    BY <1>1, <1>3 DEF SubmitInv, PublishedIsLogged
  <1> QED
    BY <1>2, <1>4, <1>5, <1>6 DEF SubmitInv

\* What SubmitMessage and SendAI keep, from the statements of their transactions
\* to the last chunk, wherever a call is cut off and however late a task lands.
THEOREM SubmitInvariant == SubmitSpec => []SubmitInv
  <1>1. SubmitInv /\ [SubmitNext]_submitVars => SubmitInv'
    BY StoreNextKeeps, PublishKeeps, SettleKeeps, FlightKeeps DEF SubmitNext, submitVars
  <1> QED
    BY SubmitInitInv, <1>1, PTL DEF SubmitSpec

\* Every push task carries a chunk of the recipients stored with its message, so
\* the tasks that repeated calls publish under one task id never differ
\* (pushtask.New from the saved recipients in dispatch).
THEOREM TasksAreOfTheStore == SubmitSpec => []TasksMatchStore
  <1>1. SubmitInv => TasksMatchStore
    BY DEF SubmitInv
  <1> QED
    BY <1>1, SubmitInvariant, PTL

\* What a caller is told about the push is true: QUEUED only with every recipient
\* in the topic, NOT_QUEUED only with nothing there or on its way (dispatch and
\* its "published == 0" rule).
THEOREM DispatchTellsTruth == SubmitSpec => []DispatchIsTrue
  <1>1. SubmitInv => QueuedReachesAll
    <2> SUFFICES ASSUME SubmitInv, NEW c \in Call, dispatch[c] = "QUEUED",
                        NEW u \in answer[c].recipients
                 PROVE  \E t \in log : t.message = answer[c].id /\ u \in t.recipients
      BY DEF QueuedReachesAll
    <2>1. answer[c].recipients \in SUBSET User
      BY DEF SubmitInv, StoreInv, StoreTypeOK, Answer
    <2>2. PICK i \in 0..(ChunkCount(answer[c].recipients) - 1) :
             u \in Chunk(answer[c].recipients, i)
      BY <2>1, ChunksCover
    <2> QED
      BY <2>2 DEF SubmitInv, PublishedIsLogged
  <1>2. SubmitInv => NotQueuedIsSilent
    BY DEF SubmitInv, FirstChunkFirst, NotQueuedIsSilent
  <1>3. SubmitInv => DispatchIsTrue
    BY <1>1, <1>2 DEF DispatchIsTrue
  <1> QED
    BY <1>3, SubmitInvariant, PTL

\* What was proved of the table alone holds beside the dispatch as well: a repeated
\* SubmitMessage is answered with the one message of its key.
THEOREM SubmitIsIdempotent == SubmitSpec => []Idempotent
  <1>1. SubmitInv => Idempotent
    BY DEF SubmitInv, StoreInv
  <1> QED
    BY <1>1, SubmitInvariant, PTL

=============================================================================
