------------------------------- MODULE Submit -------------------------------
(***************************************************************************)
(* SubmitMessage and SendAI of Logic (internal/logic/service.go): a call   *)
(* saves its message (MessageStore) and then dispatches it, publishing one *)
(* push task for every chunk of its recipients (dispatch.go,               *)
(* kafkapush/publisher.go).  There is no outbox: a call that dies between  *)
(* the commit and the last chunk publishes no more.                        *)
(*                                                                         *)
(* User ids are compared as strings by the code; here they are numbers.    *)
(***************************************************************************)
EXTENDS MessageStore

CONSTANT ChunkSize   \* recipients in one push task

ASSUME SubmitConstants ==
    /\ User \subseteq Nat
    /\ IsFiniteSet(User)
    /\ ChunkSize \in Nat \ {0}

VARIABLES
    published,   \* how many chunks of a call were acknowledged
    dispatch,    \* SendResult.dispatch of a call
    flying,      \* tasks whose publish failed after they may have been sent
    log          \* the push topic

pushVars == <<published, dispatch, flying, log>>

submitVars == <<vars, pushVars>>

\* A push task; the call that published it is kept for the properties.
Task ==
    [message : Nat \ {0}, index : Nat, count : Nat, recipients : SUBSET User, by : Call]

SubmitTypeOK ==
    /\ published \in [Call -> Nat]
    /\ dispatch \in [Call -> {"none", "QUEUED", "NOT_QUEUED", "UNKNOWN"}]
    /\ flying \in SUBSET Task
    /\ log \in SUBSET Task

SubmitInit ==
    /\ Init
    /\ published = [c \in Call |-> 0]
    /\ dispatch = [c \in Call |-> "none"]
    /\ flying = {}
    /\ log = {}

-----------------------------------------------------------------------------
(* chunks of a recipient list *)

ChunkCount(to) == (Cardinality(to) + ChunkSize - 1) \div ChunkSize

\* The place of u in the sorted list of recipients.
Place(to, u) == Cardinality({v \in to : v < u})

Chunk(to, i) == {u \in to : Place(to, u) \div ChunkSize = i}

TaskOf(c) ==
    LET to == answer[c].recipients
    IN  [message |-> answer[c].id, index |-> published[c], count |-> ChunkCount(to),
         recipients |-> Chunk(to, published[c]), by |-> c]

-----------------------------------------------------------------------------

Dispatching(c) == answer[c].status = "saved" /\ dispatch[c] = "none"

Settles(c, state) == dispatch' = [dispatch EXCEPT ![c] = state]

\* The next chunk is acknowledged by the broker.
Publish(c) ==
    /\ Dispatching(c)
    /\ published[c] < ChunkCount(answer[c].recipients)
    /\ log' = log \cup {TaskOf(c)}
    /\ published' = [published EXCEPT ![c] = @ + 1]
    /\ UNCHANGED <<vars, dispatch, flying>>

\* Mutant: the answer looks at the last chunk only.
PublishRefusedLast(c) ==
    /\ Dispatching(c)
    /\ published[c] < ChunkCount(answer[c].recipients)
    /\ Settles(c, "NOT_QUEUED")
    /\ UNCHANGED <<vars, published, flying, log>>

\* The task is too large, the publisher is closed or the context has ended: the
\* chunk was certainly not sent.
PublishRefused(c) ==
    /\ Dispatching(c)
    /\ published[c] < ChunkCount(answer[c].recipients)
    /\ Settles(c, IF published[c] = 0 THEN "NOT_QUEUED" ELSE "UNKNOWN")
    /\ UNCHANGED <<vars, published, flying, log>>

\* Any other error: the broker may have the chunk, or get it later.
PublishUncertain(c) ==
    /\ Dispatching(c)
    /\ published[c] < ChunkCount(answer[c].recipients)
    /\ flying' = flying \cup {TaskOf(c)}
    /\ Settles(c, "UNKNOWN")
    /\ UNCHANGED <<vars, published, log>>

Published(c) ==
    /\ Dispatching(c)
    /\ published[c] = ChunkCount(answer[c].recipients)
    /\ Settles(c, "QUEUED")
    /\ UNCHANGED <<vars, published, flying, log>>

\* The writer goes on after its caller has gone.
Lands(t) ==
    /\ flying' = flying \ {t}
    /\ log' = log \cup {t}
    /\ UNCHANGED <<vars, published, dispatch>>

Vanishes(t) ==
    /\ flying' = flying \ {t}
    /\ UNCHANGED <<vars, published, dispatch, log>>

SubmitNext ==
    \/ StoreNext /\ UNCHANGED pushVars
    \/ \E c \in Call : \/ Publish(c) \/ PublishRefused(c) \/ PublishUncertain(c) \/ Published(c)
    \/ \E t \in flying : Lands(t) \/ Vanishes(t)

SubmitSpec == SubmitInit /\ [][SubmitNext]_submitVars

\* Only the database is fair: a call that has saved its message may publish
\* nothing of it ever, as it does when its process dies.
SubmitFairSpec == SubmitSpec /\ Fairness

-----------------------------------------------------------------------------

\* Every task in the topic, from whichever of the repeated calls, is about a
\* committed message and carries one chunk of the recipients that were stored
\* with it: two tasks of one task id never differ, whoever joined or left.
TasksMatchStore ==
    \A t \in log \cup flying :
        \E m \in rows :
            /\ m.id = t.message
            /\ t.count = ChunkCount(m.recipients)
            /\ t.index < t.count
            /\ t.recipients = Chunk(m.recipients, t.index)

\* QUEUED: every recipient of the message is in a task in the topic.
QueuedReachesAll ==
    \A c \in Call : dispatch[c] = "QUEUED" =>
        \A u \in answer[c].recipients :
            \E t \in log : t.message = answer[c].id /\ u \in t.recipients

\* NOT_QUEUED: nothing of this call is in the topic, nor will be.
NotQueuedIsSilent ==
    \A c \in Call : dispatch[c] = "NOT_QUEUED" => \A t \in log \cup flying : t.by # c

\* What SubmitMessage tells its caller about the push is true, whatever chunk
\* failed or landed late: QUEUED only if every recipient is in the topic,
\* NOT_QUEUED only if nothing of the call is there or will be (dispatch).
DispatchIsTrue == QueuedReachesAll /\ NotQueuedIsSilent

-----------------------------------------------------------------------------
(* What makes the invariants above inductive. *)

\* A call is answered once, when its transaction has ended.
AnsweredAtEnd == \A c \in Call : answer[c].status # "none" => pc[c] = "done"

\* The chunks that were acknowledged are in the topic.
PublishedIsLogged ==
    \A c \in Call :
        /\ answer[c].status # "saved" => published[c] = 0 /\ dispatch[c] = "none"
        /\ published[c] <= ChunkCount(answer[c].recipients)
        /\ dispatch[c] = "QUEUED" => published[c] = ChunkCount(answer[c].recipients)
        /\ \A i \in 0..(published[c] - 1) :
              \E t \in log : /\ t.message = answer[c].id
                             /\ t.recipients = Chunk(answer[c].recipients, i)

\* A call that is still at its first chunk has sent nothing.
FirstChunkFirst ==
    \A c \in Call :
        /\ dispatch[c] = "NOT_QUEUED" => published[c] = 0
        /\ published[c] = 0 /\ dispatch[c] # "UNKNOWN" => \A t \in log \cup flying : t.by # c

SubmitInv ==
    /\ StoreInv
    /\ SubmitTypeOK
    /\ AnsweredAtEnd
    /\ TasksMatchStore
    /\ PublishedIsLogged
    /\ FirstChunkFirst

=============================================================================
