------------------------------- MODULE Replay -------------------------------
(***************************************************************************)
(* The other command of the Job, replay-dlq (cmd/job, internal/job/app/    *)
(* replay.go, internal/job/replay.go): it reads a range of dead letters,   *)
(* checks every one of them (the codec of task.go), and publishes the ones *)
(* that can be replayed as tasks for the recipients that were left.        *)
(* Meanwhile the consumer handles tasks, replays included and some of them *)
(* again, and writes new letters; the broker drops old ones; and somebody  *)
(* may produce an altered copy of a letter, all but the original payload   *)
(* in it, which ReplayTask has to see through.                             *)
(*                                                                         *)
(* The list of recipients of a task or a letter is a set: the codec        *)
(* refuses one that repeats an entry.                                      *)
(***************************************************************************)
EXTENDS Integers, Sequences, SequencesExt

CONSTANTS
    User,         \* the recipients of the one message of the instance
    Absent,       \* a field that is not there
    RunId,        \* replay_run_id: what the operator may give
    MaxPushes,    \* bound: records of the push topic
    MaxLetters,   \* bound: records of the dead-letter topic
    MaxDropped    \* bound: letters the broker drops

ASSUME ReplayConstants ==
    /\ User # {} /\ RunId # {}
    /\ Absent \notin RunId /\ \A S \in SUBSET User : S # Absent
    /\ MaxPushes \in Nat /\ MaxLetters \in Nat /\ MaxDropped \in Nat

VARIABLES
    pushes,       \* the push topic
    dlq,          \* the dead-letter topic
    retained,     \* the first offset the broker still has
    cmd,          \* idle, offsets, collect, prepare, publish, returned
    opts,         \* ReplayOptions
    expected,     \* collectReplayRange: the offset to come
    selected,     \* prepareReplay: the letters still to be published, by offset
    published,    \* ReplaySummary.Published
    written       \* history: what this command has put into the topic

replayVars  == <<pushes, dlq, retained, cmd, opts, expected, selected, published, written>>
commandVars == <<cmd, opts, expected, selected, published, written>>

NoUser == {}

\* What can be wrong with the bytes of a task: its encoding, its JSON, a field
\* that is missing, an identity that is malformed, a message that contradicts
\* itself; or nothing.
Fault == {"encoding", "structure", "fields", "identity", "message"}

PushRecord ==
    [fault : Fault \cup {"none"}, message : {"m", "other"}, recipients : {User},
     pending : {Absent} \cup SUBSET User, run : RunId \cup {Absent}, from : Nat]

\* A dead letter: the task as the consumer decoded it, the original payload, who
\* is left, and for the properties the record it is about and whether the
\* consumer wrote it.
Letter ==
    [fault : Fault \cup {"none"}, reason : {"unresolved", "invalid_task"},
     topic : {"own", "other"}, task : {Absent} \cup PushRecord,
     source : {Absent} \cup PushRecord, pending : SUBSET User, of : Nat, genuine : BOOLEAN]

ReplayTypeOK ==
    /\ pushes \in Seq(PushRecord) /\ dlq \in Seq(Letter)
    /\ retained \in Nat \ {0}
    /\ cmd \in {"off", "idle", "offsets", "collect", "publish", "returned"}
    /\ opts \in [run : RunId \cup {Absent}, from : Nat, to : Nat, execute : BOOLEAN]
    /\ expected \in Nat /\ selected \subseteq Nat /\ published \in Nat /\ written \in Nat

Push(fault, pending, run) ==
    [fault |-> fault, message |-> "m", recipients |-> User, pending |-> pending, run |-> run, from |-> 0]

\* The topic holds a task, an earlier replay of it and a record that is no task.
ReplayBlank ==
    /\ pushes = <<Push("none", Absent, Absent),
                  Push("none", {CHOOSE u \in User : TRUE}, CHOOSE r \in RunId : TRUE),
                  Push("structure", Absent, Absent)>>
    /\ dlq = <<>> /\ retained = 1
    /\ opts = [run |-> Absent, from |-> 0, to |-> 0, execute |-> FALSE]
    /\ expected = 0 /\ selected = {} /\ published = 0 /\ written = 0

ReplayInit == ReplayBlank /\ cmd = "idle"

-----------------------------------------------------------------------------
(* the codec *)

validUnicodeEscapes(t) == t.fault # "encoding"
checkJSON(t)           == t.fault # "structure"
requiredObject(t)      == t.fault # "fields"
validID(t)             == t.fault # "identity"
messageView(t)         == t.fault # "message"

\* A replay scope comes with its run, and names recipients of the task.
ReplayContext(t) ==
    \/ t.pending = Absent /\ t.run = Absent
    \/ /\ t.pending # Absent /\ t.run # Absent
       /\ t.pending # NoUser /\ t.pending \subseteq t.recipients

DecodeTask(t) ==
    /\ validUnicodeEscapes(t) /\ checkJSON(t) /\ requiredObject(t)
    /\ validID(t) /\ messageView(t)
    /\ t.recipients # NoUser
    /\ ReplayContext(t)

\* The envelope is read as strictly, its fields are looked at by ReplayTask.
DecodeDeadLetter(l) == validUnicodeEscapes(l) /\ checkJSON(l)

ImmutableDigest(t) == <<t.message, t.recipients>>

\* Who is in scope of a task.
Scope(t) == IF t.pending = Absent THEN t.recipients ELSE t.pending

-----------------------------------------------------------------------------
(* the consumer, and whoever else writes dead letters *)

\* Record k is handled, perhaps again; some recipients are left.
LetterWritten(k, left) ==
    LET t == pushes[k]
    IN  /\ Len(dlq) < MaxLetters
        /\ IF DecodeTask(t)
           THEN left \subseteq Scope(t) /\ left # NoUser ELSE left = NoUser
        /\ dlq' = Append(dlq,
             [fault |-> "none",
              reason |-> IF DecodeTask(t) THEN "unresolved" ELSE "invalid_task",
              topic |-> "own", task |-> IF DecodeTask(t) THEN t ELSE Absent,
              source |-> IF DecodeTask(t) THEN t ELSE Absent,
              pending |-> left, of |-> k, genuine |-> TRUE])
        /\ UNCHANGED <<pushes, retained, commandVars>>

\* An altered copy: another scope in the envelope and in its task, another
\* message or topic, or something wrong with the task or the envelope.
Produces(l) == dlq' = Append(dlq, [l EXCEPT !.genuine = FALSE])

LetterAltered(o) ==
    /\ Len(dlq) < MaxLetters
    /\ dlq[o].task # Absent /\ \A l \in Range(dlq) : l.genuine
    /\ \/ \E S \in SUBSET User, T \in {Absent} \cup SUBSET User :
             Produces([dlq[o] EXCEPT !.pending = S, !.task.pending = T])
       \/ Produces([dlq[o] EXCEPT !.task.message = "other"])
       \/ Produces([dlq[o] EXCEPT !.topic = "other"])
       \/ \E f \in Fault : Produces([dlq[o] EXCEPT !.task.fault = f])
       \/ \E f \in {"encoding", "structure"} : Produces([dlq[o] EXCEPT !.fault = f])
    /\ UNCHANGED <<pushes, retained, commandVars>>

Retention ==
    /\ retained <= Len(dlq) /\ retained <= MaxDropped
    /\ retained' = retained + 1
    /\ UNCHANGED <<pushes, dlq, commandVars>>

-----------------------------------------------------------------------------
(* replay-dlq *)

\* Mutant: only the task in the envelope limits the scope.
AllowedByTask(l) == Scope(l.task)

\* A replay of a replay may only narrow what was pending.
Allowed(l) == Scope(l.task) \cap Scope(l.source)

Replayable(l) ==
    /\ DecodeDeadLetter(l)
    /\ l.topic = "own"
    /\ l.task # Absent /\ l.reason = "unresolved" /\ l.pending # NoUser
    /\ DecodeTask(l.task) /\ DecodeTask(l.source)
    /\ ImmutableDigest(l.source) = ImmutableDigest(l.task)
    /\ l.pending \subseteq Allowed(l)

ReplayTask(o, run) ==
    [dlq[o].task EXCEPT !.pending = dlq[o].pending, !.run = run, !.from = o]

Command(o) ==
    /\ cmd \in {"idle", "returned"}
    /\ cmd' = "offsets"
    /\ opts' = o
    /\ expected' = o.from /\ selected' = {} /\ published' = 0 /\ written' = 0
    /\ UNCHANGED <<pushes, dlq, retained>>

ReplayReturns ==
    /\ cmd' = "returned"
    /\ UNCHANGED <<pushes, dlq, retained, opts, expected, selected, published, written>>

\* Any read may fail or be cancelled.
ReplayFails == cmd \in {"offsets", "collect"} /\ ReplayReturns

\* readReplayRange: the range lies in what the broker has.
ReadOffsets ==
    /\ cmd = "offsets"
    /\ opts.from >= retained /\ opts.to <= Len(dlq)
    /\ cmd' = "collect"
    /\ UNCHANGED <<pushes, dlq, retained, opts, expected, selected, published, written>>

\* collectReplayRange: the reader skips what the broker has dropped since.
FetchLetter ==
    /\ cmd = "collect" /\ expected <= opts.to
    /\ retained <= expected
    /\ expected' = expected + 1
    /\ UNCHANGED <<pushes, dlq, retained, cmd, opts, selected, published, written>>

\* prepareReplay: every letter of the range is looked at before one is sent.
PrepareReplay ==
    /\ cmd = "collect" /\ expected > opts.to
    /\ selected' = {o \in opts.from..opts.to : Replayable(dlq[o])}
    /\ cmd' = IF opts.execute THEN "publish" ELSE "returned"
    /\ UNCHANGED <<pushes, dlq, retained, opts, expected, published, written>>

\* publishMessage, in the order of the offsets: confirmed; or an error, and the
\* record may be in the topic.
PublishReplay(o, confirmed, arrives) ==
    /\ cmd = "publish"
    /\ o \in selected /\ \A q \in selected : o <= q
    /\ confirmed => arrives
    /\ arrives => Len(pushes) < MaxPushes
    /\ pushes' = IF arrives THEN Append(pushes, ReplayTask(o, opts.run)) ELSE pushes
    /\ written' = IF arrives THEN written + 1 ELSE written
    /\ published' = IF confirmed THEN published + 1 ELSE published
    /\ selected' = selected \ {o}
    /\ cmd' = IF confirmed THEN "publish" ELSE "returned"
    /\ UNCHANGED <<dlq, retained, opts, expected>>

AllPublished == cmd = "publish" /\ selected = {} /\ ReplayReturns

\* validateReplay: an explicit range that is not empty, and a run id.
Options ==
    {o \in [run : RunId, from : 1..MaxLetters, to : 1..MaxLetters, execute : BOOLEAN] : o.from <= o.to}

ReplayNext ==
    \/ \E o \in Options : Command(o)
    \/ ReplayFails \/ ReadOffsets \/ FetchLetter \/ PrepareReplay \/ AllPublished
    \/ \E o \in selected, confirmed, arrives \in BOOLEAN : PublishReplay(o, confirmed, arrives)
    \/ \E k \in DOMAIN pushes, left \in SUBSET User : LetterWritten(k, left)
    \/ \E o \in DOMAIN dlq : LetterAltered(o)
    \/ Retention

-----------------------------------------------------------------------------

\* What is replayed is the task that was left, and no more of it: a replay, and a
\* replay of a replay, goes only to recipients in scope of the record its letter
\* was written for, altered copy or not, and from a letter of the consumer's own
\* to those it names ("a modified envelope cannot widen it"); and the consumer
\* can read it.
ReplayNarrows ==
    \A k \in DOMAIN pushes : pushes[k].from # 0 =>
        LET l == dlq[pushes[k].from]
            r == pushes[l.of]
        IN  /\ ImmutableDigest(pushes[k]) = ImmutableDigest(r)
            /\ Scope(pushes[k]) # NoUser /\ Scope(pushes[k]) \subseteq Scope(r)
            /\ DecodeTask(pushes[k])
            /\ l.genuine => Scope(pushes[k]) = l.pending

\* The count that a command reports is what is in the topic, or one less when the
\* last write is uncertain; a preview, and a range of which a letter was dropped
\* before it was read, writes nothing.
ReplayAccounted ==
    /\ written - published \in {0, 1}
    /\ written = published + 1 => cmd = "returned"
    /\ written > 0 => opts.execute /\ expected = opts.to + 1

ReplaySafe == ReplayNarrows /\ ReplayAccounted

-----------------------------------------------------------------------------
(* What makes the invariant above inductive. *)

\* A letter carries the record it is about, a replay names its letter, and both
\* topics only grow.
TopicsRefer ==
    /\ \A o \in DOMAIN dlq :
          /\ dlq[o].of \in DOMAIN pushes
          /\ dlq[o].task # Absent => dlq[o].source = pushes[dlq[o].of]
    /\ \A k \in DOMAIN pushes : pushes[k].from \in {0} \cup DOMAIN dlq

\* What is selected was looked at, and only a command that has read its whole
\* range and was told to execute writes.
CommandInOrder ==
    /\ selected \subseteq DOMAIN dlq
    /\ \A o \in selected : Replayable(dlq[o])
    /\ cmd \in {"offsets", "collect", "publish"} => opts.run # Absent /\ expected <= opts.to + 1
    /\ cmd = "collect" => opts.from >= 1 /\ opts.to <= Len(dlq)
    /\ cmd \in {"off", "idle", "offsets", "collect"} => written = 0 /\ published = 0
    /\ cmd = "publish" => written = published /\ opts.execute /\ expected = opts.to + 1

ReplayInv ==
    /\ ReplayTypeOK
    /\ TopicsRefer
    /\ CommandInOrder
    /\ ReplaySafe

=============================================================================
