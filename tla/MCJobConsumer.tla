---------------------------- MODULE MCJobConsumer ----------------------------
(* Small instances of JobConsumer: a partition with a task, the same id with  *)
(* another content, the replay of another task, a record that is no task.     *)
EXTENDS JobConsumer

CONSTANTS p1, p2, q1, q2, t1, t2, u1, u2, old, new

A  == [id |-> t1, content |-> old, recipients |-> {u1, u2}, scope |-> {u1, u2}]
A2 == [id |-> t1, content |-> new, recipients |-> {u1, u2}, scope |-> {u1, u2}]
B  == [id |-> t2, content |-> old, recipients |-> {u1, u2}, scope |-> {u2}]

MCTask == {A, A2, B}

\* One partition, handed from process to process.
OneLog == [q \in Partition |-> <<A, A2, B, Garbage>>]

\* Two partitions of one process: the window is shared and one worker's failure
\* ends the other.
TwoLogs == [q \in Partition |-> IF q = q1 THEN <<A, B>> ELSE <<A2>>]

=============================================================================
