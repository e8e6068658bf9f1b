----------------------------- MODULE MCPresence -----------------------------
(* Small instances of Presence.  SameInstance: b2 is the restart of b1 under *)
(* the same instance_id.  TwoInstances: the user moves between two Comets.   *)
EXTENDS Presence

CONSTANTS u1, i1, i2, b1, b2, c1, c2

MCUserOf == [c \in Connection |-> u1]

\* c1 arrives on b1, every other connection on b2.
MCBootOf == [c \in Connection |-> IF c = c1 THEN b1 ELSE b2]

\* Both tokens expire before the clock stops, that of c1 one unit earlier.
ShortTokens == [c \in Connection |-> IF c = c1 THEN MaxTime - 1 ELSE MaxTime]

\* The token of c1 expires when the clock stops, that of c2 later.
LongTokens == [c \in Connection |-> IF c = c1 THEN MaxTime ELSE MaxTime + 1]

SameInstance == [b \in Boot |-> i1]

TwoInstances == [b \in Boot |-> IF b = b1 THEN i1 ELSE i2]

\* The steps a connection's end does not wait for are left out: no process
\* crashes, drains or is told to stop, which would only end it earlier.
Quiet ==
    /\ drain' = drain
    /\ \A b \in Boot :
          /\ proc'[b] # "crashed"
          /\ proc[b] = "serving" /\ proc'[b] # "serving" => OverdueBoot(b)

=============================================================================
