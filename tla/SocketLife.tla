----------------------------- MODULE SocketLife -----------------------------
(***************************************************************************)
(* What the rest of the system may rely on about a user's connections at a *)
(* Comet, without the Hub, the handlers and the leases: a connection       *)
(* enters the table of its Hub once, replacing the user's other one there, *)
(* becomes active at most once, leaves, and ends; and nothing enters or    *)
(* becomes active in a Hub that is draining.                               *)
(***************************************************************************)
CONSTANTS Connection, UserOf, Hub, HubOf

VARIABLES
    life,       \* where each connection is
    draining    \* the Hubs that admit nobody any more

vars == <<life, draining>>

Listed == {"pending", "active"}

Init ==
    /\ life = [c \in Connection |-> "idle"]
    /\ draining = [h \in Hub |-> FALSE]

\* The user's other connections at the Hub of c.
Rivals(c) ==
    {d \in Connection \ {c} :
        UserOf[d] = UserOf[c] /\ HubOf[d] = HubOf[c] /\ life[d] \in Listed}

Enter(c) ==
    /\ life[c] = "idle"
    /\ ~draining[HubOf[c]]
    /\ life' = [d \in Connection |->
                  IF d = c THEN "pending"
                  ELSE IF d \in Rivals(c) THEN "closing" ELSE life[d]]
    /\ UNCHANGED draining

Refuse(c) ==
    /\ life[c] = "idle"
    /\ life' = [life EXCEPT ![c] = "closing"]
    /\ UNCHANGED draining

Activate(c) ==
    /\ life[c] = "pending"
    /\ ~draining[HubOf[c]]
    /\ life' = [life EXCEPT ![c] = "active"]
    /\ UNCHANGED draining

\* Connections leave the table, or end.
Depart ==
    /\ \E closing, done \in SUBSET {c \in Connection : life[c] # "idle"} :
          /\ \A c \in closing : life[c] \in Listed
          /\ life' = [c \in Connection |->
                        IF c \in done THEN "done"
                        ELSE IF c \in closing THEN "closing" ELSE life[c]]
    /\ UNCHANGED draining

Drain(h) ==
    /\ draining' = [draining EXCEPT ![h] = TRUE]
    /\ UNCHANGED life

Next ==
    \/ \E c \in Connection : Enter(c) \/ Refuse(c) \/ Activate(c)
    \/ Depart
    \/ \E h \in Hub : Drain(h)

Spec == Init /\ [][Next]_vars

=============================================================================
