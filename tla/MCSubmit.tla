------------------------------ MODULE MCSubmit ------------------------------
(* One user sends a message to a group twice; the others join and leave, and a *)
(* device of another member pages through the group.                           *)
EXTENDS Submit

CONSTANTS g, c1, c2, r1

MCReq ==
    [c \in Call |-> [sender |-> 2, key |-> 1, conv |-> g, body |-> 1, ai |-> FALSE]]
MCGapOf == [c \in Call |-> 1]
MCReads == [r \in Reader |-> [user |-> 1, conv |-> g]]
MCOwner == [v \in Group |-> 2]
MCFounders == [v \in Conversation |-> {1, 2}]

=============================================================================
