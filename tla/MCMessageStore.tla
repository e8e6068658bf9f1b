--------------------------- MODULE MCMessageStore ---------------------------
(* Small instances of MessageStore: a group g and a session s of two users.  *)
EXTENDS MessageStore

CONSTANTS u1, u2, g, s, c1, c2, c3, c4, c5, r1, r2

Ask(sender, key, conv, body, ai) ==
    [sender |-> sender, key |-> key, conv |-> conv, body |-> body, ai |-> ai]

\* u1 sends the same message twice and uses the key again for the assistant's
\* message in another conversation; u2 writes to the group too, with two keys.
MCReq ==
    [c \in Call |-> CASE c = c1 -> Ask(u1, 1, g, 1, FALSE)
                      [] c = c2 -> Ask(u1, 1, g, 1, FALSE)
                      [] c = c3 -> Ask(u2, 1, g, 1, FALSE)
                      [] c = c4 -> Ask(u1, 1, s, 1, TRUE)
                      [] c = c5 -> Ask(u2, 2, g, 1, FALSE)]

\* The key of c5 has a gap of its own, the others fall into one.
MCGapOf == [c \in Call |-> IF c = c5 THEN 2 ELSE 1]

MCReads == [r \in Reader |-> [user |-> IF r = r1 THEN u2 ELSE u1, conv |-> g]]
MCOwner == [v \in Group |-> u1]
MCFounders == [v \in Conversation |-> {u1, u2}]

\* The calls that are still to come: the others were cut off before they had
\* written anything.  In two of the mixes the reader has had its interrupted Sync.
Mixes == {{c1, c2, c4}, {c1, c3, c4}, {c1, c5}}

MCInit ==
    /\ \E mix \in Mixes :
          /\ pc = [c \in Call |-> IF c \in mix THEN "idle" ELSE "done"]
          /\ answer = [c \in Call |-> Refused(IF c \in mix THEN "none" ELSE "database")]
          /\ aborts = [r \in Reader |-> IF c5 \in mix THEN 0 ELSE MaxAborts]
    /\ rows = {}
    /\ nextId = 1
    /\ members = Founders
    /\ access = [u \in User |-> {}]
    /\ snapshot = [c \in Call |-> {}]
    /\ draft = [c \in Call |-> Nil]
    /\ phase = [r \in Reader |-> "idle"]
    /\ cursor = [r \in Reader |-> 0]
    /\ got = [r \in Reader |-> {}]

MCFairSpec == MCInit /\ [][StoreNext]_vars /\ Fairness

=============================================================================
