----------------------------- MODULE MCCometHub -----------------------------
(* Small instances of CometHub: two handshakes of one user, or a third one of *)
(* another user.                                                              *)
EXTENDS CometHub

CONSTANTS u1, u2, c1, c2, c3

MCUserOf == [c \in Connection |-> IF c = c3 THEN u2 ELSE u1]

=============================================================================
