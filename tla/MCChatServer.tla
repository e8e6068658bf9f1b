---------------------------- MODULE MCChatServer ----------------------------
(* Pairs of HTTP requests of a member, an applicant and the owner; longer     *)
(* mixes of applications and approvals; and sockets of two users that replace *)
(* each other while messages are sent.                                        *)
EXTENDS ChatServer

CONSTANTS o, a, b, g, k1, k2, k3, k4, s1, s2, s3

MCUserOf == (s1 :> a) @@ (s2 :> a) @@ (s3 :> o)

R(op, u, v) == [op |-> op, u |-> u, v |-> v]
None == R("none", o, o)

GroupReads == {R("get", a, <<"info", g>>), R("get", a, <<"joined", a>>), R("get", a, <<"gsession", a>>),
               R("get", o, <<"owned", o>>), R("glist", a, g)}
Odd   == {R("leave", o, g), R("approve", a, a), R("list", a, {a}), R("list", a, {o}), R("open", a, a)}
First == {R("register", a, a), R("login", a, a), R("create", o, "direct"), R("get", a, <<"user", a>>)}

Requests(f) == req = [c \in Call |-> IF c \in DOMAIN f THEN f[c] ELSE None]

Rows(us, ms, mode, ap) ==
    /\ users = us /\ tokens = us
    /\ group = IF ms = {} THEN Nil ELSE [members |-> ms, count |-> Cardinality(ms), mode |-> mode]
    /\ contacts = ms /\ gsessions = ms
    /\ applies = [u \in User |-> IF u = a THEN ap ELSE 0]

\* Two changes of the membership against a reader.
Memberships ==
    /\ \E x \in GroupReads :
         \/ /\ \E w, y \in {R("join", a, g), R("leave", a, g)} : Requests(k1 :> w @@ k2 :> x @@ k3 :> y)
            /\ \E ms \in {{o}, {o, a}} : Rows({o, a}, ms, "direct", 0)
         \/ /\ Requests(k1 :> R("approve", o, a) @@ k2 :> x)
            /\ Rows({o, a}, {o}, "approve", 1)
    /\ sessions = {}
    /\ kafka = FALSE

\* Both ends open a session while one lists its sessions.
Openings ==
    /\ Requests(k1 :> R("open", a, o) @@ k2 :> R("get", a, <<"session", a>>) @@ k3 :> R("open", o, a))
    /\ Rows({o, a}, {o}, "direct", 0)
    /\ sessions = {}
    /\ kafka = FALSE

\* Messages of one conversation against a reader of its history.
Histories ==
    /\ \/ Requests(s1 :> R("send", a, o) @@ s3 :> R("send", o, a) @@ k1 :> R("list", a, {a, o}))
       \/ Requests(s3 :> R("send", o, g) @@ k1 :> R("glist", a, g) @@ k2 :> R("leave", a, g))
    /\ Rows({o, a}, {o, a}, "direct", 0)
    /\ sessions = {{o, a}}
    /\ kafka = FALSE

\* Applications, approvals and a departure of one user.
Applications ==
    /\ \E w \in {R("join", a, g), R("approve", o, a)} :
         Requests(k1 :> R("join", a, g) @@ k2 :> w @@ k3 :> R("approve", o, a)
                    @@ k4 :> R("leave", a, g))
    /\ Rows({o, a}, {o}, "approve", 1)
    /\ sessions = {}
    /\ kafka = FALSE

\* Two users join while one of them leaves again.
Crowds ==
    /\ Requests(k1 :> R("join", a, g) @@ k2 :> R("join", b, g) @@ k3 :> R("leave", a, g))
    /\ Rows({o, a, b}, {o}, "direct", 0)
    /\ sessions = {}
    /\ kafka = FALSE

\* The first requests of new users, and requests that are refused.
Refusals ==
    /\ \E x \in First \cup Odd, y \in First \cup {R("join", a, g)} : Requests(k1 :> x @@ k2 :> y)
    /\ \/ Rows({o}, {}, "direct", 0)
       \/ Rows({o, a}, {o}, "forbidden", 0)
    /\ sessions = {}
    /\ kafka = FALSE

\* Two sockets of one user, and one of another who sends a message to
\* the first or to the group.
Sockets ==
    /\ \E v \in {a, g} :
         Requests(s1 :> R("listen", a, a) @@ s2 :> R("listen", a, a) @@ s3 :> R("send", o, v))
    /\ Rows({o, a}, {o, a}, "direct", 0)
    /\ sessions = {{o, a}}
    /\ kafka = FALSE

\* Two messages through Kafka, one of them to a group of which the sender is
\* no member.
Events ==
    /\ Requests(s1 :> R("send", a, g) @@ s3 :> R("send", o, a))
    /\ Rows({o, a}, {o}, "direct", 0)
    /\ sessions = {{o, a}}
    /\ kafka = TRUE

\* The assistant's tools while the settings change, the history is read and
\* its user leaves the group.
P == {a, o}
Page(d, before, limit) == [session |-> d, before |-> before, limit |-> limit]
Tools == {R("sendAIMessage", a, P), R("sendAIMessage", a, g),
          R("getRecentMessages", a, Page(P, 0, 1)), R("getRecentMessages", a, Page(g, 1, 0)),
          R("getRecentMessages", a, Page(P, 2, 3)),
          R("searchMessages", a, Page(Nil, 0, 0)), R("searchMessages", a, Page(P, 0, 1)),
          R("searchMessages", a, Page(P, 0, 3)),
          R("listSessions", a, 0), R("listSessions", a, 3)}
Settings == {R("changeAISetting", a, << >>), R("changeAISetting", a, <<P>>),
             R("changeAISetting", a, <<g, g>>)}
OddSettings == {R("getAISetting", a, Nil), R("changeAISetting", a, <<P, g, P>>),
                R("changeAISetting", a, <<{o, b}>>)}

Assistants ==
    /\ \/ \E x \in Tools, y \in Settings \cup {R("leave", a, g)}, z \in Settings \cup OddSettings :
            Requests(k1 :> x @@ k2 :> y @@ k3 :> z)
       \/ \E d \in {P, g} : Requests(k1 :> R("sendAIMessage", a, d) @@ k2 :> R("glist", a, g)
                                       @@ k3 :> R("list", a, P))
    /\ Rows({o, a}, {o, a}, "direct", 0)
    /\ sessions = {P}
    /\ access \in {{<<a, P>>}, {<<a, g>>}}
    /\ log = <<[from |-> o, to |-> P, ai |-> FALSE], [from |-> a, to |-> g, ai |-> TRUE],
              [from |-> o, to |-> g, ai |-> FALSE], [from |-> a, to |-> P, ai |-> FALSE]>>
    /\ kafka = FALSE

MCInit ==
    /\ \/ Assistants
       \/ /\ log = << >> /\ access = {}
          /\ Memberships \/ Openings \/ Histories \/ Applications \/ Crowds \/ Refusals
             \/ Sockets \/ Events
    /\ Init

FairSpec == MCInit /\ [][Next]_vars /\ Fairness

\* Mixes of HTTP requests alone are looked at while the process serves.
Steady == main' = main \/ req[s2].op # "none"
=============================================================================
