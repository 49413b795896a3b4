----------------------------- MODULE MCXmppServer -----------------------------
(***************************************************************************)
(* XmppServer with a few streams of one account and up to two rooms.  Each *)
(* plan opens up one part of it: signing in, the rooms, or the routing.    *)
(***************************************************************************)
EXTENDS XmppServer, TLC

CONSTANTS c1, c2, c3, svc, res1, res2, r1, r2

MCSessions == Streams \cup {svc}

Quiet == [tls |-> "disabled", conflict |-> "replace", streams |-> {c1, c2},
          resources |-> {res1}, rooms |-> {}, mechanisms |-> {"PLAIN"},
          payloads |-> {"right"}, messages |-> FALSE, faults |-> 0, clock |-> 0]

\* Where TLS is the client's choice there is one fault, as there are far more behaviours.
SignIn(tls) == [Quiet EXCEPT !.tls = tls, !.mechanisms = Mechanisms, !.payloads = Payloads,
                             !.faults = IF tls = "preferred" THEN 1 ELSE 2, !.clock = 1]
InRooms == [Quiet EXCEPT !.rooms = {r1}, !.resources = {res1, res2}, !.faults = 1, !.messages = TRUE]
Routing == [Quiet EXCEPT !.streams = {c1, c2, c3}, !.resources = {res1, res2}, !.messages = TRUE]

MCPlans ==
    {SignIn(tls) : tls \in {"required", "preferred", "disabled"}}
    \cup {InRooms, [InRooms EXCEPT !.conflict = "reject", !.rooms = {r2}]}
    \cup {Routing, [Routing EXCEPT !.conflict = "reject", !.faults = 1]}

\* Streams are alike, and so are nicknames.
Alike == Permutations(Streams) \cup Permutations(Nicks)
=============================================================================
