--------------------------- MODULE MCVelocityLogin ---------------------------
(***************************************************************************)
(* Instances of VelocityLogin for TLC.                                     *)
(***************************************************************************)
EXTENDS VelocityLogin

CONSTANTS s1, s2

\* Two sign-ins, tokens that expire, and connections that send them.
Sending == [portal |-> {s1}, signIns |-> 2, changes |-> 2, tokens |-> 3, calls |-> 1,
            browses |-> FALSE, sends |-> TRUE, kinds |-> {"client"}]

\* Sign-ins, endpoint changes, detections and lists that overlap.
Changing == [portal |-> {s1}, signIns |-> 2, changes |-> 3, tokens |-> 1, calls |-> 2,
             browses |-> TRUE, sends |-> FALSE, kinds |-> {}]

\* Two servers.
Choosing == [Changing EXCEPT !.portal = {s1, s2}, !.signIns = 1, !.changes = 2]

\* Tokens expire meanwhile.
Expiring == [Changing EXCEPT !.signIns = 1, !.changes = 2, !.tokens = 2, !.calls = 1]

\* A feed is applied while connections of every kind come and go.
Connecting == [Changing EXCEPT !.signIns = 1, !.changes = 1, !.kinds = {"client", "websocket", "other"}]

MCPlans == {Sending, Changing, Choosing, Expiring, Connecting}
=============================================================================
