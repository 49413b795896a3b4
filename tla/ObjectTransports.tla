--------------------------- MODULE ObjectTransports ---------------------------
(***************************************************************************)
(* connectHttp(), connectWebSocket(), connectXmpp() and connectGrpc() in   *)
(* src/src/transport-manager.js: the manager's side of a protocol whose    *)
(* handle is a transport object with connect(), disconnect(),              *)
(* isConnected() and hasRecipients() of its own.                           *)
(***************************************************************************)
EXTENDS TransportManager

Grpc == opt.protocol = "grpc"
HttpClient == opt.protocol = "http" /\ Client
\* Only the WebSocket client retries, and it retries every failure.
Retries == opt.protocol = "ws" /\ Client /\ opt.waitForServer

\* The object is registered as the connection before it is connected; only gRPC's
\* is registered afterwards.
ObjectOpens(n, h) ==
    /\ ObjectTransport
    /\ call[n] = "resolving"
    /\ Fresh(h)
    /\ call' = [call EXCEPT ![n] = "opening"]
    /\ attempt' = [attempt EXCEPT ![n] = h]
    /\ handle' = [handle EXCEPT ![h] = "opening"]
    /\ connection' = IF Grpc THEN connection ELSE h
    /\ UNCHANGED <<aborted, expired, controller, peerVars, waiter, sendVars, greeted,
                   outside>>

\* The object's connect() resolved.  An HTTP client never asks its server.
ObjectConnects(n) ==
    /\ ObjectTransport
    /\ call[n] = "opening"
    /\ handle[attempt[n]] = "opening"
    /\ Client /\ ~ HttpClient => remoteUp
    /\ call' = [call EXCEPT ![n] = "resolved"]
    /\ handle' = [handle EXCEPT ![attempt[n]] = "up"]
    /\ connection' = IF Grpc THEN attempt[n] ELSE connection
    /\ UNCHANGED <<aborted, expired, attempt, controller, peerVars, waiter, sendVars,
                   greeted, outside>>

\* A WebSocket client's upgrade is under way.  Nothing ends it but the server: the transport
\* sets no timeout, and connectTimeoutMs is compared only after an attempt has failed.
UpgradePends(n) ==
    /\ opt.protocol = "ws" /\ Client
    /\ call[n] = "opening"
    /\ handle[attempt[n]] = "opening"

\* A WebSocket client that is disconnected while it connects never answers.
Interrupted(n) == opt.protocol = "ws" /\ Client /\ handle[attempt[n]] # "opening"

\* It rejected: the object is disconnected, except for gRPC's, which is left as it is.
\* The last handle of a retrying call may fail only once its deadline has passed.
ObjectFails(n) ==
    /\ ObjectTransport
    /\ call[n] = "opening"
    /\ ~ Interrupted(n)
    /\ Retries => expired[n] \/ \E h \in Handles : Fresh(h)
    /\ IF Grpc
       THEN /\ call' = [call EXCEPT ![n] = "rejected"]
            /\ UNCHANGED handle
       ELSE /\ call' = [call EXCEPT ![n] = "cleaning"]
            /\ handle' = [handle EXCEPT ![attempt[n]] = IF Live(attempt[n]) THEN "closing" ELSE @]
    /\ UNCHANGED <<aborted, expired, attempt, controller, connection, peerVars, waiter,
                   sendVars, greeted, outside>>

Cleaned(n) ==
    /\ call[n] = "cleaning"
    /\ handle[attempt[n]] = "closed"
    /\ connection' = IF connection = attempt[n] THEN None ELSE connection
    /\ call' = [call EXCEPT ![n] = IF Retries /\ ~ expired[n] THEN "sleeping" ELSE "rejected"]
    /\ UNCHANGED <<aborted, expired, attempt, controller, handle, peerVars, waiter,
                   sendVars, greeted, outside>>

\* Nothing ends the pause before its time, and nothing is looked at after it.
ObjectWakes(n) ==
    /\ ObjectTransport
    /\ call[n] = "sleeping"
    /\ call' = [call EXCEPT ![n] = "resolving"]
    /\ UNCHANGED <<aborted, expired, attempt, controller, handleVars, peerVars, waiter,
                   sendVars, greeted, outside>>

\* The connection of a client ends; an XMPP client reconnects by itself.
ObjectLost ==
    /\ ObjectTransport
    /\ Client /\ ~ HttpClient
    /\ ~ remoteUp
    /\ connection # None
    /\ handle[connection] = "up"
    /\ handle' = [handle EXCEPT ![connection] = "lost"]
    /\ UNCHANGED <<callVars, connection, peerVars, waiter, sendVars, greeted, outside>>

XmppReconnects ==
    /\ opt.protocol = "xmpp"
    /\ remoteUp
    /\ connection # None
    /\ handle[connection] = "lost"
    /\ handle' = [handle EXCEPT ![connection] = "up"]
    /\ UNCHANGED <<callVars, connection, peerVars, waiter, sendVars, greeted, outside>>

\* onClientConnected and onClientDisconnected of a server.
ObjectPeerJoins(c) ==
    /\ ObjectTransport /\ Server
    /\ IsConnected
    /\ peer[c].at = "away"
    /\ peer' = [peer EXCEPT ![c] = [at |-> "open", of |-> connection]]
    /\ ready' = ready \cup {c}
    /\ waiter' = Answered("resolved")
    /\ UNCHANGED <<callVars, handleVars, pending, sendVars, greeted, outside>>

ObjectPeerLeaves(c) ==
    /\ ObjectTransport
    /\ Open(c)
    /\ peer' = [peer EXCEPT ![c] = Away]
    /\ ready' = ready \ {c}
    /\ UNCHANGED <<callVars, handleVars, pending, waiter, sendVars, greeted, outside>>

ObjectProceeds(n) ==
    \/ \E h \in Handles : ObjectOpens(n, h)
    \/ ObjectConnects(n)
    \/ ObjectFails(n)
    \/ Cleaned(n)
    \/ ObjectWakes(n)
=============================================================================
