--------------------------- MODULE SocketTransports ---------------------------
(***************************************************************************)
(* The sockets of src/src/transport-manager.js: connectTcpServer() and     *)
(* connectTcpClient(), with the greeting that                              *)
(* src/src/tcp-handshake-utils.js writes to each new connection, and       *)
(* connectUdpServer() and connectUdpClient().                              *)
(***************************************************************************)
EXTENDS TransportManager

\* What an attempt to connect may fail with; the code retries ECONNREFUSED,
\* ECONNRESET, ETIMEDOUT, ENOTFOUND and EAI_AGAIN.
Failures == {"refused", "reset", "timed out"} \cup (IF opt.noRoute THEN {"no route"} ELSE {})
Retried == {"refused", "reset", "timed out", "unresolved"}

\* An attempt failed: the call is rejected, or pauses within its deadline.
AfterFailure(n, failure) ==
    call' = [call EXCEPT ![n] =
        IF aborted[n] \/ Server \/ ~ opt.waitForServer \/ failure \notin Retried \/ expired[n]
        THEN "rejected" ELSE "sleeping"]

\* The address is resolved: unless it was cancelled meanwhile, the call creates its
\* net.Server, or the next attempt's socket.
MutantTcpOpens(n, h) ==
    /\ Tcp
    /\ call[n] = "resolving"
    /\ Fresh(h)
    /\ call' = [call EXCEPT ![n] = "opening"]
    /\ attempt' = [attempt EXCEPT ![n] = h]
    /\ handle' = [handle EXCEPT ![h] = "opening"]
    /\ pending' = IF Client THEN pending \cup {h} ELSE pending
    /\ UNCHANGED <<aborted, expired, controller, connection, ready, peer, waiter, sendVars,
                   greeted, outside>>
TcpOpens(n, h) ==
    /\ Tcp
    /\ call[n] = "resolving"
    /\ ~ aborted[n]
    /\ Fresh(h)
    /\ call' = [call EXCEPT ![n] = "opening"]
    /\ attempt' = [attempt EXCEPT ![n] = h]
    /\ handle' = [handle EXCEPT ![h] = "opening"]
    /\ pending' = IF Client THEN pending \cup {h} ELSE pending
    /\ UNCHANGED <<aborted, expired, controller, connection, ready, peer, waiter, sendVars,
                   greeted, outside>>

TcpResolveFails(n) ==
    /\ Tcp
    /\ call[n] = "resolving"
    /\ AfterFailure(n, "unresolved")
    /\ UNCHANGED <<aborted, expired, attempt, controller, handleVars, peerVars, waiter, sendVars,
                   greeted, outside>>

\* The `listening' callback: it does not look at the controller again.
TcpListens(n) ==
    LET h == attempt[n]
    IN  /\ Tcp /\ Server
        /\ call[n] = "opening"
        /\ \A g \in Handles : handle[g] # "up"
        /\ call' = [call EXCEPT ![n] = "resolved"]
        /\ handle' = [handle EXCEPT ![h] = "up"]
        /\ connection' = h
        /\ UNCHANGED <<aborted, expired, attempt, controller, peerVars, waiter, sendVars, greeted,
                       outside>>

\* The client's connection is ready: connect() resolves.
ClientReady(n, h) ==
    /\ call' = [call EXCEPT ![n] = "resolved"]
    /\ connection' = h
    /\ pending' = pending \ {h}

TcpConnects(n) ==
    LET h == attempt[n]
    IN  /\ Tcp /\ Client
        /\ call[n] = "opening"
        /\ handle[h] = "opening"
        /\ remoteUp
        /\ handle' = [handle EXCEPT ![h] = "up"]
        /\ IF opt.greeting
           THEN /\ call' = [call EXCEPT ![n] = "greeting"]
                /\ UNCHANGED <<pending, connection>>
           ELSE ClientReady(n, h)
        /\ UNCHANGED <<aborted, expired, attempt, controller, ready, peer, waiter, sendVars,
                       greeted, outside>>

ClientGreetingSent(n) ==
    LET h == attempt[n]
    IN  /\ call[n] = "greeting"
        /\ handle[h] = "up"
        /\ greeted' = greeted \cup {h}
        /\ ClientReady(n, h)
        /\ UNCHANGED <<aborted, expired, attempt, controller, handle, ready, peer, waiter, sendVars,
                       outside>>

\* finishError(): the handle of the attempt is given up.
GiveUp(h) ==
    /\ handle' = [handle EXCEPT ![h] = IF Server THEN "closed" ELSE "closing"]
    /\ pending' = pending \ {h}

\* An `error' or `close' event of an attempt; a server that cannot bind.
MutantTcpOpenFails(n) ==
    /\ Tcp
    /\ call[n] = "opening"
    /\ Live(attempt[n])
    /\ GiveUp(attempt[n])
    /\ \E failure \in Failures : AfterFailure(n, failure)
    /\ UNCHANGED <<aborted, expired, attempt, controller, connection, ready, peer, waiter, sendVars,
                   greeted, outside>>
TcpOpenFails(n) ==
    /\ Tcp
    /\ call[n] = "opening"
    /\ GiveUp(attempt[n])
    /\ \E failure \in Failures : AfterFailure(n, failure)
    /\ UNCHANGED <<aborted, expired, attempt, controller, connection, ready, peer, waiter, sendVars,
                   greeted, outside>>

\* The write fails, the deadline passes, the call is cancelled, or the connection ends.
ClientGreetingFails(n) ==
    /\ call[n] = "greeting"
    /\ GiveUp(attempt[n])
    /\ AfterFailure(n, "greeting")
    /\ UNCHANGED <<aborted, expired, attempt, controller, connection, ready, peer, waiter, sendVars,
                   greeted, outside>>

\* The pause of the retry loop ends, or is aborted.
TcpWakes(n) ==
    /\ Tcp
    /\ call[n] = "sleeping"
    /\ call' = [call EXCEPT ![n] = IF aborted[n] \/ expired[n] THEN "rejected" ELSE "resolving"]
    /\ UNCHANGED <<aborted, expired, attempt, controller, handleVars, peerVars, waiter, sendVars,
                   greeted, outside>>

\* The server ended the client's connection: it is destroyed, and its `close' event
\* takes it out of the manager.
ServerHangsUp ==
    /\ Tcp /\ Client
    /\ ~ remoteUp
    /\ \E h \in Handles : /\ handle[h] = "up"
                          /\ handle' = [handle EXCEPT ![h] = "closing"]
    /\ UNCHANGED <<callVars, connection, peerVars, waiter, sendVars, greeted, outside>>

\* The `error' event of a socket that listens (a failed accept, say) does not close it.
ListenerError ==
    /\ (Tcp /\ Server) \/ Udp
    /\ opt.anyTime
    /\ faults < MaxFaults
    /\ faults' = faults + 1
    /\ connection # None
    /\ connection' = None
    /\ waiter' = Answered("rejected")
    /\ UNCHANGED <<callVars, handle, peerVars, sendVars, greeted, opt, remoteUp>>

-----------------------------------------------------------------------------
(* The connections of a server                                             *)

\* The peer becomes a recipient, and whoever waits for one is woken.
MutantPeerReady(c) ==
    /\ pending' = pending \ {c}
    /\ ready' = ready \cup {c}
    /\ waiter' = IF HasRecipients THEN Answered("resolved") ELSE waiter
PeerReady(c) ==
    /\ pending' = pending \ {c}
    /\ ready' = ready \cup {c}
    /\ waiter' = IF connection # None THEN Answered("resolved") ELSE waiter

CancelledCall(h) == \E n \in Calls : attempt[n] = h /\ aborted[n]

\* With a greeting the peer has to be sent it first.  One accepted after the call was
\* cancelled never becomes ready: its greeting closes it, or it stays pending.
Accept(c, h) ==
    /\ Tcp /\ Server
    /\ handle[h] = "up"
    /\ peer[c].at = "away"
    /\ peer' = [peer EXCEPT ![c] =
           [at |-> IF opt.greeting /\ CancelledCall(h) THEN "destroyed" ELSE "open", of |-> h]]
    /\ IF opt.greeting \/ CancelledCall(h)
       THEN pending' = pending \cup {c} /\ UNCHANGED <<ready, waiter>>
       ELSE PeerReady(c)
    /\ UNCHANGED <<callVars, handleVars, sendVars, greeted, outside>>

PeerGreetingSent(c) ==
    /\ Tcp /\ opt.greeting
    /\ c \in pending
    /\ Open(c)
    /\ greeted' = greeted \cup {c}
    /\ PeerReady(c)
    /\ UNCHANGED <<callVars, handleVars, peer, sendVars, outside>>

\* The peer ends its connection, or its greeting cannot be written in time.
PeerEnds(c) ==
    /\ Tcp
    /\ Open(c)
    /\ peer' = Destroyed({c})
    /\ UNCHANGED <<callVars, handleVars, pending, ready, waiter, sendVars, greeted, outside>>

\* The `close' event of an accepted socket; the callbacks of its writes came before.
PeerClosed(c) ==
    /\ peer[c].at = "destroyed"
    /\ c \notin unsent
    /\ peer' = [peer EXCEPT ![c] = Away]
    /\ pending' = pending \ {c}
    /\ ready' = ready \ {c}
    /\ greeted' = greeted \ {c}
    /\ published' = published \ {c}
    /\ UNCHANGED <<callVars, handleVars, waiter, unsent, outside>>

TcpProceeds(n) ==
    \/ \E h \in Handles : TcpOpens(n, h)
    \/ TcpResolveFails(n)
    \/ TcpListens(n)
    \/ TcpConnects(n)
    \/ ClientGreetingSent(n)
    \/ TcpOpenFails(n)
    \/ ClientGreetingFails(n)
    \/ TcpWakes(n)

TcpPeerStep(c) ==
    \/ \E h \in Handles : Accept(c, h)
    \/ PeerGreetingSent(c)
    \/ PeerEnds(c)
-----------------------------------------------------------------------------
(* UDP.  A direct server has one recipient, its destination; a registered  *)
(* one learns recipients from the registration marker of their datagrams   *)
(* and never loses one.                                                    *)

UdpOpens(n, h) ==
    /\ Udp
    /\ call[n] = "resolving"
    /\ Fresh(h)
    /\ call' = [call EXCEPT ![n] = "opening"]
    /\ attempt' = [attempt EXCEPT ![n] = h]
    /\ handle' = [handle EXCEPT ![h] = "opening"]
    /\ ready' = {}
    /\ UNCHANGED <<aborted, expired, controller, connection, pending, peer, waiter,
                   sendVars, greeted, outside>>

\* The socket is bound; no one has looked whether the call is still wanted.
UdpBound(n) ==
    /\ Udp
    /\ call[n] = "opening"
    /\ call' = [call EXCEPT ![n] = "resolved"]
    /\ handle' = [handle EXCEPT ![attempt[n]] = "up"]
    /\ connection' = attempt[n]
    /\ IF Server /\ opt.direct THEN \E destination \in Peers : ready' = {destination}
       ELSE UNCHANGED ready
    /\ UNCHANGED <<aborted, expired, attempt, controller, pending, peer, waiter, sendVars,
                   greeted, outside>>

UdpFails(n) ==
    /\ Udp
    /\ call[n] \in {"resolving", "opening"}
    /\ call' = [call EXCEPT ![n] = "rejected"]
    /\ handle' = IF call[n] = "opening" THEN [handle EXCEPT ![attempt[n]] = "closed"] ELSE handle
    /\ UNCHANGED <<aborted, expired, attempt, controller, connection, peerVars, waiter,
                   sendVars, greeted, outside>>

\* A registration marker from an endpoint that is not known yet.
Registers(c) ==
    /\ Udp /\ Server
    /\ ~ opt.direct
    /\ \E h \in Handles : handle[h] = "up"
    /\ c \notin ready
    /\ ready' = ready \cup {c}
    /\ waiter' = IF connection # None THEN Answered("resolved") ELSE waiter
    /\ UNCHANGED <<callVars, handleVars, pending, peer, sendVars, greeted, outside>>

UdpProceeds(n) ==
    \/ \E h \in Handles : UdpOpens(n, h)
    \/ UdpBound(n)
    \/ UdpFails(n)
=============================================================================
