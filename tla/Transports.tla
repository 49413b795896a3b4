------------------------------ MODULE Transports ------------------------------
(***************************************************************************)
(* src/src/transport-manager.js as a whole: the connections of every       *)
(* protocol, their send(), and the network they live in.                   *)
(***************************************************************************)
EXTENDS SocketTransports, ObjectTransports

-----------------------------------------------------------------------------
(* send()                                                                  *)

\* The recipients of a record: the peers of a server, or the connection of a client.
MutantRecipients ==
    IF Client THEN {connection}
    ELSE {c \in ready \cup pending : Tcp => Open(c)}
Recipients ==
    IF Client THEN {connection} ELSE {c \in ready : Tcp => Open(c)}

\* The record is written to every recipient there is, in one step.
Send ==
    /\ Tcp \/ Udp
    /\ connection # None
    /\ unsent = {}
    /\ unsent' = Recipients
    /\ published' = published \cup Recipients
    /\ UNCHANGED <<callVars, handleVars, peerVars, waiter, greeted, outside>>

\* Whether a write to x still reaches a socket that is not destroyed.
Writable(x) == IF x \in Handles THEN handle[x] = "up" ELSE Tcp => Open(x)

Written(x) ==
    /\ x \in unsent
    /\ Writable(x)
    /\ unsent' = unsent \ {x}
    /\ UNCHANGED <<callVars, handleVars, peerVars, waiter, published, greeted, outside>>

\* One recipient's failed write settles the whole send; no one awaits the others.
WriteFails(x) ==
    /\ x \in unsent
    /\ ~ Writable(x)
    /\ unsent' = {}
    /\ UNCHANGED <<callVars, handleVars, peerVars, waiter, published, greeted, outside>>

-----------------------------------------------------------------------------
(* The server a client connects to                                         *)

RemoteGoesDown ==
    /\ Client
    /\ remoteUp
    /\ faults < MaxFaults
    /\ remoteUp' = FALSE
    /\ faults' = faults + 1
    /\ UNCHANGED <<opt, callVars, handleVars, peerVars, waiter, sendVars, greeted>>

RemoteComesUp ==
    /\ Client
    /\ ~ remoteUp
    /\ remoteUp' = TRUE
    /\ UNCHANGED <<opt, faults, callVars, handleVars, peerVars, waiter, sendVars, greeted>>

-----------------------------------------------------------------------------
Proceeds(n) == TcpProceeds(n) \/ UdpProceeds(n) \/ ObjectProceeds(n) \/ TornDown(n)

PeerStep(c) ==
    \/ TcpPeerStep(c)
    \/ PeerClosed(c)
    \/ Registers(c)
    \/ ObjectPeerJoins(c)
    \/ ObjectPeerLeaves(c)

Next ==
    \/ \E n \in Calls : Connect(n) \/ Proceeds(n) \/ DeadlinePasses(n)
    \/ \E h \in Handles : HandleCloses(h)
    \/ \E c \in Peers : PeerStep(c)
    \/ \E w \in Waiters : WaitForRecipients(w) \/ WaitTimesOut(w)
    \/ Send
    \/ \E x \in Peers \cup Handles : Written(x) \/ WriteFails(x)
    \/ ServerHangsUp \/ ListenerError \/ ObjectLost \/ XmppReconnects
    \/ RemoteGoesDown \/ RemoteComesUp
    \/ Disconnect

Spec == Init /\ [][Next]_vars

\* The runtime settles what it was asked to do: lookups, attempts, pauses and writes,
\* and it delivers the close of what was closed.  An attempt ends by a timeout of the
\* system or of the transport, except a WebSocket client's.  Peers, servers and callers
\* owe nothing.
FairSpec ==
    /\ Spec
    /\ \A n \in Calls : WF_vars(Proceeds(n) /\ ~ UpgradePends(n))
    /\ \A h \in Handles : WF_vars(HandleCloses(h))
    /\ \A c \in Peers : WF_vars(PeerClosed(c))
    /\ \A x \in Peers \cup Handles : WF_vars(Written(x) \/ WriteFails(x))

-----------------------------------------------------------------------------
(* Properties                                                              *)

CallStates == {"none", "resolved", "rejected"} \cup InProgress
HandleStates == {"none", "opening", "up", "lost", "closing", "closed"}

\* Types; and a TCP socket is pending or ready, never both.
TypeOK ==
    /\ opt \in Options
    /\ call \in [Calls -> CallStates]
    /\ aborted \in [Calls -> BOOLEAN]
    /\ expired \in [Calls -> BOOLEAN]
    /\ attempt \in [Calls -> Handles \cup {None}]
    /\ controller \in Calls \cup {None}
    /\ handle \in [Handles -> HandleStates]
    /\ connection \in (Handles \cup {None}) \ pending
    /\ pending \subseteq (IF Client THEN Handles ELSE Peers)
    /\ ready \subseteq Peers \ pending
    /\ peer \in [Peers -> [at : {"away", "open", "destroyed"}, of : Handles \cup {None}]]
    /\ waiter \in [Waiters -> {"none", "waiting", "resolved", "rejected"}]
    /\ unsent \subseteq Peers \cup Handles
    /\ remoteUp \in BOOLEAN
    /\ faults \in 0 .. MaxFaults
    /\ greeted \subseteq Peers \cup Handles
    /\ published \subseteq Peers \cup Handles

\* Whether h is the connection or the current attempt of a connect() that goes on.
Owned(h) ==
    \/ h = connection
    \/ \E n \in Busy : attempt[n] = h

\* A transport object closes its clients when it closes.
ClosingWith(c) == ObjectTransport /\ handle[peer[c].of] = "closing"

\* disconnect() "gracefully tears down the active transport and clears server-side
\* recipient state": every socket that is not closed belongs to the connection or to
\* the connect() in progress, never to both, and without a connection no accepted
\* socket is open and nobody waits for a recipient.  gRPC leaves a channel open when
\* its connect() fails.
NothingSurvivesDisconnect ==
    TypeOK /\ (~ opt.anyTime /\ opt.protocol # "grpc" =>
        /\ \A h \in Handles : Live(h) => Owned(h)
        /\ \A g, h \in Handles : Live(g) /\ Live(h) => g = h
        /\ connection = None => /\ \A c \in Peers : Open(c) => ClosingWith(c)
                                /\ \A w \in Waiters : waiter[w] # "waiting")

\* The greeting "is written before locally published replay records", "including
\* reconnects": on every connection of client and server by itself, however connects,
\* accepts, greetings and sends interleave.
GreetingFirst == opt.greeting => published \subseteq greeted

\* A TCP connect() that was cancelled at any point, between attempts or in one, never
\* succeeds afterwards.
CancelledNeverConnects ==
    [][\A n \in Calls : aborted[n] /\ ~ opt.anyTime /\ call[n] # "resolved"
                            => call'[n] # "resolved"]_vars

\* With connectWaitForServer "the method will retry [...] until the server accepts the
\* connection", and without a deadline it "waits forever": TCP and WebSocket clients,
\* as long as the host is routable; only a greeting that fails ends the wait.
WaitsForServer ==
    [][\A n \in Calls :
        /\ opt.waitForServer /\ Client /\ opt.protocol \in {"tcp", "ws"}
        /\ ~ opt.deadline /\ ~ opt.noRoute
        /\ ~ aborted[n]
        /\ call[n] \in InProgress \ {"greeting"}
        => call'[n] # "rejected"]_vars

\* What a connect() was told last counts: it ends when it is cancelled, never before.
ConnectKeepsItsWord == CancelledNeverConnects /\ WaitsForServer

\* The transport keeps the contract the replay engine relies on: the first recipient
\* wakes every waiter, no waiter outlives the connection, and there are recipients only
\* while connected.
Contract == INSTANCE TransportContract WITH connected <- IsConnected, recipients <- HasRecipients
ImplementsContract == Contract!Spec

\* A connect() that was cancelled, or whose deadline passed, settles - or it is a WebSocket
\* client's and waits for its server to answer the upgrade, however long ago the deadline
\* was (docs/headless.md:88 promises a timeout); one that is interrupted is never answered.
ConnectSettles ==
    ~ opt.anyTime =>
        \A n \in Calls : (call[n] \in InProgress /\ (aborted[n] \/ expired[n]))
                            ~> (call[n] \in {"resolved", "rejected"} \/ UpgradePends(n))

\* A send that waits for its recipients is answered, also when they or the whole
\* transport go away under it.
SendSettles == (unsent # {}) ~> (unsent = {})

\* What was told to close does: disconnect() resolves.
DisconnectCompletes ==
    \A h \in Handles : (handle[h] = "closing") ~> (handle[h] = "closed")

\* Nobody who called the transport waits for ever, but for a WebSocket client whose server
\* never answers.
CallsSettle == ConnectSettles /\ SendSettles /\ DisconnectCompletes
=============================================================================
