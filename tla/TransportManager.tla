--------------------------- MODULE TransportManager ---------------------------
(***************************************************************************)
(* The fields of src/src/transport-manager.js, and what its methods do for *)
(* every protocol: the entry of connect(), waitForRecipients() and         *)
(* disconnect().  SocketTransports and ObjectTransports add what connect() *)
(* and send() do for each protocol, Transports puts them together.         *)
(*                                                                         *)
(* A connect() is a call n, with an abort controller and a deadline of its *)
(* own.  What it creates (a net.Server, a net.Socket, a dgram.Socket or a  *)
(* transport object) is a handle.                                          *)
(***************************************************************************)
EXTENDS Naturals, FiniteSets

CONSTANTS
    Options,     \* the connections to be made: see OptionType
    Peers,       \* clients of a server; each has one socket at a time
    Waiters,     \* waitForRecipients() calls
    MaxConnects, \* bound: connect() calls
    MaxHandles,  \* bound: handles, that is connection attempts
    MaxFaults    \* bound: how often a remote server goes down or a listener fails

\* noRoute: attempts may also fail for want of a route; anyTime: disconnect() may come
\* during any connect(), and a listening socket may report an error.
OptionType ==
    [protocol : {"tcp", "udp", "http", "ws", "xmpp", "grpc"}, mode : {"client", "server"},
     greeting : BOOLEAN, direct : BOOLEAN, waitForServer : BOOLEAN, deadline : BOOLEAN,
     noRoute : BOOLEAN, anyTime : BOOLEAN]

ASSUME TransportAssumption ==
    /\ Options \subseteq OptionType
    /\ MaxConnects \in Nat
    /\ MaxHandles \in Nat
    /\ MaxFaults \in Nat
    /\ Peers \cap (0 .. MaxHandles) = {}
    /\ \A o \in Options : o.greeting => o.protocol = "tcp"

Calls == 1 .. MaxConnects
Handles == 1 .. MaxHandles
None == 0

VARIABLES
    opt,             \* the options of this connection
    call,            \* where each connect() is suspended, or how it ended
    aborted,         \* whether its controller was aborted
    expired,         \* whether its deadline has passed
    attempt,         \* the handle of its current attempt
    controller,      \* this._tcpAbortController
    handle,          \* the state of each handle
    connection,      \* this.connection
    pending,         \* this._tcpPendingSockets: attempts, or accepted sockets
    ready,           \* this.tcpClientSockets, this.udpServerClients, an object's clients
    peer,            \* each peer's socket, and the handle that accepted it
    waiter,          \* what became of each waitForRecipients() call
    unsent,          \* the recipients a send() in progress still waits for
    remoteUp,        \* the remote server accepts connections
    faults,          \* how often the outside world failed
    greeted,         \* ghost: connections whose greeting was written in full
    published        \* ghost: connections a record was written to

callVars == <<call, aborted, expired, attempt, controller>>
handleVars == <<handle, connection>>
peerVars == <<pending, ready, peer>>
sendVars == <<unsent, published>>
outside == <<opt, remoteUp, faults>>
vars == <<callVars, handleVars, peerVars, waiter, sendVars, greeted, outside>>

Away == [at |-> "away", of |-> None]

Init ==
    /\ opt \in Options
    /\ call = [n \in Calls |-> "none"]
    /\ aborted = [n \in Calls |-> FALSE]
    /\ expired = [n \in Calls |-> FALSE]
    /\ attempt = [n \in Calls |-> None]
    /\ controller = None
    /\ handle = [h \in Handles |-> "none"]
    /\ connection = None
    /\ pending = {}
    /\ ready = {}
    /\ peer = [c \in Peers |-> Away]
    /\ waiter = [w \in Waiters |-> "none"]
    /\ unsent = {}
    /\ remoteUp \in BOOLEAN
    /\ faults = 0
    /\ greeted = {}
    /\ published = {}

Tcp == opt.protocol = "tcp"
Udp == opt.protocol = "udp"
ObjectTransport == opt.protocol \notin {"tcp", "udp"}
Client == opt.mode = "client"
Server == opt.mode = "server"

InProgress == {"tearing down", "resolving", "opening", "greeting", "cleaning", "sleeping"}

\* A handle holds a socket until it is closed; `lost' is a transport object whose
\* connection ended without disconnect().
Live(h) == handle[h] \in {"opening", "up", "lost"}
Open(c) == peer[c].at = "open"

IsConnected == connection # None /\ handle[connection] = "up"

HasRecipients ==
    /\ IsConnected
    /\ \/ Client
       \/ Udp /\ ready # {}
       \/ \E c \in ready : Open(c)

\* resolveRecipientWaiters() and rejectRecipientWaiters().
Answered(answer) == [w \in Waiters |-> IF waiter[w] = "waiting" THEN answer ELSE waiter[w]]

\* Accepted sockets are destroyed at once; their `close' events come later.
Destroyed(S) ==
    [c \in Peers |-> IF c \in S /\ Open(c) THEN [peer[c] EXCEPT !.at = "destroyed"] ELSE peer[c]]

\* The next handle to be created.
Fresh(h) == handle[h] = "none" /\ \A g \in 1 .. (h - 1) : handle[g] # "none"

\* What disconnect() waits for: a destroyed client socket is as good as closed.
Settling == IF Tcp /\ Client THEN {} ELSE {h \in Handles : handle[h] = "closing"}

\* Unsettled calls that were not cancelled.
Busy == {n \in Calls : call[n] \in InProgress /\ ~ aborted[n]}

-----------------------------------------------------------------------------
(* disconnect()                                                            *)

\* What disconnect() does before it awaits the end of the active connection: the
\* sockets of a TCP server are destroyed with it, and so is what is pending.
MutantTearDown ==
    /\ controller' = None
    /\ waiter' = Answered("rejected")
    /\ pending' = {}
    /\ connection' = None
    /\ handle' = [h \in Handles |->
           IF h = connection \/ (h \in pending /\ Live(h)) THEN "closing" ELSE handle[h]]
    /\ IF Tcp /\ Server
       THEN /\ peer' = Destroyed(IF connection = None THEN {} ELSE ready)
            /\ ready' = IF connection = None THEN ready ELSE {}
       ELSE UNCHANGED <<peer, ready>>
TearDown ==
    /\ controller' = None
    /\ waiter' = Answered("rejected")
    /\ pending' = {}
    /\ connection' = None
    /\ handle' = [h \in Handles |->
           IF h = connection \/ (h \in pending /\ Live(h)) THEN "closing" ELSE handle[h]]
    /\ IF Tcp /\ Server
       THEN /\ peer' = Destroyed(pending \cup (IF connection = None THEN {} ELSE ready))
            /\ ready' = IF connection = None THEN ready ELSE {}
       ELSE UNCHANGED <<peer, ready>>

Abort == aborted' = [n \in Calls |-> aborted[n] \/ n = controller]

\* A connect() may be cancelled when it has a controller to abort: TCP, and for a
\* server as long as the name it binds to is not being looked up.  Other connects
\* are awaited first, except where the options say otherwise.
Cancellable(n) == n = controller /\ (Server => call[n] # "opening")

Disconnect ==
    /\ \A n \in Busy : opt.anyTime \/ Cancellable(n)
    /\ ObjectTransport => \A n \in Busy : call[n] # "resolving"
    /\ Abort
    /\ TearDown
    /\ UNCHANGED <<call, expired, attempt, sendVars, greeted, outside>>

\* A handle that was told to close has closed: a server once the last of its sockets
\* has.  UDP recipients are forgotten then, a transport object's clients with it.
HandleCloses(h) ==
    /\ handle[h] = "closing"
    /\ Tcp => \A c \in Peers : peer[c].of # h
    /\ Tcp => \A n \in Calls : attempt[n] = h => call[n] \notin {"opening", "greeting"}
    /\ handle' = [handle EXCEPT ![h] = "closed"]
    /\ connection' = IF connection = h /\ ~ ObjectTransport THEN None ELSE connection
    /\ waiter' = IF Tcp /\ Server THEN Answered("rejected") ELSE waiter
    /\ ready' = IF Tcp THEN ready ELSE {}
    /\ peer' = IF Tcp THEN peer ELSE [c \in Peers |-> Away]
    /\ UNCHANGED <<callVars, pending, sendVars, greeted, outside>>

-----------------------------------------------------------------------------
(* The entry of connect()                                                  *)

\* A caller awaits disconnect(), and starts a connect() when its last one ended or
\* was cancelled.  A connection that is no longer connected is torn down first.
Connect(n) ==
    /\ call[n] = "none"
    /\ \A m \in 1 .. (n - 1) : call[m] # "none"
    /\ Busy = {}
    /\ ~ IsConnected
    /\ Settling = {}
    /\ \E h \in Handles : Fresh(h)
    /\ IF connection = None
       THEN /\ call' = [call EXCEPT ![n] = "resolving"]
            /\ controller' = IF Tcp THEN n ELSE controller
            /\ UNCHANGED <<aborted, handleVars, peerVars, waiter>>
       ELSE /\ call' = [call EXCEPT ![n] = "tearing down"]
            /\ Abort
            /\ TearDown
    /\ UNCHANGED <<expired, attempt, sendVars, greeted, outside>>

TornDown(n) ==
    /\ call[n] = "tearing down"
    /\ Settling = {}
    /\ call' = [call EXCEPT ![n] = "resolving"]
    /\ controller' = IF Tcp THEN n ELSE controller
    /\ UNCHANGED <<aborted, expired, attempt, handleVars, peerVars, waiter, sendVars, greeted, outside>>

DeadlinePasses(n) ==
    /\ opt.deadline
    /\ call[n] \in InProgress
    /\ ~ expired[n]
    /\ expired' = [expired EXCEPT ![n] = TRUE]
    /\ UNCHANGED <<call, aborted, attempt, controller, handleVars, peerVars, waiter, sendVars,
                   greeted, outside>>

-----------------------------------------------------------------------------
(* waitForRecipients()                                                     *)

WaitForRecipients(w) ==
    /\ waiter[w] = "none"
    /\ IsConnected
    /\ waiter' = [waiter EXCEPT ![w] = IF HasRecipients THEN "resolved" ELSE "waiting"]
    /\ UNCHANGED <<callVars, handleVars, peerVars, sendVars, greeted, outside>>

WaitTimesOut(w) ==
    /\ waiter[w] = "waiting"
    /\ waiter' = [waiter EXCEPT ![w] = "rejected"]
    /\ UNCHANGED <<callVars, handleVars, peerVars, sendVars, greeted, outside>>
=============================================================================
