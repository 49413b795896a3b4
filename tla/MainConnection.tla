---------------------------- MODULE MainConnection ----------------------------
(***************************************************************************)
(* The connection handlers of the main process, src/src/main.js: connect   *)
(* and disconnect of the window's requests, and the events of the sockets  *)
(* and transports they create.                                             *)
(*                                                                         *)
(* A request to connect makes an attempt a: a socket, a server or a        *)
(* transport object, and what became of it is link[a].                     *)
(***************************************************************************)
EXTENDS Playback

CONSTANTS
    LateMixes,     \* the mixes of the users for whom an attempt that failed or was cancelled
                   \* may have outcomes after the next one has begun, or after it was closed
    MaxConnects,   \* bound: attempts
    MaxFaults      \* bound: how often a connection ends by itself

ASSUME MainAssumption ==
    /\ LateMixes \subseteq Mixes
    /\ MaxConnects \in Nat
    /\ MaxFaults \in Nat

VARIABLES
    link,        \* each attempt's state
    kind,        \* each attempt's kind
    aborted,     \* the attempts that were cancelled: TCP by the controller, XMPP by disconnect()
    unsettled,   \* cancelled XMPP attempts whose connect() is still pending
    returning,   \* XMPP attempts disconnected while their stream, or the room on it, came back
    connection,  \* the variable `connection'
    object,      \* grpcTransport, httpTransport or wsTransport
    xmpp,        \* xmppTransport
    controller,  \* tcpHandshakeController
    busy,        \* velocityConnectionBusy: what the window was told last
    faults       \* how often a connection ended by itself

linkVars == <<link, kind, aborted, unsettled, returning>>
mainVars == <<linkVars, connection, object, xmpp, controller, busy, faults>>

Attempts == 1 .. MaxConnects
None == 0

MainInit ==
    /\ link = [a \in Attempts |-> "none"]
    /\ kind = [a \in Attempts |-> "udp"]
    /\ aborted = {}
    /\ unsettled = {}
    /\ returning = {}
    /\ connection = None
    /\ object = None
    /\ xmpp = None
    /\ controller = None
    /\ busy = FALSE
    /\ faults = 0

Tcp(a) == kind[a] \in {"tcp client", "tcp server"}
Object(k) == k \in {"stream", "ws client"}
Late == mix \in LateMixes

\* connect() of an XMPP attempt is pending.  While it awaits the join of its room the stream
\* may drop (`adrift') and come back (`returned'), without the join.
Awaited == {"opening", "adrift", "returned"}

\* emitConnectionStatus()
Emit(status) ==
    /\ toWindow' = Append(toWindow, status)
    /\ busy' = (status # "disconnected")

Goes(a, state) == link' = [link EXCEPT ![a] = state]

-----------------------------------------------------------------------------
(* connect                                                                 *)

Active == connection # None \/ object # None \/ xmpp # None \/ busy

\* The catch clause of connect: whatever connection there is now is forgotten.
Caught ==
    /\ toWindow' = toWindow \o <<"disconnected", "refused">>
    /\ busy' = FALSE
    /\ connection' = None
    /\ xmpp' = None

\* A destroyed socket has closed before the next request is taken.
Ready == \A a \in Attempts :
    /\ ~ (kind[a] = "tcp client" /\ link[a] = "closing")
    /\ ~ Late => /\ a \notin unsettled
                 /\ link[a] # "closing"
                 /\ a \in aborted => link[a] \notin {"resolving", "opening"}

Begin(a, k) ==
    /\ kind' = [kind EXCEPT ![a] = k]
    /\ busy' = TRUE
    /\ Goes(a, IF Object(k) \/ k = "xmpp" THEN "opening" ELSE "resolving")
    /\ object' = IF Object(k) THEN a ELSE object
    /\ xmpp' = IF k = "xmpp" THEN a ELSE xmpp
    /\ controller' = IF k \in {"tcp client", "tcp server"} THEN a ELSE controller
    /\ UNCHANGED <<aborted, unsettled, returning, connection, toWindow>>

HandleConnect(a) ==
    /\ toMain # <<>>
    /\ Head(toMain) # "disconnect"
    /\ toMain' = Tail(toMain)
    /\ Ready
    /\ link[a] = "none"
    /\ UNCHANGED <<windowVars, faults>>
    /\ \/ /\ toWindow' = Append(toWindow, "refused")   \* active, or not valid
          /\ UNCHANGED <<linkVars, connection, object, xmpp, controller, busy>>
       \/ /\ ~ Active                                  \* a factory that throws
          /\ Caught
          /\ UNCHANGED <<linkVars, object, controller>>
       \/ /\ ~ Active
          /\ Begin(a, Head(toMain))

\* The address was looked up, or could not be: the catch clause cancels an XMPP attempt too.
Resolves(a) ==
    /\ link[a] = "resolving"
    /\ UNCHANGED <<windowVars, toMain, kind, returning, object, controller, faults>>
    /\ \/ /\ a \notin aborted
          /\ Goes(a, "opening")
          /\ UNCHANGED <<aborted, unsettled, connection, xmpp, busy, toWindow>>
       \/ /\ Caught
          /\ link' = [b \in Attempts |-> IF b \in {a, xmpp} THEN "closed" ELSE link[b]]
          /\ LET cancelled == {b \in Attempts : b = xmpp /\ link[b] \in Awaited}
             IN  /\ unsettled' = unsettled \cup cancelled
                 /\ aborted' = aborted \cup cancelled

\* A reconnect under way is not called off by disconnect().
Returning(a) == IF Late /\ link[a] \in {"lost", "adrift"} THEN returning \cup {a} ELSE returning

\* The listening, connect or bind callback, or connect() of the transport object.
Opens(a) ==
    /\ link[a] = "opening"
    /\ Goes(a, "up")
    /\ connection' = IF Object(kind[a]) THEN object ELSE a
    /\ Emit("connected")
    /\ UNCHANGED <<windowVars, toMain, kind, aborted, unsettled, returning, object, xmpp,
                   controller, faults>>

\* The error of a socket forgets the connection; a TCP socket closes after it.
OpenFails(a) ==
    /\ UNCHANGED <<windowVars, toMain, kind, aborted, unsettled, controller, faults>>
    /\ \/ /\ link[a] = "opening"
          /\ kind[a] \in {"tcp client", "tcp server", "udp"}
          /\ Goes(a, IF kind[a] = "tcp client" THEN "closing" ELSE "closed")
          /\ connection' = None
          /\ Emit("disconnected")
          /\ UNCHANGED <<returning, object, xmpp>>
       \/ /\ link[a] = "opening"
          /\ Object(kind[a])
          /\ Goes(a, "closed")
          /\ object' = None
          /\ Emit("disconnected")
          /\ UNCHANGED <<returning, connection, xmpp>>
       \/ /\ link[a] \in Awaited
          /\ kind[a] = "xmpp"
          /\ Goes(a, "cleaning")
          /\ xmpp' = None
          /\ returning' = Returning(a)
          /\ UNCHANGED <<connection, object, busy, toWindow>>

\* The teardown of a failed XMPP transport ends.
Cleaned(a) ==
    /\ link[a] = "cleaning"
    /\ Goes(a, "closed")
    /\ Emit("disconnected")
    /\ UNCHANGED <<windowVars, toMain, kind, aborted, unsettled, returning, connection, object,
                   xmpp, controller, faults>>

\* connect() of an XMPP transport that was disconnected meanwhile rejects.
RejectsLate(a) ==
    /\ a \in unsettled
    /\ unsettled' = unsettled \ {a}
    /\ Emit("disconnected")
    /\ UNCHANGED <<windowVars, toMain, link, kind, aborted, returning, connection, object, xmpp,
                   controller, faults>>

-----------------------------------------------------------------------------
(* disconnect                                                              *)

Pending(a) == kind[a] = "tcp client" /\ link[a] = "opening"
Destroy(S) == link' = [a \in Attempts |-> IF a \in S \/ Pending(a) THEN "closing" ELSE link[a]]

MutantKeepsObject(c) ==
    /\ Destroy({c})
    /\ connection' = IF kind[c] = "tcp server" THEN c ELSE None
    /\ xmpp' = IF kind[c] = "xmpp" THEN None ELSE xmpp
    /\ UNCHANGED object
    /\ IF kind[c] = "tcp client" THEN Emit("disconnected") ELSE UNCHANGED <<busy, toWindow>>
MutantReportsFirst(c) ==
    /\ Destroy({c})
    /\ connection' = IF kind[c] = "tcp server" THEN c ELSE None
    /\ object' = IF Object(kind[c]) THEN None ELSE object
    /\ xmpp' = IF kind[c] = "xmpp" THEN None ELSE xmpp
    /\ Emit("disconnected")
\* A server stays the connection until it has closed; the others are let go of first.
LetGo(c) ==
    /\ Destroy({c})
    /\ connection' = IF kind[c] = "tcp server" THEN c ELSE None
    /\ object' = IF Object(kind[c]) THEN None ELSE object
    /\ xmpp' = IF kind[c] = "xmpp" THEN None ELSE xmpp
    /\ IF kind[c] = "tcp client" THEN Emit("disconnected") ELSE UNCHANGED <<busy, toWindow>>

\* A server binds to a numeric address at once.
Binding(a) == kind[a] = "tcp server" /\ link[a] = "opening"

\* The TCP controller is aborted, and the client sockets that are not ready destroyed.
HandleDisconnect ==
    /\ toMain # <<>>
    /\ Head(toMain) = "disconnect"
    /\ Late \/ \A a \in Attempts : ~ Binding(a)
    /\ toMain' = Tail(toMain)
    /\ controller' = None
    /\ LET cancelled == {a \in Attempts : a = xmpp /\ link[a] \in Awaited}
       IN  /\ unsettled' = unsettled \cup cancelled
           /\ aborted' = aborted \cup cancelled \cup ({controller} \ {None})
    /\ returning' = IF xmpp = None THEN returning ELSE Returning(xmpp)
    /\ UNCHANGED <<windowVars, kind, faults>>
    /\ \/ /\ connection = None
          /\ xmpp = None
          /\ Destroy({})
          /\ IF controller # None THEN Emit("disconnected") ELSE UNCHANGED <<busy, toWindow>>
          /\ UNCHANGED <<connection, object, xmpp>>
       \/ xmpp # None /\ LetGo(xmpp)
       \/ xmpp = None /\ connection # None /\ LetGo(connection)

\* What was told to close has closed.
Closes(a) ==
    /\ link[a] = "closing"
    /\ Goes(a, "closed")
    /\ connection' = IF Tcp(a) THEN None ELSE connection
    /\ Emit("disconnected")
    /\ UNCHANGED <<windowVars, toMain, kind, aborted, unsettled, returning, object, xmpp,
                   controller, faults>>

-----------------------------------------------------------------------------
(* A connection ends by itself                                             *)

Ends(a) ==
    /\ faults < MaxFaults
    /\ faults' = faults + 1
    /\ UNCHANGED <<windowVars, toMain, kind, aborted, unsettled, returning, object, xmpp,
                   controller>>
    /\ \/ /\ link[a] = "up"
          /\ kind[a] = "tcp client"     \* the server hangs up
          /\ Goes(a, "closing")
          /\ UNCHANGED <<connection, busy, toWindow>>
       \/ /\ link[a] = "up"
          /\ kind[a] = "udp"            \* a socket error
          /\ Goes(a, "closed")
          /\ connection' = None
          /\ Emit("disconnected")
       \/ /\ link[a] \in {"up", "opening", "returned"}
          /\ kind[a] = "xmpp"           \* the stream is offline
          /\ Goes(a, IF link[a] = "up" THEN "lost" ELSE "adrift")
          /\ Emit("connecting")
          /\ UNCHANGED connection

\* 'ready' of a stream that is back with its room.  A connect() that is pending waits on
\* for the join that the old stream asked for.
XmppReconnects(a) ==
    /\ link[a] \in {"lost", "adrift"}
    /\ Goes(a, IF link[a] = "lost" THEN "up" ELSE "returned")
    /\ Emit("connected")
    /\ UNCHANGED <<windowVars, toMain, kind, aborted, unsettled, returning, connection, object,
                   xmpp, controller, faults>>

\* 'ready' after disconnect(): the transport does not look whether it was disconnected.
ReadyLate(a) ==
    /\ a \in returning
    /\ returning' = returning \ {a}
    /\ Emit("connected")
    /\ UNCHANGED <<windowVars, toMain, link, kind, aborted, unsettled, connection, object, xmpp,
                   controller, faults>>

-----------------------------------------------------------------------------
Settles(a) == Resolves(a) \/ Opens(a) \/ OpenFails(a) \/ Cleaned(a) \/ RejectsLate(a) \/ Closes(a)

Handles == HandleDisconnect \/ \E a \in Attempts : HandleConnect(a)

MainStep ==
    \/ Handles
    \/ \E a \in Attempts : Settles(a) \/ Ends(a) \/ XmppReconnects(a) \/ ReadyLate(a)
=============================================================================
