--------------------------- MODULE StreamTransports ---------------------------
(***************************************************************************)
(* The eight transport objects, one of which a behaviour creates, and what *)
(* is asked of all of them: that they keep the promise of                  *)
(* TransportPromise, that connect(), send() and disconnect() are answered, *)
(* that nothing is left behind, and that recipients are announced.         *)
(***************************************************************************)
EXTENDS HttpTransport, WsTransport, GrpcTransport, XmppTransport

Kinds == {"http client", "http server", "ws client", "ws server", "grpc client", "grpc server",
          "xmpp client", "xmpp server"}

vars == <<kind, lifecycle, announced, httpVars, wsVars, grpcVars, xmppVars>>

Init ==
    /\ kind \in Kinds
    /\ opening = "none" /\ closing = "none"
    /\ connected = FALSE
    /\ announced = FALSE
    /\ HttpInit /\ WsInit /\ GrpcInit /\ XmppInit

Next ==
    /\ UNCHANGED kind
    /\ \/ (HttpClientNext \/ HttpServerNext) /\ UNCHANGED <<wsVars, grpcVars, xmppVars>>
       \/ (WsClientNext \/ WsServerNext) /\ UNCHANGED <<httpVars, grpcVars, xmppVars>>
       \/ (GrpcClientNext \/ GrpcServerNext) /\ UNCHANGED <<httpVars, wsVars, xmppVars>>
       \/ (XmppClientNext \/ XmppServerNext) /\ UNCHANGED <<httpVars, wsVars, grpcVars>>

Safety == Init /\ [][Next]_vars

Spec == Safety /\ HttpFairness /\ WsFairness /\ GrpcFairness /\ XmppFairness

HasRecipients ==
    CASE kind = "http server" -> HttpHasRecipients
      [] kind = "ws server" -> WsHasRecipients
      [] kind = "grpc server" -> GrpcHasRecipients
      [] OTHER -> XmppHasRecipients
-----------------------------------------------------------------------------
TypeOK ==
    /\ kind \in Kinds
    /\ opening \in Openings /\ closing \in Closings
    /\ connected \in BOOLEAN /\ announced \in BOOLEAN
    /\ sseSupported \in BOOLEAN /\ sseRetryTimer \in BOOLEAN /\ latestPayload \in BOOLEAN
    /\ sse \in {"none", "asked", "streaming", "aborted"}
    /\ post \in {"none", "pending", "delivered", "rejected"}
    /\ http \in [Watchers -> {"away", "idle", "posting", "watching", "gone"}]
    /\ watching \subseteq Watchers
    /\ ws \in {"none", "connecting", "open", "closing", "closed"}
    /\ clients \subseteq Sockets
    /\ accepted \in [Sockets -> {"away", "open", "closing", "gone"}]
    /\ toldOf \in BOOLEAN
    /\ closeStage \in {"none", "clients", "servers", "done"}
    /\ channel \in {"none", "open", "closed"}
    /\ stream \in {"none", "open", "ended", "failed"}
    /\ teardown \in {"none", "ending", "completing", "done"}
    /\ watchCalls \subseteq Calls
    /\ rpc \in [Calls -> {"away", "watching", "ending", "over"}]
    /\ shutdown \in {"none", "streams", "server", "done"}
    /\ tlsPolicy \in {"required", "preferred", "disabled"}
    /\ credential \in [mechanism : {"none", "PLAIN", "SCRAM-SHA-1"}, secure : BOOLEAN]
    /\ muc \in BOOLEAN /\ joined \in BOOLEAN /\ joinedRooms \in BOOLEAN /\ rejoining \in BOOLEAN
    /\ step \in {"none", "starting", "joining", "cleaning", "answered"}
    /\ entity \in {"offline", "online", "dropped"}
    /\ request \in {"none", "asked", "inside", "refused"}
    /\ drops \in 0..MaxDrops
    /\ bound \subseteq Receivers
    /\ occupants \subseteq Receivers

\* Every kind keeps the promise the manager relies on.
Promise == INSTANCE TransportPromise
ImplementsPromise == Promise!Spec

\* The HTTP client has one subscription at a time: a request, an open stream or a timer
\* that will start one, and none of them after a definitive answer (http-transport.js:155).
OneSubscription ==
    /\ sseRetryTimer => sse = "none" /\ sseSupported /\ connected
    /\ ~ sseSupported => sse \notin {"asked", "streaming"}

\* The set a server sends to holds peers that are there: a watcher that left is not
\* written to, an HTTP watcher that is there is not forgotten before disconnect().
RecipientsAreThere ==
    /\ watching = {w \in Watchers : http[w] = "watching"}
    /\ \A s \in clients : accepted[s] \in {"open", "closing"}
    /\ \A c \in watchCalls : rpc[c] = "watching"
    /\ occupants \subseteq bound

\* After disconnect() was answered nothing of the object is left that is connected or
\* could be sent to: no timer, no stream, no registered peer, no open channel, no socket of
\* the client, no recipient.  Two things may be left: a gRPC call served while disconnect()
\* ran, which is cut (GrpcCallsEnd), and the XMPP client's `joined`, which a join still
\* being written sets (xmpp-transport.js:379).
NothingIsLeft ==
    closing = "done" =>
        /\ ~ sseRetryTimer /\ sse \in {"none", "asked"}
        /\ watching = {} /\ clients = {} /\ bound = {} /\ occupants = {}
        /\ ws \in {"none", "closed"}
        /\ channel # "open" /\ stream = "none"
        /\ ~ connected /\ entity = "offline"
        /\ kind \in {"xmpp client", "xmpp server"} => ~ XmppHasRecipients

\* An object that is open agrees with what it told the manager: the WebSocket server's
\* callbacks come at the first and after the last client, and an XMPP client that takes
\* its room for entered has asked this stream's server for it, or never entered one.
AgreesWithItsPeers ==
    closing = "none" =>
        /\ toldOf = (clients # {})
        /\ joined /\ joinedRooms => request \in {"asked", "inside", "refused"}
        /\ joined => connected

\* The password goes over an unencrypted XMPP stream as PLAIN only under Disabled, and a
\* client that requires STARTTLS is never online without it, after a reconnect either.
StreamIsAsRequired ==
    credential.mechanism # "none" =>
        /\ tlsPolicy = "required" => credential.secure
        /\ credential.mechanism = "PLAIN" /\ ~ credential.secure => tlsPolicy = "disabled"

ObjectsInvariant ==
    /\ TypeOK /\ OneSubscription /\ RecipientsAreThere /\ NothingIsLeft
    /\ AgreesWithItsPeers /\ StreamIsAsRequired

\* No lost wake-up: a server whose hasRecipients() turns TRUE calls onClientConnected in
\* that step, so waitForRecipients() is answered (transport-manager.js:187).
RecipientsAreAnnounced ==
    [][kind # "xmpp client" /\ ~ HasRecipients /\ HasRecipients' => announced']_vars

\* connect() is answered, but for the WebSocket client's, whose upgrade has no timeout
\* (ws-transport.js:224) and waits for as long as the server likes; disconnect() is answered
\* and, after it, the HTTP client's post.
ConnectSettles == kind # "ws client" /\ opening = "pending" ~> opening # "pending"
DisconnectSettles == closing = "pending" ~> closing = "done"
PostSettles == closing = "done" ~> post # "pending"
GrpcCallsEnd == closing = "done" ~> watchCalls = {}

CallsSettle == ConnectSettles /\ DisconnectSettles /\ PostSettles /\ GrpcCallsEnd

\* The HTTP client asks again after a stream that the server ended or a request that failed,
\* until it is told that there is no stream.  A stream that was cut off is not asked for
\* again (SubscriptionAborts) and is not among them.
AsksAgain ==
    Established /\ sseSupported /\ sse = "none" /\ kind = "http client"
        ~> sse # "none" \/ ~ Established

\* The XMPP client's stream and room come back, as often as its server does.
StreamComesBack ==
    kind = "xmpp client" /\ Established ~> closing # "none" \/ HasRecipients
ComesBack == AsksAgain /\ StreamComesBack

\* Nobody waits for ever, the callers and the recipients named above: a WebSocket client's
\* connect() may, and so may the reader of an event stream that was cut off.
NobodyWaits == CallsSettle /\ ComesBack
-----------------------------------------------------------------------------
=============================================================================
