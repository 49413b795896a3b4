------------------------- MODULE StreamTransportsProofs -------------------------
(***************************************************************************)
(* Theorems about the eight transport objects, as StreamTransports models  *)
(* http-, ws-, grpc- and xmpp-transport.js, for any number of peers and of *)
(* drops.                                                                  *)
(*                                                                         *)
(* An object uses the variables of its own kind and leaves the others as   *)
(* they were created (Unused), so the inductive invariant has one part for *)
(* each kind, and one lemma shows that the steps of that kind keep it.     *)
(***************************************************************************)
EXTENDS StreamTransports, TLAPS

-----------------------------------------------------------------------------
(* The inductive invariant                                                 *)

\* Nothing is connected or closed before connect() is called.
Created == opening = "none" => ~ connected /\ closing = "none"

\* The variables of the kinds this object is not of.
Unused ==
    /\ kind # "http client" => sseSupported /\ sse = "none" /\ ~ sseRetryTimer
    /\ kind # "http server" => watching = {} /\ \A w \in Watchers : http[w] = "away"
    /\ kind # "ws client" => ws = "none"
    /\ kind # "ws server" => clients = {} /\ ~ toldOf
    /\ kind # "grpc client" => channel = "none" /\ stream = "none"
    /\ kind # "grpc server" => watchCalls = {}
    /\ kind # "xmpp client" => /\ ~ joined /\ entity = "offline"
                               /\ credential = NoCredential
    /\ kind # "xmpp server" => bound = {} /\ occupants = {}

\* A subscription is retried while the object is connected, and asked for once.
HttpClientOK ==
    kind = "http client" =>
        /\ opening = "none" => sseSupported
        /\ OneSubscription
        /\ closing # "none" => ~ connected /\ sse \in {"none", "asked"}

\* When the server has closed, so has every connection to it.
HttpServerOK ==
    kind = "http server" =>
        /\ watching = {w \in Watchers : http[w] = "watching"}
        /\ closing = "done" => ~ connected /\ \A w \in Watchers : http[w] \in {"away", "gone"}

\* The socket opens for a connect() that waits for it.
WsClientOK ==
    kind = "ws client" =>
        /\ ws = "connecting" => opening = "pending"
        /\ opening = "pending" => ~ connected
        /\ closing # "none" => ~ connected
        /\ closing = "done" => ws \in {"none", "closed"}

\* disconnect() of the server goes through its stages; clients come in the first only.
WsServerOK ==
    kind = "ws server" =>
        /\ \A s \in clients : accepted[s] \in {"open", "closing"}
        /\ closing = "none" => closeStage = "none" /\ toldOf = (clients # {})
        /\ closeStage \in {"servers", "done"} => clients = {}
        /\ closing = "done" => closeStage = "done" /\ ~ connected

\* Only a gRPC object that was connected is disconnected.
GrpcClientOK ==
    kind = "grpc client" =>
        /\ closing # "none" => opening = "resolved"
        /\ opening = "pending" => ~ connected
        /\ closing = "done" => ~ connected /\ channel # "open" /\ stream = "none"

GrpcServerOK ==
    kind = "grpc server" =>
        /\ closing # "none" => opening = "resolved"
        /\ closing = "done" => ~ connected
        /\ \A c \in watchCalls : rpc[c] = "watching"

\* connect() of the XMPP client is suspended where step says, and what it knows of its
\* room it knows from the stream it is on - until disconnect(), after which a join that was
\* being written may still set joined.
XmppClientOK ==
    kind = "xmpp client" =>
        /\ step \in {"starting", "joining", "cleaning"} => opening = "pending"
        /\ opening = "rejected" => closing # "none"
        /\ opening = "none" => entity = "offline"
        /\ closing # "none" => ~ connected
        /\ connected => entity = "online"
        /\ closing = "done" => entity = "offline"
        /\ closing = "none" =>
              /\ request # "none" \/ rejoining \/ joined => connected
              /\ joined /\ joinedRooms => request # "none"
        /\ StreamIsAsRequired

XmppServerOK ==
    kind = "xmpp server" =>
        /\ occupants \subseteq bound
        /\ opening = "none" \/ closing = "done" => bound = {} /\ ~ connected

Inv == /\ TypeOK /\ Created /\ Unused
       /\ HttpClientOK /\ HttpServerOK /\ WsClientOK /\ WsServerOK
       /\ GrpcClientOK /\ GrpcServerOK /\ XmppClientOK /\ XmppServerOK

-----------------------------------------------------------------------------
(* Types, by kind                                                          *)

LifeTypes ==
    /\ kind \in Kinds
    /\ opening \in Openings /\ closing \in Closings
    /\ connected \in BOOLEAN /\ announced \in BOOLEAN

HttpTypes ==
    /\ sseSupported \in BOOLEAN /\ sseRetryTimer \in BOOLEAN /\ latestPayload \in BOOLEAN
    /\ sse \in {"none", "asked", "streaming", "aborted"}
    /\ post \in {"none", "pending", "delivered", "rejected"}
    /\ http \in [Watchers -> {"away", "idle", "posting", "watching", "gone"}]
    /\ watching \subseteq Watchers

WsTypes ==
    /\ ws \in {"none", "connecting", "open", "closing", "closed"}
    /\ clients \subseteq Sockets
    /\ accepted \in [Sockets -> {"away", "open", "closing", "gone"}]
    /\ toldOf \in BOOLEAN
    /\ closeStage \in {"none", "clients", "servers", "done"}

GrpcTypes ==
    /\ channel \in {"none", "open", "closed"}
    /\ stream \in {"none", "open", "ended", "failed"}
    /\ teardown \in {"none", "ending", "completing", "done"}
    /\ watchCalls \subseteq Calls
    /\ rpc \in [Calls -> {"away", "watching", "ending", "over"}]
    /\ shutdown \in {"none", "streams", "server", "done"}

CredentialType == [mechanism : {"none", "PLAIN", "SCRAM-SHA-1"}, secure : BOOLEAN]

XmppTypes ==
    /\ tlsPolicy \in {"required", "preferred", "disabled"}
    /\ credential \in CredentialType
    /\ muc \in BOOLEAN /\ joined \in BOOLEAN /\ joinedRooms \in BOOLEAN /\ rejoining \in BOOLEAN
    /\ step \in {"none", "starting", "joining", "cleaning", "answered"}
    /\ entity \in {"offline", "online", "dropped"}
    /\ request \in {"none", "asked", "inside", "refused"}
    /\ drops \in 0..MaxDrops
    /\ bound \subseteq Receivers
    /\ occupants \subseteq Receivers

LEMMA Types ==
    /\ TypeOK <=> LifeTypes /\ HttpTypes /\ WsTypes /\ GrpcTypes /\ XmppTypes
    /\ TypeOK' <=> LifeTypes' /\ HttpTypes' /\ WsTypes' /\ GrpcTypes' /\ XmppTypes'
    BY DEF TypeOK, LifeTypes, HttpTypes, WsTypes, GrpcTypes, XmppTypes, CredentialType

LEMMA TypesStay ==
    /\ HttpTypes /\ UNCHANGED httpVars => HttpTypes'
    /\ WsTypes /\ UNCHANGED wsVars => WsTypes'
    /\ GrpcTypes /\ UNCHANGED grpcVars => GrpcTypes'
    /\ XmppTypes /\ UNCHANGED xmppVars => XmppTypes'
    BY DEF HttpTypes, WsTypes, GrpcTypes, XmppTypes, httpVars, wsVars, grpcVars, xmppVars,
           clientState, serverState

\* What a step of one kind has to show; the other parts are about other kinds.
Others(k) ==
    /\ k = kind /\ kind' = kind
    /\ k \notin {"http client", "http server"} => UNCHANGED httpVars
    /\ k \notin {"ws client", "ws server"} => UNCHANGED wsVars
    /\ k \notin {"grpc client", "grpc server"} => UNCHANGED grpcVars
    /\ k \notin {"xmpp client", "xmpp server"} => UNCHANGED xmppVars

PromiseStep == [Promise!Next]_(Promise!vars)

Announces == kind # "xmpp client" /\ ~ HasRecipients /\ HasRecipients' => announced'

-----------------------------------------------------------------------------
(* HTTP                                                                    *)

LEMMA HttpClientKeeps ==
    ASSUME Inv, Others("http client"), HttpClientNext
    PROVE  Inv' /\ PromiseStep
<1>1. UNCHANGED <<kind, wsVars, grpcVars, xmppVars, serverVars>> /\ kind = "http client"
    BY DEF Others, HttpClientNext, HttpClientConnects, EndpointRefuses, EndpointStreams,
           SubscriptionEnds, SubscriptionAborts, SubscriptionRetries, Posts, PostAnswered,
           HttpClientDisconnects
<1>2. LifeTypes' /\ HttpTypes'
    BY <1>1, Types DEF Inv, LifeTypes, HttpTypes, HttpClientNext, HttpClientConnects,
           EndpointRefuses, EndpointStreams, SubscriptionEnds, SubscriptionAborts,
           SubscriptionRetries, Posts, PostAnswered, HttpClientDisconnects, lifecycle, serverVars,
           Openings, Closings, Quietly
<1>3. TypeOK'
    BY <1>1, <1>2, Types, TypesStay DEF Inv
<1>4. HttpClientOK' /\ Created'
  <2> USE Types DEF LifeTypes, HttpTypes
  <2>1. CASE HttpClientConnects \/ HttpClientDisconnects
      BY <1>1, <1>2, <2>1 DEF Inv, Created, HttpClientOK, OneSubscription, HttpClientConnects,
             HttpClientDisconnects
  <2>2. CASE EndpointRefuses \/ EndpointStreams \/ SubscriptionEnds \/ SubscriptionAborts
      BY <1>1, <1>2, <2>2 DEF Inv, Created, HttpClientOK, OneSubscription, EndpointRefuses,
             EndpointStreams, SubscriptionEnds, SubscriptionAborts, lifecycle
  <2>3. CASE SubscriptionRetries \/ Posts \/ PostAnswered
      BY <1>1, <1>2, <2>3 DEF Inv, Created, HttpClientOK, OneSubscription, SubscriptionRetries, Posts,
             PostAnswered, lifecycle
  <2> QED BY <2>1, <2>2, <2>3 DEF HttpClientNext
<1>5. Unused'
    BY <1>1 DEF Inv, Unused, wsVars, grpcVars, xmppVars, serverVars, clientState, serverState,
           wsServerVars, grpcServerVars, grpcClientVars
<1>6. PromiseStep
    BY <1>1 DEF Inv, Created, PromiseStep, Promise!Next, Promise!vars, Promise!Connect,
           Promise!Disconnect, HttpClientNext, HttpClientConnects, EndpointRefuses,
           EndpointStreams, SubscriptionEnds, SubscriptionAborts, SubscriptionRetries, Posts,
           PostAnswered, HttpClientDisconnects, lifecycle
<1> QED BY <1>1, <1>3, <1>4, <1>5, <1>6 DEF Inv, HttpServerOK, WsClientOK, WsServerOK,
           GrpcClientOK, GrpcServerOK, XmppClientOK, XmppServerOK

LEMMA HttpServerKeeps ==
    ASSUME Inv, Others("http server"), HttpServerNext
    PROVE  Inv' /\ PromiseStep /\ Announces
<1>1. UNCHANGED <<kind, wsVars, grpcVars, xmppVars, clientVars>> /\ kind = "http server"
    BY DEF Others, HttpServerNext, HttpServerListens, HttpAccepts, StartsWatching, StartsPosting,
           PostEnds, HttpPeerGoes, PollingPayload, HttpServerDisconnects, ForcesClose,
           HttpServerCloses, httpVars, clientVars
<1>2. LifeTypes' /\ HttpTypes'
  <2>1. LifeTypes'
      BY <1>1, Types DEF Inv, LifeTypes, HttpServerNext, HttpServerListens, HttpAccepts,
             StartsWatching, StartsPosting, PostEnds, HttpPeerGoes, PollingPayload,
             HttpServerDisconnects, ForcesClose, HttpServerCloses, lifecycle, StartsClosing,
             EndsClosing, Openings, Closings, Quietly, Announced
  <2>2. http' \in [Watchers -> {"away", "idle", "posting", "watching", "gone"}]
      BY Types DEF Inv, HttpTypes, HttpServerNext, HttpServerListens, HttpAccepts,
             StartsWatching, StartsPosting, PostEnds, HttpPeerGoes, PollingPayload,
             HttpServerDisconnects, ForcesClose, HttpServerCloses, httpVars
  <2>3. watching' \subseteq Watchers /\ latestPayload' \in BOOLEAN
      BY Types DEF Inv, HttpTypes, HttpServerNext, HttpServerListens, HttpAccepts,
             StartsWatching, StartsPosting, PostEnds, HttpPeerGoes, PollingPayload,
             HttpServerDisconnects, ForcesClose, HttpServerCloses, httpVars
  <2> QED BY <1>1, <2>1, <2>2, <2>3, Types DEF Inv, HttpTypes, clientVars
<1>3. TypeOK'
    BY <1>1, <1>2, Types, TypesStay DEF Inv
<1>4. Created'
    BY <1>1 DEF Inv, Created, HttpServerNext, HttpServerListens, HttpAccepts, StartsWatching,
           StartsPosting, PostEnds, HttpPeerGoes, PollingPayload, HttpServerDisconnects,
           ForcesClose, HttpServerCloses, lifecycle, StartsClosing, EndsClosing
<1>8. HttpServerOK'
  <2> USE DEF HttpTypes, HttpServerOK
  <2>1. CASE HttpServerListens \/ PollingPayload
      BY <1>1, <2>1 DEF Inv, HttpServerListens, PollingPayload, httpVars, lifecycle
  <2>2. CASE \E w \in Watchers : HttpAccepts(w)
      BY <1>1, <2>2, Types DEF Inv, HttpAccepts, Established, lifecycle
  <2>3. CASE \E w \in Watchers : StartsWatching(w) \/ StartsPosting(w)
      BY <1>1, <2>3, Types DEF Inv, StartsWatching, StartsPosting, lifecycle
  <2>4. CASE \E w \in Watchers : PostEnds(w) \/ HttpPeerGoes(w)
      BY <1>1, <2>4, Types DEF Inv, PostEnds, HttpPeerGoes, lifecycle
  <2>5. CASE HttpServerDisconnects
    <3>1. \A w \in Watchers : http'[w] # "watching"
        BY <2>5 DEF HttpServerDisconnects
    <3>2. watching' = {} /\ closing' = "pending"
        BY <2>5 DEF HttpServerDisconnects, StartsClosing
    <3> QED BY <1>1, <3>1, <3>2
  <2>6. CASE ForcesClose
    <3>1. \A w \in Watchers : http'[w] \in {"away", "gone"}
        BY <2>6 DEF ForcesClose
    <3>2. watching' = {} /\ closing' = "pending"
        BY <2>6 DEF ForcesClose, lifecycle
    <3> QED BY <1>1, <3>1, <3>2
  <2>7. CASE HttpServerCloses
      BY <1>1, <2>7 DEF Inv, HttpServerCloses, EndsClosing, httpVars
  <2> QED BY <2>1, <2>2, <2>3, <2>4, <2>5, <2>6, <2>7 DEF HttpServerNext
<1>5. Unused'
    BY <1>1 DEF Inv, Unused, wsVars, grpcVars, xmppVars, clientVars, clientState, serverState,
           wsServerVars, grpcServerVars, grpcClientVars
<1>6. PromiseStep
    BY <1>1 DEF Inv, Created, PromiseStep, Promise!Next, Promise!vars, Promise!Connect,
           Promise!Disconnect, Promise!Closed, HttpServerNext, HttpServerListens, HttpAccepts,
           StartsWatching, StartsPosting, PostEnds, HttpPeerGoes, PollingPayload,
           HttpServerDisconnects, ForcesClose, HttpServerCloses, lifecycle, StartsClosing,
           EndsClosing
<1>7. Announces
    BY <1>1 DEF Announces, HasRecipients, HttpHasRecipients, HttpServerNext, HttpServerListens,
           HttpAccepts, StartsPosting, PostEnds, HttpPeerGoes, PollingPayload,
           HttpServerDisconnects, ForcesClose, HttpServerCloses, httpVars, Announced
<1> QED BY <1>1, <1>3, <1>4, <1>5, <1>6, <1>7, <1>8 DEF Inv, HttpClientOK, WsClientOK, WsServerOK,
           GrpcClientOK, GrpcServerOK, XmppClientOK, XmppServerOK

-----------------------------------------------------------------------------
(* WebSocket                                                               *)

LEMMA WsClientKeeps ==
    ASSUME Inv, Others("ws client"), WsClientNext
    PROVE  Inv' /\ PromiseStep
<1>1. UNCHANGED <<kind, httpVars, grpcVars, xmppVars, wsServerVars>> /\ kind = "ws client"
    BY DEF Others, WsClientNext, WsClientRefused, WsClientConnects, WsOpens, WsFails, WsDrops,
           WsClientDisconnects, WsCloses, wsVars, wsServerVars
<1>2. LifeTypes' /\ WsTypes'
    BY <1>1, Types DEF Inv, LifeTypes, WsTypes, WsClientNext, WsClientRefused, WsClientConnects,
           WsOpens, WsFails, WsDrops, WsClientDisconnects, WsCloses, wsVars, wsServerVars,
           StartsOpening, Openings, Closings, Quietly
<1>3. TypeOK'
    BY <1>1, <1>2, Types, TypesStay DEF Inv
<1>4. WsClientOK' /\ Created'
  <2> USE Types DEF Inv, LifeTypes, WsTypes, WsClientOK, Created
  <2>1. CASE WsClientRefused \/ WsClientConnects
      BY <1>1, <1>2, <2>1 DEF WsClientRefused, WsClientConnects, StartsOpening, wsVars
  <2>2. CASE WsOpens \/ WsFails \/ WsDrops
      BY <1>1, <1>2, <2>2 DEF WsOpens, WsFails, WsDrops
  <2>3. CASE WsClientDisconnects \/ WsCloses
      BY <1>1, <1>2, <2>3 DEF WsClientDisconnects, WsCloses
  <2> QED BY <2>1, <2>2, <2>3 DEF WsClientNext
<1>5. Unused'
    BY <1>1 DEF Inv, Unused, httpVars, grpcVars, xmppVars, wsServerVars, clientState, serverState
<1>6. PromiseStep
  <2>1. CASE WsClientRefused \/ WsClientConnects
      BY <1>1, <2>1, Types DEF Inv, LifeTypes, Created, PromiseStep, Promise!Next, Promise!Connect,
             WsClientRefused, WsClientConnects, StartsOpening
  <2>2. CASE WsOpens \/ WsFails
      BY <1>1, <2>2 DEF Inv, WsClientOK, PromiseStep, Promise!Next, Promise!Answer, WsOpens, WsFails
  <2>3. CASE WsDrops
      BY <1>1, <2>3 DEF PromiseStep, Promise!Next, Promise!Drop, WsDrops
  <2>4. CASE WsClientDisconnects
      BY <1>1, <2>4 DEF PromiseStep, Promise!Next, Promise!Disconnect, WsClientDisconnects
  <2>5. CASE WsCloses /\ closing = "pending"
      BY <1>1, <2>5, Types DEF Inv, LifeTypes, WsClientOK, PromiseStep, Promise!Next,
             Promise!Closed, WsCloses
  <2>6. CASE WsCloses /\ closing # "pending"
      BY <1>1, <2>6 DEF PromiseStep, Promise!vars, WsCloses
  <2> QED BY <2>1, <2>2, <2>3, <2>4, <2>5, <2>6 DEF WsClientNext
<1> QED BY <1>1, <1>3, <1>4, <1>5, <1>6 DEF Inv, HttpClientOK, HttpServerOK, WsServerOK,
           GrpcClientOK, GrpcServerOK, XmppClientOK, XmppServerOK

LEMMA WsServerKeeps ==
    ASSUME Inv, Others("ws server"), WsServerNext
    PROVE  Inv' /\ PromiseStep /\ Announces
<1>1. UNCHANGED <<kind, httpVars, grpcVars, xmppVars, ws>> /\ kind = "ws server"
    BY DEF Others, WsServerNext, WsServerListens, WsAccepts, WsPeerGoes, WsServerDisconnects,
           WsClientsClosed, WsServersClosed, wsVars
<1>2. LifeTypes' /\ WsTypes'
  <2>1. LifeTypes'
      BY <1>1, Types DEF Inv, LifeTypes, WsServerNext, WsServerListens, WsAccepts, WsPeerGoes,
             WsServerDisconnects, WsClientsClosed, WsServersClosed, lifecycle, StartsClosing,
             EndsClosing, Openings, Closings, Quietly
  <2>2. accepted' \in [Sockets -> {"away", "open", "closing", "gone"}]
      BY Types DEF Inv, WsTypes, WsServerNext, WsServerListens, WsAccepts, WsPeerGoes,
             WsServerDisconnects, WsClientsClosed, WsServersClosed, wsVars
  <2>3. /\ clients' \subseteq Sockets /\ toldOf' \in BOOLEAN
        /\ closeStage' \in {"none", "clients", "servers", "done"}
      BY Types DEF Inv, WsTypes, WsServerNext, WsServerListens, WsAccepts, WsPeerGoes,
             WsServerDisconnects, WsClientsClosed, WsServersClosed, wsVars
  <2> QED BY <1>1, <2>1, <2>2, <2>3, Types DEF Inv, WsTypes
<1>3. TypeOK'
    BY <1>1, <1>2, Types, TypesStay DEF Inv
<1>4. Created'
    BY <1>1 DEF Inv, Created, WsServerNext, WsServerListens, WsAccepts, WsPeerGoes,
           WsServerDisconnects, WsClientsClosed, WsServersClosed, lifecycle, StartsClosing,
           EndsClosing
<1>5. WsServerOK'
  <2> USE Types DEF Inv, WsTypes, WsServerOK
  <2>1. CASE WsServerListens
      BY <1>1, <2>1 DEF WsServerListens, wsVars
  <2>2. ASSUME NEW s \in Sockets, WsAccepts(s)
        PROVE  WsServerOK'
      BY <1>1, <1>2, <2>2 DEF WsAccepts, lifecycle
  <2>3. ASSUME NEW s \in Sockets, WsPeerGoes(s)
        PROVE  WsServerOK'
      BY <1>1, <1>2, <2>3 DEF WsPeerGoes, lifecycle
  <2>4. CASE WsServerDisconnects
      BY <1>1, <2>4 DEF WsServerDisconnects, StartsClosing
  <2>5. CASE WsClientsClosed \/ WsServersClosed
      BY <1>1, <1>2, <2>5 DEF WsClientsClosed, WsServersClosed, lifecycle, EndsClosing
  <2> QED BY <2>1, <2>2, <2>3, <2>4, <2>5 DEF WsServerNext
<1>6. Unused'
    BY <1>1 DEF Inv, Unused, httpVars, grpcVars, xmppVars, clientState, serverState
<1>7. PromiseStep
    BY <1>1 DEF Inv, Created, PromiseStep, Promise!Next, Promise!vars, Promise!Connect,
           Promise!Disconnect, Promise!Closed, WsServerNext, WsServerListens, WsAccepts,
           WsPeerGoes, WsServerDisconnects, WsClientsClosed, WsServersClosed, lifecycle,
           StartsClosing, EndsClosing
<1>8. Announces
    BY <1>1 DEF Announces, HasRecipients, WsHasRecipients, WsServerNext, WsServerListens,
           WsAccepts, WsPeerGoes, WsServerDisconnects, WsClientsClosed, WsServersClosed, wsVars
<1> QED BY <1>1, <1>3, <1>4, <1>5, <1>6, <1>7, <1>8 DEF Inv, HttpClientOK, HttpServerOK,
           WsClientOK, GrpcClientOK, GrpcServerOK, XmppClientOK, XmppServerOK

-----------------------------------------------------------------------------
(* gRPC                                                                    *)

LEMMA GrpcClientKeeps ==
    ASSUME Inv, Others("grpc client"), GrpcClientNext
    PROVE  Inv' /\ PromiseStep
<1>1. UNCHANGED <<kind, httpVars, wsVars, xmppVars, grpcServerVars>> /\ kind = "grpc client"
    BY DEF Others, GrpcClientNext, GrpcClientConnects, ChannelReady, ChannelNotReady,
           StreamBreaks, GrpcClientDisconnects, StreamEnded, StreamCompleted, grpcVars,
           grpcServerVars
<1>2. LifeTypes' /\ GrpcTypes'
    BY <1>1, Types DEF Inv, LifeTypes, GrpcTypes, GrpcClientNext, GrpcClientConnects,
           ChannelReady, ChannelNotReady, StreamBreaks, GrpcClientDisconnects, StreamEnded,
           StreamCompleted, grpcVars, grpcServerVars, StartsOpening, EndsClosing, Openings,
           Closings, Quietly, lifecycle
<1>3. TypeOK'
    BY <1>1, <1>2, Types, TypesStay DEF Inv
<1>4. GrpcClientOK' /\ Created'
  <2> USE Types DEF Inv, LifeTypes, GrpcTypes, GrpcClientOK, Created
  <2>1. CASE GrpcClientConnects \/ ChannelReady \/ ChannelNotReady
      BY <1>1, <1>2, <2>1 DEF GrpcClientConnects, ChannelReady, ChannelNotReady, StartsOpening,
             grpcVars
  <2>2. CASE StreamBreaks \/ StreamEnded \/ StreamCompleted
      BY <1>1, <1>2, <2>2 DEF StreamBreaks, StreamEnded, StreamCompleted, EndsClosing, lifecycle
  <2>3. CASE GrpcClientDisconnects
      BY <1>1, <1>2, <2>3 DEF GrpcClientDisconnects
  <2> QED BY <2>1, <2>2, <2>3 DEF GrpcClientNext
<1>5. Unused'
    BY <1>1 DEF Inv, Unused, httpVars, wsVars, xmppVars, grpcServerVars, clientState, serverState
<1>6. PromiseStep
  <2>1. CASE GrpcClientConnects
      BY <1>1, <2>1, Types DEF Inv, LifeTypes, Created, PromiseStep, Promise!Next, Promise!Connect,
             GrpcClientConnects, StartsOpening
  <2>2. CASE ChannelReady \/ ChannelNotReady
      BY <1>1, <2>2 DEF Inv, GrpcClientOK, PromiseStep, Promise!Next, Promise!Answer,
             ChannelReady, ChannelNotReady
  <2>3. CASE StreamBreaks /\ connected
      BY <1>1, <2>3 DEF PromiseStep, Promise!Next, Promise!Drop, StreamBreaks
  <2>4. CASE StreamBreaks /\ ~ connected
      BY <1>1, <2>4, Types DEF Inv, LifeTypes, PromiseStep, Promise!vars, StreamBreaks
  <2>5. CASE GrpcClientDisconnects
      BY <1>1, <2>5 DEF PromiseStep, Promise!Next, Promise!Disconnect, GrpcClientDisconnects
  <2>6. CASE StreamEnded
      BY <1>1, <2>6 DEF PromiseStep, Promise!vars, StreamEnded, lifecycle
  <2>7. CASE StreamCompleted
      BY <1>1, <2>7 DEF PromiseStep, Promise!Next, Promise!Closed, StreamCompleted, EndsClosing
  <2> QED BY <2>1, <2>2, <2>3, <2>4, <2>5, <2>6, <2>7 DEF GrpcClientNext
<1> QED BY <1>1, <1>3, <1>4, <1>5, <1>6 DEF Inv, HttpClientOK, HttpServerOK, WsClientOK,
           WsServerOK, GrpcServerOK, XmppClientOK, XmppServerOK

LEMMA GrpcServerKeeps ==
    ASSUME Inv, Others("grpc server"), GrpcServerNext
    PROVE  Inv' /\ PromiseStep /\ Announces
<1>1. UNCHANGED <<kind, httpVars, wsVars, xmppVars, grpcClientVars>> /\ kind = "grpc server"
    BY DEF Others, GrpcServerNext, GrpcServerBinds, GrpcServerBound, WatchCall, WatchEnds,
           WatchWriteFails, GrpcServerDisconnects, GrpcStreamsEnded, GrpcShutdown, grpcVars,
           grpcClientVars
<1>2. LifeTypes' /\ GrpcTypes'
  <2>1. LifeTypes'
      BY <1>1, Types DEF Inv, LifeTypes, GrpcServerNext, GrpcServerBinds, GrpcServerBound,
             WatchCall, WatchEnds, WatchWriteFails, GrpcServerDisconnects, GrpcStreamsEnded,
             GrpcShutdown, lifecycle, StartsOpening, StartsClosing, EndsClosing, Openings,
             Closings, Quietly, Announced
  <2>2. rpc' \in [Calls -> {"away", "watching", "ending", "over"}]
      BY Types DEF Inv, GrpcTypes, GrpcServerNext, GrpcServerBinds, GrpcServerBound, WatchCall,
             WatchEnds, WatchWriteFails, GrpcServerDisconnects, GrpcStreamsEnded, GrpcShutdown,
             grpcVars
  <2>3. watchCalls' \subseteq Calls /\ shutdown' \in {"none", "streams", "server", "done"}
      BY Types DEF Inv, GrpcTypes, GrpcServerNext, GrpcServerBinds, GrpcServerBound, WatchCall,
             WatchEnds, WatchWriteFails, GrpcServerDisconnects, GrpcStreamsEnded, GrpcShutdown,
             grpcVars
  <2> QED BY <1>1, <2>1, <2>2, <2>3, Types DEF Inv, GrpcTypes, grpcClientVars
<1>3. TypeOK'
    BY <1>1, <1>2, Types, TypesStay DEF Inv
<1>4. GrpcServerOK' /\ Created'
  <2> USE Types DEF Inv, LifeTypes, GrpcTypes, GrpcServerOK, Created
  <2>1. CASE GrpcServerBinds \/ GrpcServerBound
      BY <1>1, <1>2, <2>1 DEF GrpcServerBinds, GrpcServerBound, StartsOpening, grpcVars
  <2>2. ASSUME NEW c \in Calls, WatchCall(c) \/ WatchEnds(c) \/ WatchWriteFails(c)
        PROVE  GrpcServerOK' /\ Created'
      BY <1>1, <1>2, <2>2 DEF WatchCall, WatchEnds, WatchWriteFails, lifecycle
  <2>3. CASE GrpcServerDisconnects
      BY <1>1, <1>2, <2>3 DEF GrpcServerDisconnects, StartsClosing
  <2>4. CASE GrpcStreamsEnded \/ GrpcShutdown
      BY <1>1, <1>2, <2>4 DEF GrpcStreamsEnded, GrpcShutdown, EndsClosing, lifecycle
  <2> QED BY <2>1, <2>2, <2>3, <2>4 DEF GrpcServerNext
<1>5. Unused'
    BY <1>1 DEF Inv, Unused, httpVars, wsVars, xmppVars, grpcClientVars, clientState, serverState
<1>6. PromiseStep
    BY <1>1, Types DEF Inv, LifeTypes, Created, GrpcServerOK, PromiseStep, Promise!Next, Promise!vars,
           Promise!Connect, Promise!Answer, Promise!Disconnect, Promise!Closed, GrpcServerNext,
           GrpcServerBinds, GrpcServerBound, WatchCall, WatchEnds, WatchWriteFails,
           GrpcServerDisconnects, GrpcStreamsEnded, GrpcShutdown, lifecycle, StartsOpening,
           StartsClosing, EndsClosing
<1>7. Announces
    BY <1>1 DEF Announces, HasRecipients, GrpcHasRecipients, GrpcServerNext, GrpcServerBinds,
           GrpcServerBound, WatchEnds, WatchWriteFails, GrpcServerDisconnects, GrpcStreamsEnded,
           GrpcShutdown, grpcVars, Announced
<1> QED BY <1>1, <1>3, <1>4, <1>5, <1>6, <1>7 DEF Inv, HttpClientOK, HttpServerOK, WsClientOK,
           WsServerOK, GrpcClientOK, XmppClientOK, XmppServerOK

-----------------------------------------------------------------------------
(* XMPP                                                                    *)

LEMMA MechanismOffered ==
    ASSUME Authenticates
    PROVE  credential' \in CredentialType
<1>1. \A offer \in Offers : \A i \in DOMAIN offer : offer[i] \in {"PLAIN", "SCRAM-SHA-1"}
    BY DEF Offers
<1>2. \A secure \in BOOLEAN, offer \in Offers : Usable(tlsPolicy, secure, offer) \subseteq DOMAIN offer
    BY DEF Usable
<1> QED BY <1>1, <1>2 DEF Authenticates, CredentialType

LEMMA XmppClientTypes ==
    ASSUME Inv, XmppClientNext, UNCHANGED kind
    PROVE  LifeTypes' /\ XmppTypes' /\ tlsPolicy' = tlsPolicy /\ UNCHANGED serverState
<1> USE DEF XmppClientNext, Quietly, XmppClientConnects, Started, StartFails, JoinConfirmed,
            JoinFails, GivesUp, StreamDrops, StreamReturns, RoomsRejoined, RejoinFails,
            RoomAnswersRejoin, XmppClientDisconnects, XmppClientClosed, StartsOpening, StartsClosing, lifecycle
<1>1. LifeTypes /\ XmppTypes
    BY Types DEF Inv
<1>2. LifeTypes'
    BY <1>1 DEF LifeTypes, Openings, Closings
<1>3. credential' \in CredentialType
    BY <1>1, MechanismOffered DEF XmppTypes
<1>4. drops' \in 0 .. MaxDrops
  <2>1. drops' = drops \/ (drops < MaxDrops /\ drops' = drops + 1)
      OBVIOUS
  <2>2. drops \in 0 .. MaxDrops
      BY <1>1 DEF XmppTypes
  <2> HIDE DEF XmppClientNext
  <2> QED BY <2>1, <2>2, DropsAssumption
<1>5. UNCHANGED <<muc, tlsPolicy, bound, occupants>>
    BY DEF serverState
<1>6. joined' \in BOOLEAN /\ joinedRooms' \in BOOLEAN /\ rejoining' \in BOOLEAN
    BY <1>1 DEF XmppTypes
<1>7. /\ step' \in {"none", "starting", "joining", "cleaning", "answered"}
      /\ entity' \in {"offline", "online", "dropped"}
      /\ request' \in {"none", "asked", "inside", "refused"}
    BY <1>1 DEF XmppTypes
<1> HIDE DEF XmppClientNext
<1> QED BY <1>1, <1>2, <1>3, <1>4, <1>5, <1>6, <1>7 DEF XmppTypes, serverState

\* Whatever mechanisms a server offers, in whatever order, the policy is kept.
LEMMA AuthenticatedAsRequired ==
    ASSUME Authenticates, tlsPolicy' = tlsPolicy
    PROVE  StreamIsAsRequired'
<1>1. PICK secure \in BOOLEAN, offer \in Offers :
          \E i \in Usable(tlsPolicy, secure, offer) :
              credential' = [mechanism |-> offer[i], secure |-> secure]
    BY DEF Authenticates
<1>2. PICK i \in Usable(tlsPolicy, secure, offer) :
          credential' = [mechanism |-> offer[i], secure |-> secure]
    BY <1>1
<1>3. ~ secure => tlsPolicy # "required" /\ (offer[i] = "PLAIN" => tlsPolicy = "disabled")
    BY <1>2 DEF Usable
<1> QED BY <1>2, <1>3 DEF StreamIsAsRequired

LEMMA XmppClientKeeps ==
    ASSUME Inv, Others("xmpp client"), XmppClientNext
    PROVE  Inv' /\ PromiseStep
<1>1. UNCHANGED <<kind, httpVars, wsVars, grpcVars, serverState>> /\ kind = "xmpp client"
    BY XmppClientTypes DEF Others
<1>2. LifeTypes' /\ XmppTypes' /\ LifeTypes /\ XmppTypes /\ tlsPolicy' = tlsPolicy
    BY <1>1, XmppClientTypes, Types DEF Inv
<1>3. TypeOK'
    BY <1>1, <1>2, Types, TypesStay DEF Inv
<1>4. credential' = credential => StreamIsAsRequired'
    BY <1>1, <1>2 DEF Inv, XmppClientOK, StreamIsAsRequired
<1>5. XmppClientOK' /\ Created'
  <2> USE DEF Inv, LifeTypes, XmppTypes, XmppClientOK, Created
  <2>1. CASE XmppClientConnects
      BY <1>1, <1>2, <1>4, <2>1 DEF XmppClientConnects, StartsOpening
  <2>2. CASE Started
    <3>1. StreamIsAsRequired'
        BY <1>2, <1>4, <2>2, AuthenticatedAsRequired DEF Started
    <3>2. /\ step = "starting" /\ entity = "offline" /\ closing # "done"
          /\ UNCHANGED <<muc, joined, joinedRooms, rejoining, drops>>
        BY <2>2 DEF Started
    <3>3. CASE closing # "none"
      <4>1. /\ opening' = "rejected" /\ step' = "answered"
            /\ UNCHANGED <<closing, connected, entity, request>>
          BY <2>2, <3>3 DEF Started
      <4> QED BY <1>1, <1>2, <3>1, <3>2, <3>3, <4>1
    <3>4. CASE closing = "none"
      <4>1. /\ entity' = "online" /\ connected' = TRUE /\ closing' = closing
            /\ step' = IF muc THEN "joining" ELSE "answered"
            /\ opening' = IF muc THEN opening ELSE "resolved"
            /\ request' = IF muc THEN "asked" ELSE "none"
          BY <2>2, <3>4 DEF Started
      <4>2. muc' = muc /\ opening = "pending" /\ closing = "none"
          BY <1>1, <3>2, <3>4
      <4>3. CASE muc
          BY <1>1, <1>2, <3>1, <3>2, <4>1, <4>2, <4>3
      <4>4. CASE ~ muc
          BY <1>1, <1>2, <3>1, <3>2, <4>1, <4>2, <4>4
      <4> QED BY <4>3, <4>4
    <3> QED BY <3>3, <3>4
  <2>3. CASE StartFails \/ JoinFails
      BY <1>1, <1>2, <1>4, <2>3 DEF StartFails, JoinFails, GivesUp
  <2>4. CASE JoinConfirmed
      BY <1>1, <1>2, <1>4, <2>4 DEF JoinConfirmed
  <2>5. CASE StreamDrops
      BY <1>1, <1>2, <1>4, <2>5 DEF StreamDrops
  <2>6. CASE StreamReturns
      BY <1>1, <1>2, <2>6, AuthenticatedAsRequired DEF StreamReturns
  <2>7. CASE RoomsRejoined \/ RejoinFails \/ RoomAnswersRejoin
      BY <1>1, <1>2, <1>4, <2>7 DEF RoomsRejoined, RejoinFails, RoomAnswersRejoin, lifecycle
  <2>8. CASE XmppClientDisconnects \/ XmppClientClosed
      BY <1>1, <1>2, <1>4, <2>8 DEF XmppClientDisconnects, XmppClientClosed, StartsClosing
  <2> QED BY <2>1, <2>2, <2>3, <2>4, <2>5, <2>6, <2>7, <2>8 DEF XmppClientNext
<1>6. Unused'
    BY <1>1 DEF Inv, Unused, httpVars, wsVars, grpcVars, serverState
<1>7. PromiseStep
  <2> USE DEF PromiseStep, Promise!Next, Promise!vars
  <2>1. CASE XmppClientConnects
      BY <1>1, <1>2, <2>1 DEF Inv, LifeTypes, Created, Promise!Connect, XmppClientConnects,
             StartsOpening
  <2>2. CASE Started
    <3>1. opening = "pending" /\ (closing # "none" => ~ connected)
        BY <1>1, <2>2 DEF Inv, XmppClientOK, Started
    <3>2. CASE closing # "none" \/ ~ muc
        BY <2>2, <3>1, <3>2 DEF Started, Promise!Answer
    <3>3. CASE closing = "none" /\ muc
        BY <2>2, <3>1, <3>3 DEF Started, Promise!ComeBack
    <3> QED BY <3>2, <3>3
  <2>3. CASE StartFails \/ JoinFails
    <3>1. opening = "pending" /\ GivesUp
        BY <1>1, <2>3 DEF Inv, XmppClientOK, StartFails, JoinFails
    <3>2. CASE closing = "none"
        BY <3>1, <3>2 DEF GivesUp, Promise!Disconnect
    <3>3. CASE closing # "none"
        BY <3>1, <3>3 DEF GivesUp, Promise!Answer
    <3> QED BY <3>2, <3>3
  <2>4. CASE JoinConfirmed
      BY <1>1, <2>4 DEF Inv, XmppClientOK, JoinConfirmed, Promise!Answer
  <2>5. CASE StreamDrops
      BY <1>2, <2>5 DEF LifeTypes, StreamDrops, Promise!Drop
  <2>6. CASE StreamReturns
    <3>1. CASE closing = "none"
      <4>1. opening \in {"pending", "resolved"}
          BY <1>1, <1>2, <2>6, <3>1 DEF Inv, XmppClientOK, LifeTypes, Openings, StreamReturns
      <4> QED BY <2>6, <3>1, <4>1 DEF StreamReturns, Promise!ComeBack
    <3>2. CASE closing # "none"
        BY <1>1, <1>2, <2>6, <3>2 DEF Inv, LifeTypes, XmppClientOK, StreamReturns
    <3> QED BY <3>1, <3>2
  <2>7. CASE RoomsRejoined \/ RejoinFails \/ RoomAnswersRejoin
      BY <2>7 DEF RoomsRejoined, RejoinFails, RoomAnswersRejoin, lifecycle
  <2>8. CASE XmppClientDisconnects
      BY <2>8 DEF XmppClientDisconnects, StartsClosing, Promise!Disconnect
  <2>9. CASE XmppClientClosed
      BY <1>1, <2>9 DEF Inv, XmppClientOK, XmppClientClosed, Promise!Closed
  <2> QED BY <2>1, <2>2, <2>3, <2>4, <2>5, <2>6, <2>7, <2>8, <2>9 DEF XmppClientNext
<1> QED BY <1>1, <1>3, <1>5, <1>6, <1>7 DEF Inv, HttpClientOK, HttpServerOK, WsClientOK,
           WsServerOK, GrpcClientOK, GrpcServerOK, XmppServerOK

LEMMA XmppServerKeeps ==
    ASSUME Inv, Others("xmpp server"), XmppServerNext
    PROVE  Inv' /\ PromiseStep /\ Announces
<1>1. UNCHANGED <<kind, httpVars, wsVars, grpcVars, muc, clientState>> /\ kind = "xmpp server"
    BY DEF Others, XmppServerNext, XmppServerConnects, Binds, Enters, Leaves, SignsOff,
           XmppServerDisconnects, XmppServerClosed, xmppVars
<1>2. LifeTypes' /\ XmppTypes' /\ LifeTypes /\ XmppTypes
  <2>1. LifeTypes'
      BY <1>1, Types DEF Inv, LifeTypes, XmppServerNext, XmppServerConnects, Binds, Enters,
             Leaves, SignsOff, XmppServerDisconnects, XmppServerClosed, lifecycle, StartsClosing,
             EndsClosing, Openings, Closings, Quietly, Announced
  <2>2. bound' \subseteq Receivers /\ occupants' \subseteq Receivers
      BY Types DEF Inv, XmppTypes, XmppServerNext, XmppServerConnects, Binds, Enters, Leaves,
             SignsOff, XmppServerDisconnects, XmppServerClosed, xmppVars, serverState
  <2>3. XmppTypes /\ LifeTypes
      BY Types DEF Inv
  <2> QED BY <1>1, <2>1, <2>2, <2>3 DEF XmppTypes, clientState
<1>3. TypeOK'
    BY <1>1, <1>2, Types, TypesStay DEF Inv
<1>4. XmppServerOK' /\ Created'
  <2> USE DEF Inv, LifeTypes, XmppServerOK, Created
  <2>1. CASE XmppServerConnects
      BY <1>1, <1>2, <2>1 DEF XmppServerConnects, xmppVars, serverState
  <2>2. ASSUME NEW r \in Receivers, Binds(r) \/ Enters(r) \/ Leaves(r) \/ SignsOff(r)
        PROVE  XmppServerOK' /\ Created'
      BY <1>1, <1>2, <2>2 DEF Binds, Enters, Leaves, SignsOff, Established, lifecycle
  <2>3. CASE XmppServerDisconnects \/ XmppServerClosed
      BY <1>1, <1>2, <2>3 DEF XmppServerDisconnects, XmppServerClosed, StartsClosing, EndsClosing,
             xmppVars, serverState
  <2> QED BY <2>1, <2>2, <2>3 DEF XmppServerNext
<1>5. Unused'
    BY <1>1 DEF Inv, Unused, httpVars, wsVars, grpcVars, clientState
<1>6. PromiseStep
    BY <1>1, <1>2 DEF Inv, LifeTypes, Created, PromiseStep, Promise!Next, Promise!vars,
           Promise!Connect, Promise!Disconnect, Promise!Closed, XmppServerNext,
           XmppServerConnects, Binds, Enters, Leaves, SignsOff, XmppServerDisconnects,
           XmppServerClosed, lifecycle, StartsClosing, EndsClosing
<1>7. Announces
  <2>1. CASE Announced
      BY <2>1 DEF Announces, Announced
  <2>2. CASE XmppServerConnects
      BY <1>1, <2>2 DEF Inv, XmppServerOK, Announces, HasRecipients, XmppHasRecipients,
             XmppServerConnects, xmppVars, serverState
  <2>3. CASE \/ XmppServerDisconnects \/ XmppServerClosed
             \/ \E r \in Receivers : Leaves(r) \/ SignsOff(r)
    <3>1. (connected' => connected) /\ bound' \subseteq bound /\ occupants' \subseteq occupants
        BY <1>2, <2>3 DEF LifeTypes, XmppServerDisconnects, XmppServerClosed, Leaves, SignsOff, StartsClosing,
               EndsClosing, lifecycle, xmppVars, serverState
    <3> QED BY <1>1, <3>1 DEF Announces, HasRecipients, XmppHasRecipients
  <2> QED BY <2>1, <2>2, <2>3 DEF XmppServerNext
<1> QED BY <1>1, <1>3, <1>4, <1>5, <1>6, <1>7 DEF Inv, HttpClientOK, HttpServerOK, WsClientOK,
           WsServerOK, GrpcClientOK, GrpcServerOK, XmppClientOK

-----------------------------------------------------------------------------
(* The theorems                                                            *)

LEMMA InvInit == Init => Inv
<1> SUFFICES ASSUME Init
             PROVE  Inv
    OBVIOUS
<1>1. HttpTypes /\ WsTypes /\ GrpcTypes
    BY DEF Init, HttpInit, WsInit, GrpcInit, HttpTypes, WsTypes, GrpcTypes
<1>2. XmppTypes /\ LifeTypes
  <2>1. NoCredential \in CredentialType /\ 0 \in 0 .. MaxDrops
      BY DropsAssumption DEF NoCredential, CredentialType
  <2> QED BY <2>1 DEF Init, XmppInit, XmppTypes, LifeTypes, Openings, Closings
<1>3. Created /\ Unused
    BY DEF Init, HttpInit, WsInit, GrpcInit, XmppInit, Created, Unused
<1>4. HttpClientOK /\ HttpServerOK /\ WsClientOK /\ WsServerOK
    BY DEF Init, HttpInit, WsInit, HttpClientOK, OneSubscription, HttpServerOK, WsClientOK,
           WsServerOK
<1>5. GrpcClientOK /\ GrpcServerOK /\ XmppClientOK /\ XmppServerOK
    BY DEF Init, GrpcInit, XmppInit, GrpcClientOK, GrpcServerOK, XmppClientOK, XmppServerOK,
           StreamIsAsRequired, NoCredential
<1> QED BY <1>1, <1>2, <1>3, <1>4, <1>5, Types DEF Inv

\* A client of another protocol than XMPP never has recipients to announce.
LEMMA ClientsAnnounceNothing ==
    ASSUME Inv, Inv', kind' = kind, kind \in {"http client", "ws client", "grpc client"}
    PROVE  Announces
<1>1. bound' = {} /\ occupants' = {}
    BY DEF Inv, Unused
<1> QED BY <1>1 DEF Announces, HasRecipients, XmppHasRecipients

LEMMA EveryStep ==
    ASSUME Inv, Next
    PROVE  Inv' /\ PromiseStep /\ Announces
<1>1. kind' = kind
    BY DEF Next
<1>2. CASE HttpClientNext /\ UNCHANGED <<wsVars, grpcVars, xmppVars>>
    BY <1>1, <1>2, HttpClientKeeps, ClientsAnnounceNothing DEF Others, HttpClientNext
<1>3. CASE HttpServerNext /\ UNCHANGED <<wsVars, grpcVars, xmppVars>>
    BY <1>1, <1>3, HttpServerKeeps DEF Others, HttpServerNext
<1>4. CASE WsClientNext /\ UNCHANGED <<httpVars, grpcVars, xmppVars>>
    BY <1>1, <1>4, WsClientKeeps, ClientsAnnounceNothing DEF Others, WsClientNext
<1>5. CASE WsServerNext /\ UNCHANGED <<httpVars, grpcVars, xmppVars>>
    BY <1>1, <1>5, WsServerKeeps DEF Others, WsServerNext
<1>6. CASE GrpcClientNext /\ UNCHANGED <<httpVars, wsVars, xmppVars>>
    BY <1>1, <1>6, GrpcClientKeeps, ClientsAnnounceNothing DEF Others, GrpcClientNext
<1>7. CASE GrpcServerNext /\ UNCHANGED <<httpVars, wsVars, xmppVars>>
    BY <1>1, <1>7, GrpcServerKeeps DEF Others, GrpcServerNext
<1>8. CASE XmppClientNext /\ UNCHANGED <<httpVars, wsVars, grpcVars>>
    BY <1>1, <1>8, XmppClientKeeps DEF Others, XmppClientNext, Announces
<1>9. CASE XmppServerNext /\ UNCHANGED <<httpVars, wsVars, grpcVars>>
    BY <1>1, <1>9, XmppServerKeeps DEF Others, XmppServerNext
<1> QED BY <1>2, <1>3, <1>4, <1>5, <1>6, <1>7, <1>8, <1>9 DEF Next

LEMMA Stuttering ==
    ASSUME UNCHANGED vars
    PROVE  (Inv => Inv') /\ PromiseStep /\ Announces
<1> USE DEF vars, httpVars, wsVars, grpcVars, xmppVars, clientState, serverState, lifecycle
<1>1. LifeTypes => LifeTypes'
    BY DEF LifeTypes
<1>2. TypeOK => TypeOK'
    BY <1>1, Types, TypesStay
<1>3. Created /\ Unused => Created' /\ Unused'
    BY DEF Created, Unused
<1>4. HttpClientOK /\ HttpServerOK => HttpClientOK' /\ HttpServerOK'
    BY DEF HttpClientOK, HttpServerOK, OneSubscription
<1>5. WsClientOK /\ WsServerOK => WsClientOK' /\ WsServerOK'
    BY DEF WsClientOK, WsServerOK
<1>6. GrpcClientOK /\ GrpcServerOK => GrpcClientOK' /\ GrpcServerOK'
    BY DEF GrpcClientOK, GrpcServerOK
<1>7. XmppClientOK /\ XmppServerOK => XmppClientOK' /\ XmppServerOK'
    BY DEF XmppClientOK, XmppServerOK, StreamIsAsRequired
<1>8. PromiseStep
    BY DEF PromiseStep, Promise!vars
<1>9. Announces
    BY DEF Announces, HasRecipients, HttpHasRecipients, WsHasRecipients, GrpcHasRecipients,
           XmppHasRecipients
<1> QED BY <1>2, <1>3, <1>4, <1>5, <1>6, <1>7, <1>8, <1>9 DEF Inv

\* Inv holds in every state an object can be in.
THEOREM Invariance == Spec => []Inv
<1>1. Inv /\ [Next]_vars => Inv'
    BY EveryStep, Stuttering
<1> QED BY <1>1, InvInit, PTL DEF Spec, Safety

\* For any number of peers, calls and drops: one subscription of the HTTP client, servers
\* that send to peers that are there, no connection, peer or recipient left after
\* disconnect(), callbacks that agree with the sets behind them, and no password on a stream the policy forbids it on.
THEOREM ObjectsAreSafe == Spec => []ObjectsInvariant
<1>1. Inv => ObjectsInvariant
  <2> SUFFICES ASSUME Inv
               PROVE  ObjectsInvariant
      OBVIOUS
  <2>1. OneSubscription
      BY DEF Inv, Unused, HttpClientOK, OneSubscription
  <2>2. RecipientsAreThere
      BY DEF Inv, Unused, HttpServerOK, WsServerOK, GrpcServerOK, XmppServerOK, RecipientsAreThere
  <2>3. NothingIsLeft
    <3> SUFFICES ASSUME closing = "done"
                 PROVE  NothingIsLeft!2
        BY DEF NothingIsLeft
    <3> QED BY Types DEF Inv, LifeTypes, Kinds, Unused, HttpClientOK, OneSubscription,
                   HttpServerOK, WsClientOK, WsServerOK, GrpcClientOK, GrpcServerOK,
                   XmppClientOK, XmppServerOK, XmppHasRecipients
  <2>4. AgreesWithItsPeers
      BY Types DEF Inv, XmppTypes, WsTypes, Unused, WsServerOK, XmppClientOK, AgreesWithItsPeers
  <2>5. StreamIsAsRequired
    <3>1. CASE kind = "xmpp client"
        BY <3>1 DEF Inv, XmppClientOK
    <3>2. CASE kind # "xmpp client"
      <4>1. credential = NoCredential
          BY <3>2 DEF Inv, Unused
      <4> QED BY <4>1 DEF StreamIsAsRequired, NoCredential
    <3> QED BY <3>1, <3>2
  <2> QED BY <2>1, <2>2, <2>3, <2>4, <2>5 DEF Inv, ObjectsInvariant
<1> QED BY <1>1, Invariance, PTL

\* Each of the eight objects keeps the promise the transport manager relies on: a refused
\* connect() never becomes a connection, no success comes after disconnect(), and a
\* connection that was closed never comes back.
THEOREM ObjectsKeepThePromise == Spec => ImplementsPromise
<1>1. Init => Promise!Init
    BY DEF Init, Promise!Init
<1>2. Inv /\ [Next]_vars => [Promise!Next]_(Promise!vars)
    BY EveryStep, Stuttering DEF PromiseStep
<1> QED BY <1>1, <1>2, Invariance, PTL DEF Spec, Safety, ImplementsPromise, Promise!Spec

\* Whenever a server's hasRecipients() turns TRUE, onClientConnected is called in the same
\* step, so nobody who waits for recipients sleeps on.
THEOREM FirstRecipientsAreAnnounced == Spec => RecipientsAreAnnounced
<1>1. Inv /\ [Next]_vars =>
          [kind # "xmpp client" /\ ~ HasRecipients /\ HasRecipients' => announced']_vars
    BY EveryStep DEF Announces
<1> QED BY <1>1, Invariance, PTL DEF Spec, Safety, RecipientsAreAnnounced
=============================================================================
