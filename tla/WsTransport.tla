----------------------------- MODULE WsTransport -----------------------------
(***************************************************************************)
(* src/src/ws-transport.js.  The client owns one socket; the server owns a *)
(* set of accepted sockets, a WebSocket server and the HTTP server below   *)
(* it, and closes them in that order, each wait bounded.                   *)
(***************************************************************************)
EXTENDS TransportObject

CONSTANT Sockets   \* connections other programs open to the server

VARIABLES
    ws,          \* the client's socket
    clients,     \* the server's `clients` set
    accepted,    \* what each accepted socket is doing
    toldOf,      \* clients the manager believes in: onClientConnected minus onClientDisconnected
    closeStage   \* where disconnect() of the server is

wsServerVars == <<clients, accepted, toldOf, closeStage>>
wsVars == <<ws, clients, accepted, toldOf, closeStage>>

WsInit ==
    /\ ws = "none"
    /\ clients = {}
    /\ accepted = [s \in Sockets |-> "away"]
    /\ toldOf = FALSE
    /\ closeStage = "none"

WsHasRecipients == clients # {}
-----------------------------------------------------------------------------
\* Bad headers or a token over an unsecure connection reject before a socket exists.
WsClientRefused ==
    /\ opening = "none" /\ closing = "none"
    /\ opening' = "rejected"
    /\ UNCHANGED <<closing, connected, wsVars>>

WsClientConnects ==
    /\ StartsOpening
    /\ ws' = "connecting"
    /\ UNCHANGED wsServerVars

WsOpens ==
    /\ ws = "connecting" /\ closing = "none"
    /\ ws' = "open"
    /\ opening' = "resolved"
    /\ connected' = TRUE
    /\ UNCHANGED <<closing, wsServerVars>>

WsFails ==
    /\ ws = "connecting" /\ closing = "none"
    /\ ws' = "closed"
    /\ opening' = "rejected"
    /\ UNCHANGED <<closing, connected, wsServerVars>>

\* The peer closes, or an established socket reports an error and then closes.
WsDrops ==
    /\ ws = "open" /\ connected
    /\ ws' \in {"closing", "closed"}
    /\ connected' = FALSE
    /\ UNCHANGED <<opening, closing, wsServerVars>>

\* closeWebSocket() waits for 'close' and terminates the socket after two seconds.
WsClientDisconnects ==
    /\ opening # "none" /\ closing = "none"
    /\ closing' = IF ws \in {"none", "closed"} THEN "done" ELSE "pending"
    /\ connected' = FALSE
    /\ ws' = IF ws \in {"none", "closed"} THEN ws ELSE "closing"
    /\ UNCHANGED <<opening, wsServerVars>>

WsCloses ==
    /\ ws = "closing"
    /\ ws' = "closed"
    /\ closing' = IF closing = "pending" THEN "done" ELSE closing
    /\ UNCHANGED <<opening, connected, wsServerVars>>

WsClientNext ==
    /\ kind = "ws client"
    /\ Quietly
    /\ WsClientRefused \/ WsClientConnects \/ WsOpens \/ WsFails \/ WsDrops \/ WsClientDisconnects
       \/ WsCloses
-----------------------------------------------------------------------------
WsServerListens ==
    /\ opening = "none" /\ closing = "none"
    /\ opening' \in {"resolved", "rejected"}
    /\ connected' = (opening' = "resolved")
    /\ UNCHANGED <<closing, wsVars>>

\* Mutant of WsAccepts: the size is looked at before the client is added.
MutantWsAccepts(s) ==
    /\ opening = "resolved"
    /\ closeStage \in {"none", "clients"}
    /\ accepted[s] = "away"
    /\ accepted' = [accepted EXCEPT ![s] = "open"]
    /\ clients' = clients \cup {s}
    /\ toldOf' = TRUE
    /\ announced' = (\E t \in Sockets : clients = {t})
    /\ UNCHANGED <<lifecycle, ws, closeStage>>

\* The WebSocket server accepts until its own close(), so also while disconnect() waits
\* for the clients it knew of.
WsAccepts(s) ==
    /\ opening = "resolved"
    /\ closeStage \in {"none", "clients"}
    /\ accepted[s] = "away"
    /\ accepted' = [accepted EXCEPT ![s] = "open"]
    /\ clients' = clients \cup {s}
    /\ toldOf' = (toldOf \/ clients = {})
    /\ announced' = (clients = {})
    /\ UNCHANGED <<lifecycle, ws, closeStage>>

WsPeerGoes(s) ==
    /\ accepted[s] \in {"open", "closing"}
    /\ accepted' = [accepted EXCEPT ![s] = "gone"]
    /\ clients' = clients \ {s}
    /\ toldOf' = (toldOf /\ ~ (clients = {s}))
    /\ UNCHANGED <<lifecycle, ws, closeStage>>

WsServerDisconnects ==
    /\ StartsClosing(FALSE)
    /\ accepted' = [s \in Sockets |-> IF s \in clients THEN "closing" ELSE accepted[s]]
    /\ closeStage' = "clients"
    /\ UNCHANGED <<ws, clients, toldOf>>

\* Every client that was there is closed, or was terminated after two seconds.
WsClientsClosed ==
    /\ closeStage = "clients"
    /\ \A s \in Sockets : accepted[s] # "closing"
    /\ clients' = {}
    /\ closeStage' = "servers"
    /\ UNCHANGED <<lifecycle, ws, accepted, toldOf>>

\* wss.close() and httpServer.close(), each given up after two seconds.
WsServersClosed ==
    /\ closeStage = "servers"
    /\ EndsClosing
    /\ closeStage' = "done"
    /\ UNCHANGED <<ws, clients, accepted, toldOf>>

WsServerNext ==
    /\ kind = "ws server"
    /\ \/ /\ Quietly
          /\ \/ WsServerListens
             \/ WsServerDisconnects
             \/ WsClientsClosed
             \/ WsServersClosed
             \/ \E s \in Sockets : WsPeerGoes(s)
       \/ \E s \in Sockets : WsAccepts(s)

\* Nothing is said of WsOpens and WsFails: the upgrade has no timeout, and a server that
\* accepts the connection and never answers it leaves connect() pending.
WsFairness ==
    /\ WF_<<wsVars, lifecycle>>(kind = "ws client" /\ Quietly /\ WsCloses)
    /\ WF_wsVars(kind = "ws server" /\ Quietly
                 /\ \E s \in Sockets : accepted[s] = "closing" /\ WsPeerGoes(s))
    /\ WF_<<wsVars, lifecycle>>(kind = "ws server" /\ Quietly
                                /\ (WsClientsClosed \/ WsServersClosed))
=============================================================================
