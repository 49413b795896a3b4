--------------------------- MODULE TransportObject ---------------------------
(***************************************************************************)
(* The shape every transport object has: src/src/transport-manager.js      *)
(* connects it once, asks isConnected() at any time and disconnects it     *)
(* once.  The objects of http-transport.js, ws-transport.js,               *)
(* grpc-transport.js and xmpp-transport.js extend this module with the     *)
(* state of their own.                                                     *)
(***************************************************************************)
VARIABLES
    kind,       \* which object was created
    opening,    \* what became of connect()
    closing,    \* what became of disconnect()
    connected,  \* isConnected()
    announced   \* the last step called onClientConnected, which wakes waitForRecipients()

lifecycle == <<opening, closing, connected>>
Announced == announced' = TRUE
Quietly == announced' = FALSE

Openings == {"none", "pending", "resolved", "rejected"}
Closings == {"none", "pending", "done"}

Established == opening = "resolved" /\ closing = "none"

\* connect() returns a promise; nothing is connected yet.
StartsOpening ==
    /\ opening = "none" /\ closing = "none"
    /\ opening' = "pending"
    /\ UNCHANGED <<closing, connected>>

\* disconnect() returns a promise.
StartsClosing(connectedFromNowOn) ==
    /\ opening # "none" /\ closing = "none"
    /\ closing' = "pending"
    /\ connected' = connectedFromNowOn
    /\ UNCHANGED opening

EndsClosing ==
    /\ closing = "pending"
    /\ closing' = "done"
    /\ connected' = FALSE
    /\ UNCHANGED opening
=============================================================================
