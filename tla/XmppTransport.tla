---------------------------- MODULE XmppTransport ----------------------------
(***************************************************************************)
(* The transport objects of src/src/xmpp-transport.js and the client core  *)
(* of src/src/xmpp-client-core.js below them.  The client's stream comes   *)
(* back by itself after a drop and the core rejoins its rooms; connect()   *)
(* is a chain of awaits that disconnect() may interrupt at any of them.    *)
(***************************************************************************)
EXTENDS TransportObject, Naturals

CONSTANTS
    MaxDrops,     \* bound: drops of the client's stream
    Receivers     \* accounts that sign in to the server

ASSUME DropsAssumption == MaxDrops \in Nat

VARIABLES
    muc,          \* the conversation is Room (MUC), not Direct
    tlsPolicy,    \* the client's STARTTLS policy
    credential,   \* how the current stream was authenticated: mechanism, and whether encrypted
    step,         \* where connect() of the client is
    entity,       \* status of the xmpp.js entity
    joined,       \* `joined`: the transport takes the room for entered
    joinedRooms,  \* the core remembers the room for the next stream
    request,      \* the join the current stream asked for: none, asked, inside, refused
    rejoining,    \* a join of a new stream is being written; disconnect() does not cancel it
    drops,        \* drops so far
    bound,        \* the server's bound receivers
    occupants     \* those of them that are in its room

clientState == <<tlsPolicy, credential, step, entity, joined, joinedRooms, request, rejoining,
                 drops>>
serverState == <<bound, occupants>>
xmppVars == <<muc, clientState, serverState>>

NoCredential == [mechanism |-> "none", secure |-> FALSE]
Offers == {<<>>, <<"PLAIN">>, <<"SCRAM-SHA-1", "PLAIN">>, <<"PLAIN", "SCRAM-SHA-1">>}

\* What `credentials` picks from: anything on an encrypted stream, else what is not PLAIN;
\* PLAIN only under Disabled, and there in default of anything else.
Usable(policy, secure, offer) ==
    LET strong == {i \in DOMAIN offer : offer[i] # "PLAIN"}
    IN  IF secure \/ (policy = "disabled" /\ strong = {}) THEN DOMAIN offer
        ELSE IF policy = "required" THEN {} ELSE strong

\* Every stream, the first or a later one, is negotiated, and authenticated by the first
\* usable mechanism of the server's offer; SASL is not attempted without one.
Authenticates ==
    \E secure \in BOOLEAN, offer \in Offers :
        LET usable == Usable(tlsPolicy, secure, offer)
        IN  \E i \in usable :
                /\ \A j \in usable : i <= j
                /\ credential' = [mechanism |-> offer[i], secure |-> secure]

XmppInit ==
    /\ muc \in BOOLEAN
    /\ tlsPolicy \in {"required", "preferred", "disabled"}
    /\ credential = NoCredential
    /\ step = "none"
    /\ entity = "offline"
    /\ joined = FALSE
    /\ joinedRooms = FALSE
    /\ request = "none"
    /\ rejoining = FALSE
    /\ drops = 0
    /\ bound = {}
    /\ occupants = {}

\* hasRecipients()
XmppHasRecipients ==
    IF kind = "xmpp client"
    THEN connected /\ (muc => joined)
    ELSE connected /\ (IF muc THEN occupants # {} ELSE bound # {})
-----------------------------------------------------------------------------
XmppClientConnects ==
    /\ StartsOpening
    /\ step' = "starting"
    /\ UNCHANGED <<muc, tlsPolicy, credential, entity, joined, joinedRooms, request, rejoining,
                   drops, serverState>>

\* The first stream is up.  A disconnect() that came first makes what follows fail.
Started ==
    /\ step = "starting"
    /\ closing # "done"
    /\ entity = "offline"
    /\ IF closing # "none"
       THEN /\ opening' = "rejected" /\ step' = "answered"
            /\ UNCHANGED <<closing, connected, entity, request, credential>>
       ELSE /\ Authenticates
            /\ entity' = "online"
            /\ connected' = TRUE
            /\ step' = IF muc THEN "joining" ELSE "answered"
            /\ opening' = IF muc THEN opening ELSE "resolved"
            /\ request' = IF muc THEN "asked" ELSE "none"
            /\ UNCHANGED closing
    /\ UNCHANGED <<muc, tlsPolicy, joined, joinedRooms, rejoining, drops, serverState>>

\* connect() gives up: it disconnects first and rejects afterwards, unless disconnect()
\* was called already.
GivesUp ==
    /\ connected' = FALSE
    /\ joined' = FALSE
    /\ IF closing = "none"
       THEN /\ closing' = "pending"
            /\ step' = "cleaning"
            /\ joinedRooms' = FALSE
            /\ UNCHANGED opening
       ELSE /\ opening' = "rejected"
            /\ step' = "answered"
            /\ UNCHANGED <<closing, joinedRooms>>
    /\ UNCHANGED <<muc, tlsPolicy, credential, entity, request, rejoining, drops, serverState>>

\* Refused, unencrypted although STARTTLS is required, or too late.
StartFails ==
    /\ step = "starting"
    /\ GivesUp

\* The room confirmed the join, on this stream or after one that dropped.
JoinConfirmed ==
    /\ step = "joining" /\ closing = "none"
    /\ request = "asked"
    /\ request' = "inside"
    /\ joinedRooms' = TRUE
    /\ joined' = TRUE
    /\ step' = "answered"
    /\ opening' = "resolved"
    /\ UNCHANGED <<muc, tlsPolicy, credential, closing, connected, entity, rejoining, drops,
                   serverState>>

\* Refused, or no answer in time; close() cancels the waiter too.
JoinFails ==
    /\ step = "joining"
    /\ GivesUp

\* A join being written fails with the socket, and with it the handler that awaits it.
StreamDrops ==
    /\ entity = "online" /\ closing = "none"
    /\ drops < MaxDrops
    /\ drops' = drops + 1
    /\ entity' = "dropped"
    /\ connected' = FALSE
    /\ joined' = FALSE
    /\ request' = "none"
    /\ rejoining' = FALSE
    /\ UNCHANGED <<opening, closing, muc, tlsPolicy, credential, step, joinedRooms, serverState>>

\* Mutant of StreamReturns: the transport keeps its core when it disconnects.
MutantStreamReturns ==
    /\ entity = "dropped" /\ closing # "done"
    /\ Authenticates
    /\ entity' = "online"
    /\ connected' = TRUE
    /\ rejoining' = joinedRooms
    /\ joined' = ~ joinedRooms
    /\ UNCHANGED <<opening, closing, muc, tlsPolicy, step, joinedRooms, request, drops,
                   serverState>>

\* The 'online' handlers of core and transport run.  With a room to rejoin its join is
\* being written; without one 'roomsRejoined' comes at once, in a direct conversation too.
\* close() stops the next reconnect and not the one under way, whose handlers find the
\* transport without a core.
StreamReturns ==
    /\ entity = "dropped" /\ closing # "done"
    /\ Authenticates
    /\ entity' = "online"
    /\ connected' = (closing = "none")
    /\ rejoining' = joinedRooms
    /\ joined' = ~ joinedRooms
    /\ UNCHANGED <<opening, closing, muc, tlsPolicy, step, joinedRooms, request, drops,
                   serverState>>

\* 'roomsRejoined': the join was written.  Nobody waits for the room's answer, and nobody
\* looks whether disconnect() came meanwhile.
RoomsRejoined ==
    /\ rejoining
    /\ rejoining' = FALSE
    /\ joined' = TRUE
    /\ request' = IF joinedRooms THEN "asked" ELSE request
    /\ UNCHANGED <<lifecycle, muc, tlsPolicy, credential, step, entity, joinedRooms, drops,
                   serverState>>

\* The join could not be written any more.
RejoinFails ==
    /\ rejoining /\ closing # "none"
    /\ rejoining' = FALSE
    /\ UNCHANGED <<lifecycle, muc, tlsPolicy, credential, step, entity, joined, joinedRooms,
                   request, drops, serverState>>

RoomAnswersRejoin ==
    /\ step = "answered" /\ entity = "online" /\ closing = "none"
    /\ request = "asked"
    /\ request' \in {"inside", "refused"}
    /\ UNCHANGED <<lifecycle, muc, tlsPolicy, credential, step, entity, joined, joinedRooms,
                   rejoining, drops,
                   serverState>>

XmppClientDisconnects ==
    /\ StartsClosing(FALSE)
    /\ joined' = FALSE
    /\ joinedRooms' = FALSE
    /\ UNCHANGED <<muc, tlsPolicy, credential, step, entity, request, rejoining, drops,
                   serverState>>

\* close() was answered or given up after a second; the connect() that called it rejects.
XmppClientClosed ==
    /\ closing = "pending"
    /\ closing' = "done"
    /\ connected' = FALSE
    /\ opening' = IF step = "cleaning" THEN "rejected" ELSE opening
    /\ step' = IF step = "cleaning" THEN "answered" ELSE step
    /\ entity' = "offline"
    /\ request' = "none"
    /\ UNCHANGED <<muc, tlsPolicy, credential, joined, joinedRooms, rejoining, drops,
                   serverState>>

XmppClientNext ==
    /\ kind = "xmpp client"
    /\ Quietly
    /\ \/ XmppClientConnects \/ Started \/ StartFails \/ JoinConfirmed \/ JoinFails
       \/ StreamDrops \/ StreamReturns \/ RoomsRejoined \/ RejoinFails \/ RoomAnswersRejoin
       \/ XmppClientDisconnects \/ XmppClientClosed
-----------------------------------------------------------------------------
\* listen() failed, or the room refused the application's own occupant.
XmppServerConnects ==
    /\ opening = "none" /\ closing = "none"
    /\ opening' \in {"resolved", "rejected"}
    /\ connected' = (opening' = "resolved")
    /\ UNCHANGED <<closing, xmppVars>>

\* 'bound' tells the manager of a client in either conversation.
Binds(r) ==
    /\ Established
    /\ r \notin bound
    /\ bound' = bound \cup {r}
    /\ UNCHANGED <<lifecycle, muc, clientState, occupants>>

Enters(r) ==
    /\ Established /\ muc
    /\ r \in bound \ occupants
    /\ occupants' = occupants \cup {r}
    /\ UNCHANGED <<lifecycle, muc, clientState, bound>>

Leaves(r) ==
    /\ r \in occupants
    /\ occupants' = occupants \ {r}
    /\ UNCHANGED <<lifecycle, muc, clientState, bound>>

SignsOff(r) ==
    /\ r \in bound
    /\ bound' = bound \ {r}
    /\ occupants' = occupants \ {r}
    /\ UNCHANGED <<lifecycle, muc, clientState>>

XmppServerDisconnects ==
    /\ StartsClosing(FALSE)
    /\ UNCHANGED xmppVars

\* close() ends every stream.
XmppServerClosed ==
    /\ EndsClosing
    /\ bound' = {}
    /\ occupants' = {}
    /\ UNCHANGED <<muc, clientState>>

XmppServerNext ==
    /\ kind = "xmpp server"
    /\ \/ Announced /\ \E r \in Receivers : Binds(r) \/ Enters(r)
       \/ /\ Quietly
          /\ \/ XmppServerConnects
             \/ XmppServerDisconnects
             \/ XmppServerClosed
             \/ \E r \in Receivers : Leaves(r) \/ SignsOff(r)

XmppFairness ==
    /\ WF_<<xmppVars, lifecycle>>(kind = "xmpp client" /\ Quietly /\ (Started \/ StartFails))
    /\ WF_<<xmppVars, lifecycle>>(kind = "xmpp client" /\ Quietly /\ (JoinConfirmed \/ JoinFails))
    /\ WF_<<xmppVars, lifecycle>>(kind = "xmpp client" /\ Quietly /\ XmppClientClosed)
    /\ WF_<<xmppVars, lifecycle>>(kind = "xmpp client" /\ Quietly
                                  /\ (StreamReturns \/ RoomsRejoined))
    /\ WF_<<xmppVars, lifecycle>>(kind = "xmpp server" /\ Quietly /\ XmppServerClosed)
=============================================================================
