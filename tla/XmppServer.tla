------------------------------ MODULE XmppServer ------------------------------
(***************************************************************************)
(* src/src/xmpp-server-core.js: the streams of the built-in XMPP server,   *)
(* from the accepted socket over STARTTLS and SASL to the bound resource,  *)
(* the rooms they are in, and what the application publishes to them.      *)
(*                                                                         *)
(* A handler runs to its end; what it writes is read by the client in the  *)
(* order written.  The only callback a handler waits for is the one of the *)
(* last write of a stream, which closes it (`ending').                     *)
(***************************************************************************)
EXTENDS XmppAuth, FiniteSets, Functions

CONSTANTS
    Rooms,            \* room JIDs
    Persistent,       \* the rooms configured with a password
    Nicks,            \* room nicknames
    Sessions,         \* who may be in a room: streams and the application identity
    Streams,          \* the connections made to the server
    Service,          \* SERVICE_SESSION_ID, the application identity in a room
    Resources,        \* the resources clients ask for
    None,
    MaxInitiations,   \* maxAuthAttemptsPerConnection
    Plans             \* the options and bounds of a behaviour: one of these

Plan == [tls : {"required", "preferred", "disabled"},  \* tlsPolicy
         conflict : {"replace", "reject"},             \* resourceConflict
         streams : SUBSET Streams, resources : SUBSET Resources, rooms : SUBSET Rooms,
         mechanisms : SUBSET Mechanisms, payloads : SUBSET Payloads,
         messages : BOOLEAN,
         faults : Nat,   \* refused credentials, malformed stanzas and lost sockets
         clock : Nat]    \* the clock of the limiter stops here

ASSUME ServerAssumption ==
    /\ Persistent \subseteq Rooms
    /\ Sessions = Streams \cup {Service}
    /\ Service \notin Streams
    /\ None \notin Resources \cup Nicks \cup Streams
    /\ Rooms \cap Resources = {}
    /\ {"bare", "everyone"} \cap (Rooms \cup Resources) = {}
    /\ MaxInitiations \in Nat
    /\ Plans \subseteq Plan

VARIABLES
    plan,
    server,     \* listening | closed
    stream,     \* the connections, by id
    bound,      \* bound, in the order of the Map; with each entry who was bound before
                \* it, and whether it took its resource over from another stream
    rooms,      \* the room registry
    attempts,   \* the limiter's bucket of the clients' address
    now, faults,
    roster,     \* who each client sees in each room, from the presences it was sent
    won,        \* the charges of the exchanges that succeeded
    delivery    \* the one message of a behaviour: to whom, and who was sent it

authVars == <<attempts, now, won>>
roomVars == <<rooms, roster>>
vars == <<plan, server, stream, bound, roomVars, authVars, faults, delivery>>

Absent == [phase |-> "absent", started |-> FALSE, secure |-> FALSE, authenticated |-> FALSE,
           exchange |-> NoExchange, initiations |-> 0, charge |-> NoToken,
           jid |-> None, nick |-> [r \in Rooms |-> None], ending |-> FALSE]
Closed == [Absent EXCEPT !.phase = "gone"]
StrayHolder(res) == [Absent EXCEPT !.phase = "stray", !.jid = res]
StrayOccupant(r, nick) ==
    [Absent EXCEPT !.phase = "stray", !.nick = [@ EXCEPT ![r] = nick]]
NobodyIsThere == [c \in Streams |-> [r \in Rooms |-> {}]]

Init ==
    /\ plan \in Plans
    /\ server = "listening"
    /\ stream = [c \in Streams |-> Absent]
    /\ bound = <<>>
    /\ rooms = [r \in Rooms |-> {}]
    /\ attempts = <<>>
    /\ now = 0
    /\ faults = 0
    /\ roster = NobodyIsThere
    /\ won = {}
    /\ delivery = None

-----------------------------------------------------------------------------
(* The room registry, xmpp-muc.js.  A room is the set of its occupants; a   *)
(* configured (persistent) room exists always and asks for the password,    *)
(* any other exists while somebody is in it (reapRoom).                     *)

Occupant == [nick : Nicks, session : Sessions, owner : BOOLEAN]

NickNames(room) == {o.nick : o \in room}
Occupancy(room, s) == {o \in room : o.session = s}
Occupies(room, s) == \E o \in room : o.session = s
Exists(r, room) == r \in Persistent \/ room # {}

\* Why a join is refused, decided before anything is changed.
JoinRefusal(r, room, nick, password, s) ==
    IF r \in Persistent /\ ~ password THEN "not-authorized"
    ELSE IF \E o \in room : o.nick = nick /\ o.session # s THEN "conflict"
    ELSE "none"

\* A session holds one nickname in a room: a second join renames it, and it
\* keeps its standing.  Who creates the room owns it.
Renames(room, nick, s) == \E o \in Occupancy(room, s) : o.nick # nick
Joined(r, room, nick, s) ==
    (room \ Occupancy(room, s))
    \cup {[nick |-> nick, session |-> s,
           owner |-> IF Occupies(room, s) THEN \E o \in Occupancy(room, s) : o.owner
                     ELSE ~ Exists(r, room)]}

Left(room, s) == room \ Occupancy(room, s)

\* What a room is asked to hold: distinct nicknames, one per session, and no
\* more than one owner, never in a configured room.
WellFormed(r, room) ==
    /\ room \subseteq Occupant
    /\ \A o, p \in room : o.nick = p.nick \/ o.session = p.session => o = p
    /\ \A o, p \in room : o.owner /\ p.owner => o = p
    /\ r \in Persistent => \A o \in room : ~ o.owner
-----------------------------------------------------------------------------
Live(c) == stream[c].phase = "open"

\* A stray is a stream that is closed and yet in a registry: what it sent behind
\* its refused <starttls/> was handled after the clean-up.
Stray(c) == stream[c].phase = "stray"
There(c) == Live(c) \/ Stray(c)

HoldersIn(entries, res) == {b \in Range(entries) : b.resource = res}
HolderOf(res) == HoldersIn(bound, res)
Holds(c, res) == \E b \in HolderOf(res) : b.stream = c

\* bound without the entries of the streams in gone.
BoundWithout(gone) == Picked(bound, {i \in DOMAIN bound : bound[i].stream \notin gone})

\* What the parser emits reaches a handler: behind the stream header.
Reads(c) == Live(c) /\ stream[c].started

Fault == faults < plan.faults /\ faults' = faults + 1

\* _streamError and _gracefulClose: written now, closed when the write calls back.
Ends(c) == stream' = [stream EXCEPT ![c].ending = TRUE]

-----------------------------------------------------------------------------
(* Rooms                                                                   *)

\* The streams of a room's occupants, as _connectionById finds them.
Members(room) == {c \in Streams : Live(c) /\ Occupies(room, c)}

\* _joinRoom: the newcomer is shown who is there, and everyone the newcomer; a
\* renamed session is taken off under its old name first.
Join(c, r, nick, password) ==
    LET s == stream[c]
        refusal == JoinRefusal(r, rooms[r], nick, password, c)
        renamed == Renames(rooms[r], nick, c)
        after == Joined(r, rooms[r], nick, c)
        others == NickNames(rooms[r] \ Occupancy(rooms[r], c))
        old == NickNames(Occupancy(rooms[r], c)) \ {nick}
    IN /\ Reads(c)
       /\ s.jid # None
       /\ refusal = "none"
       /\ rooms' = [rooms EXCEPT ![r] = after]
       /\ stream' = [stream EXCEPT ![c].nick[r] = nick]
       /\ roster' = [d \in Streams |->
              IF d \notin {e \in Streams : Live(e) /\ Occupies(after, e)} THEN roster[d]
              ELSE [roster[d] EXCEPT ![r] =
                        (@ \ old) \cup {nick}
                        \cup IF d = c /\ ~ renamed THEN others ELSE {}]]
       /\ UNCHANGED <<plan, server, bound, authVars, faults, delivery>>

\* A refused join changes nothing but what the client has learned.
JoinRefused(c, r, nick, password) ==
    /\ Reads(c)
    /\ stream[c].jid # None
    /\ JoinRefusal(r, rooms[r], nick, password, c) # "none"
    /\ Fault
    /\ UNCHANGED <<plan, server, stream, bound, roomVars, authVars, delivery>>

\* Taking c out of the rooms it knows to be in; the leaver itself is not answered.
RoomsAfter(c) ==
    [r \in Rooms |-> IF stream[c].nick[r] # None THEN Left(rooms[r], c) ELSE rooms[r]]
MutantRosterAfter(c) ==
    [d \in Streams |-> IF d = c THEN [r \in Rooms |-> {}] ELSE roster[d]]
RosterAfter(c) ==
    [d \in Streams |-> [r \in Rooms |->
        IF d = c THEN {}
        ELSE IF d \in Members(rooms[r]) THEN roster[d][r] \ {stream[c].nick[r]}
        ELSE roster[d][r]]]

LeaveRoom(c, r) ==
    /\ Reads(c)
    /\ stream[c].nick[r] # None
    /\ rooms' = [rooms EXCEPT ![r] = Left(@, c)]
    /\ stream' = [stream EXCEPT ![c].nick[r] = None]
    /\ roster' = [d \in Streams |->
           IF d = c THEN [roster[d] EXCEPT ![r] = {}]
           ELSE IF d \in Members(rooms[r])
                THEN [roster[d] EXCEPT ![r] = @ \ {stream[c].nick[r]}]
                ELSE roster[d]]
    /\ UNCHANGED <<plan, server, bound, authVars, faults, delivery>>

\* joinRoomAsService, once, by the transport that started the server.
JoinRoomAsService(r, nick) ==
    /\ server = "listening"
    /\ ~ \E q \in Rooms : Occupies(rooms[q], Service)
    /\ JoinRefusal(r, rooms[r], nick, TRUE, Service) = "none"
    /\ rooms' = [rooms EXCEPT ![r] = Joined(r, @, nick, Service)]
    /\ roster' = [d \in Streams |->
           IF d \in Members(rooms[r]) THEN [roster[d] EXCEPT ![r] = @ \cup {nick}] ELSE roster[d]]
    /\ UNCHANGED <<plan, server, stream, bound, authVars, faults, delivery>>

-----------------------------------------------------------------------------
(* Streams                                                                 *)

Accept(c) ==
    /\ server = "listening"
    /\ c \in plan.streams
    /\ stream[c].phase = "absent"
    /\ stream' = [stream EXCEPT ![c].phase = "open"]
    /\ UNCHANGED <<plan, server, bound, roomVars, authVars, faults, delivery>>

\* _onStreamStart, and the features offered in answer.
StreamStart(c) ==
    /\ Live(c)
    /\ ~ stream[c].started
    /\ stream' = [stream EXCEPT ![c].started = TRUE]
    /\ UNCHANGED <<plan, server, bound, roomVars, authVars, faults, delivery>>

\* Another host, XML that is not accepted or too large, a stanza of a stream
\* that is not yet signed in or bound, or the client's own </stream:stream>.
BreaksOff(c) ==
    /\ Live(c)
    /\ ~ stream[c].ending
    /\ Fault
    /\ Ends(c)
    /\ UNCHANGED <<plan, server, bound, roomVars, authVars, delivery>>

\* _cleanup
Gone(c) ==
    /\ rooms' = RoomsAfter(c)
    /\ roster' = RosterAfter(c)
    /\ bound' = BoundWithout({c})
    /\ stream' = [stream EXCEPT ![c] = Closed]

\* The last write of the stream calls back: _closeConnection.
Ended(c) ==
    /\ Live(c)
    /\ stream[c].ending
    /\ Gone(c)
    /\ UNCHANGED <<plan, server, authVars, faults, delivery>>

SocketCloses(c) ==
    /\ Live(c)
    /\ Fault
    /\ Gone(c)
    /\ UNCHANGED <<plan, server, authVars, delivery>>

\* _startTls accepted: upgraded in the write's callback, before the client, who
\* waits for it, goes on; the stream starts over.
StartTls(c) ==
    /\ Reads(c)
    /\ ~ stream[c].secure
    /\ plan.tls # "disabled"
    /\ stream' = [stream EXCEPT ![c].secure = TRUE, ![c].started = FALSE]
    /\ UNCHANGED <<plan, server, bound, roomVars, authVars, faults, delivery>>

\* _startTls refused: closed at once.  What follows in the same chunk is still
\* parsed, and handled: nothing asks whether the connection is closed, which
\* keeps what it was but for its rooms and its entry in bound.
StartTlsFails(c) ==
    /\ Reads(c)
    /\ stream[c].secure \/ plan.tls = "disabled"
    /\ Fault
    /\ UNCHANGED <<plan, server, authVars>>

StartTlsRefused(c) ==
    /\ StartTlsFails(c)
    /\ Gone(c)
    /\ UNCHANGED delivery

\* A join behind it: the room has an occupant whose stream is closed, shown to
\* everyone in it and taken out by nothing.
JoinBehind(c, r, nick, password) ==
    LET room == RoomsAfter(c)[r] IN
    /\ StartTlsFails(c)
    /\ stream[c].jid # None
    /\ JoinRefusal(r, room, nick, password, c) = "none"
    /\ rooms' = [RoomsAfter(c) EXCEPT ![r] = Joined(r, room, nick, c)]
    /\ roster' = [d \in Streams |->
           IF d \in Members(room) THEN [RosterAfter(c)[d] EXCEPT ![r] = @ \cup {nick}]
           ELSE RosterAfter(c)[d]]
    /\ bound' = BoundWithout({c})
    /\ stream' = [stream EXCEPT ![c] = StrayOccupant(r, nick)]
    /\ UNCHANGED delivery

-----------------------------------------------------------------------------
(* SASL                                                                    *)

\* _recordAuthFailure: the attempt's own charge stays, or a failure is added.
RecordAuthFailure(c) ==
    /\ attempts' = IF stream[c].charge # NoToken THEN attempts ELSE WithFailure(attempts, now)
    /\ UNCHANGED <<now, won>>

\* The answer of the mechanism to this stream, given its exchange so far.
Applied(c, exchange, result, initiations, charge, entries) ==
    IF result = "challenge"
    THEN /\ stream' = [stream EXCEPT ![c].exchange = [exchange EXCEPT !.stage = "final"],
                                     ![c].initiations = initiations, ![c].charge = charge]
         /\ attempts' = entries
         /\ UNCHANGED won
    ELSE IF result = "success"
    THEN /\ stream' = [stream EXCEPT ![c].authenticated = TRUE, ![c].started = FALSE,
                                     ![c].exchange = NoExchange,
                                     ![c].initiations = initiations, ![c].charge = NoToken]
         /\ attempts' = IF charge = NoToken THEN entries ELSE Refunded(entries, now, charge)
         /\ won' = IF charge = NoToken THEN won ELSE won \cup {charge}
    ELSE /\ stream' = [stream EXCEPT ![c].exchange = NoExchange,
                                     ![c].initiations = initiations, ![c].charge = NoToken]
         /\ attempts' = IF charge # NoToken THEN entries ELSE WithFailure(entries, now)
         /\ UNCHANGED won

\* STARTTLS is required before SASL: _saslFailure and a stream error.
SaslBeforeTls(c) ==
    /\ Reads(c)
    /\ ~ stream[c].secure
    /\ plan.tls = "required"
    /\ ~ stream[c].ending
    /\ Fault
    /\ Ends(c)
    /\ UNCHANGED <<plan, server, bound, roomVars, authVars, delivery>>

MayAuthenticate(c) ==
    /\ Reads(c)
    /\ stream[c].secure \/ plan.tls # "required"

Faulty(payload) == IF payload = "right" THEN UNCHANGED faults ELSE Fault

\* A second <auth/> breaks off the exchange it finds.
AuthInterrupts(c) ==
    /\ MayAuthenticate(c)
    /\ stream[c].exchange # NoExchange
    /\ Fault
    /\ RecordAuthFailure(c)
    /\ stream' = [stream EXCEPT ![c].exchange = NoExchange, ![c].charge = NoToken]
    /\ UNCHANGED <<plan, server, bound, roomVars, delivery>>

\* Charged before anything is computed; without a charge it is refused.
Authenticate(c, mechanism, payload) ==
    LET token == <<c, stream[c].initiations + 1>>
        entries == Charged(attempts, now, token)
        exchange == [mechanism |-> mechanism, stage |-> "initial", known |-> payload = "right"]
        inTheClear == mechanism = "PLAIN" /\ ~ stream[c].secure /\ plan.tls # "disabled"
        outcome == IF ~ MayCharge(attempts, now) THEN "limited"
                   ELSE IF inTheClear THEN "encryption-required"
                   ELSE IF mechanism = "other" THEN "invalid-mechanism"
                   ELSE IF payload = "undecodable" THEN "incorrect-encoding"
                   ELSE "answered"
        Settle(ex, charge) ==
            /\ stream' = [stream EXCEPT ![c].initiations = token[2], ![c].exchange = ex,
                                        ![c].charge = charge]
            /\ attempts' = entries
            /\ UNCHANGED won
    IN /\ MayAuthenticate(c)
       /\ stream[c].exchange = NoExchange
       /\ stream[c].initiations < MaxInitiations
       /\ Faulty(IF outcome \in {"answered", "limited"} THEN payload ELSE "wrong")
       /\ \/ /\ outcome = "limited"
             /\ stream' = [stream EXCEPT ![c].initiations = token[2]]
             /\ attempts' = Pruned(attempts, now)
             /\ UNCHANGED won
          \/ outcome = "encryption-required" /\ Settle(NoExchange, NoToken)
          \/ outcome = "invalid-mechanism" /\ Settle(NoExchange, token)
          \/ outcome = "incorrect-encoding" /\ Settle(exchange, NoToken)
          \/ /\ outcome = "answered"
             /\ Applied(c, exchange, SaslStart(mechanism, payload), token[2], token, entries)
       /\ UNCHANGED <<plan, server, bound, roomVars, now, delivery>>

\* _scramResponse
Response(c, payload) ==
    LET s == stream[c] IN
    /\ MayAuthenticate(c)
    /\ Faulty(IF s.exchange = NoExchange THEN "wrong" ELSE payload)
    /\ \/ /\ s.exchange = NoExchange \/ payload = "undecodable"
          /\ RecordAuthFailure(c)
          /\ stream' = [stream EXCEPT ![c].charge = NoToken]
       \/ /\ s.exchange # NoExchange
          /\ payload # "undecodable"
          /\ Applied(c, s.exchange, SaslNext(s.exchange, payload), s.initiations, s.charge, attempts)
          /\ UNCHANGED now
    /\ UNCHANGED <<plan, server, bound, roomVars, delivery>>

-----------------------------------------------------------------------------
(* The resource of a stream                                                *)

\* Map.set keeps the place of a key that is there.
Binding(res, c) ==
    [resource |-> res, stream |-> c,
     earlier |-> {b.stream : b \in Range(bound)}, took |-> HolderOf(res) # {}]
BoundWith(res, c) ==
    IF HolderOf(res) = {} THEN Append(bound, Binding(res, c))
    ELSE [i \in DOMAIN bound |->
             IF bound[i].resource = res THEN Binding(res, c) ELSE bound[i]]

\* _bind: one resource per stream.  The stream that holds it is told to go, and
\* goes when its last write calls back; what it sends until then is still handled.
MayBind(c, res) ==
    /\ stream[c].authenticated
    /\ stream[c].jid = None
    /\ HolderOf(res) = {} \/ plan.conflict = "replace"
Bound(c, res, holder) ==
    /\ bound' = BoundWith(res, c)
    /\ stream' = [d \in Streams |->
           IF d = c THEN holder
           ELSE IF Live(d) /\ Holds(d, res) THEN [stream[d] EXCEPT !.ending = TRUE]
           ELSE stream[d]]
    /\ UNCHANGED delivery

Bind(c, res) ==
    /\ Reads(c)
    /\ MayBind(c, res)
    /\ Bound(c, res, [stream[c] EXCEPT !.jid = res])
    /\ UNCHANGED <<plan, server, roomVars, authVars, faults>>

\* A bind behind a refused <starttls/>: a closed stream, which held no resource,
\* holds one.
BindBehind(c, res) ==
    /\ StartTlsFails(c)
    /\ MayBind(c, res)
    /\ rooms' = RoomsAfter(c)
    /\ roster' = RosterAfter(c)
    /\ Bound(c, res, StrayHolder(res))

-----------------------------------------------------------------------------
(* Messages.  A destination is a resource of the account (a full JID), the  *)
(* account ("bare"), a room, or every bound stream ("everyone").            *)

\* _findRecipient, among these entries of bound: the last of the Map for a bare JID.
MutantRecipient(entries, to) ==
    IF to \in Resources THEN {b.stream : b \in HoldersIn(entries, to)}
    ELSE IF entries = <<>> THEN {} ELSE {entries[1].stream}
Recipient(entries, to) ==
    IF to \in Resources THEN {b.stream : b \in HoldersIn(entries, to)}
    ELSE IF entries = <<>> THEN {} ELSE {entries[Len(entries)].stream}

\* The room's occupants, the sender among them; a sender that is not in the room
\* gets an error.
Broadcast(r, sender) == IF Occupies(rooms[r], sender) THEN Members(rooms[r]) ELSE {}

Handed(from, to, reached) ==
    /\ plan.messages
    /\ delivery = None
    /\ delivery' = [from |-> from, to |-> to, reached |-> reached]
Delivers(from, to, reached) ==
    /\ Handed(from, to, reached)
    /\ UNCHANGED <<plan, server, stream, bound, roomVars, authVars, faults>>

\* _handleMessage and _sendMucMessage
Message(c, to) ==
    /\ Reads(c)
    /\ stream[c].jid # None
    /\ Delivers(c, to, IF to \in Rooms THEN Broadcast(to, c) ELSE Recipient(bound, to))

\* A message behind a refused <starttls/>, from a stream that is in no room any more.
MessageBehind(c, to) ==
    /\ StartTlsFails(c)
    /\ stream[c].jid # None
    /\ Gone(c)
    /\ Handed(c, to, IF to \in Rooms THEN {} ELSE Recipient(BoundWithout({c}), to))

\* sendServiceMessage, to the configured destinations or to every bound stream,
\* and broadcastToRoomAsService.
Publish(to) ==
    /\ server = "listening"
    /\ Delivers(Service, to,
           IF to \in Rooms THEN Broadcast(to, Service)
           ELSE IF to = "everyone" THEN {b.stream : b \in Range(bound)}
           ELSE Recipient(bound, to))

-----------------------------------------------------------------------------
Tick ==
    /\ attempts # <<>>
    /\ now < plan.clock
    /\ now' = now + 1
    /\ UNCHANGED <<plan, server, stream, bound, roomVars, attempts, won, faults, delivery>>

\* close(): the application identity leaves its rooms, every stream is closed.
Close ==
    /\ server = "listening"
    /\ server' = "closed"
    /\ rooms' = [r \in Rooms |->
           {o \in Left(rooms[r], Service) : ~ (Live(o.session) /\ stream[o.session].nick[r] # None)}]
    /\ bound' = BoundWithout({c \in Streams : Live(c)})
    /\ stream' = [c \in Streams |-> IF Live(c) THEN Closed ELSE stream[c]]
    /\ roster' = NobodyIsThere
    /\ UNCHANGED <<plan, authVars, faults, delivery>>

StreamStep(c) ==
    \/ Accept(c) \/ StreamStart(c) \/ BreaksOff(c) \/ Ended(c) \/ SocketCloses(c)
    \/ StartTls(c) \/ StartTlsRefused(c) \/ SaslBeforeTls(c) \/ AuthInterrupts(c)
    \/ \E mechanism \in plan.mechanisms, payload \in plan.payloads :
           Authenticate(c, mechanism, payload)
    \/ \E payload \in plan.payloads : Response(c, payload)
    \/ \E res \in plan.resources : Bind(c, res) \/ BindBehind(c, res)
    \/ \E to \in plan.resources \cup {"bare"} \cup plan.rooms :
           Message(c, to) \/ MessageBehind(c, to)
    \/ \E r \in plan.rooms, nick \in Nicks, password \in BOOLEAN :
           \/ Join(c, r, nick, password)
           \/ JoinRefused(c, r, nick, password)
           \/ JoinBehind(c, r, nick, password)
    \/ \E r \in plan.rooms : LeaveRoom(c, r)

Next ==
    \/ \E c \in Streams : StreamStep(c)
    \/ \E r \in plan.rooms, nick \in Nicks : JoinRoomAsService(r, nick)
    \/ \E to \in plan.resources \cup {"bare", "everyone"} \cup plan.rooms : Publish(to)
    \/ Tick
    \/ Close

Spec == Init /\ [][Next]_vars

-----------------------------------------------------------------------------
(* Properties                                                              *)

StreamType == [phase : {"absent", "open", "gone", "stray"}, started : BOOLEAN,
               secure : BOOLEAN, authenticated : BOOLEAN,
               exchange : Exchange \cup {NoExchange}, initiations : 0 .. MaxInitiations,
               charge : {NoToken} \cup (Streams \X (1 .. MaxInitiations)),
               jid : Resources \cup {None}, nick : [Rooms -> Nicks \cup {None}],
               ending : BOOLEAN]

TypeOK ==
    /\ plan \in Plans
    /\ server \in {"listening", "closed"}
    /\ stream \in [Streams -> StreamType]
    /\ \A r \in Rooms : WellFormed(r, rooms[r])
    /\ \A c \in Streams : DOMAIN roster[c] = Rooms
    /\ now \in 0 .. plan.clock
    /\ faults \in 0 .. plan.faults

\* The three registries of the server agree: a resource is held by the one stream
\* that bound it last, and a room holds a session exactly if its stream knows of it
\* (_bind, _joinRoom, _leaveRoom and _cleanup keep bound, connection.rooms and the
\* occupants of xmpp-muc.js together).  Who is in them is live, with one exception:
\* a stray, whose bind or join came behind its refused <starttls/> (_startTls) and
\* was handled after the clean-up.
RegistriesAgree ==
    /\ \A i, j \in DOMAIN bound : bound[i].resource = bound[j].resource => i = j
    /\ \A i \in DOMAIN bound : There(bound[i].stream)
                               /\ stream[bound[i].stream].jid = bound[i].resource
    /\ \A c \in Streams :
           Live(c) /\ stream[c].jid # None => Holds(c, stream[c].jid) \/ stream[c].ending
    /\ \A r \in Rooms, c \in Streams, nick \in Nicks :
           (\E o \in rooms[r] : o.session = c /\ o.nick = nick)
             <=> There(c) /\ stream[c].nick[r] = nick

\* Everyone in a room sees everyone in it and nobody else: the presences sent
\* over joins, renames, departures and lost streams add up to the occupants.
RostersAgree ==
    \A r \in Rooms : \A c \in Members(rooms[r]) : roster[c][r] = NickNames(rooms[r])

\* The server and everyone on it have one picture of who is there.
EveryoneAgrees == TypeOK /\ RegistriesAgree /\ RostersAgree

\* What the limiter remembers are attempts that failed or were broken off, one
\* for each, and never more of them than it allows in a window: a client that
\* signs in properly is not refused for having signed in.
OnlyFailuresAreCharged ==
    LET entries == Pruned(attempts, now)
        charged == Picked(entries, {i \in DOMAIN entries : entries[i].token # NoToken}) IN
    /\ \A i, j \in DOMAIN charged : charged[i].token = charged[j].token => i = j
    /\ \A i \in DOMAIN charged : charged[i].token \notin won
    /\ Len(charged) <= MaxFailures

\* A message is handed to the streams it is addressed to: the holder of a full JID,
\* everyone in the room with the sender, everyone bound.  A bare JID means the
\* resource bound most recently (docs/xmpp.md:112): nobody else was bound after the
\* stream that gets it, unless by taking over a resource, which keeps its old place
\* in the Map (_bind, _findRecipient).  Only a stray gets a message and is not live.
Addressed(d) ==
    /\ \A c \in d.reached : There(c)
    /\ d.to \in Resources => d.reached = {c \in Streams : Holds(c, d.to)}
    /\ d.to = "bare" =>
           IF bound = <<>> THEN d.reached = {}
           ELSE \E b \in Range(bound) :
                    /\ d.reached = {b.stream}
                    /\ \A other \in Range(bound) :
                           other = b \/ other.stream \in b.earlier \/ other.took
    /\ d.to = "everyone" => d.reached = {c \in Streams : \E res \in Resources : Holds(c, res)}
    /\ d.to \in Rooms => \/ d.reached = {}
                         \/ d.reached = {c \in Streams : roster[c][d.to] # {}}
    /\ d.to \in Rooms /\ d.from \in Members(rooms[d.to]) => d.from \in d.reached

DeliversToTheAddressed == [][delivery # delivery' => Addressed(delivery)']_vars
=============================================================================
