--------------------------- MODULE TransportsProofs ---------------------------
(***************************************************************************)
(* Theorems about src/src/transport-manager.js, as Transports models it,   *)
(* for every set of connection options, any number of connect() calls,     *)
(* handles, peers, waiters and faults.                                     *)
(*                                                                         *)
(* Inv is the inductive invariant: the type invariant and what the fields  *)
(* of the manager have to do with one another.  A lemma for each action,   *)
(* or for a few that change the same things, shows that it is kept; the    *)
(* theorems at the end follow from it.                                     *)
(***************************************************************************)
EXTENDS Transports, TLAPS

USE DEF Tcp, Udp, ObjectTransport, Client, Server, Grpc, HttpClient

LEMMA Constants ==
    /\ None \notin Handles /\ None \notin Calls /\ None \notin Peers
    /\ Peers \cap Handles = {}
    BY TransportAssumption DEF None, Handles, Calls

LEMMA OptionFacts ==
    ASSUME TypeOK
    PROVE  /\ opt.mode \in {"client", "server"}
           /\ opt.greeting \in BOOLEAN /\ opt.anyTime \in BOOLEAN
           /\ opt.greeting => opt.protocol = "tcp"
    BY TransportAssumption DEF OptionType, TypeOK

-----------------------------------------------------------------------------
(* The inductive invariant                                                 *)

Attempting == {"opening", "greeting"}

\* A handle is of one attempt, and was created before it is anybody's.
Attempts ==
    /\ connection \in Handles => handle[connection] # "none"
    /\ \A n \in Calls :
        /\ call[n] \in Attempting \cup {"cleaning"} => attempt[n] \in Handles
        /\ attempt[n] \in Handles => handle[attempt[n]] # "none"
        /\ call[n] = "greeting" => Tcp /\ Client
        /\ call[n] = "cleaning" => ObjectTransport /\ ~ Grpc
        /\ \A m \in Calls : attempt[n] = attempt[m] /\ attempt[n] # None => n = m

\* One connect() goes on at a time; only one of TCP has a controller, which it keeps
\* from the end of its tear-down on.
OneAtATime ==
    /\ \A n, m \in Busy : n = m
    /\ \A n \in Calls : aborted[n] \/ controller = n => call[n] \notin {"none", "tearing down"}
    /\ ~ Tcp => controller = None /\ \A n \in Calls : ~ aborted[n]
    /\ Tcp => \A n \in Busy : call[n] # "tearing down" => controller = n
    /\ \A n \in Calls : expired[n] => opt.deadline

\* Only a TCP server has accepted sockets that are pending; a client has no recipients.
PeersFit ==
    /\ ~ Tcp => pending = {}
    /\ Tcp => \A c \in Peers : peer[c].at = "away" => c \notin ready \cup pending
    /\ Client => ready = {}
    /\ Client \/ Udp => \A c \in Peers : peer[c] = Away
    /\ \A c \in Peers : peer[c].at # "away" => peer[c].of \in Handles

\* An attempt of TCP is not the connection yet, and a client's that is not closed is
\* pending, where disconnect() finds it.
TcpHandles ==
    Tcp => /\ connection # None =>
                  handle[connection] \in (IF Server THEN {"up"} ELSE {"up", "closing"})
           /\ \A n \in Calls : call[n] \in Attempting =>
                /\ attempt[n] # connection
                /\ handle[attempt[n]] \in
                       IF Server THEN {"opening"} ELSE
                       IF call[n] = "opening" THEN {"opening", "closing"} ELSE {"up", "closing"}
                /\ Client /\ Live(attempt[n]) => attempt[n] \in pending

\* While a connect() of another protocol goes on, nothing is connected.
OtherHandles ==
    ~ Tcp => \A n \in Calls :
        /\ call[n] \in {"tearing down", "resolving", "sleeping"} => connection = None
        /\ call[n] = "opening" => /\ connection \in {None, attempt[n]}
                                  /\ handle[attempt[n]] \in {"opening", "closing", "closed"}
        /\ call[n] = "cleaning" => /\ connection \in {None, attempt[n]}
                                   /\ handle[attempt[n]] \in {"closing", "closed"}

\* Who waits, waits for a server that is up to get its first recipient.
WaitersWait ==
    \A w \in Waiters : waiter[w] = "waiting" => Server /\ IsConnected /\ ~ HasRecipients

\* Whoever may be published to was greeted.
Greeted ==
    opt.greeting =>
        /\ published \subseteq greeted
        /\ ready \subseteq greeted
        /\ Client /\ connection # None => connection \in greeted

\* What is left of a cancelled attempt is a socket of a client that was destroyed.
CancelledIsClosing ==
    ~ opt.anyTime => \A n \in Calls :
        aborted[n] /\ call[n] \in Attempting => Tcp /\ Client /\ handle[attempt[n]] = "closing"

\* While a connect() goes on there is no connection but the object it connects.
ConnectionIsBusys ==
    ~ opt.anyTime /\ ~ Grpc => \A n \in Busy :
        call[n] # "cleaning" =>
            connection = IF ObjectTransport /\ call[n] = "opening" THEN attempt[n] ELSE None

LiveIsOwned ==
    ~ opt.anyTime /\ ~ Grpc => \A h \in Handles : Live(h) =>
        h = connection \/ \E n \in Busy : call[n] \in Attempting /\ attempt[n] = h

\* An open accepted socket is known to the server it belongs to.
PeersAreServed ==
    ~ opt.anyTime /\ ~ Grpc => \A c \in Peers : Open(c) =>
        IF Tcp THEN c \in pending \cup ready /\ connection # None
        ELSE \/ handle[peer[c].of] = "closing"
             \/ peer[c].of = connection /\ handle[connection] = "up"

Inv == /\ TypeOK
       /\ Attempts
       /\ OneAtATime
       /\ PeersFit
       /\ TcpHandles
       /\ OtherHandles
       /\ WaitersWait
       /\ Greeted
       /\ CancelledIsClosing
       /\ ConnectionIsBusys
       /\ LiveIsOwned
       /\ PeersAreServed

-----------------------------------------------------------------------------
(* What a step does to one call or one handle and leaves of the others.    *)

Moves(n, s) == call'[n] = s /\ \A m \in Calls \ {n} : call'[m] = call[m]
Tries(n, h) == attempt'[n] = h /\ \A m \in Calls \ {n} : attempt'[m] = attempt[m]
Turns(h, s) == handle'[h] = s /\ \A g \in Handles \ {h} : handle'[g] = handle[g]

LEMMA BusyIs ==
    /\ \A n \in Calls : n \in Busy <=> call[n] \in InProgress /\ ~ aborted[n]
    /\ Busy \subseteq Calls
    BY DEF Busy

LEMMA BusyMoves ==
    ASSUME NEW n \in Calls, NEW s, call[n] \in InProgress, Moves(n, s), aborted' = aborted
    PROVE  /\ n \in Busy <=> ~ aborted[n]
           /\ Busy \subseteq Calls
           /\ s \in InProgress => Busy' = Busy
           /\ s \notin InProgress => Busy' = Busy \ {n}
    BY DEF Moves, Busy

\* A call that goes on or ends leaves the others their turn.
LEMMA TurnsKept ==
    ASSUME OneAtATime, NEW n \in Calls, NEW s, s \notin {"none", "tearing down"}, Moves(n, s),
           call[n] # "tearing down", Busy' \subseteq Busy,
           UNCHANGED <<opt, aborted, controller, expired>>
    PROVE  OneAtATime'
    BY BusyIs DEF OneAtATime, Moves

\* A connect() of another protocol is the only one that goes on, and nobody waits.
LEMMA OnlyCall ==
    ASSUME Inv, ~ Tcp, NEW n \in Calls, call[n] \in InProgress
    PROVE  /\ n \in Busy
           /\ \A m \in Calls : call[m] \in InProgress => m = n
           /\ ~ IsConnected
           /\ \A w \in Waiters : waiter[w] # "waiting"
<1>1. n \in Busy /\ \A m \in Calls : call[m] \in InProgress => m = n
    BY BusyIs DEF Inv, OneAtATime
<1>2. ~ IsConnected
    BY DEF Inv, TypeOK, OtherHandles, Attempts, InProgress, IsConnected
<1> QED BY <1>1, <1>2 DEF Inv, WaitersWait

\* What a part of the invariant speaks of is all it depends on.
LEMMA Frames ==
    ASSUME opt' = opt
    PROVE  /\ Attempts /\ UNCHANGED <<call, attempt, handle, connection>> => Attempts'
           /\ OneAtATime /\ UNCHANGED <<call, aborted, controller, expired>> => OneAtATime'
           /\ PeersFit /\ UNCHANGED peerVars => PeersFit'
           /\ TcpHandles /\ UNCHANGED <<call, attempt, handle, connection, pending>> => TcpHandles'
           /\ OtherHandles /\ UNCHANGED <<call, attempt, handle, connection>> => OtherHandles'
           /\ WaitersWait /\ UNCHANGED <<handle, connection, ready, peer, waiter>> => WaitersWait'
           /\ Greeted /\ UNCHANGED <<connection, ready, greeted, published>> => Greeted'
           /\ CancelledIsClosing /\ UNCHANGED <<call, aborted, attempt, handle>>
                  => CancelledIsClosing'
           /\ ConnectionIsBusys /\ UNCHANGED <<call, aborted, attempt, connection>>
                  => ConnectionIsBusys'
           /\ LiveIsOwned /\ UNCHANGED <<call, aborted, attempt, handle, connection>>
                  => LiveIsOwned'
           /\ PeersAreServed /\ UNCHANGED <<handle, connection, peerVars>> => PeersAreServed'
<1>1. UNCHANGED <<call, aborted>> => Busy' = Busy
    BY DEF Busy
<1>2. UNCHANGED handle => \A h \in Handles : Live(h)' = Live(h)
    BY DEF Live
<1>3. Attempts /\ UNCHANGED <<call, attempt, handle, connection>> => Attempts'
    BY DEF Attempts
<1>4. OneAtATime /\ UNCHANGED <<call, aborted, controller, expired>> => OneAtATime'
    BY <1>1 DEF OneAtATime
<1>5. PeersFit /\ UNCHANGED peerVars => PeersFit'
    BY DEF PeersFit, peerVars, Away
<1>6. TcpHandles /\ UNCHANGED <<call, attempt, handle, connection, pending>> => TcpHandles'
    BY DEF TcpHandles, Live
<1>7. OtherHandles /\ UNCHANGED <<call, attempt, handle, connection>> => OtherHandles'
    BY DEF OtherHandles
<1>8. WaitersWait /\ UNCHANGED <<handle, connection, ready, peer, waiter>> => WaitersWait'
    BY DEF WaitersWait, IsConnected, HasRecipients, Open
<1>9. Greeted /\ UNCHANGED <<connection, ready, greeted, published>> => Greeted'
    BY DEF Greeted
<1>10. CancelledIsClosing /\ UNCHANGED <<call, aborted, attempt, handle>> => CancelledIsClosing'
    BY DEF CancelledIsClosing
<1>11. ConnectionIsBusys /\ UNCHANGED <<call, aborted, attempt, connection>>
           => ConnectionIsBusys'
    BY <1>1 DEF ConnectionIsBusys
<1>12. LiveIsOwned /\ UNCHANGED <<call, aborted, attempt, handle, connection>> => LiveIsOwned'
    BY <1>1, <1>2 DEF LiveIsOwned
<1>13. PeersAreServed /\ UNCHANGED <<handle, connection, peerVars>> => PeersAreServed'
    BY DEF PeersAreServed, peerVars, Open
<1> QED BY <1>3, <1>4, <1>5, <1>6, <1>7, <1>8, <1>9, <1>10, <1>11, <1>12, <1>13

-----------------------------------------------------------------------------
(* connect(): what a call does between its attempts                        *)

\* TcpResolveFails, TcpWakes and ObjectWakes.
LEMMA PauseKeeps ==
    ASSUME Inv, NEW n \in Calls, NEW s \in {"rejected", "sleeping", "resolving"},
           call[n] \in {"resolving", "sleeping"}, call' = [call EXCEPT ![n] = s],
           UNCHANGED <<aborted, expired, attempt, controller, handleVars, peerVars, waiter,
                       sendVars, greeted, outside>>
    PROVE  Inv'
<1> USE DEF Inv
<1>1. opt' = opt /\ UNCHANGED <<aborted, expired, attempt, controller, handle, connection,
                                peerVars, waiter, greeted, published>>
    BY DEF outside, handleVars, sendVars
<1>2. Moves(n, s) /\ TypeOK'
    BY DEF Moves, TypeOK, CallStates, InProgress, handleVars, peerVars, sendVars, outside
<1>3. /\ Busy \subseteq Calls
      /\ n \in Busy <=> ~ aborted[n]
      /\ Busy' = Busy \/ Busy' = Busy \ {n}
  <2>1. call[n] \in InProgress
      BY DEF InProgress
  <2> QED BY <1>1, <1>2, <2>1, BusyMoves
<1>4. Attempts' /\ TcpHandles' /\ CancelledIsClosing'
    BY <1>1, <1>2, TypeOK, TypeOK'
    DEF Attempts, TcpHandles, CancelledIsClosing, Attempting, Moves, Live, peerVars
<1>5. OneAtATime'
    BY <1>1, <1>2, <1>3, TurnsKept
<1>6. OtherHandles'
    BY <1>1, <1>2 DEF OtherHandles, Moves
<1>7. ConnectionIsBusys'
    BY <1>1, <1>2, <1>3 DEF ConnectionIsBusys, Moves
<1>8. LiveIsOwned'
  <2>1. \A h \in Handles : Live(h)' = Live(h)
      BY <1>1 DEF Live
  <2> QED BY <1>1, <1>2, <1>3, <2>1 DEF LiveIsOwned, Attempting, Moves
<1>9. PeersFit' /\ WaitersWait' /\ Greeted' /\ PeersAreServed'
    BY <1>1, Frames DEF peerVars
<1> QED BY <1>2, <1>4, <1>5, <1>6, <1>7, <1>8, <1>9

LEMMA TornDownKeeps == ASSUME Inv, NEW n \in Calls, TornDown(n) PROVE Inv'
<1> USE DEF Inv
<1>1. /\ UNCHANGED <<opt, aborted, expired, attempt, handle, connection, peerVars, waiter,
                     greeted, published>>
      /\ call[n] = "tearing down" /\ controller' = IF Tcp THEN n ELSE controller
    BY DEF TornDown, outside, handleVars, sendVars
<1>2. Moves(n, "resolving") /\ TypeOK'
    BY DEF TornDown, Moves, TypeOK, CallStates, InProgress, handleVars, peerVars, sendVars,
           outside
<1>3. n \in Busy /\ Busy' = Busy /\ Busy \subseteq Calls
    BY <1>1, <1>2, BusyMoves DEF InProgress, OneAtATime
<1>4. Attempts' /\ TcpHandles' /\ CancelledIsClosing'
    BY <1>1, <1>2, TypeOK, TypeOK'
    DEF Attempts, TcpHandles, CancelledIsClosing, Attempting, Moves, Live, peerVars
<1>5. OneAtATime'
    BY <1>1, <1>2, <1>3 DEF OneAtATime, Moves
<1>6. OtherHandles'
    BY <1>1, <1>2 DEF OtherHandles, Moves
<1>7. ConnectionIsBusys'
    BY <1>1, <1>2, <1>3 DEF ConnectionIsBusys, Moves
<1>8. LiveIsOwned'
  <2>1. \A h \in Handles : Live(h)' = Live(h)
      BY <1>1 DEF Live
  <2> QED BY <1>1, <1>2, <1>3, <2>1 DEF LiveIsOwned, Attempting, Moves
<1>9. PeersFit' /\ WaitersWait' /\ Greeted' /\ PeersAreServed'
    BY <1>1, Frames DEF peerVars
<1> QED BY <1>2, <1>4, <1>5, <1>6, <1>7, <1>8, <1>9

LEMMA DeadlinePassesKeeps == ASSUME Inv, NEW n \in Calls, DeadlinePasses(n) PROVE Inv'
<1> USE DEF Inv
<1>1. UNCHANGED <<opt, call, aborted, attempt, controller, handle, connection, peerVars,
                  waiter, greeted, published>>
    BY DEF DeadlinePasses, handleVars, sendVars, outside
<1>2. TypeOK'
    BY DEF DeadlinePasses, TypeOK, handleVars, peerVars, sendVars, outside
<1>3. OneAtATime'
  <2>1. Busy' = Busy
      BY <1>1 DEF Busy
  <2> QED BY <1>1, <2>1 DEF DeadlinePasses, OneAtATime, TypeOK
<1> QED BY <1>1, <1>2, <1>3, Frames DEF peerVars

-----------------------------------------------------------------------------
(* connect(): a new attempt                                                *)

LEMMA TcpOpensKeeps ==
    ASSUME Inv, NEW n \in Calls, NEW h \in Handles, TcpOpens(n, h) PROVE Inv'
<1> USE Constants, OptionFacts DEF Inv
<1>1. /\ UNCHANGED <<opt, aborted, controller, expired, connection, ready, peer, waiter,
                     sendVars, greeted, outside>>
      /\ Tcp /\ call[n] = "resolving" /\ ~ aborted[n] /\ handle[h] = "none"
      /\ pending' = IF Client THEN pending \cup {h} ELSE pending
    BY DEF TcpOpens, Fresh, outside
<1>2. Moves(n, "opening") /\ Tries(n, h) /\ Turns(h, "opening")
    BY DEF TcpOpens, Moves, Tries, Turns, TypeOK
<1>3. n \in Busy /\ Busy' = Busy /\ Busy \subseteq Calls
    BY <1>1, <1>2, BusyMoves DEF InProgress
<1>4. TypeOK'
  <2>1. /\ call' \in [Calls -> CallStates]
        /\ attempt' \in [Calls -> Handles \cup {None}]
        /\ handle' \in [Handles -> HandleStates]
      BY DEF TypeOK, TcpOpens, CallStates, InProgress, HandleStates
  <2>2. connection \notin pending' /\ pending' \subseteq (IF Client THEN Handles ELSE Peers)
      BY <1>1 DEF TypeOK, Attempts
  <2>3. pending' \cap ready = {}
      BY <1>1 DEF TypeOK
  <2> QED BY <1>1, <2>1, <2>2, <2>3 DEF TypeOK, sendVars, outside
<1>5. Attempts'
    BY <1>1, <1>2 DEF Attempts, Attempting, Moves, Tries, Turns, TypeOK
<1>6. OneAtATime'
    BY <1>1, <1>2, <1>3, TurnsKept
<1>7. PeersFit' /\ OtherHandles' /\ Greeted'
    BY <1>1 DEF PeersFit, OtherHandles, Greeted, sendVars, Away
<1>8. TcpHandles'
    BY <1>1, <1>2 DEF TcpHandles, Attempts, Attempting, Moves, Tries, Turns, Live, TypeOK
<1>9. WaitersWait'
    BY <1>1, <1>2 DEF WaitersWait, IsConnected, HasRecipients, Attempts, TypeOK, Turns, Open
<1>10. CancelledIsClosing'
    BY <1>1, <1>2 DEF CancelledIsClosing, Attempts, Attempting, Moves, Tries, Turns
<1>11. ConnectionIsBusys'
    BY <1>1, <1>2, <1>3 DEF ConnectionIsBusys, Moves, Tries
<1>12. LiveIsOwned'
    BY <1>1, <1>2, <1>3 DEF LiveIsOwned, Attempts, Attempting, Live, Moves, Tries, Turns
<1>13. PeersAreServed'
    BY <1>1, <1>2 DEF PeersAreServed, Open, Turns
<1> QED BY <1>4, <1>5, <1>6, <1>7, <1>8, <1>9, <1>10, <1>11, <1>12, <1>13

LEMMA UdpOpensKeeps ==
    ASSUME Inv, NEW n \in Calls, NEW h \in Handles, UdpOpens(n, h) PROVE Inv'
<1> USE Constants, OptionFacts DEF Inv
<1>1. /\ UNCHANGED <<opt, aborted, controller, expired, connection, pending, peer, waiter,
                     sendVars, greeted, outside>>
      /\ Udp /\ call[n] = "resolving" /\ handle[h] = "none" /\ ready' = {}
    BY DEF UdpOpens, Fresh, outside
<1>2. Moves(n, "opening") /\ Tries(n, h) /\ Turns(h, "opening")
    BY DEF UdpOpens, Moves, Tries, Turns, TypeOK
<1>3. /\ n \in Busy /\ Busy' = Busy /\ Busy \subseteq Calls /\ connection = None
      /\ \A w \in Waiters : waiter[w] # "waiting"
    BY <1>1, <1>2, BusyMoves, OnlyCall DEF InProgress, OtherHandles
<1>4. TypeOK'
  <2>1. /\ call' \in [Calls -> CallStates]
        /\ attempt' \in [Calls -> Handles \cup {None}]
        /\ handle' \in [Handles -> HandleStates]
      BY DEF TypeOK, UdpOpens, CallStates, InProgress, HandleStates
  <2> QED BY <1>1, <2>1 DEF TypeOK, sendVars, outside
<1>5. Attempts'
    BY <1>1, <1>2 DEF Attempts, Attempting, Moves, Tries, Turns, TypeOK
<1>6. OneAtATime'
    BY <1>1, <1>2, <1>3, TurnsKept
<1>7. PeersFit' /\ TcpHandles' /\ Greeted' /\ WaitersWait'
    BY <1>1, <1>3 DEF PeersFit, TcpHandles, Greeted, WaitersWait, sendVars, Away
<1>8. OtherHandles'
    BY <1>1, <1>2, <1>3 DEF OtherHandles, Attempts, Attempting, Moves, Tries, Turns, TypeOK
<1>9. CancelledIsClosing'
    BY <1>1 DEF CancelledIsClosing, OneAtATime
<1>10. ConnectionIsBusys'
    BY <1>1, <1>2, <1>3 DEF ConnectionIsBusys, Moves, Tries
<1>11. LiveIsOwned'
    BY <1>1, <1>2, <1>3 DEF LiveIsOwned, Attempts, Attempting, Live, Moves, Tries, Turns
<1>12. PeersAreServed'
    BY <1>1 DEF PeersAreServed, PeersFit, Open, Away
<1> QED BY <1>4, <1>5, <1>6, <1>7, <1>8, <1>9, <1>10, <1>11, <1>12

LEMMA ObjectOpensKeeps ==
    ASSUME Inv, NEW n \in Calls, NEW h \in Handles, ObjectOpens(n, h) PROVE Inv'
<1> USE Constants, OptionFacts DEF Inv
<1>1. /\ UNCHANGED <<opt, aborted, controller, expired, peerVars, waiter, sendVars, greeted,
                     outside>>
      /\ ObjectTransport /\ call[n] = "resolving" /\ handle[h] = "none"
      /\ connection' = IF Grpc THEN connection ELSE h
    BY DEF ObjectOpens, Fresh, outside
<1>2. Moves(n, "opening") /\ Tries(n, h) /\ Turns(h, "opening")
    BY DEF ObjectOpens, Moves, Tries, Turns, TypeOK
<1>3. /\ n \in Busy /\ Busy' = Busy /\ Busy \subseteq Calls /\ connection = None
      /\ \A m \in Calls : call[m] \in InProgress => m = n
      /\ \A w \in Waiters : waiter[w] # "waiting"
    BY <1>1, <1>2, BusyMoves, OnlyCall DEF InProgress, OtherHandles
<1>4. TypeOK'
  <2>1. /\ call' \in [Calls -> CallStates]
        /\ attempt' \in [Calls -> Handles \cup {None}]
        /\ handle' \in [Handles -> HandleStates]
      BY DEF TypeOK, ObjectOpens, CallStates, InProgress, HandleStates
  <2>2. pending = {}
      BY <1>1 DEF PeersFit
  <2> QED BY <1>1, <2>1, <2>2 DEF TypeOK, sendVars, outside, peerVars
<1>5. Attempts'
    BY <1>1, <1>2 DEF Attempts, Attempting, Moves, Tries, Turns, TypeOK
<1>6. OneAtATime'
    BY <1>1, <1>2, <1>3, TurnsKept
<1>7. PeersFit'
    BY <1>1, Frames
<1>8. TcpHandles' /\ Greeted' /\ WaitersWait' /\ CancelledIsClosing'
    BY <1>1, <1>3 DEF TcpHandles, Greeted, WaitersWait, CancelledIsClosing, OneAtATime, TypeOK
<1>9. OtherHandles'
    BY <1>1, <1>2, <1>3 DEF OtherHandles, Moves, Tries, Turns, InProgress
<1>10. ConnectionIsBusys'
    BY <1>1, <1>2, <1>3 DEF ConnectionIsBusys, OneAtATime, Moves, Tries
<1>11. LiveIsOwned'
    BY <1>1, <1>2, <1>3 DEF LiveIsOwned, OneAtATime, Attempting, Live, Moves, Turns
<1>12. PeersAreServed'
    BY <1>1, <1>2, <1>3 DEF PeersAreServed, PeersFit, Open, Turns, peerVars, TypeOK
<1> QED BY <1>4, <1>5, <1>6, <1>7, <1>8, <1>9, <1>10, <1>11, <1>12

-----------------------------------------------------------------------------
(* connect(): an attempt of TCP succeeds or fails                          *)

LEMMA TcpListensKeeps == ASSUME Inv, NEW n \in Calls, TcpListens(n) PROVE Inv'
<1> DEFINE h == attempt[n]
<1> USE Constants, OptionFacts DEF Inv
<1>1. /\ UNCHANGED <<opt, aborted, expired, attempt, controller, peerVars, waiter, sendVars,
                     greeted, outside>>
      /\ Tcp /\ Server /\ call[n] = "opening" /\ \A g \in Handles : handle[g] # "up"
      /\ connection' = h
    BY DEF TcpListens, outside
<1>2. h \in Handles /\ handle[h] = "opening"
    BY <1>1 DEF Attempts, Attempting, TcpHandles, TypeOK
<1>3. Moves(n, "resolved") /\ Turns(h, "up")
    BY <1>2 DEF TcpListens, Moves, Turns, TypeOK
<1>4. Busy \subseteq Calls /\ (n \in Busy <=> ~ aborted[n]) /\ Busy' = Busy \ {n}
  <2>1. call[n] \in InProgress /\ "resolved" \notin InProgress
      BY <1>1 DEF InProgress
  <2> QED BY <1>1, <1>3, <2>1, BusyMoves
<1>5. connection = None /\ \A w \in Waiters : waiter[w] # "waiting"
    BY <1>1 DEF TcpHandles, WaitersWait, IsConnected, TypeOK
<1>6. TypeOK'
  <2>1. call' \in [Calls -> CallStates] /\ handle' \in [Handles -> HandleStates]
      BY DEF TypeOK, TcpListens, CallStates, HandleStates
  <2> QED BY <1>1, <1>2, <2>1 DEF TypeOK, sendVars, outside, peerVars
<1>7. Attempts'
    BY <1>1, <1>2, <1>3 DEF Attempts, Attempting, Moves, Turns
<1>8. OneAtATime'
    BY <1>1, <1>3, <1>4, TurnsKept
<1>9. PeersFit'
    BY <1>1, Frames
<1>10. TcpHandles'
    BY <1>1, <1>2, <1>3, <1>5 DEF TcpHandles, Attempts, Attempting, Moves, Turns, TypeOK
<1>11. OtherHandles' /\ WaitersWait' /\ Greeted'
    BY <1>1, <1>5 DEF OtherHandles, WaitersWait, Greeted, sendVars, peerVars
<1>12. CancelledIsClosing'
    BY <1>1, <1>2, <1>3 DEF CancelledIsClosing, Attempting, Moves, Turns
<1>13. ~ opt.anyTime => n \in Busy /\ Busy' = {} /\ \A m \in Busy : m = n
    BY <1>1, <1>4 DEF CancelledIsClosing, Attempting, OneAtATime
<1>14. ConnectionIsBusys'
    BY <1>1, <1>13 DEF ConnectionIsBusys
<1>15. LiveIsOwned'
    BY <1>1, <1>2, <1>3, <1>5, <1>13 DEF LiveIsOwned, Live, Turns
<1>16. PeersAreServed'
    BY <1>1, <1>5 DEF PeersAreServed, Open, peerVars
<1> QED BY <1>6, <1>7, <1>8, <1>9, <1>10, <1>11, <1>12, <1>14, <1>15, <1>16

\* TcpConnects without a greeting and ClientGreetingSent: connect() resolves.
LEMMA ReadyKeeps ==
    ASSUME Inv, NEW n \in Calls, NEW h, h = attempt[n],
           Tcp, Client, call[n] \in Attempting, handle[h] \in {"opening", "up"},
           handle' = [handle EXCEPT ![h] = "up"], ClientReady(n, h),
           greeted' = greeted \/ greeted' = greeted \cup {h}, opt.greeting => h \in greeted',
           UNCHANGED <<aborted, expired, attempt, controller, ready, peer, waiter, sendVars,
                       outside>>
    PROVE  Inv'
<1> USE Constants, OptionFacts DEF Inv
<1>1. /\ UNCHANGED <<opt, aborted, expired, attempt, controller, ready, peer, waiter, sendVars,
                     outside>>
      /\ connection' = h /\ pending' = pending \ {h}
    BY DEF outside, ClientReady
<1>2. h \in Handles
    BY DEF Attempts
<1>3. Moves(n, "resolved") /\ Turns(h, "up")
    BY <1>2 DEF ClientReady, Moves, Turns, TypeOK
<1>4. Busy \subseteq Calls /\ (n \in Busy <=> ~ aborted[n]) /\ Busy' = Busy \ {n}
  <2>1. call[n] \in InProgress /\ "resolved" \notin InProgress
      BY DEF InProgress, Attempting
  <2> QED BY <1>1, <1>3, <2>1, BusyMoves
<1>5. \A w \in Waiters : waiter[w] # "waiting"
    BY DEF WaitersWait
<1>6. TypeOK'
  <2>1. call' \in [Calls -> CallStates] /\ handle' \in [Handles -> HandleStates]
      BY DEF TypeOK, ClientReady, CallStates, HandleStates
  <2>2. greeted' \subseteq Peers \cup Handles
      BY <1>2 DEF TypeOK
  <2> QED BY <1>1, <1>2, <2>1, <2>2 DEF TypeOK, sendVars, outside
<1>7. Attempts'
    BY <1>1, <1>2, <1>3 DEF Attempts, Attempting, Moves, Turns
<1>8. OneAtATime'
  <2>1. call[n] # "tearing down"
      BY DEF Attempting
  <2> QED BY <1>1, <1>3, <1>4, <2>1, TurnsKept
<1>9. PeersFit'
    BY <1>1, <1>2 DEF PeersFit, Away
<1>10. TcpHandles'
    BY <1>1, <1>2, <1>3 DEF TcpHandles, Attempts, Attempting, Moves, Turns, Live, TypeOK
<1>11. OtherHandles' /\ WaitersWait' /\ Greeted'
    BY <1>1, <1>5 DEF OtherHandles, WaitersWait, Greeted, sendVars
<1>12. CancelledIsClosing'
    BY <1>1, <1>2, <1>3 DEF CancelledIsClosing, Attempts, Attempting, Moves, Turns
<1>13. ~ opt.anyTime => /\ n \in Busy /\ Busy' = {} /\ connection = None
                        /\ \A m \in Busy : m = n
    BY <1>1, <1>4 DEF CancelledIsClosing, OneAtATime, ConnectionIsBusys, Attempting
<1>14. ConnectionIsBusys'
    BY <1>1, <1>13 DEF ConnectionIsBusys
<1>15. LiveIsOwned'
    BY <1>1, <1>2, <1>3, <1>13 DEF LiveIsOwned, Live, Turns
<1>16. PeersAreServed'
    BY <1>1 DEF PeersAreServed, PeersFit, Open, Away
<1> QED BY <1>6, <1>7, <1>8, <1>9, <1>10, <1>11, <1>12, <1>14, <1>15, <1>16

LEMMA ClientGreetingSentKeeps ==
    ASSUME Inv, NEW n \in Calls, ClientGreetingSent(n) PROVE Inv'
<1>1. Tcp /\ Client /\ call[n] \in Attempting /\ attempt[n] \in Handles
    BY DEF Inv, Attempts, ClientGreetingSent, Attempting
<1>2. handle' = [handle EXCEPT ![attempt[n]] = "up"]
    BY <1>1 DEF Inv, TypeOK, ClientGreetingSent
<1> QED BY <1>1, <1>2, ReadyKeeps DEF ClientGreetingSent

LEMMA TcpConnectsKeeps == ASSUME Inv, NEW n \in Calls, TcpConnects(n) PROVE Inv'
<1> DEFINE h == attempt[n]
<1> USE Constants, OptionFacts DEF Inv
<1>1. CASE ~ opt.greeting
    BY <1>1, ReadyKeeps DEF TcpConnects, Attempting
<1>2. CASE opt.greeting
  <2>1. /\ UNCHANGED <<opt, aborted, expired, attempt, controller, connection, peerVars, waiter,
                       sendVars, greeted, outside>>
        /\ Tcp /\ Client /\ call[n] = "opening" /\ handle[h] = "opening"
      BY <1>2 DEF TcpConnects, outside, peerVars
  <2>2. h \in Handles
      BY <2>1 DEF Attempts, Attempting
  <2>3. Moves(n, "greeting") /\ Turns(h, "up")
      BY <1>2, <2>2 DEF TcpConnects, Moves, Turns, TypeOK
  <2>4. Busy \subseteq Calls /\ Busy' = Busy
      BY <2>1, <2>3, BusyMoves DEF InProgress
  <2>5. TypeOK'
    <3>1. call' \in [Calls -> CallStates] /\ handle' \in [Handles -> HandleStates]
        BY <1>2 DEF TypeOK, TcpConnects, CallStates, InProgress, HandleStates
    <3> QED BY <2>1, <3>1 DEF TypeOK, sendVars, outside, peerVars
  <2>6. Attempts'
      BY <2>1, <2>2, <2>3 DEF Attempts, Attempting, Moves, Turns
  <2>7. OneAtATime'
      BY <2>1, <2>3, <2>4, TurnsKept
  <2>8. TcpHandles'
      BY <2>1, <2>2, <2>3
      DEF TcpHandles, Attempts, Attempting, Moves, Turns, Live, TypeOK, peerVars
  <2>9. WaitersWait' /\ OtherHandles'
      BY <2>1 DEF WaitersWait, OtherHandles
  <2>10. CancelledIsClosing'
      BY <2>1, <2>2, <2>3 DEF CancelledIsClosing, Attempts, Attempting, Moves, Turns
  <2>11. ConnectionIsBusys'
      BY <2>1, <2>3, <2>4 DEF ConnectionIsBusys, Moves
  <2>12. LiveIsOwned'
      BY <2>1, <2>2, <2>3, <2>4 DEF LiveIsOwned, Attempting, Live, Moves, Turns
  <2>13. PeersFit' /\ Greeted' /\ PeersAreServed'
      BY <2>1, Frames DEF PeersAreServed, PeersFit, Open, Away, peerVars, sendVars
  <2> QED BY <2>5, <2>6, <2>7, <2>8, <2>9, <2>10, <2>11, <2>12, <2>13
<1> QED BY <1>1, <1>2

\* TcpOpenFails and ClientGreetingFails.
LEMMA GivesUpKeeps ==
    ASSUME Inv, NEW n \in Calls, Tcp, call[n] \in Attempting, GiveUp(attempt[n]),
           NEW failure, AfterFailure(n, failure),
           UNCHANGED <<aborted, expired, attempt, controller, connection, ready, peer, waiter,
                       sendVars, greeted, outside>>
    PROVE  Inv'
<1> DEFINE h == attempt[n]
           s == call'[n]
<1> USE Constants, OptionFacts DEF Inv
<1>1. /\ UNCHANGED <<opt, aborted, expired, attempt, controller, connection, ready, peer,
                     waiter, sendVars, greeted, outside>>
      /\ pending' = pending \ {h}
    BY DEF outside, GiveUp
<1>2. h \in Handles /\ h # connection
    BY DEF Attempts, TcpHandles
<1>3. /\ s \in {"rejected", "sleeping"} /\ Moves(n, s)
      /\ Turns(h, IF Server THEN "closed" ELSE "closing")
    BY <1>2 DEF AfterFailure, GiveUp, Moves, Turns, TypeOK
<1>4. /\ Busy \subseteq Calls
      /\ n \in Busy <=> ~ aborted[n]
      /\ Busy' = Busy \/ Busy' = Busy \ {n}
  <2>1. call[n] \in InProgress
      BY DEF InProgress, Attempting
  <2>2. s \in InProgress \/ s \notin InProgress
      OBVIOUS
  <2> QED BY <1>1, <1>3, <2>1, <2>2, BusyMoves
<1>5. TypeOK'
  <2>1. call' \in [Calls -> CallStates] /\ handle' \in [Handles -> HandleStates]
      BY DEF TypeOK, AfterFailure, GiveUp, CallStates, InProgress, HandleStates
  <2> QED BY <1>1, <2>1 DEF TypeOK, sendVars, outside
<1>6. Attempts'
    BY <1>1, <1>2, <1>3 DEF Attempts, Attempting, Moves, Turns
<1>7. OneAtATime'
    BY <1>1, <1>3, <1>4, TurnsKept DEF Attempting
<1>8. PeersFit'
    BY <1>1, <1>2 DEF PeersFit, Away
<1>9. TcpHandles'
    BY <1>1, <1>2, <1>3 DEF TcpHandles, Attempts, Attempting, Moves, Turns, Live, TypeOK
<1>10. OtherHandles' /\ Greeted'
    BY <1>1 DEF OtherHandles, Greeted, sendVars
<1>11. WaitersWait'
    BY <1>1, <1>2, <1>3 DEF WaitersWait, IsConnected, HasRecipients, Open, Turns, TypeOK
<1>12. CancelledIsClosing'
    BY <1>1, <1>2, <1>3 DEF CancelledIsClosing, Attempts, Attempting, Moves, Turns
<1>13. ConnectionIsBusys'
    BY <1>1, <1>3, <1>4 DEF ConnectionIsBusys, Moves, Attempting
<1>14. LiveIsOwned'
    BY <1>1, <1>2, <1>3, <1>4 DEF LiveIsOwned, Attempting, Live, Moves, Turns
<1>15. PeersAreServed'
    BY <1>1, <1>2 DEF PeersAreServed, Open
<1> QED BY <1>5, <1>6, <1>7, <1>8, <1>9, <1>10, <1>11, <1>12, <1>13, <1>14, <1>15

LEMMA TcpProceedsKeeps == ASSUME Inv, NEW n \in Calls, TcpProceeds(n) PROVE Inv'
<1>1. ASSUME TcpResolveFails(n) PROVE Inv'
    BY <1>1, PauseKeeps DEF TcpResolveFails, AfterFailure
<1>2. ASSUME TcpWakes(n) PROVE Inv'
    BY <1>2, PauseKeeps DEF TcpWakes
<1>3. ASSUME TcpOpenFails(n) PROVE Inv'
    BY <1>3, GivesUpKeeps DEF TcpOpenFails, Attempting
<1>4. ASSUME ClientGreetingFails(n) PROVE Inv'
  <2>1. Tcp
      BY <1>4 DEF Inv, Attempts, ClientGreetingFails
  <2> QED BY <1>4, <2>1, GivesUpKeeps DEF ClientGreetingFails, Attempting
<1> QED BY <1>1, <1>2, <1>3, <1>4, TcpOpensKeeps, TcpListensKeeps, TcpConnectsKeeps,
           ClientGreetingSentKeeps DEF TcpProceeds

-----------------------------------------------------------------------------
(* connect(): an attempt of another protocol succeeds or fails             *)

LEMMA UdpBoundKeeps == ASSUME Inv, NEW n \in Calls, UdpBound(n) PROVE Inv'
<1> DEFINE h == attempt[n]
<1> USE Constants, OptionFacts DEF Inv
<1>1. /\ UNCHANGED <<opt, aborted, expired, attempt, controller, pending, peer, waiter,
                     sendVars, greeted, outside>>
      /\ Udp /\ call[n] = "opening" /\ connection' = h
      /\ ready' \subseteq Peers /\ (Client => ready' = ready)
    BY DEF UdpBound, outside, TypeOK
<1>2. h \in Handles
    BY <1>1 DEF Attempts, Attempting
<1>3. Moves(n, "resolved") /\ Turns(h, "up")
    BY <1>2 DEF UdpBound, Moves, Turns, TypeOK
<1>4. call[n] \in InProgress /\ "resolved" \notin InProgress
    BY <1>1 DEF InProgress
<1>5. /\ \A m \in Calls : call'[m] \notin InProgress
      /\ n \in Busy /\ \A m \in Busy : m = n
      /\ Busy' = {}
      /\ \A w \in Waiters : waiter[w] # "waiting"
    BY <1>1, <1>3, <1>4, OnlyCall, BusyIs, BusyMoves DEF Moves
<1>6. TypeOK'
  <2>1. call' \in [Calls -> CallStates] /\ handle' \in [Handles -> HandleStates]
      BY DEF TypeOK, UdpBound, CallStates, HandleStates
  <2>2. pending = {}
      BY <1>1 DEF PeersFit
  <2> QED BY <1>1, <1>2, <2>1, <2>2 DEF TypeOK, sendVars, outside
<1>7. Attempts'
    BY <1>1, <1>2, <1>3 DEF Attempts, Attempting, Moves, Turns
<1>8. OneAtATime'
    BY <1>1, <1>3, <1>5, TurnsKept
<1>9. PeersFit' /\ TcpHandles' /\ WaitersWait' /\ Greeted'
    BY <1>1, <1>5 DEF PeersFit, TcpHandles, WaitersWait, Greeted, Away
<1>10. OtherHandles'
    BY <1>5 DEF OtherHandles, InProgress
<1>11. CancelledIsClosing' /\ ConnectionIsBusys'
    BY <1>1, <1>5 DEF CancelledIsClosing, OneAtATime, ConnectionIsBusys
<1>12. LiveIsOwned'
    BY <1>1, <1>2, <1>3, <1>5 DEF LiveIsOwned, ConnectionIsBusys, Attempting, Live, Turns
<1>13. PeersAreServed'
    BY <1>1 DEF PeersAreServed, PeersFit, Open, Away
<1> QED BY <1>6, <1>7, <1>8, <1>9, <1>10, <1>11, <1>12, <1>13

LEMMA UdpFailsKeeps == ASSUME Inv, NEW n \in Calls, UdpFails(n) PROVE Inv'
<1> DEFINE h == attempt[n]
<1> USE Constants, OptionFacts DEF Inv
<1>1. /\ UNCHANGED <<opt, aborted, expired, attempt, controller, connection, peerVars, waiter,
                     sendVars, greeted, outside>>
      /\ Udp /\ call[n] \in {"resolving", "opening"}
    BY DEF UdpFails, outside
<1>2. Moves(n, "rejected")
    BY DEF UdpFails, Moves, TypeOK
<1>3. \A g \in Handles : \/ handle'[g] = handle[g]
                         \/ g = h /\ handle'[g] = "closed"
    BY DEF UdpFails, TypeOK
<1>4. call[n] \in InProgress /\ "rejected" \notin InProgress
    BY <1>1 DEF InProgress
<1>5. /\ \A m \in Calls : call'[m] \notin InProgress
      /\ n \in Busy /\ \A m \in Busy : m = n
      /\ Busy' = {}
      /\ \A w \in Waiters : waiter[w] # "waiting"
    BY <1>1, <1>2, <1>4, OnlyCall, BusyIs, BusyMoves DEF Moves
<1>6. TypeOK'
  <2>1. call' \in [Calls -> CallStates] /\ handle' \in [Handles -> HandleStates]
      BY DEF TypeOK, UdpFails, CallStates, HandleStates
  <2> QED BY <1>1, <2>1 DEF TypeOK, sendVars, outside, peerVars
<1>7. Attempts'
    BY <1>1, <1>2, <1>3 DEF Attempts, Attempting, Moves
<1>8. OneAtATime'
    BY <1>1, <1>2, <1>5, TurnsKept
<1>9. PeersFit' /\ TcpHandles' /\ WaitersWait' /\ Greeted'
    BY <1>1, <1>5 DEF PeersFit, TcpHandles, WaitersWait, Greeted, Away, peerVars
<1>10. OtherHandles'
    BY <1>5 DEF OtherHandles, InProgress
<1>11. CancelledIsClosing' /\ ConnectionIsBusys'
    BY <1>1, <1>5 DEF CancelledIsClosing, OneAtATime, ConnectionIsBusys
<1>12. LiveIsOwned'
  <2>1. ASSUME NEW g \in Handles, Live(g)', ~ opt.anyTime, g # connection
        PROVE  FALSE
    <3>1. Live(g)
        BY <1>3, <2>1 DEF Live
    <3>2. call[n] = "opening" /\ g = h
        BY <1>1, <1>5, <2>1, <3>1 DEF LiveIsOwned, Attempting
    <3>3. handle'[g] = "closed"
        BY <1>2, <3>2 DEF UdpFails, TypeOK
    <3> QED BY <2>1, <3>3 DEF Live
  <2> QED BY <1>1, <2>1 DEF LiveIsOwned
<1>13. PeersAreServed'
    BY <1>1 DEF PeersAreServed, PeersFit, Open, Away, peerVars
<1> QED BY <1>6, <1>7, <1>8, <1>9, <1>10, <1>11, <1>12, <1>13

LEMMA ObjectConnectsKeeps == ASSUME Inv, NEW n \in Calls, ObjectConnects(n) PROVE Inv'
<1> DEFINE h == attempt[n]
<1> USE Constants, OptionFacts DEF Inv
<1>1. /\ UNCHANGED <<opt, aborted, expired, attempt, controller, peerVars, waiter, sendVars,
                     greeted, outside>>
      /\ ObjectTransport /\ call[n] = "opening" /\ handle[h] = "opening"
      /\ connection' = IF Grpc THEN h ELSE connection
    BY DEF ObjectConnects, outside
<1>2. h \in Handles
    BY <1>1 DEF Attempts, Attempting
<1>3. Moves(n, "resolved") /\ Turns(h, "up")
    BY <1>2 DEF ObjectConnects, Moves, Turns, TypeOK
<1>4. call[n] \in InProgress /\ "resolved" \notin InProgress
    BY <1>1 DEF InProgress
<1>5. /\ \A m \in Calls : call'[m] \notin InProgress
      /\ n \in Busy /\ \A m \in Busy : m = n
      /\ Busy' = {}
      /\ \A w \in Waiters : waiter[w] # "waiting"
    BY <1>1, <1>3, <1>4, OnlyCall, BusyIs, BusyMoves DEF Moves
<1>6. TypeOK'
  <2>1. call' \in [Calls -> CallStates] /\ handle' \in [Handles -> HandleStates]
      BY DEF TypeOK, ObjectConnects, CallStates, HandleStates
  <2>2. pending = {}
      BY <1>1 DEF PeersFit
  <2> QED BY <1>1, <1>2, <2>1, <2>2 DEF TypeOK, sendVars, outside, peerVars
<1>7. Attempts'
    BY <1>1, <1>2, <1>3 DEF Attempts, Attempting, Moves, Turns
<1>8. OneAtATime'
    BY <1>1, <1>3, <1>5, TurnsKept
<1>9. PeersFit' /\ TcpHandles' /\ WaitersWait' /\ Greeted'
    BY <1>1, <1>5, Frames DEF TcpHandles, WaitersWait, Greeted, peerVars
<1>10. OtherHandles'
    BY <1>5 DEF OtherHandles, InProgress
<1>11. CancelledIsClosing' /\ ConnectionIsBusys'
    BY <1>1, <1>5 DEF CancelledIsClosing, OneAtATime, ConnectionIsBusys
<1>12. ~ opt.anyTime /\ ~ Grpc => connection = h
    BY <1>1, <1>5 DEF ConnectionIsBusys
<1>13. LiveIsOwned'
    BY <1>1, <1>2, <1>3, <1>5, <1>12 DEF LiveIsOwned, Live, Turns
<1>14. PeersAreServed'
    BY <1>1, <1>2, <1>3, <1>12 DEF PeersAreServed, PeersFit, Open, Turns, peerVars, TypeOK
<1> QED BY <1>6, <1>7, <1>8, <1>9, <1>10, <1>11, <1>13, <1>14

LEMMA ObjectFailsKeeps == ASSUME Inv, NEW n \in Calls, ObjectFails(n) PROVE Inv'
<1> DEFINE h == attempt[n]
           s == IF Grpc THEN "rejected" ELSE "cleaning"
<1> USE Constants, OptionFacts DEF Inv
<1>1. /\ UNCHANGED <<opt, aborted, expired, attempt, controller, connection, peerVars, waiter,
                     sendVars, greeted, outside>>
      /\ ObjectTransport /\ call[n] = "opening"
    BY DEF ObjectFails, outside
<1>2. h \in Handles /\ handle[h] \in {"opening", "closing", "closed"}
    BY <1>1 DEF Attempts, Attempting, OtherHandles
<1>3. Moves(n, s)
    BY DEF ObjectFails, Moves, TypeOK
<1>4. IF Grpc THEN handle' = handle
      ELSE Turns(h, IF handle[h] = "opening" THEN "closing" ELSE handle[h])
    BY <1>2 DEF ObjectFails, Turns, Live, TypeOK
<1>5. /\ n \in Busy /\ \A m \in Busy : m = n
      /\ \A m \in Calls : call[m] \in InProgress => m = n
      /\ Busy \subseteq Calls /\ Busy' = IF Grpc THEN {} ELSE Busy
      /\ \A w \in Waiters : waiter[w] # "waiting"
  <2>1. call[n] \in InProgress /\ "rejected" \notin InProgress /\ "cleaning" \in InProgress
      BY <1>1 DEF InProgress
  <2> QED BY <1>1, <1>3, <2>1, OnlyCall, BusyIs, BusyMoves
<1>6. TypeOK'
  <2>1. call' \in [Calls -> CallStates]
    <3>1. call' \in {[call EXCEPT ![n] = "rejected"], [call EXCEPT ![n] = "cleaning"]}
        BY DEF ObjectFails
    <3> QED BY <3>1 DEF TypeOK, CallStates, InProgress
  <2>2. handle' \in [Handles -> HandleStates]
      BY <1>2 DEF TypeOK, ObjectFails, HandleStates
  <2> QED BY <1>1, <2>1, <2>2 DEF TypeOK, sendVars, outside, peerVars
<1>7. Attempts'
    BY <1>1, <1>2, <1>3, <1>4 DEF Attempts, Attempting, Moves, Turns
<1>8. OneAtATime'
    BY <1>1, <1>3, <1>5, TurnsKept
<1>9. PeersFit' /\ TcpHandles' /\ WaitersWait' /\ Greeted'
    BY <1>1, <1>5, Frames DEF TcpHandles, WaitersWait, Greeted, peerVars, sendVars
<1>10. OtherHandles'
    BY <1>1, <1>2, <1>3, <1>4, <1>5 DEF OtherHandles, InProgress, Moves, Turns
<1>11. CancelledIsClosing' /\ ConnectionIsBusys'
    BY <1>1, <1>3, <1>5 DEF CancelledIsClosing, OneAtATime, ConnectionIsBusys, Moves
<1>12. ~ opt.anyTime /\ ~ Grpc => connection = h
    BY <1>1, <1>5 DEF ConnectionIsBusys
<1>13. LiveIsOwned'
    BY <1>1, <1>2, <1>4, <1>5, <1>12 DEF LiveIsOwned, Live, Turns
<1>14. PeersAreServed'
    BY <1>1, <1>2, <1>4, <1>12 DEF PeersAreServed, PeersFit, Open, Turns, peerVars, TypeOK
<1> QED BY <1>6, <1>7, <1>8, <1>9, <1>10, <1>11, <1>13, <1>14

LEMMA CleanedKeeps == ASSUME Inv, NEW n \in Calls, Cleaned(n) PROVE Inv'
<1> DEFINE h == attempt[n]
           s == call'[n]
<1> USE Constants, OptionFacts DEF Inv
<1>1. /\ UNCHANGED <<opt, aborted, expired, attempt, controller, handle, peerVars, waiter,
                     sendVars, greeted, outside>>
      /\ ObjectTransport /\ ~ Grpc /\ call[n] = "cleaning" /\ handle[h] = "closed"
    BY DEF Cleaned, outside, Attempts
<1>2. h \in Handles
    BY <1>1 DEF Attempts
<1>3. connection' = None /\ connection \in {None, h}
    BY <1>1 DEF Cleaned, OtherHandles
<1>4. Moves(n, s) /\ s \in {"rejected", "sleeping"}
    BY DEF Cleaned, Moves, TypeOK
<1>5. /\ n \in Busy /\ \A m \in Busy : m = n
      /\ \A m \in Calls : call[m] \in InProgress => m = n
      /\ Busy \subseteq Calls /\ Busy' \subseteq Busy
      /\ \A w \in Waiters : waiter[w] # "waiting"
  <2>1. call[n] \in InProgress
      BY <1>1 DEF InProgress
  <2>2. s \in InProgress \/ s \notin InProgress
      OBVIOUS
  <2> QED BY <1>1, <1>4, <2>1, <2>2, OnlyCall, BusyIs, BusyMoves
<1>6. TypeOK'
  <2>1. call' \in [Calls -> CallStates]
      BY DEF TypeOK, Cleaned, CallStates, InProgress
  <2>2. pending = {}
      BY <1>1 DEF PeersFit
  <2> QED BY <1>1, <1>3, <2>1, <2>2 DEF TypeOK, sendVars, outside, peerVars
<1>7. Attempts'
    BY <1>1, <1>2, <1>3, <1>4 DEF Attempts, Attempting, Moves
<1>8. OneAtATime'
    BY <1>1, <1>4, <1>5, TurnsKept
<1>9. PeersFit' /\ TcpHandles' /\ WaitersWait' /\ Greeted'
    BY <1>1, <1>5, Frames DEF TcpHandles, WaitersWait, Greeted, peerVars
<1>10. OtherHandles'
    BY <1>1, <1>3, <1>4, <1>5 DEF OtherHandles, InProgress, Moves
<1>11. CancelledIsClosing' /\ ConnectionIsBusys'
    BY <1>1, <1>3, <1>4, <1>5 DEF CancelledIsClosing, OneAtATime, ConnectionIsBusys, Moves
<1>12. LiveIsOwned'
    BY <1>1, <1>2, <1>3, <1>5 DEF LiveIsOwned, Live, Attempting
<1>13. PeersAreServed'
    BY <1>1, <1>2, <1>3 DEF PeersAreServed, Open, peerVars
<1> QED BY <1>6, <1>7, <1>8, <1>9, <1>10, <1>11, <1>12, <1>13

LEMMA OtherProceedsKeeps ==
    ASSUME Inv, NEW n \in Calls, UdpProceeds(n) \/ ObjectProceeds(n) PROVE Inv'
<1>1. ASSUME ObjectWakes(n) PROVE Inv'
    BY <1>1, PauseKeeps DEF ObjectWakes
<1> QED BY <1>1, UdpOpensKeeps, UdpBoundKeeps, UdpFailsKeeps, ObjectOpensKeeps,
           ObjectConnectsKeeps, ObjectFailsKeeps, CleanedKeeps DEF UdpProceeds, ObjectProceeds

-----------------------------------------------------------------------------
(* Peers and waiters                                                       *)

\* What peers, waiters and writes do leaves the calls and the handles alone.
LEMMA CallsAndHandlesStay ==
    ASSUME Inv, UNCHANGED <<opt, callVars, handleVars>>, Client => pending' = pending
    PROVE  /\ Attempts' /\ OneAtATime' /\ TcpHandles' /\ OtherHandles'
           /\ CancelledIsClosing' /\ ConnectionIsBusys' /\ LiveIsOwned'
<1>1. opt' = opt /\ UNCHANGED <<call, aborted, expired, attempt, controller, handle, connection>>
    BY DEF callVars, handleVars
<1>2. TcpHandles'
    BY <1>1, OptionFacts DEF Inv, TcpHandles, Live
<1> QED BY <1>1, <1>2, Frames DEF Inv

\* Who becomes ready wakes whoever waits, as long as the server is there.
LEMMA PeerReadyWakes ==
    ASSUME Inv, NEW c \in Peers, PeerReady(c), UNCHANGED <<opt, handleVars>>
    PROVE  WaitersWait'
<1>1. \A w \in Waiters : waiter'[w] # "waiting"
    BY DEF Inv, WaitersWait, IsConnected, PeerReady, Answered
<1> QED BY <1>1 DEF WaitersWait

LEMMA AcceptKeeps ==
    ASSUME Inv, NEW c \in Peers, NEW h \in Handles, Accept(c, h) PROVE Inv'
<1> DEFINE at == IF opt.greeting /\ CancelledCall(h) THEN "destroyed" ELSE "open"
<1> USE Constants, OptionFacts DEF Inv
<1>1. /\ UNCHANGED <<opt, callVars, handleVars, sendVars, greeted, outside>>
      /\ Tcp /\ Server /\ handle[h] = "up" /\ peer[c].at = "away"
    BY DEF Accept, outside
<1>2. /\ c \notin ready \cup pending
      /\ peer'[c] = [at |-> at, of |-> h]
      /\ \A d \in Peers \ {c} : peer'[d] = peer[d]
    BY <1>1 DEF Accept, PeersFit, TypeOK
<1>3. \/ pending' = pending \cup {c} /\ UNCHANGED <<ready, waiter>>
      \/ ~ opt.greeting /\ PeerReady(c)
    BY DEF Accept
<1>4. TypeOK'
  <2>1. peer' \in [Peers -> [at : {"away", "open", "destroyed"}, of : Handles \cup {None}]]
      BY DEF TypeOK, Accept
  <2>2. waiter' \in [Waiters -> {"none", "waiting", "resolved", "rejected"}]
      BY <1>3 DEF TypeOK, PeerReady, Answered
  <2>3. /\ connection \notin pending' /\ pending' \subseteq Peers
        /\ ready' \subseteq Peers \ pending'
      BY <1>1, <1>2, <1>3 DEF TypeOK, PeerReady
  <2> QED BY <1>1, <2>1, <2>2, <2>3 DEF TypeOK, sendVars, outside, callVars, handleVars
<1>5. PeersFit'
  <2>1. \A d \in Peers : peer'[d].at = "away" => d # c /\ peer[d].at = "away"
      BY <1>2
  <2>2. \A d \in Peers : peer'[d].at # "away" => peer'[d].of \in Handles
      BY <1>2 DEF PeersFit
  <2> QED BY <1>1, <1>2, <1>3, <2>1, <2>2 DEF PeersFit, PeerReady
<1>6. WaitersWait'
  <2>1. CASE ~ opt.greeting /\ PeerReady(c)
      BY <1>1, <2>1, PeerReadyWakes
  <2>2. CASE UNCHANGED <<ready, waiter>>
      BY <1>1, <1>2, <2>2 DEF WaitersWait, IsConnected, HasRecipients, Open, handleVars, TypeOK
  <2> QED BY <1>3, <2>1, <2>2
<1>7. Greeted'
    BY <1>1, <1>3 DEF Greeted, sendVars
<1>8. PeersAreServed'
  <2>1. ~ opt.anyTime => connection # None
      BY <1>1, BusyIs DEF LiveIsOwned, Live, TcpHandles
  <2>2. \A d \in Peers : Open(d)' => d = c \/ Open(d)
      BY <1>2 DEF Open
  <2> QED BY <1>1, <1>3, <2>1, <2>2 DEF PeersAreServed, PeerReady, handleVars
<1> QED BY <1>1, <1>4, <1>5, <1>6, <1>7, <1>8, CallsAndHandlesStay

LEMMA PeerGreetingSentKeeps == ASSUME Inv, NEW c \in Peers, PeerGreetingSent(c) PROVE Inv'
<1> USE Constants, OptionFacts DEF Inv
<1>1. /\ UNCHANGED <<opt, callVars, handleVars, peer, sendVars, outside>>
      /\ Tcp /\ Server /\ c \in pending /\ Open(c) /\ PeerReady(c)
      /\ greeted' = greeted \cup {c}
    BY DEF PeerGreetingSent, outside, TypeOK
<1>2. TypeOK'
  <2>1. waiter' \in [Waiters -> {"none", "waiting", "resolved", "rejected"}]
      BY <1>1 DEF TypeOK, PeerReady, Answered
  <2> QED BY <1>1, <2>1 DEF TypeOK, PeerReady, sendVars, outside, callVars, handleVars
<1>3. PeersFit'
    BY <1>1 DEF PeersFit, PeerReady, Away, Open
<1>4. WaitersWait'
    BY <1>1, PeerReadyWakes
<1>5. Greeted'
    BY <1>1 DEF Greeted, sendVars, PeerReady
<1>6. PeersAreServed'
    BY <1>1 DEF PeersAreServed, PeerReady, Open, handleVars
<1> QED BY <1>1, <1>2, <1>3, <1>4, <1>5, <1>6, CallsAndHandlesStay

LEMMA PeerEndsKeeps == ASSUME Inv, NEW c \in Peers, PeerEnds(c) PROVE Inv'
<1> USE Constants, OptionFacts DEF Inv
<1>1. /\ UNCHANGED <<opt, callVars, handleVars, pending, ready, waiter, sendVars, greeted,
                     outside>>
      /\ Tcp /\ Open(c)
    BY DEF PeerEnds, outside
<1>2. \A d \in Peers : IF d = c THEN /\ peer'[d].at = "destroyed" /\ peer'[d].of = peer[d].of
                                     /\ peer[d].at # "away" /\ peer[d] # Away
                       ELSE peer'[d] = peer[d]
    BY DEF PeerEnds, Destroyed, TypeOK, Open, Away
<1>3. TypeOK'
  <2>1. peer' \in [Peers -> [at : {"away", "open", "destroyed"}, of : Handles \cup {None}]]
      BY DEF TypeOK, PeerEnds, Destroyed
  <2> QED BY <1>1, <2>1 DEF TypeOK, sendVars, outside, callVars, handleVars
<1>4. PeersFit'
    BY <1>1, <1>2 DEF PeersFit, Away
<1>5. WaitersWait'
    BY <1>1, <1>2 DEF WaitersWait, IsConnected, HasRecipients, Open, handleVars, TypeOK
<1>6. Greeted'
    BY <1>1 DEF Greeted, sendVars, handleVars
<1>7. PeersAreServed'
    BY <1>1, <1>2 DEF PeersAreServed, Open, handleVars
<1> QED BY <1>1, <1>3, <1>4, <1>5, <1>6, <1>7, CallsAndHandlesStay

\* PeerClosed and ObjectPeerLeaves: a socket is gone for good.
LEMMA PeerGoneKeeps ==
    ASSUME Inv, NEW c \in Peers, peer' = [peer EXCEPT ![c] = Away],
           ready' = ready \ {c}, pending' \in {pending, pending \ {c}}, Tcp => c \notin pending',
           \/ UNCHANGED <<greeted, published>>
           \/ greeted' = greeted \ {c} /\ published' = published \ {c},
           UNCHANGED <<callVars, handleVars, waiter, unsent, outside>>
    PROVE  Inv'
<1> USE Constants, OptionFacts DEF Inv
<1>1. UNCHANGED <<opt, call, aborted, expired, attempt, controller, handle, connection, waiter,
                  unsent, remoteUp, faults>>
    BY DEF outside, callVars, handleVars
<1>2. \A d \in Peers : peer'[d] = IF d = c THEN Away ELSE peer[d]
    BY DEF TypeOK
<1>3. TypeOK'
  <2>1. peer' \in [Peers -> [at : {"away", "open", "destroyed"}, of : Handles \cup {None}]]
      BY DEF TypeOK, Away
  <2>2. /\ connection \notin pending' /\ pending' \subseteq (IF Client THEN Handles ELSE Peers)
        /\ ready' \subseteq Peers \ pending'
      BY DEF TypeOK
  <2>3. greeted' \subseteq Peers \cup Handles /\ published' \subseteq Peers \cup Handles
      BY DEF TypeOK
  <2> QED BY <1>1, <2>1, <2>2, <2>3 DEF TypeOK
<1>4. PeersFit'
    BY <1>1, <1>2 DEF PeersFit, Away
<1>5. WaitersWait'
    BY <1>1, <1>2 DEF WaitersWait, IsConnected, HasRecipients, Open, Away
<1>6. Greeted'
    BY <1>1 DEF Greeted, TypeOK
<1>7. PeersAreServed'
    BY <1>1, <1>2 DEF PeersAreServed, Open, Away
<1>8. Client => pending' = pending
  <2>1. Client => c \notin pending
      BY DEF TypeOK
  <2> QED BY <2>1
<1> QED BY <1>1, <1>3, <1>4, <1>5, <1>6, <1>7, <1>8, CallsAndHandlesStay

LEMMA RegistersKeeps == ASSUME Inv, NEW c \in Peers, Registers(c) PROVE Inv'
<1> USE Constants, OptionFacts DEF Inv
<1>1. /\ UNCHANGED <<opt, callVars, handleVars, pending, peer, sendVars, greeted, outside>>
      /\ Udp /\ Server /\ ready' = ready \cup {c}
    BY DEF Registers, outside
<1>2. \A w \in Waiters : waiter'[w] # "waiting"
    BY DEF Registers, Answered, WaitersWait, IsConnected
<1>3. TypeOK'
  <2>1. waiter' \in [Waiters -> {"none", "waiting", "resolved", "rejected"}]
      BY DEF TypeOK, Registers, Answered
  <2>2. pending = {}
      BY <1>1 DEF PeersFit
  <2> QED BY <1>1, <2>1, <2>2 DEF TypeOK, sendVars, outside, callVars, handleVars
<1>4. PeersFit' /\ WaitersWait' /\ Greeted' /\ PeersAreServed'
    BY <1>1, <1>2 DEF PeersFit, WaitersWait, Greeted, PeersAreServed, Open, Away, TypeOK
<1> QED BY <1>1, <1>3, <1>4, CallsAndHandlesStay

LEMMA ObjectPeerJoinsKeeps == ASSUME Inv, NEW c \in Peers, ObjectPeerJoins(c) PROVE Inv'
<1> USE Constants, OptionFacts DEF Inv
<1>1. /\ UNCHANGED <<opt, callVars, handleVars, pending, sendVars, greeted, outside>>
      /\ ObjectTransport /\ Server /\ ready' = ready \cup {c}
      /\ connection # None /\ handle[connection] = "up"
    BY DEF ObjectPeerJoins, outside, IsConnected
<1>2. \A d \in Peers : peer'[d] = IF d = c THEN [at |-> "open", of |-> connection] ELSE peer[d]
    BY DEF ObjectPeerJoins, TypeOK
<1>3. \A w \in Waiters : waiter'[w] # "waiting"
    BY DEF ObjectPeerJoins, Answered
<1>4. connection \in Handles
    BY <1>1 DEF TypeOK
<1>5. TypeOK'
  <2>1. waiter' \in [Waiters -> {"none", "waiting", "resolved", "rejected"}]
      BY DEF TypeOK, ObjectPeerJoins, Answered
  <2>2. peer' \in [Peers -> [at : {"away", "open", "destroyed"}, of : Handles \cup {None}]]
      BY <1>4 DEF TypeOK, ObjectPeerJoins
  <2>3. pending = {}
      BY <1>1 DEF PeersFit
  <2> QED BY <1>1, <2>1, <2>2, <2>3 DEF TypeOK, sendVars, outside, callVars, handleVars
<1>6. PeersFit'
    BY <1>1, <1>2, <1>4 DEF PeersFit
<1>7. WaitersWait' /\ Greeted'
    BY <1>1, <1>3 DEF WaitersWait, Greeted
<1>8. PeersAreServed'
    BY <1>1, <1>2 DEF PeersAreServed, Open, handleVars
<1> QED BY <1>1, <1>5, <1>6, <1>7, <1>8, CallsAndHandlesStay

LEMMA PeerStepKeeps == ASSUME Inv, NEW c \in Peers, PeerStep(c) PROVE Inv'
<1>1. ASSUME PeerClosed(c) PROVE Inv'
    BY <1>1, PeerGoneKeeps DEF PeerClosed
<1>2. ASSUME ObjectPeerLeaves(c) PROVE Inv'
    BY <1>2, PeerGoneKeeps DEF ObjectPeerLeaves, sendVars
<1> QED BY <1>1, <1>2, AcceptKeeps, PeerGreetingSentKeeps, PeerEndsKeeps, RegistersKeeps,
           ObjectPeerJoinsKeeps DEF PeerStep, TcpPeerStep

LEMMA WaiterStepKeeps ==
    ASSUME Inv, NEW w \in Waiters, WaitForRecipients(w) \/ WaitTimesOut(w) PROVE Inv'
<1> USE OptionFacts DEF Inv
<1>1. UNCHANGED <<opt, callVars, handleVars, peerVars, sendVars, greeted, outside>>
    BY DEF WaitForRecipients, WaitTimesOut, outside
<1>2. \A v \in Waiters : waiter'[v] = "waiting" =>
          waiter[v] = "waiting" \/ (IsConnected /\ ~ HasRecipients)
  <2> SUFFICES ASSUME NEW v \in Waiters, waiter'[v] = "waiting", waiter[v] # "waiting"
               PROVE  IsConnected /\ ~ HasRecipients
      OBVIOUS
  <2>1. v = w /\ WaitForRecipients(w)
      BY DEF WaitForRecipients, WaitTimesOut, TypeOK
  <2> QED BY <2>1 DEF WaitForRecipients, TypeOK
<1>3. TypeOK'
  <2>1. waiter' \in [Waiters -> {"none", "waiting", "resolved", "rejected"}]
      BY DEF TypeOK, WaitForRecipients, WaitTimesOut
  <2> QED BY <1>1, <2>1 DEF TypeOK, sendVars, outside, callVars, handleVars, peerVars
<1>4. WaitersWait'
  <2>1. IsConnected' = IsConnected /\ HasRecipients' = HasRecipients
      BY <1>1 DEF IsConnected, HasRecipients, Open, handleVars, peerVars
  <2>2. IsConnected /\ ~ HasRecipients => Server
      BY DEF HasRecipients
  <2> QED BY <1>1, <1>2, <2>1, <2>2 DEF WaitersWait
<1>5. PeersFit' /\ Greeted' /\ PeersAreServed'
    BY <1>1, Frames DEF handleVars, peerVars, sendVars
<1> QED BY <1>1, <1>3, <1>4, <1>5, CallsAndHandlesStay DEF peerVars

-----------------------------------------------------------------------------
(* send(), and what remote servers do                                      *)

LEMMA SendStepKeeps ==
    ASSUME Inv, \/ Send
                \/ \E x \in Peers \cup Handles : Written(x) \/ WriteFails(x)
                \/ RemoteGoesDown \/ RemoteComesUp
    PROVE  Inv'
<1> USE Constants, OptionFacts DEF Inv
<1>1. UNCHANGED <<opt, callVars, handleVars, peerVars, waiter, greeted>>
    BY DEF Send, Written, WriteFails, RemoteGoesDown, RemoteComesUp, outside
<1>2. TypeOK' /\ Greeted'
  <2>1. CASE Send
    <3>1. Recipients \subseteq Peers \cup Handles /\ (opt.greeting => Recipients \subseteq greeted)
        BY <2>1 DEF Send, Recipients, TypeOK, Greeted
    <3>2. unsent' = Recipients /\ published' = published \cup Recipients /\ UNCHANGED outside
        BY <2>1 DEF Send
    <3> QED BY <1>1, <3>1, <3>2
            DEF TypeOK, Greeted, callVars, handleVars, peerVars, outside
  <2>2. CASE \E x \in Peers \cup Handles : Written(x) \/ WriteFails(x)
    <3>1. unsent' \subseteq unsent /\ published' = published /\ UNCHANGED outside
        BY <2>2 DEF Written, WriteFails
    <3> QED BY <1>1, <3>1 DEF TypeOK, Greeted, callVars, handleVars, peerVars, outside
  <2>3. CASE RemoteGoesDown \/ RemoteComesUp
    <3>1. /\ UNCHANGED sendVars /\ remoteUp' \in BOOLEAN
          /\ faults' = faults \/ (faults < MaxFaults /\ faults' = faults + 1)
        BY <2>3 DEF RemoteGoesDown, RemoteComesUp
    <3>2. faults' \in 0 .. MaxFaults
        BY <3>1, TransportAssumption DEF TypeOK
    <3> QED BY <1>1, <3>1, <3>2 DEF TypeOK, Greeted, callVars, handleVars, peerVars, sendVars
  <2> QED BY <2>1, <2>2, <2>3
<1>3. PeersFit' /\ WaitersWait' /\ PeersAreServed'
    BY <1>1, Frames DEF handleVars, peerVars
<1> QED BY <1>1, <1>2, <1>3, CallsAndHandlesStay DEF peerVars

-----------------------------------------------------------------------------
(* What is lost, and what closes                                           *)

LEMMA HandleClosesKeeps == ASSUME Inv, NEW h \in Handles, HandleCloses(h) PROVE Inv'
<1> USE Constants, OptionFacts DEF Inv
<1>1. /\ UNCHANGED <<opt, callVars, pending, sendVars, greeted, outside>>
      /\ handle[h] = "closing"
      /\ Tcp => \A n \in Calls : attempt[n] = h => call[n] \notin Attempting
      /\ connection' = IF connection = h /\ ~ ObjectTransport THEN None ELSE connection
      /\ IF Tcp THEN UNCHANGED <<ready, peer>>
         ELSE ready' = {} /\ peer' = [c \in Peers |-> Away]
    BY DEF HandleCloses, outside, Attempting
<1>2. UNCHANGED <<call, aborted, expired, attempt, controller>> /\ Busy' = Busy
    BY <1>1 DEF callVars, Busy
<1>3. Turns(h, "closed")
    BY DEF HandleCloses, Turns, TypeOK
<1>4. TypeOK'
  <2>1. handle' \in [Handles -> HandleStates]
      BY DEF TypeOK, HandleCloses, HandleStates
  <2>2. waiter' \in [Waiters -> {"none", "waiting", "resolved", "rejected"}]
      BY DEF TypeOK, HandleCloses, Answered
  <2>3. peer' \in [Peers -> [at : {"away", "open", "destroyed"}, of : Handles \cup {None}]]
      BY <1>1 DEF TypeOK, Away
  <2>4. connection' \in (Handles \cup {None}) \ pending
      BY <1>1 DEF TypeOK
  <2>5. ready' \subseteq Peers \ pending
      BY <1>1 DEF TypeOK
  <2> QED BY <1>1, <1>2, <2>1, <2>2, <2>3, <2>4, <2>5 DEF TypeOK, sendVars, outside
<1>5. Attempts'
    BY <1>1, <1>2, <1>3 DEF Attempts, Turns, TypeOK
<1>6. OneAtATime'
    BY <1>1, <1>2, Frames
<1>7. PeersFit'
    BY <1>1 DEF PeersFit, Away
<1>8. TcpHandles'
    BY <1>1, <1>2, <1>3 DEF TcpHandles, Attempts, Attempting, Turns, Live, TypeOK
<1>9. OtherHandles'
    BY <1>1, <1>2, <1>3 DEF OtherHandles, Attempts, Attempting, Turns, TypeOK
<1>10. WaitersWait'
  <2>1. ASSUME NEW w \in Waiters, waiter'[w] = "waiting"
        PROVE  ~ Tcp /\ waiter[w] = "waiting"
      BY <2>1 DEF HandleCloses, Answered, WaitersWait
  <2>2. ASSUME NEW w \in Waiters, waiter'[w] = "waiting"
        PROVE  (Server /\ IsConnected /\ ~ HasRecipients)'
    <3>1. Server /\ IsConnected /\ ~ Tcp
        BY <2>1, <2>2 DEF WaitersWait
    <3>2. IsConnected'
        BY <1>1, <1>3, <3>1 DEF IsConnected, Turns, TypeOK
    <3> QED BY <1>1, <3>1, <3>2 DEF HasRecipients
  <2> QED BY <2>2 DEF WaitersWait
<1>11. Greeted'
    BY <1>1 DEF Greeted, sendVars
<1>12. CancelledIsClosing'
    BY <1>1, <1>2, <1>3 DEF CancelledIsClosing, Attempts, Attempting, Turns
<1>13. ConnectionIsBusys'
    BY <1>1, <1>2 DEF ConnectionIsBusys
<1>14. LiveIsOwned'
    BY <1>1, <1>2, <1>3 DEF LiveIsOwned, Live, Turns
<1>15. PeersAreServed'
    BY <1>1, <1>3 DEF PeersAreServed, TcpHandles, PeersFit, Open, Away, Turns
<1> QED BY <1>4, <1>5, <1>6, <1>7, <1>8, <1>9, <1>10, <1>11, <1>12, <1>13, <1>14, <1>15

LEMMA ServerHangsUpKeeps == ASSUME Inv, ServerHangsUp PROVE Inv'
<1> USE Constants, OptionFacts DEF Inv
<1>1. PICK h \in Handles : handle[h] = "up" /\ handle' = [handle EXCEPT ![h] = "closing"]
    BY DEF ServerHangsUp
<1>2. /\ UNCHANGED <<opt, callVars, connection, peerVars, waiter, sendVars, greeted, outside>>
      /\ Tcp /\ Client
    BY DEF ServerHangsUp, outside
<1>3. UNCHANGED <<call, aborted, expired, attempt, controller>> /\ Busy' = Busy
    BY <1>2 DEF callVars, Busy
<1>4. Turns(h, "closing")
    BY <1>1 DEF Turns, TypeOK
<1>5. TypeOK'
  <2>1. handle' \in [Handles -> HandleStates]
      BY <1>1 DEF TypeOK, HandleStates
  <2> QED BY <1>2, <1>3, <2>1 DEF TypeOK, peerVars, sendVars, outside
<1>6. Attempts' /\ CancelledIsClosing'
    BY <1>2, <1>3, <1>4 DEF Attempts, CancelledIsClosing, Attempting, Turns
<1>7. TcpHandles'
    BY <1>1, <1>2, <1>3, <1>4 DEF TcpHandles, Attempts, Attempting, Turns, Live, TypeOK, peerVars
<1>8. WaitersWait' /\ OtherHandles'
    BY <1>2 DEF WaitersWait, OtherHandles
<1>9. LiveIsOwned'
    BY <1>2, <1>3, <1>4 DEF LiveIsOwned, Live, Turns
<1>10. PeersAreServed'
    BY <1>2 DEF PeersAreServed, PeersFit, Open, Away, peerVars
<1>11. OneAtATime' /\ PeersFit' /\ Greeted' /\ ConnectionIsBusys'
    BY <1>2, <1>3, Frames DEF sendVars, peerVars
<1> QED BY <1>5, <1>6, <1>7, <1>8, <1>9, <1>10, <1>11

LEMMA ListenerErrorKeeps == ASSUME Inv, ListenerError PROVE Inv'
<1> USE Constants, OptionFacts DEF Inv
<1>1. /\ UNCHANGED <<opt, callVars, handle, peerVars, sendVars, greeted, remoteUp>>
      /\ opt.anyTime /\ connection' = None
      /\ faults < MaxFaults /\ faults' = faults + 1
    BY DEF ListenerError
<1>2. UNCHANGED <<call, aborted, expired, attempt, controller>>
    BY <1>1 DEF callVars
<1>3. \A w \in Waiters : waiter'[w] # "waiting"
    BY DEF ListenerError, Answered
<1>4. TypeOK'
  <2>1. waiter' \in [Waiters -> {"none", "waiting", "resolved", "rejected"}]
      BY DEF TypeOK, ListenerError, Answered
  <2>2. faults' \in 0 .. MaxFaults
      BY <1>1, TransportAssumption DEF TypeOK
  <2>3. None \notin pending
      BY DEF TypeOK
  <2> QED BY <1>1, <1>2, <2>1, <2>2, <2>3 DEF TypeOK, sendVars, peerVars
<1>5. Attempts' /\ TcpHandles' /\ OtherHandles'
    BY <1>1, <1>2 DEF Attempts, TcpHandles, OtherHandles, Attempting, Live, peerVars
<1>6. WaitersWait' /\ Greeted'
    BY <1>1, <1>3 DEF WaitersWait, Greeted, sendVars, peerVars
<1>7. CancelledIsClosing' /\ ConnectionIsBusys' /\ LiveIsOwned' /\ PeersAreServed'
    BY <1>1 DEF CancelledIsClosing, ConnectionIsBusys, LiveIsOwned, PeersAreServed
<1>8. OneAtATime' /\ PeersFit'
    BY <1>1, <1>2, Frames
<1> QED BY <1>4, <1>5, <1>6, <1>7, <1>8

\* ObjectLost and XmppReconnects: the object that is the connection loses it, or has it
\* again.
LEMMA ObjectTurnsKeeps ==
    ASSUME Inv, ObjectTransport, connection # None,
           NEW s, \/ s = "lost" /\ Client /\ handle[connection] = "up"
                  \/ s = "up" /\ handle[connection] = "lost",
           handle' = [handle EXCEPT ![connection] = s],
           UNCHANGED <<callVars, connection, peerVars, waiter, sendVars, greeted, outside>>
    PROVE  Inv'
<1> USE Constants, OptionFacts DEF Inv
<1>1. UNCHANGED <<opt, call, aborted, expired, attempt, controller, connection, peerVars, waiter,
                  sendVars, greeted, outside>>
      /\ Busy' = Busy
    BY DEF callVars, outside, Busy
<1>2. Turns(connection, s) /\ connection \in Handles
    BY DEF Turns, TypeOK
<1>3. \A w \in Waiters : waiter[w] # "waiting"
    BY DEF WaitersWait, IsConnected
<1>4. TypeOK'
  <2>1. handle' \in [Handles -> HandleStates]
      BY DEF TypeOK, HandleStates
  <2> QED BY <1>1, <2>1 DEF TypeOK, peerVars, sendVars, outside
<1>5. Attempts'
    BY <1>1, <1>2 DEF Attempts, Turns
<1>6. TcpHandles' /\ CancelledIsClosing' /\ WaitersWait'
    BY <1>1, <1>3 DEF TcpHandles, CancelledIsClosing, OneAtATime, WaitersWait
<1>7. OtherHandles'
    BY <1>1, <1>2 DEF OtherHandles, Attempts, Attempting, Turns
<1>8. LiveIsOwned'
    BY <1>1, <1>2 DEF LiveIsOwned, Live, Turns
<1>9. PeersAreServed'
    BY <1>1, <1>2 DEF PeersAreServed, PeersFit, Open, Away, Turns, peerVars, TypeOK
<1>10. OneAtATime' /\ PeersFit' /\ Greeted' /\ ConnectionIsBusys'
    BY <1>1, Frames DEF sendVars, peerVars
<1> QED BY <1>4, <1>5, <1>6, <1>7, <1>8, <1>9, <1>10

LEMMA LossKeeps ==
    ASSUME Inv, ServerHangsUp \/ ListenerError \/ ObjectLost \/ XmppReconnects PROVE Inv'
<1>1. ASSUME ObjectLost PROVE Inv'
    BY <1>1, ObjectTurnsKeeps DEF ObjectLost
<1>2. ASSUME XmppReconnects PROVE Inv'
    BY <1>2, ObjectTurnsKeeps DEF XmppReconnects
<1> QED BY <1>1, <1>2, ServerHangsUpKeeps, ListenerErrorKeeps

-----------------------------------------------------------------------------
(* disconnect(), and the tear-down of connect()                            *)

LEMMA TearDownFacts ==
    ASSUME Inv, TearDown, opt' = opt
    PROVE  /\ controller' = None /\ connection' = None /\ pending' = {}
           /\ \A h \in Handles :
                handle'[h] = IF h = connection \/ (h \in pending /\ Live(h)) THEN "closing"
                             ELSE handle[h]
           /\ \A w \in Waiters : waiter'[w] # "waiting"
           /\ \A c \in Peers : \/ peer'[c] = peer[c]
                               \/ Open(c) /\ peer'[c] = [peer[c] EXCEPT !.at = "destroyed"]
           /\ handle' \in [Handles -> HandleStates]
           /\ waiter' \in [Waiters -> {"none", "waiting", "resolved", "rejected"}]
           /\ peer' \in [Peers -> [at : {"away", "open", "destroyed"}, of : Handles \cup {None}]]
           /\ ready' \subseteq ready
<1> USE DEF Inv
<1>1. controller' = None /\ connection' = None /\ pending' = {} /\ ready' \subseteq ready
    BY DEF TearDown
<1>2. /\ \A h \in Handles :
           handle'[h] = IF h = connection \/ (h \in pending /\ Live(h)) THEN "closing"
                        ELSE handle[h]
      /\ handle' \in [Handles -> HandleStates]
    BY DEF TearDown, TypeOK, HandleStates
<1>3. /\ \A w \in Waiters : waiter'[w] # "waiting"
      /\ waiter' \in [Waiters -> {"none", "waiting", "resolved", "rejected"}]
    BY DEF TearDown, Answered, TypeOK
<1>4. /\ \A c \in Peers : \/ peer'[c] = peer[c]
                          \/ Open(c) /\ peer'[c] = [peer[c] EXCEPT !.at = "destroyed"]
      /\ peer' \in [Peers -> [at : {"away", "open", "destroyed"}, of : Handles \cup {None}]]
  <2>1. CASE peer' = peer
      BY <2>1 DEF TypeOK
  <2>2. ASSUME NEW S, peer' = Destroyed(S)
        PROVE  <1>4!1 /\ <1>4!2
      BY <2>2 DEF Destroyed, TypeOK
  <2> QED BY <2>1, <2>2 DEF TearDown
<1> QED BY <1>1, <1>2, <1>3, <1>4

\* What the tear-down does to peers and waiters.
LEMMA TearDownKeeps ==
    ASSUME Inv, TearDown, UNCHANGED <<opt, greeted, published>>
    PROVE  PeersFit' /\ WaitersWait' /\ Greeted' /\ PeersAreServed'
<1> USE Constants, OptionFacts, TearDownFacts DEF Inv
<1>1. \A c \in Peers : /\ peer[c].at = "away" => peer'[c] = peer[c]
                       /\ peer'[c].at = "away" => peer[c].at = "away"
                       /\ peer'[c].at # "away" => peer[c].at # "away" /\ peer'[c].of = peer[c].of
                       /\ Open(c)' => Open(c) /\ peer'[c] = peer[c]
  <2> SUFFICES ASSUME NEW c \in Peers
               PROVE  <1>1!(c)
      OBVIOUS
  <2>1. peer[c] \in [at : {"away", "open", "destroyed"}, of : Handles \cup {None}]
      BY DEF TypeOK
  <2>2. \/ peer'[c] = peer[c]
        \/ Open(c) /\ peer'[c] = [peer[c] EXCEPT !.at = "destroyed"]
      OBVIOUS
  <2> HIDE TearDownFacts DEF Inv
  <2> QED BY <2>1, <2>2 DEF Open
<1>2. PeersFit'
  <2>1. pending' = {} /\ (ready = {} => ready' = {})
      OBVIOUS
  <2>2. \A c \in Peers : peer[c].at = "away" => (Tcp => c \notin ready')
      BY DEF PeersFit
  <2>3. \A c \in Peers : peer[c] = Away => peer'[c] = Away
      BY <1>1 DEF Away
  <2> HIDE TearDownFacts
  <2> QED BY <1>1, <2>1, <2>2, <2>3 DEF PeersFit
<1>3. WaitersWait' /\ Greeted'
    BY DEF WaitersWait, Greeted
<1>4. PeersAreServed'
  <2>1. CASE Tcp /\ Server
    <3>1. ASSUME NEW c \in Peers, Open(c)', ~ opt.anyTime
          PROVE  FALSE
      <4>1. Open(c) /\ connection # None /\ c \in pending \cup ready
          BY <1>1, <2>1, <3>1 DEF PeersAreServed
      <4>2. peer' = Destroyed(pending \cup ready)
          BY <2>1, <4>1 DEF TearDown
      <4> QED BY <3>1, <4>1, <4>2 DEF Destroyed, Open, TypeOK
    <3> QED BY <3>1 DEF PeersAreServed
  <2>2. CASE ~ Tcp
      BY <1>1, <2>2 DEF PeersAreServed, PeersFit, Open, Away, TypeOK
  <2>3. CASE Client
      BY <1>1, <2>3 DEF PeersAreServed, PeersFit, Open, Away
  <2> QED BY <2>1, <2>2, <2>3
<1> QED BY <1>2, <1>3, <1>4

LEMMA DisconnectKeeps == ASSUME Inv, Disconnect PROVE Inv'
<1> USE Constants, OptionFacts DEF Inv
<1>1. /\ UNCHANGED <<opt, call, expired, attempt, sendVars, greeted, published, outside>>
      /\ \A n \in Busy : opt.anyTime \/ Cancellable(n)
      /\ TearDown
    BY DEF Disconnect, outside, sendVars
<1>2. \A n \in Calls : aborted'[n] <=> aborted[n] \/ n = controller
    BY DEF Disconnect, Abort, TypeOK
<1>3. Busy' \subseteq Busy /\ (~ opt.anyTime => Busy' = {})
    BY <1>1, <1>2 DEF Busy, Cancellable
<1>4. TypeOK'
  <2>1. aborted' \in [Calls -> BOOLEAN]
      BY DEF Disconnect, Abort, TypeOK
  <2> QED BY <1>1, <2>1, TearDownFacts DEF TypeOK, sendVars, outside
<1>5. Attempts'
    BY <1>1, TearDownFacts DEF Attempts
<1>6. OneAtATime'
  <2>1. controller' = None
      BY <1>1, TearDownFacts
  <2>2. ~ Tcp => \A m \in Calls : ~ aborted'[m]
      BY <1>2 DEF OneAtATime
  <2>3. \A m \in Busy' : m \in Busy /\ m # controller
      BY <1>1, <1>2, <1>3 DEF Busy
  <2> QED BY <1>1, <1>2, <2>1, <2>2, <2>3, BusyIs DEF OneAtATime
<1>7. TcpHandles'
    BY <1>1, TearDownFacts DEF TcpHandles, Attempts, Attempting, Live, TypeOK
<1>8. OtherHandles'
    BY <1>1, TearDownFacts DEF OtherHandles, Attempts, Attempting
<1>9. CancelledIsClosing'
  <2>1. ASSUME NEW n \in Calls, aborted[n]', call[n] \in Attempting, ~ opt.anyTime
        PROVE  Tcp /\ Client /\ handle'[attempt[n]] = "closing"
    <3>1. attempt[n] \in Handles
        BY <2>1 DEF Attempts
    <3>2. CASE aborted[n]
        BY <1>1, <2>1, <3>1, <3>2, TearDownFacts DEF CancelledIsClosing
    <3>3. CASE ~ aborted[n]
      <4>1. n = controller /\ n \in Busy
          BY <1>2, <2>1, <3>3, BusyIs DEF Attempting, InProgress
      <4>2. Tcp /\ Client
          BY <1>1, <2>1, <4>1 DEF OneAtATime, Cancellable, Attempts, Attempting
      <4>3. Live(attempt[n]) => attempt[n] \in pending
          BY <2>1, <4>2 DEF TcpHandles
      <4>4. handle[attempt[n]] \in {"opening", "up", "closing"}
          BY <2>1, <4>2 DEF TcpHandles
      <4> QED BY <1>1, <3>1, <4>2, <4>3, <4>4, TearDownFacts DEF Live
    <3> QED BY <3>2, <3>3
  <2> QED BY <1>1, <2>1 DEF CancelledIsClosing
<1>10. ConnectionIsBusys'
    BY <1>1, <1>3 DEF ConnectionIsBusys
<1>11. LiveIsOwned'
  <2>1. ASSUME NEW h \in Handles, Live(h)', ~ opt.anyTime, ~ Grpc
        PROVE  FALSE
    <3>1. Live(h) /\ h # connection /\ h \notin pending
        BY <1>1, <2>1, TearDownFacts DEF Live
    <3>2. PICK n \in Busy : call[n] \in Attempting /\ attempt[n] = h
        BY <2>1, <3>1 DEF LiveIsOwned
    <3>3. n \in Calls /\ n = controller /\ (Server => call[n] # "opening")
        BY <1>1, <2>1, <3>2, BusyIs DEF Cancellable
    <3>4. Tcp /\ Client
        BY <3>2, <3>3 DEF OneAtATime, Attempts, Attempting
    <3> QED BY <3>1, <3>2, <3>3, <3>4 DEF TcpHandles
  <2> QED BY <1>1, <2>1 DEF LiveIsOwned
<1> QED BY <1>1, <1>4, <1>5, <1>6, <1>7, <1>8, <1>9, <1>10, <1>11, TearDownKeeps

LEMMA ConnectKeeps == ASSUME Inv, NEW n \in Calls, Connect(n) PROVE Inv'
<1> USE Constants, OptionFacts DEF Inv
<1>1. /\ UNCHANGED <<opt, expired, attempt, sendVars, greeted, published, outside>>
      /\ call[n] = "none" /\ Busy = {} /\ ~ aborted[n] /\ controller # n
      /\ \A w \in Waiters : waiter[w] # "waiting"
    BY DEF Connect, outside, sendVars, OneAtATime, WaitersWait
<1>2. CASE connection = None
  <2>1. /\ UNCHANGED <<aborted, handle, connection, peerVars, waiter>>
        /\ controller' = IF Tcp THEN n ELSE controller
      BY <1>2 DEF Connect, handleVars
  <2>2. Moves(n, "resolving")
      BY <1>2 DEF Connect, Moves, TypeOK
  <2>3. Busy' = {n}
      BY <1>1, <2>1, <2>2 DEF Busy, Moves, InProgress
  <2>4. TypeOK'
    <3>1. call' \in [Calls -> CallStates]
        BY <1>2 DEF Connect, TypeOK, CallStates, InProgress
    <3> QED BY <1>1, <2>1, <3>1 DEF TypeOK, sendVars, outside, peerVars
  <2>5. Attempts' /\ CancelledIsClosing' /\ OtherHandles'
      BY <1>1, <1>2, <2>1, <2>2 DEF Attempts, CancelledIsClosing, OtherHandles, Attempting, Moves
  <2>6. OneAtATime'
      BY <1>1, <2>1, <2>2, <2>3 DEF OneAtATime, Moves
  <2>7. TcpHandles'
      BY <1>1, <2>1, <2>2 DEF TcpHandles, Attempting, Moves, Live, peerVars
  <2>8. ConnectionIsBusys'
      BY <1>1, <1>2, <2>1, <2>2, <2>3 DEF ConnectionIsBusys, Moves
  <2>9. LiveIsOwned'
      BY <1>1, <2>1 DEF LiveIsOwned, Live
  <2>10. PeersFit' /\ WaitersWait' /\ Greeted' /\ PeersAreServed'
      BY <1>1, <2>1, Frames DEF peerVars
  <2> QED BY <2>4, <2>5, <2>6, <2>7, <2>8, <2>9, <2>10
<1>3. CASE connection # None
  <2>1. TearDown /\ \A m \in Calls : aborted'[m] <=> aborted[m] \/ m = controller
      BY <1>3 DEF Connect, Abort, TypeOK
  <2>2. Moves(n, "tearing down")
      BY <1>3 DEF Connect, Moves, TypeOK
  <2>3. Busy' = {n}
      BY <1>1, <2>1, <2>2 DEF Busy, Moves, InProgress
  <2>4. TypeOK'
    <3>1. call' \in [Calls -> CallStates] /\ aborted' \in [Calls -> BOOLEAN]
        BY <1>3 DEF Connect, Abort, TypeOK, CallStates, InProgress
    <3> QED BY <1>1, <2>1, <3>1, TearDownFacts DEF TypeOK, sendVars, outside
  <2>5. Attempts'
    <3>1. \A h \in Handles : handle[h] # "none" => handle'[h] # "none"
        BY <1>1, <2>1, TearDownFacts
    <3>2. connection' = None
        BY <1>1, <2>1, TearDownFacts
    <3> QED BY <1>1, <2>2, <3>1, <3>2 DEF Attempts, Attempting, Moves
  <2>6. OneAtATime'
    <3>1. ~ Tcp => \A m \in Calls : ~ aborted'[m]
        BY <2>1 DEF OneAtATime
    <3>2. controller' = None
        BY <1>1, <2>1, TearDownFacts
    <3>3. \A m \in Calls : aborted'[m] => m # n /\ call'[m] \notin {"none", "tearing down"}
        BY <1>1, <2>1, <2>2 DEF OneAtATime, Moves
    <3> QED BY <1>1, <2>2, <2>3, <3>1, <3>2, <3>3 DEF OneAtATime, Moves
  <2>7. TcpHandles'
    <3>1. connection' = None /\ \A h \in Handles :
              /\ Live(h)' => Live(h) /\ h \notin pending
              /\ handle'[h] = handle[h] \/ (handle'[h] = "closing" /\ h \in {connection} \cup pending)
        BY <1>1, <2>1, TearDownFacts DEF Live
    <3>2. \A m \in Calls : call'[m] \in Attempting => call[m] = call'[m] /\ attempt[m] \in Handles
        BY <2>2 DEF Attempts, Attempting, Moves
    <3>3. ~ Client => Server /\ pending \cap Handles = {}
        BY DEF TypeOK
    <3>4. \A m \in Calls : Tcp /\ call'[m] \in Attempting =>
              /\ Client => ~ Live(attempt[m])'
              /\ Server => handle'[attempt[m]] = handle[attempt[m]]
        BY <1>1, <3>1, <3>2, <3>3 DEF TcpHandles
    <3> QED BY <1>1, <3>1, <3>2, <3>3, <3>4 DEF TcpHandles
  <2>8. OtherHandles'
      BY <1>1, <2>1, <2>2, TearDownFacts DEF OtherHandles, Attempts, Attempting, Moves
  <2>9. CancelledIsClosing'
    <3>1. ASSUME NEW m \in Calls, aborted[m]', call'[m] \in Attempting
          PROVE  aborted[m] /\ call[m] \in Attempting /\ attempt[m] \in Handles
      <4>1. m # n /\ call[m] \in Attempting
          BY <2>2, <3>1 DEF Moves, Attempting
      <4>2. call[m] \in InProgress
          BY <4>1 DEF Attempting, InProgress
      <4> QED BY <1>1, <4>1, <4>2, BusyIs DEF Attempts
    <3> QED BY <1>1, <2>1, <3>1, TearDownFacts DEF CancelledIsClosing
  <2>10. ConnectionIsBusys'
      BY <1>1, <2>1, <2>2, <2>3, TearDownFacts DEF ConnectionIsBusys, Moves
  <2>11. LiveIsOwned'
      BY <1>1, <2>1, TearDownFacts DEF LiveIsOwned, Live
  <2> QED BY <1>1, <2>1, <2>4, <2>5, <2>6, <2>7, <2>8, <2>9, <2>10, <2>11, TearDownKeeps
<1> QED BY <1>2, <1>3

-----------------------------------------------------------------------------
(* The theorems                                                            *)

LEMMA InvInit == Init => Inv
<1> SUFFICES ASSUME Init
             PROVE  Inv
    OBVIOUS
<1> USE Constants DEF Init
<1>1. TypeOK
  <2>1. faults \in 0 .. MaxFaults
      BY TransportAssumption
  <2> QED BY <2>1 DEF TypeOK, CallStates, HandleStates, Away
<1>2. Busy = {} /\ \A h \in Handles : ~ Live(h)
    BY DEF Busy, InProgress, Live
<1>3. Attempts /\ OneAtATime /\ TcpHandles /\ OtherHandles /\ CancelledIsClosing
    BY <1>2 DEF Attempts, OneAtATime, TcpHandles, OtherHandles, CancelledIsClosing, Attempting
<1>4. PeersFit /\ WaitersWait /\ Greeted /\ PeersAreServed
    BY DEF PeersFit, WaitersWait, Greeted, PeersAreServed, Open, Away
<1>5. ConnectionIsBusys /\ LiveIsOwned
    BY <1>2 DEF ConnectionIsBusys, LiveIsOwned
<1> QED BY <1>1, <1>3, <1>4, <1>5 DEF Inv

LEMMA InvInductive == Inv /\ [Next]_vars => Inv'
<1> SUFFICES ASSUME Inv, [Next]_vars
             PROVE  Inv'
    OBVIOUS
<1>1. CASE UNCHANGED vars
  <2>1. UNCHANGED <<opt, callVars, handleVars, peerVars, waiter, sendVars, greeted, outside>>
      BY <1>1 DEF vars, outside
  <2>2. TypeOK'
      BY <2>1 DEF Inv, TypeOK, callVars, handleVars, peerVars, sendVars, outside
  <2> QED BY <2>1, <2>2, Frames DEF Inv, callVars, handleVars, peerVars, sendVars
<1>2. ASSUME NEW n \in Calls, Proceeds(n)
      PROVE  Inv'
    BY <1>2, TcpProceedsKeeps, OtherProceedsKeeps, TornDownKeeps DEF Proceeds
<1> QED BY <1>1, <1>2, ConnectKeeps, DeadlinePassesKeeps, HandleClosesKeeps, PeerStepKeeps,
           WaiterStepKeeps, SendStepKeeps, LossKeeps, DisconnectKeeps DEF Next


\* Inv holds in every state the manager can be in.
THEOREM Invariance == Spec => []Inv
<1>1. Inv /\ [Next]_vars => Inv'
    BY InvInductive
<1> QED BY <1>1, InvInit, PTL DEF Spec

\* What disconnect() and connect() leave behind: however they interleave with lookups,
\* attempts, retries, accepted sockets and late events, every socket that is not closed
\* is the connection's or the going attempt's, there is at most one, and without a
\* connection no accepted socket is open and no waitForRecipients() hangs.
THEOREM SocketsAreOwned == Spec => []NothingSurvivesDisconnect
<1>1. Inv => NothingSurvivesDisconnect
  <2> SUFFICES ASSUME Inv, ~ opt.anyTime, opt.protocol # "grpc"
               PROVE  /\ \A h \in Handles : Live(h) => Owned(h)
                      /\ \A g, h \in Handles : Live(g) /\ Live(h) => g = h
                      /\ connection = None => /\ \A c \in Peers : Open(c) => ClosingWith(c)
                                              /\ \A w \in Waiters : waiter[w] # "waiting"
      BY DEF NothingSurvivesDisconnect, Inv
  <2> USE Constants DEF Inv
  <2>1. \A h \in Handles : Live(h) => Owned(h)
      BY DEF LiveIsOwned, Owned
  <2>2. ASSUME NEW g \in Handles, NEW h \in Handles, Live(g), Live(h)
        PROVE  g = h
    <3>1. \A m, n \in Busy : m = n
        BY DEF OneAtATime
    <3>2. \A n \in Busy : call[n] \in Attempting /\ attempt[n] \in Handles
                              => connection \in {None, attempt[n]}
        BY DEF ConnectionIsBusys, Attempting
    <3> QED BY <2>2, <3>1, <3>2 DEF LiveIsOwned
  <2>3. ASSUME connection = None, NEW c \in Peers, Open(c)
        PROVE  ClosingWith(c)
    <3>1. peer[c].of \in Handles /\ ~ Udp
        BY <2>3 DEF PeersFit, Open, Away
    <3> QED BY <2>3, <3>1 DEF PeersAreServed, ClosingWith
  <2>4. connection = None => \A w \in Waiters : waiter[w] # "waiting"
      BY DEF WaitersWait, IsConnected
  <2> QED BY <2>1, <2>2, <2>3, <2>4
<1> QED BY <1>1, Invariance, PTL

\* However many connections a client or a server makes, accepts and loses, no record is
\* published to one before its greeting was written in full.
THEOREM GreetingComesFirst == Spec => []GreetingFirst
<1>1. Inv => GreetingFirst
    BY DEF Inv, Greeted, GreetingFirst
<1> QED BY <1>1, Invariance, PTL

-----------------------------------------------------------------------------
(* How a connect() ends                                                    *)

\* Only the call that proceeds changes its state, and it is not the end of another.
LEMMA OneCallProceeds ==
    ASSUME Inv, [Next]_vars, NEW n \in Calls, call[n] # "none", call'[n] # call[n]
    PROVE  Proceeds(n)
<1> USE DEF Inv, TypeOK
<1>1. CASE \E m \in Calls : Connect(m)
    BY <1>1 DEF Connect
<1>2. ASSUME NEW m \in Calls, Proceeds(m)
      PROVE  m = n
  <2>1. \A k \in Calls : k # m => call'[k] = call[k]
    <3>1. CASE TcpProceeds(m)
        BY <3>1 DEF TcpProceeds, TcpOpens, TcpResolveFails, TcpListens, TcpConnects, ClientReady,
                    ClientGreetingSent, TcpOpenFails, ClientGreetingFails, TcpWakes, AfterFailure
    <3>2. CASE UdpProceeds(m)
        BY <3>2 DEF UdpProceeds, UdpOpens, UdpBound, UdpFails
    <3>3. CASE ObjectProceeds(m)
        BY <3>3 DEF ObjectProceeds, ObjectOpens, ObjectConnects, ObjectFails, Cleaned, ObjectWakes
    <3>4. CASE TornDown(m)
        BY <3>4 DEF TornDown
    <3> QED BY <1>2, <3>1, <3>2, <3>3, <3>4 DEF Proceeds
  <2> QED BY <2>1
<1>3. CASE \E m \in Calls : DeadlinePasses(m)
    BY <1>3 DEF DeadlinePasses
<1>4. CASE \E h \in Handles : HandleCloses(h)
    BY <1>4 DEF HandleCloses, callVars
<1>5. CASE \E c \in Peers : PeerStep(c)
    BY <1>5 DEF PeerStep, TcpPeerStep, Accept, PeerGreetingSent, PeerEnds, PeerClosed, Registers,
                ObjectPeerJoins, ObjectPeerLeaves, callVars
<1>6. CASE \E w \in Waiters : WaitForRecipients(w) \/ WaitTimesOut(w)
    BY <1>6 DEF WaitForRecipients, WaitTimesOut, callVars
<1>7. CASE Send \/ \E x \in Peers \cup Handles : Written(x) \/ WriteFails(x)
    BY <1>7 DEF Send, Written, WriteFails, callVars
<1>8. CASE ServerHangsUp \/ ListenerError \/ ObjectLost \/ XmppReconnects
    BY <1>8 DEF ServerHangsUp, ListenerError, ObjectLost, XmppReconnects, callVars
<1>9. CASE RemoteGoesDown \/ RemoteComesUp \/ Disconnect
    BY <1>9 DEF RemoteGoesDown, RemoteComesUp, Disconnect, callVars
<1>10. CASE UNCHANGED vars
    BY <1>10 DEF vars, callVars
<1> QED BY <1>1, <1>2, <1>3, <1>4, <1>5, <1>6, <1>7, <1>8, <1>9, <1>10 DEF Next

\* A connect() that was cancelled before it resolved never resolves, at whatever point of
\* a lookup, an attempt, a greeting or a pause it was; and one that waits for a server
\* without a deadline is never rejected but for a greeting, until it is cancelled.
THEOREM ConnectIsTrue == Spec => ConnectKeepsItsWord
<1>1. ASSUME Inv, [Next]_vars, NEW n \in Calls, aborted[n], ~ opt.anyTime,
             call[n] # "resolved", call'[n] = "resolved"
      PROVE  FALSE
  <2>1. Tcp /\ call[n] # "none"
      BY <1>1 DEF Inv, OneAtATime
  <2>2. Proceeds(n)
      BY <1>1, <2>1, OneCallProceeds
  <2>3. call[n] \in Attempting => Client /\ handle[attempt[n]] = "closing"
      BY <1>1 DEF Inv, CancelledIsClosing
  <2>4. call[n] # "cleaning" /\ \A s : call' = [call EXCEPT ![n] = s] => s = "resolved"
      BY <1>1, <2>1 DEF Inv, TypeOK, Attempts
  <2>5. TcpProceeds(n)
      BY <2>1, <2>2, <2>4 DEF Proceeds, TornDown, UdpProceeds, UdpOpens, UdpBound, UdpFails,
             ObjectProceeds, ObjectOpens, ObjectConnects, ObjectFails, Cleaned, ObjectWakes
  <2>6. ~ TcpListens(n) /\ ~ TcpConnects(n) /\ ~ ClientGreetingSent(n)
      BY <2>3 DEF TcpListens, TcpConnects, ClientGreetingSent, Attempting
  <2> QED BY <2>4, <2>5, <2>6 DEF TcpProceeds, TcpOpens, TcpResolveFails, TcpOpenFails,
             ClientGreetingFails, TcpWakes, AfterFailure
<1>2. ASSUME Inv, [Next]_vars, NEW n \in Calls, opt.waitForServer, Client,
             opt.protocol \in {"tcp", "ws"}, ~ opt.deadline, ~ opt.noRoute, ~ aborted[n],
             call[n] \in InProgress \ {"greeting"}, call'[n] = "rejected"
      PROVE  FALSE
  <2>1. Proceeds(n)
      BY <1>2, OneCallProceeds DEF InProgress
  <2>2. ~ expired[n] /\ ~ Grpc
      BY <1>2 DEF Inv, OneAtATime
  <2>3. \A s : call' = [call EXCEPT ![n] = s] => s = "rejected"
      BY <1>2 DEF Inv, TypeOK
  <2>4. Server = FALSE /\ Failures \subseteq Retried
      BY <1>2 DEF Failures, Retried
  <2>5. \A failure \in Retried : ~ AfterFailure(n, failure)
      BY <1>2, <2>2, <2>3, <2>4 DEF AfterFailure
  <2>6. ~ TcpProceeds(n)
      BY <1>2, <2>2, <2>3, <2>4, <2>5 DEF TcpProceeds, TcpOpens, TcpResolveFails, TcpListens,
             TcpConnects, ClientReady, ClientGreetingSent, TcpOpenFails, ClientGreetingFails,
             TcpWakes, Retried
  <2>7. ~ ObjectProceeds(n)
    <3>1. ~ Cleaned(n)
        BY <1>2, <2>2, <2>3 DEF Cleaned, Retries, Inv, Attempts, Attempting
    <3>2. ~ ObjectFails(n)
        BY <2>2, <2>3 DEF ObjectFails
    <3> QED BY <2>3, <3>1, <3>2 DEF ObjectProceeds, ObjectOpens, ObjectConnects, ObjectWakes
  <2> QED BY <1>2, <2>1, <2>3, <2>6, <2>7 DEF Proceeds, TornDown, UdpProceeds, UdpOpens, UdpBound,
             UdpFails
<1>3. Inv /\ [Next]_vars =>
          [\A n \in Calls : aborted[n] /\ ~ opt.anyTime /\ call[n] # "resolved"
                                => call'[n] # "resolved"]_vars
    BY <1>1
<1>4. Inv /\ [Next]_vars =>
          [\A n \in Calls :
              /\ opt.waitForServer /\ Client /\ opt.protocol \in {"tcp", "ws"}
              /\ ~ opt.deadline /\ ~ opt.noRoute
              /\ ~ aborted[n]
              /\ call[n] \in InProgress \ {"greeting"}
              => call'[n] # "rejected"]_vars
    BY <1>2
<1> QED BY <1>3, <1>4, Invariance, PTL
        DEF Spec, ConnectKeepsItsWord, CancelledNeverConnects, WaitsForServer

-----------------------------------------------------------------------------
(* The contract with the replay engine                                     *)

\* Where nobody waits, an answer changes nothing.
LEMMA Unheard ==
    ASSUME Inv, \A w \in Waiters : waiter[w] # "waiting", NEW answer
    PROVE  Answered(answer) = waiter
    BY DEF Inv, TypeOK, Answered

ContractStep == [Contract!Next]_(Contract!vars)

\* The four things a step can mean to those who use the manager.
LEMMA Same ==
    ASSUME IsConnected' <=> IsConnected, HasRecipients' <=> HasRecipients, waiter' = waiter
    PROVE  ContractStep
    BY DEF ContractStep, Contract!vars

LEMMA OnlyUp ==
    ASSUME ~ IsConnected, IsConnected', waiter' = waiter
    PROVE  ContractStep
    BY DEF ContractStep, Contract!Next, Contract!Up, HasRecipients

LEMMA OnlyLeaves ==
    ASSUME IsConnected' <=> IsConnected, HasRecipients' => HasRecipients, waiter' = waiter
    PROVE  ContractStep
<1>1. CASE HasRecipients /\ ~ HasRecipients'
  <2>1. Contract!Leave
      BY <1>1 DEF Contract!Leave, IsConnected, HasRecipients
  <2> QED BY <2>1 DEF ContractStep, Contract!Next
<1> QED BY <1>1, Same

LEMMA OnlyJoins ==
    ASSUME Inv, IsConnected' <=> IsConnected, HasRecipients => HasRecipients',
           IsConnected => HasRecipients' /\ waiter' = Answered("resolved"),
           waiter' \in {waiter, Answered("resolved")}
    PROVE  ContractStep
<1>1. CASE IsConnected /\ ~ HasRecipients
  <2>1. Contract!Join
      BY <1>1 DEF Contract!Join, Contract!AnswerAll, Answered
  <2> QED BY <2>1 DEF ContractStep, Contract!Next
<1>2. CASE ~ IsConnected \/ HasRecipients
  <2>1. waiter' = waiter
      BY <1>2, Unheard DEF Inv, WaitersWait
  <2>2. HasRecipients' <=> HasRecipients
      BY <1>2 DEF HasRecipients
  <2> QED BY <2>1, <2>2, Same
<1> QED BY <1>1, <1>2

LEMMA OnlyDown ==
    ASSUME Inv, ~ IsConnected', waiter' = Answered("rejected")
    PROVE  ContractStep
<1>1. CASE IsConnected
  <2>1. Contract!Down
      BY <1>1 DEF Contract!Down, Contract!AnswerAll, Answered, HasRecipients
  <2> QED BY <2>1 DEF ContractStep, Contract!Next
<1>2. CASE ~ IsConnected
  <2>1. waiter' = waiter
      BY <1>2, Unheard DEF Inv, WaitersWait
  <2> QED BY <1>2, <2>1, Same DEF HasRecipients
<1> QED BY <1>1, <1>2

\* While the connection, its handle and the peers stay, nothing is to be seen.
LEMMA Unseen ==
    ASSUME connection' = connection, waiter' = waiter, UNCHANGED <<opt, ready, peer>>,
           connection # None => (handle'[connection] = "up" <=> handle[connection] = "up")
    PROVE  ContractStep
<1>1. (IsConnected' <=> IsConnected) /\ (HasRecipients' <=> HasRecipients)
    BY DEF IsConnected, HasRecipients, Open
<1> QED BY <1>1, Same

LEMMA TcpProceedsIsSeen ==
    ASSUME Inv, NEW n \in Calls, TcpProceeds(n)
    PROVE  ContractStep
<1> USE Constants, OptionFacts DEF Inv
<1>1. ASSUME NEW h \in Handles, TcpOpens(n, h)
      PROVE  ContractStep
    BY <1>1, Unseen DEF TcpOpens, Attempts, TypeOK, outside, Fresh
<1>2. CASE TcpResolveFails(n) \/ TcpWakes(n)
    BY <1>2, Unseen DEF TcpResolveFails, TcpWakes, handleVars, peerVars, outside
<1>3. CASE TcpListens(n)
  <2>1. ~ IsConnected
      BY <1>3 DEF TcpListens, IsConnected, TypeOK
  <2>2. attempt[n] \in Handles
      BY <1>3 DEF TcpListens, Attempts, Attempting
  <2>3. IsConnected' /\ waiter' = waiter
      BY <1>3, <2>2 DEF TcpListens, IsConnected, TypeOK
  <2> QED BY <2>1, <2>3, OnlyUp
<1>4. ASSUME ClientReady(n, attempt[n]), handle'[attempt[n]] = "up", waiter' = waiter, Client,
             attempt[n] \in Handles, opt' = opt
      PROVE  ContractStep
  <2>1. IsConnected'
      BY <1>4 DEF ClientReady, IsConnected
  <2>2. IsConnected => HasRecipients /\ HasRecipients'
      BY <1>4, <2>1 DEF HasRecipients
  <2> QED BY <1>4, <2>1, <2>2, OnlyUp, Same
<1>5. CASE TcpConnects(n)
  <2>1. attempt[n] \in Handles /\ Tcp /\ Client /\ call[n] \in Attempting /\ opt' = opt
      BY <1>5 DEF TcpConnects, Attempts, Attempting, outside
  <2>2. handle'[attempt[n]] = "up" /\ waiter' = waiter
      BY <1>5, <2>1 DEF TcpConnects, TypeOK
  <2>3. CASE opt.greeting
    <3>1. connection # None => handle'[connection] = handle[connection]
        BY <1>5, <2>1 DEF TcpConnects, TypeOK, TcpHandles
    <3> QED BY <1>5, <2>3, <3>1, Unseen DEF TcpConnects, outside
  <2>4. CASE ~ opt.greeting
      BY <1>4, <1>5, <2>1, <2>2, <2>4 DEF TcpConnects
  <2> QED BY <2>3, <2>4
<1>6. CASE ClientGreetingSent(n)
    BY <1>4, <1>6 DEF ClientGreetingSent, Attempts, Attempting, outside
<1>7. CASE TcpOpenFails(n) \/ ClientGreetingFails(n)
  <2>1. call[n] \in Attempting /\ Tcp
      BY <1>7 DEF TcpOpenFails, ClientGreetingFails, Attempts, Attempting
  <2>2. /\ attempt[n] # connection /\ GiveUp(attempt[n])
        /\ UNCHANGED <<opt, connection, ready, peer, waiter>>
      BY <1>7, <2>1 DEF TcpOpenFails, ClientGreetingFails, TcpHandles, outside
  <2>3. connection # None => handle'[connection] = handle[connection]
      BY <2>2 DEF GiveUp, TypeOK
  <2> QED BY <2>2, <2>3, Unseen
<1> QED BY <1>1, <1>2, <1>3, <1>5, <1>6, <1>7 DEF TcpProceeds

LEMMA OtherProceedsIsSeen ==
    ASSUME Inv, NEW n \in Calls, ~ Tcp, call[n] \in InProgress,
           UdpProceeds(n) \/ ObjectProceeds(n)
    PROVE  ContractStep
<1> USE Constants, OptionFacts DEF Inv
<1>1. ~ IsConnected
    BY OnlyCall
<1>2. waiter' = waiter
    BY DEF UdpProceeds, ObjectProceeds, UdpOpens, UdpBound, UdpFails, ObjectOpens, ObjectConnects,
           ObjectFails, Cleaned, ObjectWakes
<1>3. CASE IsConnected'
    BY <1>1, <1>2, <1>3, OnlyUp
<1>4. CASE ~ IsConnected'
  <2>1. ~ HasRecipients /\ ~ HasRecipients'
      BY <1>1, <1>4 DEF HasRecipients
  <2> QED BY <1>1, <1>2, <1>4, <2>1, Same
<1> QED BY <1>3, <1>4

LEMMA PeerReadyIsSeen ==
    ASSUME Inv, NEW c \in Peers, Tcp, Server, PeerReady(c), Open(c)', UNCHANGED <<opt, handleVars>>,
           \A d \in ready : Open(d) => Open(d)'
    PROVE  ContractStep
<1>1. (IsConnected' <=> IsConnected) /\ (connection # None => IsConnected)
    BY DEF IsConnected, handleVars, Inv, TcpHandles
<1>2. IsConnected => HasRecipients'
    BY <1>1 DEF HasRecipients, PeerReady
<1>3. HasRecipients => IsConnected
    BY DEF HasRecipients
<1>4. waiter' = IF IsConnected THEN Answered("resolved") ELSE waiter
    BY <1>1 DEF PeerReady, IsConnected
<1> QED BY <1>1, <1>2, <1>3, <1>4, OnlyJoins

LEMMA PeerIsSeen ==
    ASSUME Inv, NEW c \in Peers, PeerStep(c)
    PROVE  ContractStep
<1> USE Constants, OptionFacts DEF Inv
<1>1. ASSUME NEW h \in Handles, Accept(c, h)
      PROVE  ContractStep
  <2>1. /\ UNCHANGED <<opt, handleVars>> /\ Tcp /\ Server /\ peer[c].at = "away"
        /\ \A d \in Peers \ {c} : peer'[d] = peer[d]
      BY <1>1 DEF Accept, outside, TypeOK
  <2>2. c \notin ready /\ ready \subseteq Peers
      BY <2>1 DEF PeersFit, TypeOK
  <2>3. \A d \in ready : Open(d) <=> Open(d)'
      BY <2>1, <2>2 DEF Open
  <2>4. CASE opt.greeting \/ CancelledCall(h)
    <3>1. ready' = ready /\ waiter' = waiter
        BY <1>1, <2>4 DEF Accept
    <3> QED BY <2>1, <2>3, <3>1, Same DEF IsConnected, HasRecipients, handleVars
  <2>5. CASE ~ (opt.greeting \/ CancelledCall(h))
    <3>1. PeerReady(c) /\ Open(c)'
        BY <1>1, <2>5 DEF Accept, Open, TypeOK
    <3> QED BY <2>1, <2>3, <3>1, PeerReadyIsSeen
  <2> QED BY <2>4, <2>5
<1>2. CASE PeerGreetingSent(c)
  <2>1. Server
      BY <1>2 DEF PeerGreetingSent, TypeOK
  <2> QED BY <1>2, <2>1, PeerReadyIsSeen DEF PeerGreetingSent, outside, Open
<1>3. ASSUME UNCHANGED <<opt, handleVars, waiter>>, ready' \subseteq ready,
             \A d \in Peers : Open(d)' => Open(d), Udp => ready' = ready
      PROVE  ContractStep
  <2>1. IsConnected' <=> IsConnected
      BY <1>3 DEF IsConnected, handleVars
  <2>2. HasRecipients' => HasRecipients
      BY <1>3, <2>1 DEF HasRecipients, TypeOK
  <2> QED BY <1>3, <2>1, <2>2, OnlyLeaves
<1>4. CASE PeerEnds(c)
  <2>1. \A d \in Peers : Open(d)' => Open(d)
      BY <1>4 DEF PeerEnds, Destroyed, Open, TypeOK
  <2> QED BY <1>3, <1>4, <2>1 DEF PeerEnds, outside
<1>5. CASE PeerClosed(c) \/ ObjectPeerLeaves(c)
  <2>1. \A d \in Peers : Open(d)' => Open(d)
      BY <1>5 DEF PeerClosed, ObjectPeerLeaves, Away, Open, TypeOK
  <2>2. ~ Udp
      BY <1>5 DEF PeerClosed, ObjectPeerLeaves, PeersFit, Away
  <2> QED BY <1>3, <1>5, <2>1, <2>2 DEF PeerClosed, ObjectPeerLeaves, outside
<1>6. CASE Registers(c) \/ ObjectPeerJoins(c)
  <2>1. /\ UNCHANGED <<opt, handleVars>> /\ Server /\ ready' = ready \cup {c}
        /\ waiter' \in {waiter, Answered("resolved")}
        /\ IsConnected => waiter' = Answered("resolved")
        /\ ~ Udp => Open(c)' /\ \A d \in ready : Open(d) => Open(d)'
      BY <1>6 DEF Registers, ObjectPeerJoins, outside, IsConnected, Open, TypeOK
  <2>2. IsConnected' <=> IsConnected
      BY <2>1 DEF IsConnected, handleVars
  <2>3. IsConnected => HasRecipients'
      BY <2>1, <2>2 DEF HasRecipients
  <2> QED BY <2>1, <2>2, <2>3, OnlyJoins DEF HasRecipients
<1> QED BY <1>1, <1>2, <1>4, <1>5, <1>6 DEF PeerStep, TcpPeerStep

LEMMA HandleClosesIsSeen ==
    ASSUME Inv, NEW h \in Handles, HandleCloses(h)
    PROVE  ContractStep
<1> USE Constants, OptionFacts DEF Inv
<1>1. /\ opt' = opt /\ handle[h] = "closing" /\ handle'[h] = "closed"
      /\ \A g \in Handles \ {h} : handle'[g] = handle[g]
      /\ connection' = IF connection = h /\ ~ ObjectTransport THEN None ELSE connection
    BY DEF HandleCloses, outside, TypeOK
<1>2. IsConnected' <=> IsConnected
    BY <1>1 DEF IsConnected, TypeOK
<1>3. CASE Tcp
  <2>1. HasRecipients' <=> HasRecipients
      BY <1>1, <1>2, <1>3 DEF HandleCloses, HasRecipients, Open
  <2>2. CASE Server
    <3>1. Contract!LateClose
        BY <1>2, <1>3, <2>1, <2>2 DEF HandleCloses, Contract!LateClose, Contract!AnswerAll,
               Answered, IsConnected, HasRecipients
    <3> QED BY <3>1 DEF ContractStep, Contract!Next
  <2>3. CASE ~ Server
      BY <1>2, <1>3, <2>1, <2>3, Same DEF HandleCloses
  <2> QED BY <2>2, <2>3
<1>4. CASE ~ Tcp
  <2>1. ready' = {} /\ waiter' = waiter
      BY <1>4 DEF HandleCloses
  <2>2. HasRecipients' => HasRecipients
      BY <1>1, <1>2, <2>1 DEF HasRecipients
  <2> QED BY <1>2, <2>1, <2>2, OnlyLeaves
<1> QED BY <1>3, <1>4

LEMMA WaiterIsSeen ==
    ASSUME Inv, NEW w \in Waiters, WaitForRecipients(w) \/ WaitTimesOut(w)
    PROVE  ContractStep
<1>1. (IsConnected' <=> IsConnected) /\ (HasRecipients' <=> HasRecipients)
    BY DEF WaitForRecipients, WaitTimesOut, handleVars, peerVars, outside, IsConnected,
           HasRecipients, Open
<1>2. Contract!Wait(w) \/ Contract!TimeOut(w)
    BY <1>1 DEF WaitForRecipients, WaitTimesOut, Contract!Wait, Contract!TimeOut, IsConnected,
           HasRecipients
<1> QED BY <1>2 DEF ContractStep, Contract!Next

\* A connection that ends without disconnect(): of a client nobody waits for recipients.
LEMMA LossIsSeen ==
    ASSUME Inv, ServerHangsUp \/ ListenerError \/ ObjectLost \/ XmppReconnects
    PROVE  ContractStep
<1> USE Constants, OptionFacts DEF Inv
<1>1. Client => waiter = Answered("rejected")
    BY Unheard DEF WaitersWait
<1>2. CASE ServerHangsUp
  <2>1. PICK h \in Handles : handle[h] = "up" /\ handle' = [handle EXCEPT ![h] = "closing"]
      BY <1>2 DEF ServerHangsUp
  <2>2. CASE h = connection
    <3>1. ~ IsConnected'
        BY <1>2, <2>1, <2>2 DEF ServerHangsUp, IsConnected, TypeOK
    <3> QED BY <1>1, <1>2, <3>1, OnlyDown DEF ServerHangsUp
  <2>3. CASE h # connection
      BY <1>2, <2>1, <2>3, Unseen DEF ServerHangsUp, TypeOK, outside, peerVars
  <2> QED BY <2>2, <2>3
<1>3. CASE ListenerError
    BY <1>3, OnlyDown DEF ListenerError, IsConnected
<1>4. CASE ObjectLost
  <2>1. ~ IsConnected'
      BY <1>4 DEF ObjectLost, IsConnected, TypeOK
  <2> QED BY <1>1, <1>4, <2>1, OnlyDown DEF ObjectLost
<1>5. CASE XmppReconnects
    BY <1>5, OnlyUp DEF XmppReconnects, IsConnected, TypeOK
<1> QED BY <1>2, <1>3, <1>4, <1>5

LEMMA TearDownIsSeen ==
    ASSUME Inv, TearDown
    PROVE  ContractStep
<1>1. ~ IsConnected' /\ waiter' = Answered("rejected")
    BY DEF TearDown, IsConnected
<1> QED BY <1>1, OnlyDown

LEMMA EverythingIsSeen ==
    ASSUME Inv, [Next]_vars
    PROVE  ContractStep
<1> USE DEF Inv
<1>1. CASE UNCHANGED vars
    BY <1>1, Unseen DEF vars, handleVars, peerVars, outside
<1>2. ASSUME NEW n \in Calls, Connect(n)
      PROVE  ContractStep
  <2>1. CASE connection = None
      BY <1>2, <2>1, Unseen DEF Connect, handleVars, peerVars, outside
  <2>2. CASE connection # None
      BY <1>2, <2>2, TearDownIsSeen DEF Connect
  <2> QED BY <2>1, <2>2
<1>3. ASSUME NEW n \in Calls, Proceeds(n)
      PROVE  ContractStep
  <2>1. CASE TornDown(n)
      BY <2>1, Unseen DEF TornDown, handleVars, peerVars, outside
  <2>2. CASE UdpProceeds(n) \/ ObjectProceeds(n)
    <3>1. ~ Tcp /\ call[n] \in InProgress
        BY <2>2 DEF UdpProceeds, ObjectProceeds, UdpOpens, UdpBound, UdpFails, ObjectOpens,
                    ObjectConnects, ObjectFails, Cleaned, ObjectWakes, InProgress, Attempts
    <3> QED BY <2>2, <3>1, OtherProceedsIsSeen
  <2> QED BY <1>3, <2>1, <2>2, TcpProceedsIsSeen DEF Proceeds
<1>4. ASSUME NEW n \in Calls, DeadlinePasses(n)
      PROVE  ContractStep
    BY <1>4, Unseen DEF DeadlinePasses, handleVars, peerVars, outside
<1>5. CASE Send \/ \E x \in Peers \cup Handles : Written(x) \/ WriteFails(x)
    BY <1>5, Unseen DEF Send, Written, WriteFails, handleVars, peerVars, outside
<1>6. CASE RemoteGoesDown \/ RemoteComesUp
    BY <1>6, Unseen DEF RemoteGoesDown, RemoteComesUp, handleVars, peerVars
<1>7. CASE Disconnect
    BY <1>7, TearDownIsSeen DEF Disconnect
<1> QED BY <1>1, <1>2, <1>3, <1>4, <1>5, <1>6, <1>7, HandleClosesIsSeen, PeerIsSeen, WaiterIsSeen,
           LossIsSeen DEF Next

\* Whatever the protocol, the manager is to its callers what TransportContract says: the
\* first recipient answers every waitForRecipients(), a connection that ends answers them
\* all, and hasRecipients() is only true while isConnected() is.
THEOREM TransportsImplementContract == Spec => ImplementsContract
<1>1. Init => Contract!Init
    BY DEF Init, Contract!Init, IsConnected, HasRecipients
<1>2. Inv /\ [Next]_vars => [Contract!Next]_(Contract!vars)
    BY EverythingIsSeen DEF ContractStep
<1> QED BY <1>1, <1>2, Invariance, PTL DEF Spec, ImplementsContract, Contract!Spec
=============================================================================
