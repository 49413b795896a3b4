------------------------- MODULE VelocityLoginProofs -------------------------
(***************************************************************************)
(* Proofs about VelocityLogin, for every Portal, any number of sign-ins,   *)
(* changes, tokens and operations under way.                               *)
(***************************************************************************)
EXTENDS VelocityLogin, TLAPS

TokenType == [of : Nat, number : Nat]
Kinds == {"client", "websocket", "other", "none"}
TransportType == [up : BOOLEAN, kind : Kinds, of : Nat, token : TokenType]

Numbers == generation \in Nat /\ issued \in Nat /\ applied \in Nat /\ token \in TokenType

\* A request is of this sign-in or of an earlier one; after the user has quit, of an earlier one.
RequestsAreOlder ==
    \A r \in requests : r.of \in Nat /\ r.of <= generation /\ (quit => r.of < generation)

TokenInv ==
    /\ Numbers
    /\ RequestsAreOlder
    /\ TokenIsOfThisSignIn

TransportInv == transport \in TransportType /\ TransportKeepsItsSignIn

-----------------------------------------------------------------------------
(* The token                                                             *)

\* The requests of a refresh are of this sign-in.
LEMMA RefreshKeeps ==
    ASSUME NEW attempt, TokenInv, ~ quit, Refresh(attempt)
    PROVE  \A r \in requests' : r.of \in Nat /\ r.of <= generation
  <1>1. CASE Refreshing
    BY <1>1 DEF Refresh, TokenInv, RequestsAreOlder
  <1>2. CASE ~ Refreshing
    <2>1. requests' = requests \cup {[kind |-> "refresh", of |-> generation, attempt |-> attempt]}
      BY <1>2 DEF Refresh
    <2>2. generation \in Nat /\ generation <= generation
      BY DEF TokenInv, Numbers
    <2> QED BY <2>1, <2>2 DEF TokenInv, RequestsAreOlder
  <1> QED BY <1>1, <1>2

\* What leaves the token, the counts and quit alone and makes no request keeps the invariant.
LEMMA TokenUntouched ==
    ASSUME TokenInv, UNCHANGED <<generation, issued, token, quit>>, applied' \in Nat,
           requests' \subseteq requests
    PROVE  TokenInv'
  BY DEF TokenInv, Numbers, RequestsAreOlder, TokenIsOfThisSignIn

\* So does an operation that first refreshes an expired token: none does once the token is gone.
LEMMA TokenAwaited ==
    ASSUME NEW others, NEW call, TokenInv, Awaits(others, call),
           UNCHANGED <<generation, issued, token, quit, applied>>
    PROVE  TokenInv'
  <1>1. ~ quit
    BY DEF Awaits, TokenInv, TokenIsOfThisSignIn
  <1>2. CASE lapsed
    <2>1. \A r \in requests' : r.of \in Nat /\ r.of <= generation
      BY <1>1, <1>2, RefreshKeeps DEF Awaits
    <2>2. quit' = quit
      OBVIOUS
    <2> QED BY <1>1, <2>1, <2>2 DEF TokenInv, Numbers, RequestsAreOlder, TokenIsOfThisSignIn
  <1>3. CASE ~ lapsed
    BY <1>3, TokenUntouched DEF Awaits, TokenInv, Numbers
  <1> QED BY <1>2, <1>3

\* An answer of the Portal: a token is issued to this sign-in only.
LEMMA TokenAnswered ==
    ASSUME NEW r \in requests, TokenInv, PortalAnswers(r)
    PROVE  TokenInv'
  <1>1. UNCHANGED <<quit, applied>>
    BY DEF PortalAnswers
  <1>2. CASE Issues(r)
    <2>1. r.of = generation /\ ~ quit
      BY <1>2 DEF Issues, Fresh, TokenInv, Numbers, RequestsAreOlder
    <2>2. token' = [of |-> generation, number |-> issued + 1] /\ issued' = issued + 1
      BY <1>2, <2>1 DEF Issues
    <2>3. generation' = generation /\ requests' \subseteq requests
      BY <1>2 DEF Issues
    <2>4. Numbers'
      BY <1>1, <2>2, <2>3 DEF TokenInv, Numbers, TokenType
    <2>5. RequestsAreOlder'
      BY <1>1, <2>3 DEF TokenInv, RequestsAreOlder
    <2>6. TokenIsOfThisSignIn'
      BY <1>1, <2>1, <2>2, <2>3 DEF TokenIsOfThisSignIn
    <2> QED BY <2>4, <2>5, <2>6 DEF TokenInv
  <1>3. CASE Denies(r)
    BY <1>1, <1>3, TokenUntouched DEF Denies, TokenInv, Numbers
  <1> QED BY <1>2, <1>3 DEF PortalAnswers

\* The clock: a timer asks for a token of this sign-in.
LEMMA TokenAged ==
    ASSUME TokenInv, TimePasses, ~ quit
    PROVE  TokenInv'
  <1>1. UNCHANGED <<generation, issued, token, quit, applied>>
    BY DEF TimePasses, Lapses, TimerFires, mainVars
  <1>2. CASE Lapses
    BY <1>1, <1>2, TokenUntouched DEF Lapses, TokenInv, Numbers
  <1>3. CASE TimerFires
    <2>1. \A r \in requests' : r.of \in Nat /\ r.of <= generation
      BY <1>3, RefreshKeeps DEF TimerFires
    <2> QED BY <1>1, <2>1 DEF TokenInv, Numbers, RequestsAreOlder, TokenIsOfThisSignIn
  <1> QED BY <1>2, <1>3 DEF TimePasses

\* A sign-in or a sign-out drops the token, and every request becomes an earlier one.
LEMMA TokenDropped ==
    ASSUME TokenInv, SignedOut, issued' = issued, applied' \in Nat,
           \/ requests' = requests
           \/ ~ quit' /\ AsksForToken
    PROVE  TokenInv'
  <1>1. generation' \in Nat /\ generation < generation' /\ token' = NoToken
    BY DEF SignedOut, TokenInv, Numbers
  <1>2. Numbers'
    BY <1>1 DEF TokenInv, Numbers, NoToken, TokenType
  <1>3. TokenIsOfThisSignIn'
    BY <1>1 DEF TokenIsOfThisSignIn, NoToken
  <1>4. \A r \in requests : r.of \in Nat /\ r.of < generation'
    BY <1>1 DEF TokenInv, Numbers, RequestsAreOlder
  <1>5. RequestsAreOlder'
    <2>1. CASE requests' = requests
      BY <1>1, <1>4, <2>1 DEF RequestsAreOlder
    <2>2. CASE ~ quit' /\ AsksForToken
      <3>1. requests' = requests \cup
                {[kind |-> "login", of |-> generation', attempt |-> Foreground]}
        BY <2>2 DEF AsksForToken
      <3>2. generation' <= generation'
        BY <1>1
      <3> QED BY <1>1, <1>4, <2>2, <3>1, <3>2 DEF RequestsAreOlder
    <2> QED BY <2>1, <2>2
  <1> QED BY <1>2, <1>3, <1>5 DEF TokenInv

-----------------------------------------------------------------------------
(* The transport                                                         *)

\* The token a connection may send is of the sign-in whose settings were applied.
LEMMA TokenOfApplied ==
    ASSUME TokenInv, TokenForConnection # NoToken
    PROVE  token # NoToken /\ TokenForConnection = token /\ applied = generation /\ sending
           /\ token.of = generation
  BY DEF TokenInv, TokenForConnection, TokenIsOfThisSignIn

LEMMA TokenForConnectionType ==
    ASSUME TokenInv
    PROVE  TokenForConnection \in TokenType
  BY DEF TokenInv, Numbers, TokenForConnection, NoToken, TokenType

\* A swap gives no token of another sign-in.
LEMMA HotSwapKeeps ==
    ASSUME NEW disable \in BOOLEAN, TransportInv, TokenInv', HotSwap(disable),
           disable => ~ sending'
    PROVE  TransportInv'
  <1> DEFINE t == TokenForConnection'
  <1>1. t \in TokenType
    BY DEF TokenInv, Numbers, TokenForConnection, NoToken, TokenType
  <1>2. t # NoToken => t.of = generation' /\ sending'
    BY DEF TokenInv, TokenForConnection, TokenIsOfThisSignIn, NoToken
  <1>3. CASE transport' = transport
    BY <1>3 DEF TransportInv, TransportKeepsItsSignIn
  <1>4. CASE transport' # transport
    <2>1. transport' = [transport EXCEPT !.token = t]
      BY <1>4 DEF HotSwap
    <2>2. transport' \in TransportType /\ transport'.token = t /\ transport'.of = transport.of
      BY <1>1, <2>1 DEF TransportInv, TransportType
    <2>3. t # NoToken => transport.of = generation'
      BY <1>2, <1>4 DEF HotSwap
    <2> QED BY <1>2, <2>2, <2>3 DEF TransportInv, TransportKeepsItsSignIn
  <1> QED BY <1>3, <1>4

LEMMA TransportUntouched ==
    ASSUME TransportInv, transport' = transport
    PROVE  TransportInv'
  BY DEF TransportInv, TransportKeepsItsSignIn

LEMMA TransportIdle ==
    ASSUME transport' = Idle
    PROVE  TransportInv'
  <1>1. Idle \in TransportType
    BY DEF Idle, TransportType, TokenType, NoToken, Kinds
  <1>2. Idle.token = NoToken
    BY DEF Idle
  <1>3. transport' \in TransportType /\ transport'.token = NoToken
    BY <1>1, <1>2
  <1>4. NoToken' = NoToken
    BY DEF NoToken
  <1> QED BY <1>3, <1>4 DEF TransportInv, TransportKeepsItsSignIn, TransportType, TokenType

-----------------------------------------------------------------------------
(* Every step                                                            *)

\* What the user does
LEMMA UserKeeps ==
    ASSUME TokenInv, TransportInv, plan \in Plan, ~ quit, UserActs
    PROVE  TokenInv' /\ TransportInv'
  <1>0. applied \in Nat /\ generation \in Nat /\ 0 \in Nat
    BY DEF TokenInv, Numbers
  <1>1. CASE PressSignIn
    <2>1. transport' = transport /\ quit' = quit
      BY <1>1 DEF PressSignIn
    <2>2. CASE BeginsSignIn
      <3>1. AsksForToken /\ SignedOut /\ issued' = issued /\ applied' = 0
        BY <2>2 DEF BeginsSignIn, AsksForToken
      <3> QED BY <1>0, <2>1, <3>1, TokenDropped, TransportUntouched
    <2>3. CASE RefusesSignIn \/ RefusesPortal
      <3>1. UNCHANGED <<generation, issued, token, requests>> /\ applied' \in Nat
        BY <1>0, <2>3 DEF RefusesSignIn, RefusesPortal, tokenVars
      <3> QED BY <2>1, <3>1, TokenUntouched, TransportUntouched
    <2> QED BY <1>1, <2>2, <2>3 DEF PressSignIn
  <1>2. CASE PressDetect
    <2>1. UNCHANGED <<generation, issued, token, quit, applied, transport>>
      BY <1>2 DEF PressDetect, mainVars
    <2> QED BY <1>2, <2>1, TokenAwaited, TransportUntouched DEF PressDetect, BeginDetect
  <1>3. ASSUME NEW mode, PressApplyUrl(mode) PROVE TokenInv' /\ TransportInv'
    <2>1. UNCHANGED <<generation, issued, token, quit, applied, transport>>
      BY <1>3 DEF PressApplyUrl, mainVars
    <2>2. \/ requests' = requests
          \/ BeginEndpoint(Selection, mode, Superseded(Browsing, Deaf))
      BY <1>3 DEF PressApplyUrl, RefusesEndpoint
    <2>3. CASE requests' = requests
      BY <1>0, <2>1, <2>3, TokenUntouched, TransportUntouched
    <2>4. CASE BeginEndpoint(Selection, mode, Superseded(Browsing, Deaf))
      <3>1. PICK others, call : Awaits(others, call)
        BY <2>4 DEF BeginEndpoint
      <3> QED BY <2>1, <3>1, TokenAwaited, TransportUntouched
    <2> QED BY <2>2, <2>3, <2>4
  <1>4. CASE LoadsItems
    <2>1. UNCHANGED <<generation, issued, token, quit, applied, transport>>
      BY <1>4 DEF LoadsItems, mainVars
    <2>2. requests' = requests \/ \E others, call : Awaits(others, call)
      BY <1>4 DEF LoadsItems, BeginList
    <2> QED BY <1>0, <2>1, <2>2, TokenAwaited, TokenUntouched, TransportUntouched
  <1>5. ASSUME NEW s, PressApply(s) PROVE TokenInv' /\ TransportInv'
    <2>1. UNCHANGED <<generation, issued, token, quit, applied, transport>>
      BY <1>5 DEF PressApply, mainVars
    <2>2. \E others, call : Awaits(others, call)
      BY <1>5 DEF PressApply, BeginDetails
    <2> QED BY <2>1, <2>2, TokenAwaited, TransportUntouched
  <1>6. CASE (\E s \in shown.servers \cup {All} : PressSelect(s)) \/ LoadsNothing \/ TurnsAway
    <2>1. UNCHANGED <<generation, issued, token, quit, applied, requests, transport>>
      BY <1>6 DEF PressSelect, LoadsNothing, TurnsAway, tokenVars, mainVars
    <2> QED BY <1>0, <2>1, TokenUntouched, TransportUntouched
  <1>7. CASE PressTokenOnly
    <2>1. UNCHANGED <<generation, issued, token, quit, requests>> /\ applied' \in Nat
      BY <1>0, <1>7 DEF PressTokenOnly, tokenVars
    <2>2. TokenInv'
      BY <2>1, TokenUntouched
    <2> QED BY <1>7, <2>2, HotSwapKeeps DEF PressTokenOnly
  <1>8. CASE Toggles
    <2>1. UNCHANGED <<generation, issued, token, quit, requests>> /\ applied' \in Nat
      BY <1>0, <1>8 DEF Toggles, tokenVars
    <2>2. TokenInv'
      BY <2>1, TokenUntouched
    <2>3. (~ sending') \in BOOLEAN
      OBVIOUS
    <2> QED BY <1>8, <2>2, <2>3, HotSwapKeeps DEF Toggles
  <1>9. ASSUME NEW kind \in plan.kinds, Connects(kind)
        PROVE  TokenInv' /\ TransportInv'
    <2>0. kind \in Kinds
      BY <1>9 DEF Plan, Kinds
    <2>1. UNCHANGED <<generation, issued, token, quit, applied, requests>>
      BY <1>9 DEF Connects, tokenVars
    <2>2. TokenInv'
      BY <1>0, <2>1, TokenUntouched
    <2> DEFINE t == IF kind = "other" THEN NoToken ELSE TokenForConnection
    <2>3. transport' = [up |-> TRUE, kind |-> kind, of |-> applied, token |-> t]
      BY <1>9 DEF Connects
    <2>4. t \in TokenType
      BY DEF TokenInv, Numbers, TokenForConnection, NoToken, TokenType
    <2>5. t # NoToken => t.of = applied
      BY TokenOfApplied
    <2> QED BY <1>0, <2>0, <2>2, <2>3, <2>4, <2>5 DEF TransportInv, TransportType, TransportKeepsItsSignIn
  <1>10. CASE Disconnects
    <2>1. UNCHANGED <<generation, issued, token, quit, applied, requests>> /\ transport' = Idle
      BY <1>10 DEF Disconnects, tokenVars
    <2> QED BY <1>0, <2>1, TokenUntouched, TransportIdle
  <1>11. CASE Quits
    <2>1. SignedOut /\ UNCHANGED <<issued, applied, requests>> /\ transport' = Idle
      BY <1>11 DEF Quits
    <2>2. TokenInv'
      BY <1>0, <2>1, TokenDropped
    <2> QED BY <2>1, <2>2, TransportIdle
  <1> QED BY <1>1, <1>2, <1>3, <1>4, <1>5, <1>6, <1>7, <1>8, <1>9, <1>10, <1>11 DEF UserActs

\* An operation ends, or asks for the next token.
LEMMA CallKeeps ==
    ASSUME TokenInv, TransportInv, NEW c \in calls, CallEnds(c) \/ NextRequest(c)
    PROVE  TokenInv' /\ TransportInv'
  <1>0. applied \in Nat /\ generation \in Nat
    BY DEF TokenInv, Numbers
  <1>1. CASE LoginEnds(c) \/ DetectEnds(c) \/ EndpointEnds(c) \/ ListEnds(c)
    <2>1. UNCHANGED <<generation, issued, token, quit, applied, requests, transport>>
      BY <1>1 DEF LoginEnds, DetectEnds, EndpointEnds, ListEnds, tokenVars, mainVars
    <2> QED BY <1>0, <2>1, TokenUntouched, TransportUntouched
  <1>2. CASE ApplyEnds(c)
    <2>1. UNCHANGED <<generation, issued, token, quit, requests>> /\ applied' \in Nat
      BY <1>0, <1>2 DEF ApplyEnds, tokenVars
    <2>2. TokenInv'
      BY <2>1, TokenUntouched
    <2>3. HotSwap(FALSE) \/ transport' = transport
      BY <1>2 DEF ApplyEnds
    <2> QED BY <2>2, <2>3, HotSwapKeeps, TransportUntouched
  <1>3. CASE NextRequest(c)
    <2>1. UNCHANGED <<generation, issued, token, quit, applied, transport>>
      BY <1>3 DEF NextRequest, mainVars
    <2>2. \E others, call : Awaits(others, call)
      BY <1>3 DEF NextRequest, RefreshesFirst
    <2> QED BY <2>1, <2>2, TokenAwaited, TransportUntouched
  <1> QED BY <1>1, <1>2, <1>3 DEF CallEnds

LEMMA PortalKeeps ==
    ASSUME TokenInv, TransportInv, NEW r \in requests, PortalAnswers(r)
    PROVE  TokenInv' /\ TransportInv'
  <1>1. TokenInv'
    BY TokenAnswered
  <1>2. HotSwap(FALSE) \/ transport' = transport
    BY DEF PortalAnswers
  <1> QED BY <1>1, <1>2, HotSwapKeeps, TransportUntouched

LoginInv == plan \in Plan /\ TokenInv /\ TransportInv

LEMMA LoginInvInit == Init => LoginInv
  <1> SUFFICES ASSUME Init PROVE LoginInv
    OBVIOUS
  <1>1. plan \in Plan
    BY LoginAssumption DEF Init
  <1>2. TokenInv
    BY DEF Init, TokenInit, TokenInv, Numbers, RequestsAreOlder, TokenIsOfThisSignIn, NoToken, TokenType
  <1>3. Idle \in TransportType
    BY DEF Idle, TransportType, TokenType, NoToken, Kinds
  <1>4. Idle.token = NoToken
    BY DEF Idle
  <1>5. TransportInv
    BY <1>3, <1>4 DEF Init, TransportInv, TransportKeepsItsSignIn
  <1> QED BY <1>1, <1>2, <1>5 DEF LoginInv

LEMMA LoginInvNext == LoginInv /\ [Next]_vars => LoginInv'
  <1> SUFFICES ASSUME LoginInv, [Next]_vars PROVE LoginInv'
    OBVIOUS
  <1>0. plan \in Plan /\ TokenInv /\ TransportInv
    BY DEF LoginInv
  <1>1. plan' \in Plan
    BY <1>0 DEF Next, vars
  <1>2. CASE ~ quit /\ UserActs
    BY <1>0, <1>1, <1>2, UserKeeps DEF LoginInv
  <1>3. CASE ~ quit /\ TimePasses
    <2>1. transport' = transport
      BY <1>3 DEF TimePasses, mainVars
    <2> QED BY <1>0, <1>1, <1>3, <2>1, TokenAged, TransportUntouched DEF LoginInv
  <1>4. CASE \E r \in requests : PortalAnswers(r)
    BY <1>0, <1>1, <1>4, PortalKeeps DEF LoginInv
  <1>5. CASE \E c \in calls : CallEnds(c) \/ NextRequest(c)
    BY <1>0, <1>1, <1>5, CallKeeps DEF LoginInv
  <1>6. CASE UNCHANGED vars
    <2>1. UNCHANGED <<generation, issued, token, quit, applied, requests, transport>>
      BY <1>6 DEF vars, tokenVars, mainVars
    <2>2. applied' \in Nat
      BY <1>0, <2>1 DEF TokenInv, Numbers
    <2> QED BY <1>0, <1>1, <2>1, <2>2, TokenUntouched, TransportUntouched DEF LoginInv
  <1> QED BY <1>2, <1>3, <1>4, <1>5, <1>6 DEF Next

LEMMA LoginInvAlways == Spec => []LoginInv
  BY LoginInvInit, LoginInvNext, PTL DEF Spec

\* The token in use was issued to the sign-in that is current, although answers to earlier
\* sign-ins and refreshes come in at any time (_assertGeneration of TokenManager).
THEOREM TokenOfThisSignIn == Spec => []TokenIsOfThisSignIn
  <1>1. LoginInv => TokenIsOfThisSignIn
    BY DEF LoginInv, TokenInv
  <1> QED BY <1>1, LoginInvAlways, PTL

\* A connection never sends the token of another sign-in than the one its settings were applied
\* under, whatever is toggled, applied, refreshed or signed in while it is up.
THEOREM TransportOfItsSignIn == Spec => []TransportKeepsItsSignIn
  <1>1. LoginInv => TransportKeepsItsSignIn
    BY DEF LoginInv, TransportInv
  <1> QED BY <1>1, LoginInvAlways, PTL

-----------------------------------------------------------------------------
(* The operations under way, g being the generation                      *)

IsCall(c) ==
    c = [op |-> c.op, of |-> c.of, change |-> c.change, revision |-> c.revision,
         targets |-> c.targets, replace |-> c.replace, latest |-> c.latest, heard |-> c.heard,
         stage |-> c.stage]

Calls(g, cs) == \A c \in cs : IsCall(c) /\ c.of \in Nat /\ c.of <= g

\* A sign-in is under way, and whoever is current with it is that sign-in.
Pending(g, cs) == \E c \in cs : c.op = "login" /\ c.of = g
Alone(g, cs) == \A c, d \in cs : c.op = "login" /\ c.of = g /\ d.of = g => d = c

\* d is c with another flag or stage.
Like(d, c) == IsCall(d) /\ d.op = c.op /\ d.of = c.of

LEMMA LikeExcept ==
    ASSUME NEW c, IsCall(c), NEW v
    PROVE  /\ Like([c EXCEPT !.heard = v], c)
           /\ Like([c EXCEPT !.latest = v], c)
           /\ Like([c EXCEPT !.stage = v], c)
  BY DEF IsCall, Like

LEMMA ImageKeeps ==
    ASSUME NEW g \in Nat, NEW cs, NEW f, Calls(g, cs), Alone(g, cs), \A c \in cs : Like(f[c], c)
    PROVE  LET ds == {f[c] : c \in cs}
           IN  Calls(g, ds) /\ Alone(g, ds) /\ (Pending(g, ds) => Pending(g, cs))
  BY DEF Calls, Alone, Pending, Like

LEMMA DeafKeeps ==
    ASSUME generation \in Nat, Calls(generation, calls), Alone(generation, calls)
    PROVE  /\ Calls(generation, Deaf) /\ Alone(generation, Deaf)
           /\ Pending(generation, Deaf) => Pending(generation, calls)
  <1> DEFINE f == [c \in calls |-> [c EXCEPT !.heard = FALSE]]
  <1>1. \A c \in calls : Like(f[c], c)
    BY LikeExcept DEF Calls
  <1>2. Deaf = {f[c] : c \in calls}
    BY DEF Deaf
  <1> HIDE DEF f
  <1> QED BY <1>1, <1>2, ImageKeeps

LEMMA SupersededKeeps ==
    ASSUME NEW g \in Nat, NEW cs, Calls(g, cs), Alone(g, cs), NEW ops
    PROVE  /\ Calls(g, Superseded(ops, cs)) /\ Alone(g, Superseded(ops, cs))
           /\ Pending(g, Superseded(ops, cs)) => Pending(g, cs)
  <1> DEFINE f == [c \in cs |-> IF c.op \in ops THEN [c EXCEPT !.latest = FALSE] ELSE c]
  <1>1. \A c \in cs : Like(f[c], c)
    BY LikeExcept DEF Calls, Like
  <1>2. Superseded(ops, cs) = {f[c] : c \in cs}
    BY DEF Superseded
  <1> HIDE DEF f
  <1> QED BY <1>1, <1>2, ImageKeeps

\* The Portal's answer, or the next request of an operation
LEMMA ResumeKeeps ==
    ASSUME generation \in Nat, Calls(generation, calls), Alone(generation, calls),
           NEW r, NEW ok, Resume(r, ok)
    PROVE  /\ Calls(generation, calls') /\ Alone(generation, calls')
           /\ Pending(generation, calls') => Pending(generation, calls)
  <1> DEFINE f == [c \in calls |->
                    IF Waits(c, r)
                    THEN [c EXCEPT !.stage = IF ok THEN "answer"
                                             ELSE IF c.stage = "sign-in" THEN "no token" ELSE "denied"]
                    ELSE c]
  <1>1. ASSUME NEW c \in calls PROVE Like(f[c], c)
    <2> DEFINE v == IF ok THEN "answer" ELSE IF c.stage = "sign-in" THEN "no token" ELSE "denied"
    <2>1. IsCall(c)
      BY DEF Calls
    <2>2. Like([c EXCEPT !.stage = v], c)
      <3> HIDE DEF v
      <3> QED BY <2>1, LikeExcept
    <2>3. f[c] = IF Waits(c, r) THEN [c EXCEPT !.stage = v] ELSE c
      OBVIOUS
    <2>4. Like(c, c)
      BY <2>1 DEF Like
    <2> HIDE DEF f, v
    <2> QED BY <2>2, <2>3, <2>4
  <1>2. calls' = {f[c] : c \in calls}
    BY DEF Resume
  <1> HIDE DEF f
  <1> QED BY <1>1, <1>2, ImageKeeps

LEMMA AgainKeeps ==
    ASSUME generation \in Nat, Calls(generation, calls), Alone(generation, calls),
           NEW c \in calls, Awaits(calls \ {c}, c)
    PROVE  /\ Calls(generation, calls') /\ Alone(generation, calls')
           /\ Pending(generation, calls') => Pending(generation, calls)
  <1> DEFINE d == [c EXCEPT !.stage = IF lapsed THEN "refresh" ELSE "answer"]
             f == [x \in calls |-> IF x = c THEN d ELSE x]
  <1>1. \A x \in calls : Like(f[x], x)
    <2>1. IsCall(c)
      BY DEF Calls
    <2>2. Like(d, c)
      BY <2>1, LikeExcept
    <2> QED BY <2>2 DEF Calls, Like
  <1>2. calls' = (calls \ {c}) \cup {d}
    BY DEF Awaits
  <1>3. calls' = {f[x] : x \in calls}
    BY <1>2
  <1> HIDE DEF f
  <1> QED BY <1>1, <1>3, ImageKeeps

\* A new operation of the dialog begins when no sign-in is under way.
LEMMA BeginsKeeps ==
    ASSUME NEW g \in Nat, NEW others, Calls(g, others), ~ Pending(g, others),
           NEW call, IsCall(call), call.of = g, call.op # "login", Awaits(others, call)
    PROVE  Calls(g, calls') /\ Alone(g, calls') /\ ~ Pending(g, calls')
  <1> DEFINE d == [call EXCEPT !.stage = IF lapsed THEN "refresh" ELSE "answer"]
  <1>1. Like(d, call)
    BY LikeExcept
  <1>2. calls' = others \cup {d}
    BY DEF Awaits
  <1>3. g <= g
    OBVIOUS
  <1> HIDE DEF d
  <1> QED BY <1>1, <1>2, <1>3 DEF Calls, Alone, Pending, Like

\* An operation ends: the sign-in under way does with its only operation.
LEMMA EndsKeeps ==
    ASSUME NEW g \in Nat, Calls(g, calls), Alone(g, calls), NEW c \in calls, Ends(c)
    PROVE  /\ Calls(g, calls') /\ Alone(g, calls')
           /\ Pending(g, calls') => Pending(g, calls)
           /\ Pending(g, calls) /\ c.of = g => ~ Pending(g, calls') /\ c.op = "login"
  BY DEF Ends, Calls, Alone, Pending

-----------------------------------------------------------------------------
(* The servers                                                           *)

ContextType == [of : Nat, change : Nat]

\* A context is of a change that was counted.
ContextsInv ==
    \A s \in DOMAIN servers : servers[s] \in ContextType /\ servers[s].change <= change

\* While a sign-in is under way there are no servers, and the dialog shows none.
PendingInv ==
    /\ Calls(generation, calls) /\ Alone(generation, calls)
    /\ Pending(generation, calls) => servers = NoServers /\ selected = All /\ shown = NoSession

SessionInv ==
    /\ generation \in Nat /\ change \in Nat
    /\ PendingInv
    /\ ContextsInv /\ ContextsAreCurrent
    /\ SelectionIsRegistered

\* What leaves the servers alone and begins no sign-in keeps the invariant.
LEMMA SessionUntouched ==
    ASSUME SessionInv, UNCHANGED <<generation, servers, selected>>,
           change' \in Nat, change <= change',
           Calls(generation, calls'), Alone(generation, calls'),
           Pending(generation, calls') => Pending(generation, calls),
           shown' = shown \/ shown' = NoSession \/ ~ Pending(generation, calls')
    PROVE  SessionInv'
  <1>1. PendingInv'
    BY DEF SessionInv, PendingInv, Pending, Calls, Alone, NoServers, Unvalidated, NoSession
  <1>2. ContextsInv'
    <2> SUFFICES ASSUME NEW s \in DOMAIN servers
                 PROVE  servers[s] \in ContextType /\ servers[s].change <= change'
      BY DEF ContextsInv, ContextType
    <2>1. servers[s] \in ContextType /\ servers[s].change <= change
      BY DEF SessionInv, ContextsInv
    <2> QED BY <2>1 DEF SessionInv, ContextType
  <1>3. ContextsAreCurrent' /\ SelectionIsRegistered'
    BY DEF SessionInv, ContextsAreCurrent, SelectionIsRegistered, Unvalidated
  <1> QED BY <1>1, <1>2, <1>3 DEF SessionInv

\* An operation of this sign-in begins.
Begun(call, op) == IsCall(call) /\ call.of = generation /\ call.op = op

LEMMA BegunExcept ==
    ASSUME NEW op, NEW k, Begun(k, op), NEW n, NEW m
    PROVE  /\ Begun([k EXCEPT !.revision = n], op)
           /\ Begun([k EXCEPT !.change = n, !.replace = m], op)
  <1>1. Begun([k EXCEPT !.revision = n], op)
    BY DEF IsCall, Begun
  <1> DEFINE j == [k EXCEPT !.change = n]
  <1>2. Begun(j, op)
    BY DEF IsCall, Begun
  <1>3. Begun([j EXCEPT !.replace = m], op)
    <2> HIDE DEF j
    <2> QED BY <1>2 DEF IsCall, Begun
  <1>4. [j EXCEPT !.replace = m] = [k EXCEPT !.change = n, !.replace = m]
    BY DEF IsCall, Begun
  <1> QED BY <1>1, <1>3, <1>4

LEMMA CallBegins ==
    ASSUME NEW op, NEW targets, NEW n, NEW m
    PROVE  /\ Begun(Call(op, targets), op)
           /\ Begun([Call(op, targets) EXCEPT !.revision = n], op)
           /\ Begun([Call(op, targets) EXCEPT !.change = n, !.replace = m], op)
  <1>1. Begun(Call(op, targets), op)
    BY DEF Call, IsCall, Begun
  <1> QED BY <1>1, BegunExcept

\* So does an operation of the dialog that awaits an answer: it begins with a session shown.
LEMMA SessionAwaits ==
    ASSUME SessionInv, UNCHANGED <<generation, servers, selected, shown>>,
           change' \in Nat, change <= change',
           NEW others, Calls(generation, others), ~ Pending(generation, others),
           NEW op, op # "login", NEW call, Begun(call, op), Awaits(others, call)
    PROVE  SessionInv'
  <1>1. Calls(generation, calls') /\ Alone(generation, calls') /\ ~ Pending(generation, calls')
    BY BeginsKeeps DEF SessionInv, Begun
  <1> QED BY <1>1, SessionUntouched

\* And what replaces the servers when no sign-in is under way, or ends it.
LEMMA SessionReplaced ==
    ASSUME SessionInv, UNCHANGED <<generation, change>>,
           Calls(generation, calls'), Alone(generation, calls'), ~ Pending(generation, calls'),
           \A s \in DOMAIN servers' : \/ servers'[s] = [of |-> generation, change |-> change]
                                      \/ servers'[s] = Unvalidated
                                      \/ s \in DOMAIN servers /\ servers'[s] = servers[s],
           selected' = All \/ selected' \in DOMAIN servers'
    PROVE  SessionInv'
  <1>1. PendingInv'
    BY DEF PendingInv, Pending, Calls, Alone
  <1>2. ContextsInv' /\ ContextsAreCurrent'
    <2> SUFFICES ASSUME NEW s \in DOMAIN servers'
                 PROVE  /\ servers'[s] \in ContextType /\ servers'[s].change <= change
                        /\ servers'[s] = Unvalidated \/ servers'[s].of = generation
      BY DEF ContextsInv, ContextsAreCurrent, ContextType, Unvalidated
    <2>0. generation \in Nat /\ change \in Nat /\ change <= change /\ 0 <= change /\ 0 \in Nat
      BY DEF SessionInv
    <2>1. CASE servers'[s] = [of |-> generation, change |-> change]
      BY <2>0, <2>1 DEF ContextType
    <2>2. CASE servers'[s] = Unvalidated
      BY <2>0, <2>2 DEF ContextType, Unvalidated
    <2>3. CASE s \in DOMAIN servers /\ servers'[s] = servers[s]
      BY <2>3 DEF SessionInv, ContextsInv, ContextsAreCurrent
    <2> QED BY <2>1, <2>2, <2>3
  <1>3. SelectionIsRegistered'
    BY DEF SelectionIsRegistered
  <1> QED BY <1>1, <1>2, <1>3 DEF SessionInv

\* A sign-in or a sign-out: every operation under way is of an earlier one.
LEMMA SessionReset ==
    ASSUME SessionInv, generation' = generation + 1, Reset, shown' = NoSession,
           NEW old, Calls(generation, old),
           \/ calls' = old
           \/ \E c : calls' = old \cup {c} /\ IsCall(c) /\ c.of = generation'
    PROVE  SessionInv'
  <1>1. generation' \in Nat /\ generation < generation' /\ generation' <= generation' /\ change' \in Nat
    BY DEF SessionInv, Reset
  <1>2. \A c \in old : IsCall(c) /\ c.of \in Nat /\ c.of < generation'
    BY <1>1 DEF Calls, SessionInv
  <1>3. Calls(generation', calls') /\ Alone(generation', calls')
    BY <1>1, <1>2 DEF Calls, Alone
  <1>4. servers' = NoServers /\ selected' = All /\ DOMAIN servers' = {}
    BY DEF Reset, NoServers
  <1>5. PendingInv'
    BY <1>3, <1>4 DEF PendingInv, Calls, Alone, NoServers, Unvalidated, NoSession
  <1>6. ContextsInv' /\ ContextsAreCurrent' /\ SelectionIsRegistered'
    BY <1>4 DEF ContextsInv, ContextsAreCurrent, SelectionIsRegistered
  <1> QED BY <1>1, <1>5, <1>6 DEF SessionInv

\* The operations left when the dialog begins to list feeds
Others == {IF c.op = "list" THEN [c EXCEPT !.heard = FALSE] ELSE c : c \in calls}

LEMMA OthersKeep ==
    ASSUME generation \in Nat, Calls(generation, calls), Alone(generation, calls)
    PROVE  /\ Calls(generation, Others) /\ Alone(generation, Others)
           /\ Pending(generation, Others) => Pending(generation, calls)
  <1> DEFINE f == [c \in calls |-> IF c.op = "list" THEN [c EXCEPT !.heard = FALSE] ELSE c]
  <1>1. \A c \in calls : Like(f[c], c)
    BY LikeExcept DEF Calls, Like
  <1>2. Others = {f[c] : c \in calls}
    BY DEF Others
  <1> HIDE DEF f
  <1> QED BY <1>1, <1>2, ImageKeeps

\* What the dialog leaves of the operations under way
LEMMA LeftKeep ==
    ASSUME generation \in Nat, Calls(generation, calls), Alone(generation, calls), NEW ops
    PROVE  \A left \in {Deaf, Superseded(ops, calls), Superseded(ops, Deaf)} :
              /\ Calls(generation, left) /\ Alone(generation, left)
              /\ Pending(generation, left) => Pending(generation, calls)
  <1>1. /\ Calls(generation, Deaf) /\ Alone(generation, Deaf)
        /\ Pending(generation, Deaf) => Pending(generation, calls)
    BY DeafKeeps
  <1>2. /\ Calls(generation, Superseded(ops, calls)) /\ Alone(generation, Superseded(ops, calls))
        /\ Pending(generation, Superseded(ops, calls)) => Pending(generation, calls)
    BY SupersededKeeps
  <1>3. /\ Calls(generation, Superseded(ops, Deaf)) /\ Alone(generation, Superseded(ops, Deaf))
        /\ Pending(generation, Superseded(ops, Deaf)) => Pending(generation, Deaf)
    BY <1>1, SupersededKeeps
  <1> QED BY <1>1, <1>2, <1>3

\* What the user does
LEMMA SessionSignIn ==
    ASSUME SessionInv, PressSignIn
    PROVE  SessionInv'
  <1>0. /\ generation \in Nat /\ change \in Nat /\ change <= change
        /\ Calls(generation, calls) /\ Alone(generation, calls)
    BY DEF SessionInv, PendingInv
  <1>1. shown' = NoSession
    BY DEF PressSignIn
  <1>2. CASE BeginsSignIn
    <2> DEFINE old == Superseded({"detect"} \cup Browsing, Deaf)
               call == [Call("login", {}) EXCEPT !.of = generation', !.change = change',
                                                 !.stage = "sign-in"]
    <2>1. Reset /\ calls' = old \cup {call} /\ generation' = generation + 1
      BY <1>2 DEF BeginsSignIn, BeginLogin, AsksForToken, SignedOut
    <2>2. Calls(generation, old)
      BY <1>0, LeftKeep
    <2>3. IsCall(call) /\ call.of = generation'
      <3> DEFINE k == Call("login", {})
      <3>1. IsCall(k)
        BY DEF Call, IsCall
      <3>2. call = [k EXCEPT !.of = generation', !.change = change', !.stage = "sign-in"]
        OBVIOUS
      <3> HIDE DEF k, call
      <3> QED BY <3>1, <3>2 DEF IsCall
    <2> HIDE DEF old, call
    <2> QED BY <1>1, <2>1, <2>2, <2>3, SessionReset
  <1>3. CASE RefusesSignIn \/ RefusesPortal
    <2>1. UNCHANGED <<generation, change, servers, selected>>
      BY <1>3 DEF RefusesSignIn, RefusesPortal, tokenVars
    <2>2. calls' \in {Deaf, Superseded(Browsing, calls), Superseded(Browsing, Deaf)}
      BY <1>3 DEF RefusesSignIn, RefusesPortal
    <2>3. /\ Calls(generation, calls') /\ Alone(generation, calls')
          /\ Pending(generation, calls') => Pending(generation, calls)
      BY <1>0, <2>2, LeftKeep
    <2> QED BY <1>0, <1>1, <2>1, <2>3, SessionUntouched
  <1> QED BY <1>2, <1>3 DEF PressSignIn

LEMMA SessionAsked ==
    ASSUME SessionInv, shown # NoSession,
           \/ PressDetect
           \/ \E mode : PressApplyUrl(mode)
           \/ LoadsItems
           \/ \E s : PressApply(s)
    PROVE  SessionInv'
  <1>0. /\ generation \in Nat /\ change \in Nat /\ change <= change /\ change + 1 \in Nat
        /\ change <= change + 1
        /\ Calls(generation, calls) /\ Alone(generation, calls) /\ ~ Pending(generation, calls)
    BY DEF SessionInv, PendingInv
  <1>1. CASE PressDetect
    <2>1. UNCHANGED <<generation, change, servers, selected, shown>>
      BY <1>1 DEF PressDetect
    <2>2. Awaits(Superseded({"detect"}, calls), Call("detect", {}))
      BY <1>1 DEF PressDetect, BeginDetect
    <2>3. /\ Calls(generation, Superseded({"detect"}, calls))
          /\ ~ Pending(generation, Superseded({"detect"}, calls))
      BY <1>0, LeftKeep
    <2>4. Begun(Call("detect", {}), "detect")
      BY CallBegins
    <2> QED BY <1>0, <2>1, <2>2, <2>3, <2>4, SessionAwaits
  <1>2. ASSUME NEW mode, PressApplyUrl(mode) PROVE SessionInv'
    <2>1. UNCHANGED <<generation, servers, selected, shown>>
      BY <1>2 DEF PressApplyUrl
    <2>2. /\ Calls(generation, Superseded(Browsing, Deaf)) /\ Calls(generation, Deaf)
          /\ Alone(generation, Superseded(Browsing, Deaf)) /\ Alone(generation, Deaf)
          /\ ~ Pending(generation, Superseded(Browsing, Deaf)) /\ ~ Pending(generation, Deaf)
      BY <1>0, LeftKeep
    <2>3. CASE BeginEndpoint(Selection, mode, Superseded(Browsing, Deaf))
      <3> DEFINE t == Targets(Selection, mode)
                 call == [Call("endpoint", t.targets) EXCEPT !.change = change', !.replace = t.replace]
      <3>1. change' = change + 1 /\ Awaits(Superseded(Browsing, Deaf), call)
        BY <2>3 DEF BeginEndpoint
      <3>2. Begun(call, "endpoint")
        BY CallBegins
      <3> HIDE DEF call
      <3> QED BY <1>0, <2>1, <2>2, <3>1, <3>2, SessionAwaits
    <2>4. CASE ~ BeginEndpoint(Selection, mode, Superseded(Browsing, Deaf))
      <3>1. change' \in {change, change + 1} /\ calls' \in {Deaf, Superseded(Browsing, Deaf)}
        BY <1>2, <2>4 DEF PressApplyUrl, RefusesEndpoint
      <3> QED BY <1>0, <2>1, <2>2, <3>1, SessionUntouched
    <2> QED BY <2>3, <2>4
  <1>3. CASE LoadsItems
    <2> DEFINE asked == IF shown.selected = All THEN DOMAIN servers
                        ELSE {shown.selected} \cap DOMAIN servers
               call == [Call("list", asked) EXCEPT !.revision = revision]
    <2>1. UNCHANGED <<generation, change, servers, selected, shown>>
      BY <1>3 DEF LoadsItems
    <2>2. Calls(generation, Others) /\ Alone(generation, Others) /\ ~ Pending(generation, Others)
      BY <1>0, OthersKeep
    <2>3. calls' = Others \/ Awaits(Superseded(Browsing, Others), call)
      BY <1>3 DEF LoadsItems, BeginList, Others
    <2>4. Begun(call, "list")
      BY CallBegins
    <2> HIDE DEF call
    <2>5. /\ Calls(generation, Superseded(Browsing, Others))
          /\ ~ Pending(generation, Superseded(Browsing, Others))
      BY <1>0, <2>2, SupersededKeeps
    <2> QED BY <1>0, <2>1, <2>2, <2>3, <2>4, <2>5, SessionAwaits, SessionUntouched
  <1>4. ASSUME NEW s, PressApply(s) PROVE SessionInv'
    <2> DEFINE call == [Call("apply", {s}) EXCEPT !.revision = revision]
    <2>1. UNCHANGED <<generation, change, servers, selected, shown>>
      BY <1>4 DEF PressApply
    <2>2. Awaits(calls, call)
      BY <1>4 DEF PressApply, BeginDetails
    <2>3. Begun(call, "apply")
      BY CallBegins
    <2> HIDE DEF call
    <2> QED BY <1>0, <2>1, <2>2, <2>3, SessionAwaits
  <1> QED BY <1>1, <1>2, <1>3, <1>4

LEMMA SessionUser ==
    ASSUME SessionInv, UserActs
    PROVE  SessionInv'
  <1>0. /\ generation \in Nat /\ change \in Nat /\ change <= change
        /\ Calls(generation, calls) /\ Alone(generation, calls)
    BY DEF SessionInv, PendingInv
  <1>1. CASE PressDetect \/ (\E mode : PressApplyUrl(mode)) \/ LoadsItems \/ \E s : PressApply(s)
    <2>1. shown # NoSession
      BY <1>1 DEF PressDetect, PressApplyUrl, LoadsItems, PressApply, CanAsk, CanBrowse
    <2> QED BY <1>1, <2>1, SessionAsked
  <1>2. ASSUME NEW s, PressSelect(s) PROVE SessionInv'
    <2>1. UNCHANGED <<generation, change, servers>> /\ shown # NoSession
      BY <1>2 DEF PressSelect, tokenVars
    <2>2. ~ Pending(generation, calls)
      BY <2>1 DEF SessionInv, PendingInv
    <2>3. calls' \in {Deaf, Superseded(Browsing, calls), Superseded(Browsing, Deaf)}
      BY <1>2 DEF PressSelect
    <2>4. Calls(generation, calls') /\ Alone(generation, calls') /\ ~ Pending(generation, calls')
      BY <1>0, <2>2, <2>3, LeftKeep
    <2>5. selected' = All \/ selected' \in DOMAIN servers'
      BY <1>2, <2>1 DEF PressSelect, SessionInv, SelectionIsRegistered
    <2> QED BY <2>1, <2>4, <2>5, SessionReplaced
  <1>3. CASE LoadsNothing \/ PressTokenOnly \/ Toggles \/ (\E kind : Connects(kind)) \/ Disconnects
    <2>1. UNCHANGED <<generation, change, servers, selected, shown, calls>>
      BY <1>3 DEF LoadsNothing, PressTokenOnly, Toggles, Connects, Disconnects, tokenVars,
                  sessionVars, dialogVars
    <2> QED BY <1>0, <2>1, SessionUntouched
  <1>4. CASE TurnsAway
    <2>1. UNCHANGED <<generation, change, servers, selected>> /\ shown' \in {shown, NoSession}
          /\ calls' = Deaf
      BY <1>4 DEF TurnsAway, Edits, Closes, tokenVars
    <2>2. /\ Calls(generation, calls') /\ Alone(generation, calls')
          /\ Pending(generation, calls') => Pending(generation, calls)
      BY <1>0, <2>1, DeafKeeps
    <2> QED BY <1>0, <2>1, <2>2, SessionUntouched
  <1>5. CASE Quits
    <2>1. /\ generation' = generation + 1 /\ Reset /\ shown' = NoSession
          /\ calls' = Superseded({"detect"}, Deaf)
      BY <1>5 DEF Quits, SignedOut
    <2>2. Calls(generation, calls')
      BY <1>0, <2>1, LeftKeep
    <2> QED BY <2>1, <2>2, SessionReset
  <1> QED BY <1>1, <1>2, <1>3, <1>4, <1>5, SessionSignIn DEF UserActs

\* The answer of an operation: while a sign-in is under way only its own answer is current.
LEMMA SessionEnds ==
    ASSUME SessionInv, NEW c \in calls, CallEnds(c)
    PROVE  SessionInv'
  <1>0. /\ generation \in Nat /\ change \in Nat /\ change <= change
        /\ Calls(generation, calls) /\ Alone(generation, calls)
    BY DEF SessionInv, PendingInv
  <1>1. UNCHANGED <<generation, change>> /\ Ends(c)
    BY DEF CallEnds, LoginEnds, DetectEnds, EndpointEnds, ListEnds, ApplyEnds, tokenVars
  <1>2. /\ Calls(generation, calls') /\ Alone(generation, calls')
        /\ Pending(generation, calls') => Pending(generation, calls)
        /\ c.of = generation => ~ Pending(generation, calls')
        /\ c.of = generation /\ c.op # "login" => ~ Pending(generation, calls)
    BY <1>0, <1>1, EndsKeeps
  <1>3. CASE UNCHANGED <<servers, selected>> /\ (shown' = shown \/ c.of = generation)
    BY <1>0, <1>1, <1>2, <1>3, SessionUntouched
  <1>4. CASE LoginEnds(c) /\ (LoginFinds(c) \/ LoginRefusesAll(c))
    <2>1. c.op = "login" /\ c.of = generation /\ c.change = change
      BY <1>4 DEF LoginEnds, LoginFinds, LoginRefusesAll, Answered, Current
    <2>2. selected = All
      BY <2>1 DEF SessionInv, PendingInv, Pending
    <2>3. \A s \in DOMAIN servers' : \/ servers'[s] = [of |-> generation, change |-> change]
                                     \/ servers'[s] = Unvalidated
      BY <1>4, <2>1 DEF LoginFinds, LoginRefusesAll
    <2>4. selected' = All \/ selected' \in DOMAIN servers'
      BY <1>4, <2>2 DEF LoginFinds, LoginRefusesAll
    <2> QED BY <1>1, <1>2, <2>1, <2>3, <2>4, SessionReplaced
  <1>5. CASE DetectEnds(c) /\ DetectFinds(c) /\ servers' # servers
    <2>1. c.of = generation /\ selected' = selected /\ servers = NoServers
      BY <1>5 DEF DetectEnds, DetectFinds, Answered, Current
    <2>2. selected' = All
      BY <2>1 DEF SessionInv, SelectionIsRegistered, NoServers
    <2>3. \A s \in DOMAIN servers' : servers'[s] = Unvalidated
      BY <1>5, <2>1 DEF DetectFinds
    <2> QED BY <1>1, <1>2, <2>1, <2>2, <2>3, SessionReplaced
  <1>6. CASE EndpointEnds(c) /\ EndpointApplies(c)
    <2>1. c.of = generation /\ c.change = change
      BY <1>6 DEF EndpointApplies, Answered, Current
    <2>2. \A s \in DOMAIN servers' : \/ servers'[s] = [of |-> generation, change |-> change]
                                     \/ s \in DOMAIN servers /\ servers'[s] = servers[s]
      BY <1>6, <2>1 DEF EndpointApplies
    <2>3. selected' = All \/ selected' \in DOMAIN servers'
      BY <1>6 DEF EndpointApplies, SessionInv, SelectionIsRegistered
    <2> QED BY <1>1, <1>2, <2>1, <2>2, <2>3, SessionReplaced
  <1>7. CASE LoginEnds(c)
    BY <1>3, <1>4, <1>7 DEF LoginEnds, Current
  <1>8. CASE DetectEnds(c)
    BY <1>3, <1>5, <1>8 DEF DetectEnds
  <1>9. CASE EndpointEnds(c)
    BY <1>3, <1>6, <1>9 DEF EndpointEnds
  <1>10. CASE ListEnds(c) \/ ApplyEnds(c)
    BY <1>3, <1>10 DEF ListEnds, ApplyEnds
  <1> QED BY <1>7, <1>8, <1>9, <1>10 DEF CallEnds

LEMMA SessionInvInit == Init => SessionInv
  <1> SUFFICES ASSUME Init PROVE SessionInv
    OBVIOUS
  <1>1. generation = 0 /\ change = 0 /\ calls = {} /\ servers = NoServers /\ selected = All
    BY DEF Init, TokenInit, SessionInit
  <1>2. PendingInv
    BY <1>1 DEF PendingInv, Pending, Calls, Alone
  <1>3. DOMAIN servers = {}
    BY <1>1 DEF NoServers
  <1> QED BY <1>1, <1>2, <1>3 DEF SessionInv, ContextsInv, ContextsAreCurrent, SelectionIsRegistered

LEMMA SessionInvNext == SessionInv /\ [Next]_vars => SessionInv'
  <1> SUFFICES ASSUME SessionInv, [Next]_vars PROVE SessionInv'
    OBVIOUS
  <1>0. /\ generation \in Nat /\ change \in Nat /\ change <= change
        /\ Calls(generation, calls) /\ Alone(generation, calls)
    BY DEF SessionInv, PendingInv
  <1>1. CASE TimePasses \/ UNCHANGED vars
    <2>1. UNCHANGED <<generation, change, servers, selected, shown, calls>>
      BY <1>1 DEF TimePasses, Lapses, TimerFires, vars, tokenVars, sessionVars, dialogVars
    <2> QED BY <1>0, <2>1, SessionUntouched
  <1>2. ASSUME NEW r, PortalAnswers(r) PROVE SessionInv'
    <2>1. UNCHANGED <<generation, change, servers, selected, shown>>
      BY <1>2 DEF PortalAnswers, Issues, Denies, dialogVars
    <2>2. Resume(r, TRUE) \/ Resume(r, FALSE)
      BY <1>2 DEF PortalAnswers
    <2>3. /\ Calls(generation, calls') /\ Alone(generation, calls')
          /\ Pending(generation, calls') => Pending(generation, calls)
      BY <1>0, <2>2, ResumeKeeps
    <2> QED BY <1>0, <2>1, <2>3, SessionUntouched
  <1>3. ASSUME NEW c \in calls, NextRequest(c) PROVE SessionInv'
    <2>1. UNCHANGED <<generation, change, servers, selected, shown>>
      BY <1>3 DEF NextRequest, dialogVars
    <2>2. Awaits(calls \ {c}, c)
      BY <1>3 DEF NextRequest, RefreshesFirst
    <2>3. /\ Calls(generation, calls') /\ Alone(generation, calls')
          /\ Pending(generation, calls') => Pending(generation, calls)
      BY <1>0, <2>2, AgainKeeps
    <2> QED BY <1>0, <2>1, <2>3, SessionUntouched
  <1> QED BY <1>1, <1>2, <1>3, SessionUser, SessionEnds DEF Next

LEMMA SessionInvAlways == Spec => []SessionInv
  BY SessionInvInit, SessionInvNext, PTL DEF Spec

\* No answer of a sign-in that is over gives a server an address: what a server's address was
\* validated under is the current sign-in (_assertCurrent of VelocitySession).
THEOREM ContextsOfThisSignIn == Spec => []ContextsAreCurrent
  <1>1. SessionInv => ContextsAreCurrent
    BY DEF SessionInv
  <1> QED BY <1>1, SessionInvAlways, PTL

\* The server selected is registered, whichever operation replaces the servers and whenever it
\* is answered (login, detect and setEndpoint of VelocitySession).
THEOREM SelectedIsRegistered == Spec => []SelectionIsRegistered
  <1>1. SessionInv => SelectionIsRegistered
    BY DEF SessionInv
  <1> QED BY <1>1, SessionInvAlways, PTL

\* Tokens and the connections that send them belong to one sign-in each, however sign-ins,
\* refreshes, sign-outs, toggles and connects overlap (fetchToken and applyToken of
\* VelocityTokenManager, main.js 'token').
THEOREM TokensOfTheirSignIn == Spec => []TokensKeepTheirSignIn
  <1>1. TokenIsOfThisSignIn /\ TransportKeepsItsSignIn => TokensKeepTheirSignIn
    BY DEF TokensKeepTheirSignIn
  <1> QED BY <1>1, TokenOfThisSignIn, TransportOfItsSignIn, PTL

\* The servers offered are those of the current sign-in and the selected one is among them,
\* whichever answers come late (login, detect, setEndpoint and logout of VelocitySession).
THEOREM ServersOfThisSignIn == Spec => []ServersAreCurrent
  <1>1. ContextsAreCurrent /\ SelectionIsRegistered => ServersAreCurrent
    BY DEF ServersAreCurrent
  <1> QED BY <1>1, ContextsOfThisSignIn, SelectedIsRegistered, PTL

-----------------------------------------------------------------------------
(* The order of endpoint changes                                         *)

NewestStep ==
    \A s \in DOMAIN servers \cap DOMAIN servers' :
        generation' = generation => servers'[s].change >= servers[s].change

\* Only the change counted last, a detection that finds no servers, a sign-in or a sign-out
\* touches the servers.
LEMMA ServersChange ==
    ASSUME SessionInv, [Next]_vars, servers' # servers
    PROVE  \/ DOMAIN servers = {}
           \/ DOMAIN servers' = {}
           \/ \A s \in DOMAIN servers \cap DOMAIN servers' :
                 servers'[s] = servers[s] \/ servers'[s].change = change
  <1>1. CASE UserActs
    <2>1. Reset
      BY <1>1 DEF UserActs, PressSignIn, BeginsSignIn, BeginLogin, RefusesSignIn, RefusesPortal,
                  PressDetect, PressApplyUrl, PressSelect, LoadsItems, LoadsNothing, PressApply,
                  PressTokenOnly, TurnsAway, Toggles, Connects, Disconnects, Quits, sessionVars
    <2> QED BY <2>1 DEF Reset, NoServers
  <1>2. CASE TimePasses \/ UNCHANGED vars \/ (\E r \in requests : PortalAnswers(r))
    BY <1>2 DEF TimePasses, PortalAnswers, vars, sessionVars
  <1>3. ASSUME NEW c \in calls, CallEnds(c) \/ NextRequest(c)
        PROVE  \/ DOMAIN servers = {}
               \/ \A s \in DOMAIN servers \cap DOMAIN servers' :
                     servers'[s] = servers[s] \/ servers'[s].change = change
    <2>1. \/ LoginEnds(c) /\ (LoginFinds(c) \/ LoginRefusesAll(c))
          \/ DetectFinds(c)
          \/ EndpointApplies(c)
      BY <1>3 DEF CallEnds, NextRequest, LoginEnds, DetectEnds, EndpointEnds, ListEnds, ApplyEnds
    <2>2. CASE LoginEnds(c) /\ (LoginFinds(c) \/ LoginRefusesAll(c))
      <3>1. c.op = "login" /\ c.of = generation
        BY <2>2 DEF LoginEnds, LoginFinds, LoginRefusesAll, Answered, Current
      <3>2. servers = NoServers
        BY <3>1 DEF SessionInv, PendingInv, Pending
      <3> QED BY <3>2 DEF NoServers
    <2>3. CASE DetectFinds(c)
      BY <2>3 DEF DetectFinds, NoServers
    <2>4. CASE EndpointApplies(c)
      <3>1. c.change = change
        BY <2>4 DEF EndpointApplies
      <3> QED BY <2>4, <3>1 DEF EndpointApplies
    <2> QED BY <2>1, <2>2, <2>3, <2>4
  <1> QED BY <1>1, <1>2, <1>3 DEF Next

LEMMA NewestNext == SessionInv /\ [Next]_vars => NewestStep
  <1> SUFFICES ASSUME SessionInv, [Next]_vars,
                      NEW s \in DOMAIN servers \cap DOMAIN servers'
               PROVE  servers'[s].change >= servers[s].change
    BY DEF NewestStep
  <1>1. servers[s].change \in Nat /\ servers[s].change <= change /\ change \in Nat
    BY DEF SessionInv, ContextsInv, ContextType
  <1>2. servers'[s] = servers[s] \/ servers'[s].change = change
    BY ServersChange
  <1> QED BY <1>1, <1>2

\* Of two endpoint changes that overlap the later one wins, whatever the order of their
\* answers (_endpointGeneration of VelocitySession).
THEOREM LaterChangeWins == Spec => NewestChangeWins
  <1>1. SessionInv /\ [Next]_vars => [NewestStep]_vars
    BY NewestNext
  <1> QED BY <1>1, SessionInvAlways, PTL DEF Spec, NewestChangeWins, NewestStep

-----------------------------------------------------------------------------
(* What is applied, and what the connection that is up sends             *)

\* A client that sends a token of this sign-in was given it by the settings applied, or
\* sending was turned off for it by a sign-in that was refused.
SwapInv ==
    /\ applied <= generation /\ transport.of <= generation
    /\ transport.kind = "client" /\ transport.token # NoToken /\ transport.of = generation
           => applied = generation \/ (~ sending /\ ~ loginPending)

LEMMA HotSwapFacts ==
    ASSUME NEW disable \in BOOLEAN, TransportInv, HotSwap(disable)
    PROVE  /\ transport'.of = transport.of /\ transport'.kind = transport.kind
           /\ IF /\ transport.kind = "client"
                 /\ disable \/ (~ loginPending' /\ transport.of = generation')
              THEN transport'.token = TokenForConnection'
              ELSE transport'.token = transport.token
  <1>1. transport \in TransportType
    BY DEF TransportInv
  <1>2. transport' = transport \/ transport' = [transport EXCEPT !.token = TokenForConnection']
    BY DEF HotSwap
  <1> QED BY <1>1, <1>2 DEF HotSwap, TransportType

LEMMA SwapUntouched ==
    ASSUME SwapInv, UNCHANGED <<generation, applied, transport, sending>>,
           loginPending' = loginPending \/ ~ loginPending'
    PROVE  SwapInv'
  BY DEF SwapInv, NoToken

\* Settings are applied, or the token is turned on or off.
LEMMA SwapApplied ==
    ASSUME LoginInv, SwapInv, generation' = generation, loginPending' = loginPending,
           NEW disable \in BOOLEAN, HotSwap(disable), disable <=> ~ sending',
           applied' = generation \/ (applied' = applied /\ (sending' /\ ~ sending => transport.up))
    PROVE  SwapInv'
  <1>1. /\ generation \in Nat /\ applied \in Nat /\ TransportInv /\ generation <= generation
        /\ applied <= generation /\ transport.of <= generation
    BY DEF LoginInv, TokenInv, Numbers, SwapInv
  <1>2. /\ transport'.of = transport.of /\ transport'.kind = transport.kind
        /\ IF /\ transport.kind = "client"
              /\ disable \/ (~ loginPending' /\ transport.of = generation')
           THEN transport'.token = TokenForConnection'
           ELSE transport'.token = transport.token
    BY <1>1, HotSwapFacts
  <1>3. TokenForConnection' # NoToken => sending' /\ applied' = generation'
    BY DEF TokenForConnection, NoToken
  <1>4. applied' <= generation' /\ transport'.of <= generation'
    BY <1>1, <1>2
  <1>5. ASSUME transport'.kind = "client", transport'.token # NoToken, transport'.of = generation'
        PROVE  applied' = generation' \/ (~ sending' /\ ~ loginPending')
    <2>1. CASE transport'.token = TokenForConnection'
      BY <1>3, <1>5, <2>1 DEF NoToken
    <2>2. CASE ~ disable /\ loginPending' /\ transport'.token = transport.token
      <3>1. applied = generation
        BY <1>2, <1>5, <2>2 DEF SwapInv
      <3> QED BY <3>1
    <2> QED BY <1>2, <1>5, <2>1, <2>2
  <1> QED BY <1>4, <1>5 DEF SwapInv, NoToken

LEMMA SwapUser ==
    ASSUME LoginInv, SwapInv, UserActs
    PROVE  SwapInv'
  <1>0. /\ generation \in Nat /\ applied \in Nat /\ applied <= generation /\ transport.of <= generation
        /\ transport \in TransportType
    BY DEF LoginInv, TokenInv, Numbers, SwapInv, TransportInv
  <1>1. CASE BeginsSignIn /\ transport' = transport
    <2>1. generation' = generation + 1 /\ applied' = 0
      BY <1>1 DEF BeginsSignIn, AsksForToken, SignedOut
    <2>2. transport.of \in Nat
      BY <1>0 DEF TransportType
    <2>3. applied' <= generation' /\ transport'.of <= generation' /\ transport'.of # generation'
      BY <1>0, <1>1, <2>1, <2>2
    <2> QED BY <2>3 DEF SwapInv
  <1>2. CASE RefusesPortal /\ transport' = transport
    <2>1. generation' = generation /\ applied' = 0 /\ ~ sending' /\ ~ loginPending'
      BY <1>2 DEF RefusesPortal, tokenVars
    <2>2. applied' <= generation'
      BY <1>0, <2>1
    <2> QED BY <1>0, <1>2, <2>1, <2>2 DEF SwapInv
  <1>3. CASE RefusesSignIn /\ transport' = transport
    BY <1>3, SwapUntouched DEF RefusesSignIn, tokenVars
  <1>4. CASE PressSignIn
    BY <1>1, <1>2, <1>3, <1>4 DEF PressSignIn
  <1>5. CASE PressDetect \/ (\E mode : PressApplyUrl(mode)) \/ (\E s : PressSelect(s))
             \/ LoadsItems \/ LoadsNothing \/ (\E s : PressApply(s)) \/ TurnsAway
    <2>1. UNCHANGED <<generation, mainVars>>
      BY <1>5 DEF PressDetect, PressApplyUrl, PressSelect, LoadsItems, LoadsNothing, PressApply,
                  TurnsAway, tokenVars
    <2> QED BY <2>1, SwapUntouched DEF mainVars
  <1>6. CASE PressTokenOnly
    <2>1. /\ generation' = generation /\ loginPending' = loginPending
          /\ applied' = generation /\ sending' = TRUE /\ HotSwap(FALSE)
      BY <1>6 DEF PressTokenOnly, tokenVars
    <2> QED BY <2>1, SwapApplied
  <1>7. CASE Toggles
    <2>1. /\ generation' = generation /\ loginPending' = loginPending
          /\ HotSwap(~ sending') /\ (~ sending') \in BOOLEAN
          /\ applied' = IF sending' /\ ~ transport.up THEN generation ELSE applied
      BY <1>7 DEF Toggles, tokenVars
    <2> QED BY <2>1, SwapApplied
  <1>8. ASSUME NEW kind, Connects(kind) PROVE SwapInv'
    <2>1. /\ generation' = generation /\ applied' = applied
          /\ transport' = [up |-> TRUE, kind |-> kind, of |-> applied,
                           token |-> IF kind = "other" THEN NoToken ELSE TokenForConnection]
      BY <1>8 DEF Connects, tokenVars
    <2> QED BY <1>0, <2>1 DEF SwapInv
  <1>9. CASE Disconnects \/ Quits
    <2>1. generation' \in {generation, generation + 1} /\ applied' = applied /\ transport' = Idle
      BY <1>9 DEF Disconnects, Quits, SignedOut, tokenVars
    <2>2. transport'.of = 0 /\ transport'.token = NoToken /\ NoToken' = NoToken
      BY <2>1 DEF Idle, NoToken
    <2> QED BY <1>0, <2>1, <2>2 DEF SwapInv
  <1> QED BY <1>4, <1>5, <1>6, <1>7, <1>8, <1>9 DEF UserActs

LEMMA SwapNext ==
    ASSUME LoginInv, SwapInv, [Next]_vars
    PROVE  SwapInv'
  <1>1. CASE UserActs
    BY <1>1, SwapUser
  <1>2. CASE TimePasses \/ UNCHANGED vars
    BY <1>2, SwapUntouched DEF TimePasses, Lapses, TimerFires, vars, mainVars, tokenVars
  <1>3. ASSUME NEW r, PortalAnswers(r) PROVE SwapInv'
    <2>1. UNCHANGED <<generation, applied, sending, loginPending>>
      BY <1>3 DEF PortalAnswers, Issues, Denies
    <2>2. CASE transport' = transport
      BY <2>1, <2>2, SwapUntouched
    <2>3. CASE HotSwap(FALSE)
      <3>1. /\ transport'.of = transport.of /\ transport'.kind = transport.kind
            /\ transport'.token = transport.token \/ transport'.token = TokenForConnection'
        BY <2>3, HotSwapFacts DEF LoginInv
      <3>2. TokenForConnection' # NoToken => applied' = generation'
        BY DEF TokenForConnection, NoToken
      <3> QED BY <2>1, <3>1, <3>2 DEF SwapInv, NoToken
    <2> QED BY <1>3, <2>2, <2>3 DEF PortalAnswers
  <1>4. ASSUME NEW c \in calls, CallEnds(c) \/ NextRequest(c) PROVE SwapInv'
    <2>1. CASE LoginEnds(c) \/ DetectEnds(c) \/ EndpointEnds(c) \/ ListEnds(c) \/ NextRequest(c)
      <3>1. /\ UNCHANGED <<generation, applied, transport, sending>>
            /\ loginPending' = loginPending \/ ~ loginPending'
        BY <2>1 DEF LoginEnds, DetectEnds, EndpointEnds, ListEnds, NextRequest, tokenVars, mainVars
      <3> QED BY <3>1, SwapUntouched
    <2>2. CASE ApplyEnds(c)
      <3>1. generation' = generation /\ loginPending' = loginPending
        BY <2>2 DEF ApplyEnds, tokenVars
      <3>2. CASE UNCHANGED <<sending, applied, transport>>
        BY <3>1, <3>2, SwapUntouched
      <3>3. CASE applied' = generation /\ HotSwap(FALSE)
        <4>1. transport'.of = transport.of
          BY <3>3, HotSwapFacts DEF LoginInv
        <4>2. generation \in Nat /\ applied' <= generation'
          BY <3>1, <3>3 DEF LoginInv, TokenInv, Numbers
        <4> QED BY <3>1, <3>3, <4>1, <4>2 DEF SwapInv
      <3> QED BY <2>2, <3>2, <3>3 DEF ApplyEnds
    <2> QED BY <1>4, <2>1, <2>2 DEF CallEnds
  <1> QED BY <1>1, <1>2, <1>3, <1>4 DEF Next

LEMMA SwapInit == Init => SwapInv
  BY DEF Init, TokenInit, SwapInv, Idle

NewestToken ==
    /\ token' # token /\ token' # NoToken
    /\ ~ loginPending /\ sending
    /\ transport.kind = "client"
    /\ transport.token # NoToken
    /\ transport.of = generation
    => transport.token' = token'

\* Only the Portal's answer brings another token, and it is handed on at once.
LEMMA NewestTokenNext ==
    ASSUME LoginInv, SwapInv, [Next]_vars
    PROVE  NewestToken
  <1> SUFFICES ASSUME token' # token, token' # NoToken, ~ loginPending, sending,
                      transport.kind = "client", transport.token # NoToken,
                      transport.of = generation
               PROVE  transport'.token = token'
    BY DEF NewestToken
  <1>1. ~ UserActs
    BY DEF UserActs, PressSignIn, BeginsSignIn, AsksForToken, SignedOut, RefusesSignIn, RefusesPortal,
           PressDetect, PressApplyUrl, PressSelect, LoadsItems, LoadsNothing, PressApply,
           PressTokenOnly, TurnsAway, Toggles, Connects, Disconnects, Quits, tokenVars
  <1>2. ~ TimePasses /\ ~ UNCHANGED vars
    BY DEF TimePasses, Lapses, TimerFires, vars, tokenVars
  <1>3. \A c : ~ CallEnds(c) /\ ~ NextRequest(c)
    BY DEF CallEnds, LoginEnds, DetectEnds, EndpointEnds, ListEnds, ApplyEnds, NextRequest, tokenVars
  <1>4. PICK r : PortalAnswers(r)
    BY <1>1, <1>2, <1>3 DEF Next
  <1>5. Issues(r) /\ HotSwap(FALSE) /\ UNCHANGED <<loginPending, sending, applied>>
    BY <1>4 DEF PortalAnswers, Denies
  <1>6. generation' = generation /\ lapsed' = FALSE
    BY <1>5 DEF Issues
  <1>7. transport'.token = TokenForConnection'
    BY <1>5, <1>6, HotSwapFacts DEF LoginInv
  <1>8. applied = generation
    BY DEF SwapInv
  <1>9. TokenForConnection' = token'
    BY <1>5, <1>6, <1>8 DEF TokenForConnection, Authenticated, NoToken
  <1> QED BY <1>7, <1>9

AppliedDown == fields' # fields \/ (applied' # applied /\ applied' # 0) => ~ transport.up

LEMMA AppliedDownNext ==
    ASSUME [Next]_vars
    PROVE  AppliedDown
  <1>1. CASE UserActs
    BY <1>1 DEF AppliedDown, UserActs, PressSignIn, BeginsSignIn, RefusesSignIn, RefusesPortal,
           PressDetect, PressApplyUrl, PressSelect, LoadsItems, LoadsNothing, PressApply,
           PressTokenOnly, TurnsAway, Toggles, Connects, Disconnects, Quits, mainVars
  <1>2. CASE TimePasses \/ UNCHANGED vars
    BY <1>2 DEF AppliedDown, TimePasses, vars, mainVars
  <1>3. ASSUME NEW c, CallEnds(c) \/ NextRequest(c) PROVE AppliedDown
    BY <1>3 DEF AppliedDown, CallEnds, LoginEnds, DetectEnds, EndpointEnds, ListEnds, ApplyEnds,
                NextRequest, mainVars
  <1>4. ASSUME NEW r, PortalAnswers(r) PROVE AppliedDown
    BY <1>4 DEF AppliedDown, PortalAnswers
  <1> QED BY <1>1, <1>2, <1>3, <1>4 DEF Next

-----------------------------------------------------------------------------
(* The operations under way, and what they count                         *)

CallType == [op : {"login", "detect", "endpoint", "list", "apply"}, of : Generations,
             change : Changes, revision : Revisions, targets : SUBSET Ids,
             replace : BOOLEAN, latest : BOOLEAN, heard : BOOLEAN,
             stage : {"sign-in", "refresh", "answer", "denied", "no token"}]

\* Whose answer may replace the servers, g and n being the counts of sign-ins and changes
Claimant(g, n, c) == c.op \in {"login", "endpoint"} /\ c.of = g /\ c.change = n
Sole(g, n, cs) == \A c, d \in cs : Claimant(g, n, c) /\ Claimant(g, n, d) => c = d
Claimed(g, n, cs) == \E c \in cs : Claimant(g, n, c)

\* The revision is increased twice for a change: when it begins and when it is answered.
CountsInv ==
    /\ ~ quit => generation <= plan.signIns /\ change <= plan.changes
    /\ \A c \in calls : c.change <= change /\ c.revision <= revision
    /\ Sole(generation, change, calls)
    /\ ~ quit => /\ revision <= 2 * change
                 /\ Claimed(generation, change, calls) => revision < 2 * change
    /\ quit => \A c \in calls : c.of # generation

\* d is c with other flags or at another stage; ds are calls of cs.
Same(d, c) ==
    /\ d \in CallType
    /\ d.op = c.op /\ d.of = c.of /\ d.change = c.change /\ d.revision = c.revision
    /\ d.targets = c.targets /\ d.replace = c.replace
    /\ d.latest => c.latest

From(ds, cs) ==
    /\ \A d \in ds : \E c \in cs : Same(d, c)
    /\ \A g, n : Sole(g, n, cs) => Sole(g, n, ds)

LEMMA SameExcept ==
    ASSUME NEW c \in CallType, NEW v \in BOOLEAN,
           NEW stage \in {"sign-in", "refresh", "answer", "denied", "no token"}
    PROVE  /\ Same(c, c)
           /\ Same([c EXCEPT !.heard = v], c)
           /\ Same([c EXCEPT !.latest = FALSE], c)
           /\ Same([c EXCEPT !.stage = stage], c)
  BY DEF CallType, Same

LEMMA FromImage ==
    ASSUME NEW cs, NEW f, \A c \in cs : Same(f[c], c)
    PROVE  From({f[c] : c \in cs}, cs)
  <1>1. \A d \in {f[c] : c \in cs} : \E c \in cs : Same(d, c)
    OBVIOUS
  <1>2. ASSUME NEW g, NEW n, Sole(g, n, cs) PROVE Sole(g, n, {f[c] : c \in cs})
    BY <1>2 DEF Sole, Claimant, Same
  <1> QED BY <1>1, <1>2 DEF From

LEMMA FromSubset ==
    ASSUME NEW cs \in SUBSET CallType, NEW ds \in SUBSET cs
    PROVE  From(ds, cs)
  <1>1. \A d \in ds : Same(d, d)
    BY SameExcept
  <1> QED BY <1>1 DEF From, Sole

LEMMA FromType ==
    ASSUME NEW cs, NEW ds, From(ds, cs)
    PROVE  ds \in SUBSET CallType
  BY DEF From, Same

LEMMA FromTrans ==
    ASSUME NEW cs, NEW ds, NEW es, From(ds, cs), From(es, ds)
    PROVE  From(es, cs)
  <1>1. ASSUME NEW e \in es PROVE \E c \in cs : Same(e, c)
    <2>1. PICK d \in ds : Same(e, d)
      BY DEF From
    <2>2. PICK c \in cs : Same(d, c)
      BY DEF From
    <2> QED BY <2>1, <2>2 DEF Same
  <1> QED BY <1>1 DEF From

LEMMA FromDeaf ==
    ASSUME calls \in SUBSET CallType
    PROVE  From(Deaf, calls)
  <1> DEFINE f == [c \in calls |-> [c EXCEPT !.heard = FALSE]]
  <1>1. \A c \in calls : Same(f[c], c)
    BY SameExcept
  <1>2. Deaf = {f[c] : c \in calls}
    BY DEF Deaf
  <1> HIDE DEF f
  <1> QED BY <1>1, <1>2, FromImage

LEMMA FromSuperseded ==
    ASSUME NEW cs \in SUBSET CallType, NEW ops
    PROVE  From(Superseded(ops, cs), cs)
  <1> DEFINE f == [c \in cs |-> IF c.op \in ops THEN [c EXCEPT !.latest = FALSE] ELSE c]
  <1>1. \A c \in cs : Same(f[c], c)
    BY SameExcept
  <1>2. Superseded(ops, cs) = {f[c] : c \in cs}
    BY DEF Superseded
  <1> HIDE DEF f
  <1> QED BY <1>1, <1>2, FromImage

\* A superseded operation is not the latest one.
LEMMA SupersededLate ==
    ASSUME NEW cs \in SUBSET CallType, NEW ops, NEW c \in Superseded(ops, cs), c.op \in ops
    PROVE  ~ c.latest
  BY DEF Superseded, CallType

LEMMA FromOthers ==
    ASSUME calls \in SUBSET CallType
    PROVE  From(Others, calls)
  <1> DEFINE f == [c \in calls |-> IF c.op = "list" THEN [c EXCEPT !.heard = FALSE] ELSE c]
  <1>1. \A c \in calls : Same(f[c], c)
    BY SameExcept
  <1>2. Others = {f[c] : c \in calls}
    BY DEF Others
  <1> HIDE DEF f
  <1> QED BY <1>1, <1>2, FromImage

LEMMA FromResume ==
    ASSUME calls \in SUBSET CallType, NEW r, NEW ok, Resume(r, ok)
    PROVE  From(calls', calls)
  <1> DEFINE f == [c \in calls |->
                    IF Waits(c, r)
                    THEN [c EXCEPT !.stage = IF ok THEN "answer"
                                             ELSE IF c.stage = "sign-in" THEN "no token" ELSE "denied"]
                    ELSE c]
  <1>1. ASSUME NEW c \in calls PROVE Same(f[c], c)
    <2> DEFINE v == IF ok THEN "answer" ELSE IF c.stage = "sign-in" THEN "no token" ELSE "denied"
    <2>1. v \in {"sign-in", "refresh", "answer", "denied", "no token"}
      OBVIOUS
    <2>2. f[c] = IF Waits(c, r) THEN [c EXCEPT !.stage = v] ELSE c
      OBVIOUS
    <2> HIDE DEF f, v
    <2> QED BY <2>1, <2>2, SameExcept
  <1>2. calls' = {f[c] : c \in calls}
    BY DEF Resume
  <1> HIDE DEF f
  <1> QED BY <1>1, <1>2, FromImage

LEMMA FromAgain ==
    ASSUME calls \in SUBSET CallType, NEW c \in calls, Awaits(calls \ {c}, c)
    PROVE  From(calls', calls)
  <1> DEFINE d == [c EXCEPT !.stage = IF lapsed THEN "refresh" ELSE "answer"]
             f == [x \in calls |-> IF x = c THEN d ELSE x]
  <1>1. \A x \in calls : Same(f[x], x)
    <2>1. Same(d, c)
      BY SameExcept
    <2> QED BY <2>1, SameExcept
  <1>2. calls' = (calls \ {c}) \cup {d}
    BY DEF Awaits
  <1>3. calls' = {f[x] : x \in calls}
    BY <1>2
  <1> HIDE DEF f
  <1> QED BY <1>1, <1>3, FromImage

LEMMA FromLeft ==
    ASSUME calls \in SUBSET CallType, NEW ops
    PROVE  \A left \in {Deaf, Superseded(ops, calls), Superseded(ops, Deaf), Superseded(ops, Others)} :
              From(left, calls)
  <1>1. From(Deaf, calls) /\ From(Others, calls) /\ From(Superseded(ops, calls), calls)
    BY FromDeaf, FromOthers, FromSuperseded
  <1>2. Deaf \in SUBSET CallType /\ Others \in SUBSET CallType
    BY <1>1, FromType
  <1>3. From(Superseded(ops, Deaf), Deaf) /\ From(Superseded(ops, Others), Others)
    BY <1>2, FromSuperseded
  <1> QED BY <1>1, <1>3, FromTrans

\* An operation that begins: it is of this sign-in, and awaits a token or an answer.
NewCall(d, op) ==
    /\ d \in CallType
    /\ d.op = op /\ d.of = generation /\ d.latest

LEMMA AwaitsAdds ==
    ASSUME NEW others, NEW op, NEW call, NewCall(call, op), Awaits(others, call)
    PROVE  \E d : /\ NewCall(d, op) /\ calls' = others \cup {d}
                  /\ d.change = call.change /\ d.revision = call.revision
  <1> DEFINE d == [call EXCEPT !.stage = IF lapsed THEN "refresh" ELSE "answer"]
  <1>1. NewCall(d, op) /\ d.change = call.change /\ d.revision = call.revision
    BY DEF NewCall, CallType
  <1>2. calls' = others \cup {d}
    BY DEF Awaits
  <1> HIDE DEF d
  <1> QED BY <1>1, <1>2

LEMMA CallIsNew ==
    ASSUME generation \in Generations, plan \in Plan,
           NEW op \in {"detect", "endpoint", "list", "apply"}, NEW targets \in SUBSET Ids
    PROVE  /\ NewCall(Call(op, targets), op)
           /\ Call(op, targets).change = 0 /\ Call(op, targets).revision = 0
  <1>1. 0 \in Changes /\ 0 \in Revisions
    BY DEF Plan, Changes, Revisions
  <1> QED BY <1>1 DEF Call, NewCall, CallType

LEMMA CallRevises ==
    ASSUME NEW op, NEW k, NewCall(k, op), NEW n \in Revisions
    PROVE  LET d == [k EXCEPT !.revision = n]
           IN  NewCall(d, op) /\ d.change = k.change /\ d.revision = n
  BY DEF NewCall, CallType

LEMMA CallChanges ==
    ASSUME NEW op, NEW k, NewCall(k, op), NEW m \in Changes
    PROVE  LET d == [k EXCEPT !.change = m]
           IN  NewCall(d, op) /\ d.change = m /\ d.revision = k.revision
  BY DEF NewCall, CallType

LEMMA CallReplaces ==
    ASSUME NEW op, NEW k, NewCall(k, op), NEW b \in BOOLEAN
    PROVE  LET d == [k EXCEPT !.replace = b]
           IN  NewCall(d, op) /\ d.change = k.change /\ d.revision = k.revision
  BY DEF NewCall, CallType

-----------------------------------------------------------------------------
(* The counts                                                            *)

CountTypes ==
    /\ generation \in Nat /\ change \in Nat /\ revision \in Nat
    /\ calls \in SUBSET CallType /\ plan \in Plan

LEMMA CallNumbers ==
    ASSUME plan \in Plan, NEW c \in CallType
    PROVE  c.of \in Nat /\ c.change \in Nat /\ c.revision \in Nat
  <1>1. plan.signIns + 1 \in Nat /\ plan.changes + 1 \in Nat /\ 2 * plan.changes + 1 \in Nat
    BY DEF Plan
  <1>2. c.of \in Generations /\ c.change \in Changes /\ c.revision \in Revisions
    BY DEF CallType
  <1>3. Generations \subseteq Nat /\ Changes \subseteq Nat /\ Revisions \subseteq Nat
    BY <1>1 DEF Generations, Changes, Revisions
  <1> QED BY <1>2, <1>3

LEMMA CountsLeft ==
    ASSUME CountTypes, CountsInv, UNCHANGED <<plan, generation, change, revision, quit>>,
           From(calls', calls)
    PROVE  CountsInv'
  <1>1. \A d \in calls' : \E c \in calls : Same(d, c)
    BY DEF From
  <1>2. \A c \in calls' : c.change <= change /\ c.revision <= revision
    BY <1>1 DEF CountsInv, Same
  <1>3. Sole(generation, change, calls')
    BY DEF CountsInv, From
  <1>4. Claimed(generation, change, calls') => Claimed(generation, change, calls)
    BY <1>1 DEF Claimed, Claimant, Same
  <1>5. quit => \A c \in calls' : c.of # generation
    BY <1>1 DEF CountsInv, Same
  <1> QED BY <1>2, <1>3, <1>4, <1>5 DEF CountsInv, Sole, Claimed, Claimant

\* An operation begins that will not replace the servers.
LEMMA CountsAdded ==
    ASSUME CountTypes, CountsInv, UNCHANGED <<plan, generation, change, revision, quit>>, ~ quit,
           NEW others, From(others, calls), NEW d, calls' = others \cup {d},
           d.op \notin {"login", "endpoint"}, d.change = 0, d.revision = 0 \/ d.revision = revision
    PROVE  CountsInv'
  <1>1. \A e \in others : \E c \in calls : Same(e, c)
    BY DEF From
  <1>2. \A c \in calls' : c.change <= change /\ c.revision <= revision
    BY <1>1 DEF CountsInv, Same, CountTypes
  <1>3. Sole(generation, change, others)
    BY DEF CountsInv, From
  <1>4. Sole(generation, change, calls')
    BY <1>3 DEF Sole, Claimant
  <1>5. Claimed(generation, change, calls') => Claimed(generation, change, calls)
    BY <1>1 DEF Claimed, Claimant, Same
  <1> QED BY <1>2, <1>4, <1>5 DEF CountsInv, Sole, Claimed, Claimant

\* The endpoint is changed: the operations under way are of earlier changes.
LEMMA CountsChanged ==
    ASSUME CountTypes, CountsInv, UNCHANGED <<plan, generation, revision, quit>>, ~ quit,
           change < plan.changes, plan.changes \in Nat, change' = change + 1,
           NEW others, From(others, calls),
           \/ calls' = others
           \/ \E d : calls' = others \cup {d} /\ d.change = change' /\ d.revision = 0
    PROVE  CountsInv'
  <1>1. \A e \in others : \E c \in calls : Same(e, c)
    BY DEF From
  <1>2. \A e \in others : e.change <= change /\ e.change \in Nat /\ e.revision <= revision
    <2> SUFFICES ASSUME NEW e \in others
                 PROVE  e.change <= change /\ e.change \in Nat /\ e.revision <= revision
      OBVIOUS
    <2>1. PICK c \in calls : Same(e, c)
      BY <1>1
    <2>2. e.change \in Nat
      BY <2>1, CallNumbers DEF Same, CountTypes
    <2> QED BY <2>1, <2>2 DEF Same, CountsInv
  <1>3. \A c \in calls' : c.change <= change' /\ c.revision <= revision'
    BY <1>2 DEF CountTypes
  <1>4. \A e \in others : ~ Claimant(generation', change', e)
    BY <1>2 DEF CountTypes, Claimant
  <1>5. Sole(generation', change', calls')
    BY <1>4 DEF Sole
  <1>6. revision' < 2 * change' /\ change' <= plan'.changes /\ generation' <= plan'.signIns
    BY DEF CountsInv, CountTypes
  <1> QED BY <1>3, <1>5, <1>6 DEF CountsInv, CountTypes

\* A sign-in or a sign-out: the operations under way are of an earlier sign-in.
LEMMA CountsReset ==
    ASSUME CountTypes, CountsInv, plan' = plan, ~ quit, generation' = generation + 1, Reset,
           plan.changes \in Nat, plan.signIns \in Nat,
           Calls(generation, calls), NEW others, From(others, calls),
           \/ /\ quit'
              /\ calls' = others
           \/ /\ ~ quit' /\ generation < plan.signIns /\ change < plan.changes
              /\ \E d : calls' = others \cup {d} /\ d.change = change' /\ d.revision = 0
    PROVE  CountsInv'
  <1>1. change' = change + 1 /\ revision' = revision + 1
    BY DEF Reset
  <1>2. \A e \in others : e.change <= change' /\ e.revision <= revision' /\ e.of # generation'
    <2> SUFFICES ASSUME NEW e \in others
                 PROVE  e.change <= change' /\ e.revision <= revision' /\ e.of # generation'
      OBVIOUS
    <2>1. PICK c \in calls : Same(e, c)
      BY DEF From
    <2>2. c.change <= change /\ c.revision <= revision /\ c.of <= generation /\ c.of \in Nat
      BY DEF CountsInv, Calls
    <2>3. c.change \in Nat /\ c.revision \in Nat
      BY CallNumbers DEF CountTypes
    <2> QED BY <1>1, <2>1, <2>2, <2>3 DEF Same, CountTypes
  <1>3. \A e \in others : ~ Claimant(generation', change', e)
    BY <1>2 DEF Claimant
  <1>4. CASE quit' /\ calls' = others
    <2>1. Sole(generation', change', calls')
      BY <1>3, <1>4 DEF Sole
    <2> QED BY <1>2, <1>4, <2>1 DEF CountsInv
  <1>5. CASE /\ ~ quit' /\ generation < plan.signIns /\ change < plan.changes
             /\ \E d : calls' = others \cup {d} /\ d.change = change' /\ d.revision = 0
    <2>1. \A c \in calls' : c.change <= change' /\ c.revision <= revision'
      BY <1>1, <1>2, <1>5 DEF CountTypes
    <2>2. Sole(generation', change', calls')
      BY <1>3, <1>5 DEF Sole
    <2>3. revision' < 2 * change' /\ change' <= plan'.changes /\ generation' <= plan'.signIns
      BY <1>1, <1>5 DEF CountsInv, CountTypes
    <2> QED BY <1>1, <1>5, <2>1, <2>2, <2>3 DEF CountsInv, CountTypes
  <1> QED BY <1>4, <1>5

\* The servers are replaced: nobody else may replace them.
LEMMA CountsAnswered ==
    ASSUME CountTypes, CountsInv, UNCHANGED <<plan, generation, change, quit>>,
           NEW c \in calls, Claimant(generation, change, c), Ends(c),
           revision' = revision + 1
    PROVE  CountsInv'
  <1>1. ~ quit /\ revision < 2 * change
    BY DEF CountsInv, Claimant, Claimed
  <1>2. \A d \in calls' : d \in calls /\ d.change <= change /\ d.revision <= revision'
    <2> SUFFICES ASSUME NEW d \in calls
                 PROVE  d.change <= change /\ d.revision <= revision'
      BY DEF Ends
    <2>1. d.revision \in Nat
      BY CallNumbers DEF CountTypes
    <2> QED BY <2>1 DEF CountsInv, CountTypes
  <1>3. Sole(generation, change, calls') /\ ~ Claimed(generation, change, calls')
    BY DEF CountsInv, Sole, Claimed, Ends
  <1>4. revision' <= 2 * change
    BY <1>1 DEF CountTypes
  <1> QED BY <1>1, <1>2, <1>3, <1>4 DEF CountsInv

-----------------------------------------------------------------------------
(* The feeds                                                             *)

\* Settings are applied of a feed that was listed at the revision that counts.
FeedsInv ==
    /\ items.revision <= revision /\ listed.revision <= revision
    /\ listed.revision = revision /\ listed.servers # {}
           => items.servers = {} \/ items.revision = revision
    /\ \A c \in calls : c.op = "apply" /\ c.latest /\ c.revision = revision
                           => items.revision = revision
    /\ fields # "another endpoint"

FeedType == [revision : Nat, servers : SUBSET Ids]
FeedTypes == revision \in Nat /\ items \in FeedType /\ listed \in FeedType

LEMMA NoFeeds == NoItems.revision = 0 /\ NoItems.servers = {}
  BY DEF NoItems

LEMMA ListedBefore ==
    ASSUME FeedTypes, FeedsInv, listed' = listed \/ listed' = NoItems
    PROVE  listed'.revision \in Nat /\ listed'.revision <= revision
  <1>1. CASE listed' = listed
    BY <1>1 DEF FeedsInv, FeedTypes, FeedType
  <1>2. CASE listed' = NoItems
    <2>1. listed'.revision = 0
      BY <1>2, NoFeeds
    <2> QED BY <2>1 DEF FeedTypes
  <1> QED BY <1>1, <1>2

LEMMA FeedsLeft ==
    ASSUME FeedTypes, FeedsInv, UNCHANGED <<revision, items, fields>>,
           listed' = listed \/ listed' = NoItems, From(calls', calls)
    PROVE  FeedsInv'
  <1>1. ASSUME NEW d \in calls', d.op = "apply", d.latest, d.revision = revision
        PROVE  items.revision = revision
    <2>1. PICK c \in calls : Same(d, c)
      BY DEF From
    <2> QED BY <1>1, <2>1 DEF Same, FeedsInv
  <1>2. listed'.revision <= revision /\ (listed'.servers # {} => listed' = listed)
    BY ListedBefore, NoFeeds
  <1> QED BY <1>1, <1>2 DEF FeedsInv

LEMMA FeedsAdded ==
    ASSUME FeedTypes, FeedsInv, UNCHANGED <<revision, items, fields, listed>>,
           NEW others, From(others, calls), NEW d, calls' = others \cup {d},
           d.op = "apply" => items.revision = revision
    PROVE  FeedsInv'
  <1>1. ASSUME NEW e \in others, e.op = "apply", e.latest, e.revision = revision
        PROVE  items.revision = revision
    <2>1. PICK c \in calls : Same(e, c)
      BY DEF From
    <2> QED BY <1>1, <2>1 DEF Same, FeedsInv
  <1> QED BY <1>1 DEF FeedsInv

\* The catalog is cleared, and details that were asked for are of no use.
LEMMA FeedsCleared ==
    ASSUME FeedTypes, FeedsInv, revision' = revision \/ revision' = revision + 1,
           items' = NoItems, fields' = fields, listed' = listed \/ listed' = NoItems,
           \A c \in calls' : c.op = "apply" => ~ c.latest
    PROVE  FeedsInv'
  <1>1. items'.servers = {} /\ items'.revision = 0
    BY NoFeeds
  <1>2. listed'.revision \in Nat /\ listed'.revision <= revision /\ revision \in Nat
        /\ revision <= revision + 1
    BY ListedBefore DEF FeedTypes
  <1>3. listed'.revision <= revision' /\ 0 <= revision'
    BY <1>2
  <1> QED BY <1>1, <1>3 DEF FeedsInv

\* Another revision counts.
LEMMA FeedsRevised ==
    ASSUME FeedTypes, FeedsInv, revision' = revision + 1, UNCHANGED <<items, fields>>,
           listed' = listed \/ listed' = NoItems,
           \A c \in calls' : c.revision \in Nat /\ c.revision <= revision
    PROVE  FeedsInv'
  <1>1. listed'.revision \in Nat /\ listed'.revision <= revision
    BY ListedBefore
  <1>2. items.revision \in Nat /\ items.revision <= revision
    BY DEF FeedsInv, FeedTypes, FeedType
  <1>3. \A c \in calls' : c.revision # revision'
    BY DEF FeedTypes
  <1>4. /\ listed'.revision <= revision' /\ listed'.revision # revision'
        /\ items'.revision <= revision'
    BY <1>1, <1>2 DEF FeedTypes
  <1>5. \A c \in calls' : ~ (c.op = "apply" /\ c.latest /\ c.revision = revision')
    BY <1>3
  <1> QED BY <1>4, <1>5 DEF FeedsInv

LEMMA FeedsListed ==
    ASSUME FeedTypes, FeedsInv, UNCHANGED <<revision, fields>>, NEW got,
           items' = [revision |-> revision, servers |-> got],
           listed' = listed \/ listed' = items'
    PROVE  FeedsInv'
  <1>1. items'.revision = revision /\ revision <= revision
    BY DEF FeedTypes
  <1>2. listed'.revision <= revision
    BY <1>1 DEF FeedsInv
  <1> QED BY <1>1, <1>2 DEF FeedsInv

-----------------------------------------------------------------------------
(* What counts and feeds are, step by step                               *)

CallsInv == calls \in SUBSET CallType /\ CountsInv /\ FeedsInv
CallsHere == CountTypes /\ FeedTypes /\ CallsInv /\ Calls(generation, calls)

LEMMA PlanNumbers ==
    ASSUME plan \in Plan
    PROVE  plan.changes \in Nat /\ plan.signIns \in Nat /\ plan.tokens \in Nat
  BY DEF Plan

\* The operations only wait, resume or are superseded.
LEMMA CallsLeft ==
    ASSUME CallsHere, UNCHANGED <<plan, generation, change, revision, quit, items, fields>>,
           listed' = listed \/ listed' = NoItems, From(calls', calls)
    PROVE  CallsInv'
  <1>1. calls' \in SUBSET CallType'
    BY FromType DEF CallType, Generations, Changes, Revisions, Ids
  <1> QED BY <1>1, CountsLeft, FeedsLeft DEF CallsHere, CallsInv

\* The catalog is cleared as well.
LEMMA CallsCleared ==
    ASSUME CallsHere, UNCHANGED <<plan, generation, change, revision, quit, fields>>,
           items' = NoItems, listed' = listed \/ listed' = NoItems, From(calls', calls),
           \A c \in calls' : c.op = "apply" => ~ c.latest
    PROVE  CallsInv'
  <1>1. calls' \in SUBSET CallType'
    BY FromType DEF CallType, Generations, Changes, Revisions, Ids
  <1> QED BY <1>1, CountsLeft, FeedsCleared DEF CallsHere, CallsInv

\* Browsing is superseded when the catalog is cleared.
LEMMA BrowsingLate ==
    ASSUME NEW cs \in SUBSET CallType, NEW ops, "apply" \in ops
    PROVE  \A c \in Superseded(ops, cs) : c.op = "apply" => ~ c.latest
  BY SupersededLate

LEMMA CallTypeSame ==
    ASSUME plan' = plan
    PROVE  CallType' = CallType
  BY DEF CallType, Generations, Changes, Revisions, Ids

LEMMA CallsSignIn ==
    ASSUME CallsHere, PressSignIn, plan' = plan, ~ quit
    PROVE  CallsInv'
  <1>0. /\ calls \in SUBSET CallType /\ plan \in Plan /\ generation \in Nat /\ change \in Nat
        /\ revision \in Nat /\ listed' = NoItems /\ fields' = fields /\ quit' = quit
    BY DEF CallsHere, CountTypes, PressSignIn
  <1>1. CASE BeginsSignIn
    <2> DEFINE old == Superseded({"detect"} \cup Browsing, Deaf)
               call == [Call("login", {}) EXCEPT !.of = generation', !.change = change',
                                                 !.stage = "sign-in"]
    <2>1. /\ Reset /\ calls' = old \cup {call} /\ generation' = generation + 1 /\ items' = NoItems
          /\ generation < plan.signIns /\ change < plan.changes
      BY <1>1 DEF BeginsSignIn, BeginLogin, AsksForToken, SignedOut
    <2>2. From(old, calls)
      BY <1>0, FromLeft
    <2>3. revision' = revision + 1 /\ change' = change + 1
      BY <2>1 DEF Reset
    <2>4. generation' \in Generations /\ change' \in Changes /\ 0 \in Revisions
      BY <1>0, <2>1, <2>3, PlanNumbers DEF Generations, Changes, Revisions
    <2>5. call = [op |-> "login", of |-> generation', change |-> change', revision |-> 0,
                  targets |-> {}, replace |-> FALSE, latest |-> TRUE, heard |-> TRUE,
                  stage |-> "sign-in"]
      <3> DEFINE k == Call("login", {})
      <3>1. /\ IsCall(k)
            /\ k.op = "login" /\ k.revision = 0 /\ k.targets = {} /\ k.replace = FALSE
            /\ k.latest = TRUE /\ k.heard = TRUE
        BY DEF Call, IsCall
      <3>2. call = [k EXCEPT !.of = generation', !.change = change', !.stage = "sign-in"]
        OBVIOUS
      <3> HIDE DEF k, call
      <3> QED BY <3>1, <3>2 DEF IsCall
    <2>6. call \in CallType
      BY <2>4, <2>5 DEF CallType
    <2>7. calls' \in SUBSET CallType'
      BY <2>1, <2>2, <2>6, FromType, CallTypeSame
    <2>8. call.change = change' /\ call.revision = 0 /\ call.op = "login"
      BY <2>5
    <2>9. CountsInv'
      <3> HIDE DEF old, call
      <3> QED BY <1>0, <2>1, <2>2, <2>8, PlanNumbers, CountsReset DEF CallsHere, CallsInv
    <2>10. \A c \in calls' : c.op = "apply" => ~ c.latest
      <3>1. Deaf \in SUBSET CallType
        BY <1>0, FromDeaf, FromType
      <3>2. "apply" \in {"detect"} \cup Browsing
        BY DEF Browsing
      <3> HIDE DEF call
      <3> QED BY <2>1, <2>8, <3>1, <3>2, BrowsingLate
    <2>11. FeedsInv'
      BY <1>0, <2>1, <2>3, <2>10, FeedsCleared DEF CallsHere, CallsInv
    <2> QED BY <2>7, <2>9, <2>11 DEF CallsInv
  <1>2. CASE RefusesSignIn
    <2>1. calls' = Deaf /\ UNCHANGED <<generation, change, revision, items>>
      BY <1>2 DEF RefusesSignIn, tokenVars
    <2>2. From(calls', calls)
      BY <1>0, <2>1, FromDeaf
    <2> QED BY <1>0, <2>1, <2>2, CallsLeft
  <1>3. CASE RefusesPortal
    <2>1. /\ calls' = Superseded(Browsing, Deaf) /\ items' = NoItems
          /\ UNCHANGED <<generation, change, revision>>
      BY <1>3 DEF RefusesPortal, tokenVars
    <2>2. From(calls', calls) /\ Deaf \in SUBSET CallType
      BY <1>0, <2>1, FromLeft, FromDeaf, FromType
    <2>3. \A c \in calls' : c.op = "apply" => ~ c.latest
      BY <2>1, <2>2, BrowsingLate DEF Browsing
    <2> QED BY <1>0, <2>1, <2>2, <2>3, CallsCleared
  <1> QED BY <1>1, <1>2, <1>3 DEF PressSignIn

LEMMA CallsHereFacts ==
    ASSUME CallsHere
    PROVE  /\ calls \in SUBSET CallType /\ plan \in Plan
           /\ generation \in Nat /\ change \in Nat /\ revision \in Nat
           /\ plan.changes \in Nat /\ plan.signIns \in Nat
           /\ CountTypes /\ CountsInv /\ FeedTypes /\ FeedsInv
  BY PlanNumbers DEF CallsHere, CallsInv, CountTypes

\* A detection or a feed's details are asked for.
LEMMA CallsAsked ==
    ASSUME CallsHere, ~ quit,
           UNCHANGED <<plan, generation, change, revision, quit, items, fields, listed>>,
           NEW others, From(others, calls), NEW op \in {"detect", "apply"},
           NEW call, NewCall(call, op), Awaits(others, call),
           call.change = 0, call.revision = 0 \/ call.revision = revision,
           op = "apply" => items.revision = revision
    PROVE  CallsInv'
  <1>1. PICK d : /\ NewCall(d, op) /\ calls' = others \cup {d}
                 /\ d.change = call.change /\ d.revision = call.revision
    BY AwaitsAdds
  <1>2. d \in CallType /\ d.op = op
    BY <1>1 DEF NewCall
  <1>3. calls' \in SUBSET CallType'
    BY <1>1, <1>2, FromType, CallTypeSame
  <1>4. CountsInv'
    BY <1>1, <1>2, CallsHereFacts, CountsAdded
  <1>5. FeedsInv'
    BY <1>1, <1>2, CallsHereFacts, FeedsAdded
  <1> QED BY <1>3, <1>4, <1>5 DEF CallsInv

LEMMA CallsDetect ==
    ASSUME CallsHere, generation \in Generations, PressDetect, plan' = plan, ~ quit
    PROVE  CallsInv'
  <1>1. /\ UNCHANGED <<generation, change, revision, quit, items, fields, listed>>
        /\ Awaits(Superseded({"detect"}, calls), Call("detect", {}))
    BY DEF PressDetect, BeginDetect, mainVars
  <1>2. From(Superseded({"detect"}, calls), calls)
    BY CallsHereFacts, FromLeft
  <1>3. {} \in SUBSET Ids
    OBVIOUS
  <1>4. NewCall(Call("detect", {}), "detect") /\ Call("detect", {}).change = 0
        /\ Call("detect", {}).revision = 0
    BY <1>3, CallsHereFacts, CallIsNew
  <1> QED BY <1>1, <1>2, <1>4, CallsAsked

LEMMA CallsApply ==
    ASSUME CallsHere, generation \in Generations, revision \in Revisions,
           NEW s, PressApply(s), plan' = plan, ~ quit
    PROVE  CallsInv'
  <1> DEFINE call == [Call("apply", {s}) EXCEPT !.revision = revision]
  <1>1. /\ UNCHANGED <<generation, change, revision, quit, items, fields, listed>>
        /\ Awaits(calls, call)
        /\ listed.revision = revision /\ s \in listed.servers /\ s \in items.servers
    BY DEF PressApply, BeginDetails, mainVars
  <1>2. items.revision = revision
    BY <1>1, CallsHereFacts DEF FeedsInv
  <1>3. {s} \in SUBSET Ids
    BY <1>1, CallsHereFacts DEF FeedTypes, FeedType
  <1>5. NewCall(call, "apply") /\ call.change = 0 /\ call.revision = revision
    <2> DEFINE k == Call("apply", {s})
    <2>1. NewCall(k, "apply") /\ k.change = 0
      BY <1>3, CallsHereFacts, CallIsNew
    <2> HIDE DEF k
    <2>2. LET d == [k EXCEPT !.revision = revision]
          IN  NewCall(d, "apply") /\ d.change = k.change /\ d.revision = revision
      BY <2>1, CallRevises
    <2> QED BY <2>1, <2>2 DEF k
  <1>6. From(calls, calls)
    BY CallsHereFacts, FromSubset
  <1> HIDE DEF call
  <1> QED BY <1>1, <1>2, <1>5, <1>6, CallsAsked

LEMMA CallsLoad ==
    ASSUME CallsHere, generation \in Generations, revision \in Revisions, DOMAIN servers \subseteq Ids,
           LoadsItems, plan' = plan, ~ quit
    PROVE  CallsInv'
  <1>1. UNCHANGED <<generation, change, revision, quit, fields>> /\ listed' = NoItems
    BY DEF LoadsItems, mainVars
  <1>2. From(Others, calls) /\ From(Superseded(Browsing, Others), calls) /\ Others \in SUBSET CallType
    BY CallsHereFacts, FromOthers, FromLeft, FromType
  <1>3. CASE calls' = Others /\ items' = items
    BY <1>1, <1>2, <1>3, CallsLeft
  <1>4. CASE BeginList(shown.selected, Others)
    <2> DEFINE asked == IF shown.selected = All THEN DOMAIN servers
                        ELSE {shown.selected} \cap DOMAIN servers
               call == [Call("list", asked) EXCEPT !.revision = revision]
    <2>1. items' = NoItems /\ Awaits(Superseded(Browsing, Others), call)
      BY <1>4 DEF BeginList
    <2>2. asked \in SUBSET Ids
      OBVIOUS
    <2>3. NewCall(call, "list") /\ call.change = 0 /\ call.revision = revision
      <3> DEFINE k == Call("list", asked)
      <3>1. NewCall(k, "list") /\ k.change = 0
        <4> HIDE DEF asked
        <4> QED BY <2>2, CallsHereFacts, CallIsNew
      <3> HIDE DEF k
      <3>2. LET d == [k EXCEPT !.revision = revision]
            IN  NewCall(d, "list") /\ d.change = k.change /\ d.revision = revision
        BY <3>1, CallRevises
      <3> QED BY <3>1, <3>2 DEF k
    <2> HIDE DEF call
    <2>4. PICK d : /\ NewCall(d, "list") /\ calls' = Superseded(Browsing, Others) \cup {d}
                   /\ d.change = 0 /\ d.revision = revision
      BY <2>1, <2>3, AwaitsAdds
    <2>5. d \in CallType /\ d.op = "list"
      BY <2>4 DEF NewCall
    <2>6. calls' \in SUBSET CallType'
      BY <1>2, <2>4, <2>5, FromType, CallTypeSame
    <2>7. CountsInv'
      BY <1>1, <1>2, <2>4, <2>5, CallsHereFacts, CountsAdded
    <2>8. \A c \in calls' : c.op = "apply" => ~ c.latest
      BY <1>2, <2>4, <2>5, BrowsingLate DEF Browsing
    <2>9. FeedsInv'
      BY <1>1, <2>1, <2>8, CallsHereFacts, FeedsCleared
    <2> QED BY <2>6, <2>7, <2>9 DEF CallsInv
  <1> QED BY <1>3, <1>4 DEF LoadsItems, Others

LEMMA TargetsType ==
    ASSUME DOMAIN servers \subseteq Ids, NEW id, NEW mode
    PROVE  Targets(id, mode).targets \in SUBSET Ids /\ Targets(id, mode).replace \in BOOLEAN
  BY DEF Targets, Ids

LEMMA CallsChange ==
    ASSUME CallsHere, generation \in Generations, DOMAIN servers \subseteq Ids,
           NEW mode, PressApplyUrl(mode), plan' = plan, ~ quit
    PROVE  CallsInv'
  <1>1. /\ UNCHANGED <<generation, revision, quit, fields>> /\ listed' = NoItems
        /\ change < plan.changes
    BY DEF PressApplyUrl, mainVars
  <1> DEFINE left == Superseded(Browsing, Deaf)
  <1>2. From(Deaf, calls) /\ From(left, calls) /\ Deaf \in SUBSET CallType
    BY CallsHereFacts, FromDeaf, FromLeft, FromType
  <1>3. \A c \in left : c.op = "apply" => ~ c.latest
    BY <1>2, BrowsingLate DEF Browsing
  <1>4. CASE calls' = Deaf /\ change' = change /\ items' = items
    BY <1>1, <1>2, <1>4, CallsLeft
  <1>5. CASE BeginEndpoint(Selection, mode, left) /\ items' = NoItems
    <2> DEFINE t == Targets(Selection, mode)
               call == [Call("endpoint", t.targets) EXCEPT !.change = change', !.replace = t.replace]
    <2>1. change' = change + 1 /\ Awaits(left, call)
      BY <1>5 DEF BeginEndpoint
    <2>2. change' \in Changes
      BY <1>1, <2>1, CallsHereFacts DEF Changes
    <2>3. t.targets \in SUBSET Ids /\ t.replace \in BOOLEAN
      BY TargetsType
    <2>4. NewCall(call, "endpoint") /\ call.change = change' /\ call.revision = 0
      <3> DEFINE k == Call("endpoint", t.targets)
      <3> HIDE DEF t
      <3>1. NewCall(k, "endpoint") /\ k.revision = 0
        BY <2>3, CallsHereFacts, CallIsNew
      <3> HIDE DEF k
      <3>2. LET d == [k EXCEPT !.change = change', !.replace = t.replace]
            IN  NewCall(d, "endpoint") /\ d.change = change' /\ d.revision = k.revision
        <4> DEFINE j == [k EXCEPT !.change = change']
        <4>1. NewCall(j, "endpoint") /\ j.change = change' /\ j.revision = k.revision
          BY <2>2, <3>1, CallChanges
        <4>2. [k EXCEPT !.change = change', !.replace = t.replace] = [j EXCEPT !.replace = t.replace]
          BY <3>1 DEF NewCall, CallType
        <4> HIDE DEF j
        <4>3. LET d == [j EXCEPT !.replace = t.replace]
              IN  NewCall(d, "endpoint") /\ d.change = j.change /\ d.revision = j.revision
          BY <2>3, <4>1, CallReplaces
        <4> QED BY <4>1, <4>2, <4>3
      <3> QED BY <3>1, <3>2 DEF k
    <2> HIDE DEF call, left
    <2>5. PICK d : /\ NewCall(d, "endpoint") /\ calls' = left \cup {d}
                   /\ d.change = change' /\ d.revision = 0
      BY <2>1, <2>4, AwaitsAdds
    <2>6. d \in CallType /\ d.op = "endpoint"
      BY <2>5 DEF NewCall
    <2>7. calls' \in SUBSET CallType'
      BY <1>2, <2>5, <2>6, FromType, CallTypeSame
    <2>8. CountsInv'
      BY <1>1, <1>2, <2>1, <2>5, CallsHereFacts, CountsChanged
    <2>9. FeedsInv'
      BY <1>1, <1>3, <1>5, <2>5, <2>6, CallsHereFacts, FeedsCleared
    <2> QED BY <2>7, <2>8, <2>9 DEF CallsInv
  <1>6. CASE RefusesEndpoint(Selection, mode) /\ calls' = left /\ items' = NoItems
    <2>1. change' = change + 1
      BY <1>6 DEF RefusesEndpoint
    <2> HIDE DEF left
    <2>2. calls' \in SUBSET CallType'
      BY <1>2, <1>6, FromType, CallTypeSame
    <2>3. CountsInv'
      BY <1>1, <1>2, <1>6, <2>1, CallsHereFacts, CountsChanged
    <2>4. FeedsInv'
      BY <1>1, <1>3, <1>6, CallsHereFacts, FeedsCleared
    <2> QED BY <2>2, <2>3, <2>4 DEF CallsInv
  <1> QED BY <1>4, <1>5, <1>6 DEF PressApplyUrl

LEMMA CallsSelect ==
    ASSUME CallsHere, NEW s, PressSelect(s), plan' = plan
    PROVE  CallsInv'
  <1>1. UNCHANGED <<generation, change, revision, quit, fields>> /\ listed' = NoItems
    BY DEF PressSelect, tokenVars, mainVars
  <1>2. /\ From(Deaf, calls) /\ From(Superseded(Browsing, Deaf), calls)
        /\ Deaf \in SUBSET CallType
    BY CallsHereFacts, FromDeaf, FromLeft, FromType
  <1>3. CASE calls' = Deaf /\ items' = items
    BY <1>1, <1>2, <1>3, CallsLeft
  <1>4. CASE calls' = Superseded(Browsing, Deaf) /\ items' = NoItems
    <2>1. \A c \in calls' : c.op = "apply" => ~ c.latest
      BY <1>2, <1>4, BrowsingLate DEF Browsing
    <2> QED BY <1>1, <1>2, <1>4, <2>1, CallsCleared
  <1> QED BY <1>3, <1>4 DEF PressSelect

LEMMA CallsQuit ==
    ASSUME CallsHere, Quits, plan' = plan, ~ quit
    PROVE  CallsInv'
  <1> DEFINE left == Superseded({"detect"}, Deaf)
  <1>1. /\ generation' = generation + 1 /\ Reset /\ quit' = TRUE /\ calls' = left
        /\ listed' = NoItems /\ UNCHANGED <<items, fields>>
    BY DEF Quits, SignedOut
  <1>2. From(left, calls)
    BY CallsHereFacts, FromLeft
  <1> HIDE DEF left
  <1>3. calls' \in SUBSET CallType'
    BY <1>1, <1>2, FromType, CallTypeSame
  <1>4. CountsInv'
    BY <1>1, <1>2, CallsHereFacts, CountsReset DEF CallsHere
  <1>5. \A c \in calls' : c.revision \in Nat /\ c.revision <= revision
    <2> SUFFICES ASSUME NEW d \in left PROVE d.revision \in Nat /\ d.revision <= revision
      BY <1>1
    <2>1. PICK c \in calls : Same(d, c)
      BY <1>2 DEF From
    <2>2. c.revision \in Nat /\ c.revision <= revision
      BY CallsHereFacts, CallNumbers DEF CountsInv
    <2> QED BY <2>1, <2>2 DEF Same
  <1>6. revision' = revision + 1
    BY <1>1 DEF Reset
  <1>7. FeedsInv'
    BY <1>1, <1>5, <1>6, CallsHereFacts, FeedsRevised
  <1> QED BY <1>3, <1>4, <1>7 DEF CallsInv

\* An answer that replaces the servers
LEMMA CallsAnswered ==
    ASSUME CallsHere, UNCHANGED <<plan, generation, change, quit, items, fields, listed>>,
           NEW c \in calls, Claimant(generation, change, c), Ends(c), revision' = revision + 1
    PROVE  CallsInv'
  <1>1. calls' \in SUBSET CallType'
    BY CallsHereFacts, CallTypeSame DEF Ends
  <1>2. CountsInv'
    BY CallsHereFacts, CountsAnswered
  <1>3. \A d \in calls' : d.revision \in Nat /\ d.revision <= revision
    BY CallsHereFacts, CallNumbers DEF CountsInv, Ends
  <1>4. FeedsInv'
    BY <1>3, CallsHereFacts, FeedsRevised
  <1> QED BY <1>1, <1>2, <1>4 DEF CallsInv

LEMMA CallsEnd ==
    ASSUME CallsHere, NEW c \in calls, CallEnds(c), plan' = plan
    PROVE  CallsInv'
  <1>0. calls' \in SUBSET calls /\ Ends(c) /\ UNCHANGED <<generation, change, quit>>
    BY DEF CallEnds, LoginEnds, DetectEnds, EndpointEnds, ListEnds, ApplyEnds, Ends, tokenVars, mainVars
  <1>1. From(calls', calls)
    BY <1>0, CallsHereFacts, FromSubset
  <1>2. CASE UNCHANGED <<revision, items, fields, listed>>
    BY <1>0, <1>1, <1>2, CallsLeft
  <1>3. CASE LoginEnds(c)
    <2>1. UNCHANGED <<items, fields, listed>> /\ c.op = "login"
      BY <1>3 DEF LoginEnds
    <2>2. CASE LoginFinds(c)
      <3>1. revision' = revision + 1 /\ Claimant(generation, change, c)
        BY <2>1, <2>2 DEF LoginFinds, Answered, Current, Claimant
      <3> QED BY <1>0, <2>1, <3>1, CallsAnswered
    <2>3. CASE revision' = revision
      BY <1>2, <2>1, <2>3
    <2> QED BY <1>3, <2>2, <2>3 DEF LoginEnds, LoginRefusesAll
  <1>4. CASE EndpointEnds(c)
    <2>1. UNCHANGED <<items, fields, listed>> /\ c.op = "endpoint"
      BY <1>4 DEF EndpointEnds
    <2>2. CASE EndpointApplies(c)
      <3>1. revision' = revision + 1 /\ Claimant(generation, change, c)
        BY <2>1, <2>2 DEF EndpointApplies, Answered, Current, Claimant
      <3> QED BY <1>0, <2>1, <3>1, CallsAnswered
    <2>3. CASE revision' = revision
      BY <1>2, <2>1, <2>3
    <2> QED BY <1>4, <2>2, <2>3 DEF EndpointEnds
  <1>5. CASE DetectEnds(c)
    BY <1>2, <1>5 DEF DetectEnds, mainVars
  <1>6. CASE ListEnds(c)
    <2>1. UNCHANGED <<revision, fields>>
      BY <1>6 DEF ListEnds, mainVars
    <2>2. CASE ListArrives(c) /\ listed' = IF c.heard THEN items' ELSE listed
      <3>1. \E got : items' = [revision |-> revision, servers |-> got]
        BY <2>2 DEF ListArrives
      <3>2. FeedsInv'
        BY <2>1, <2>2, <3>1, CallsHereFacts, FeedsListed
      <3>3. CountsInv'
        BY <1>0, <1>1, <2>1, CallsHereFacts, CountsLeft
      <3> QED BY <1>0, <3>2, <3>3, CallsHereFacts, CallTypeSame DEF CallsInv
    <2> QED BY <1>2, <1>6, <2>1, <2>2 DEF ListEnds
  <1>7. CASE ApplyEnds(c)
    <2>1. UNCHANGED <<revision, items, listed>>
      BY <1>7 DEF ApplyEnds
    <2>2. CASE DetailsArrive(c) /\ fields' = IF items.revision = revision THEN "endpoint in use"
                                             ELSE "another endpoint"
      <3>1. c.op = "apply" /\ c.latest /\ c.revision = revision
        BY <1>7, <2>2 DEF ApplyEnds, DetailsArrive
      <3>2. fields' # "another endpoint"
        BY <2>2, <3>1, CallsHereFacts DEF FeedsInv
      <3>3. FeedsInv'
        BY <1>0, <2>1, <3>2, CallsHereFacts DEF FeedsInv
      <3>4. CountsInv'
        BY <1>0, <1>1, <2>1, CallsHereFacts, CountsLeft
      <3> QED BY <1>0, <3>3, <3>4, CallsHereFacts, CallTypeSame DEF CallsInv
    <2> QED BY <1>2, <1>7, <2>1, <2>2 DEF ApplyEnds
  <1> QED BY <1>3, <1>4, <1>5, <1>6, <1>7 DEF CallEnds

LEMMA CallsNext ==
    ASSUME CallsHere, [Next]_vars, generation \in Generations, revision \in Revisions,
           DOMAIN servers \subseteq Ids
    PROVE  CallsInv'
  <1>0. plan' = plan /\ calls \in SUBSET CallType
    BY CallsHereFacts DEF Next, vars
  <1>1. CASE ~ quit /\ UserActs
    <2>1. CASE TurnsAway
      <3>1. /\ UNCHANGED <<generation, change, revision, quit, items, fields>>
            /\ listed' = NoItems /\ calls' = Deaf
        BY <2>1 DEF TurnsAway, tokenVars, mainVars
      <3> QED BY <1>0, <3>1, FromDeaf, CallsLeft
    <2>2. CASE LoadsNothing \/ PressTokenOnly \/ Toggles \/ (\E kind : Connects(kind)) \/ Disconnects
      <3>1. UNCHANGED <<generation, change, revision, quit, items, fields, listed, calls>>
        BY <2>2 DEF LoadsNothing, PressTokenOnly, Toggles, Connects, Disconnects, tokenVars,
                    sessionVars, mainVars, dialogVars
      <3> QED BY <1>0, <3>1, FromSubset, CallsLeft
    <2> QED BY <1>0, <1>1, <2>1, <2>2, CallsSignIn, CallsDetect, CallsChange, CallsSelect, CallsLoad,
               CallsApply, CallsQuit DEF UserActs
  <1>2. CASE TimePasses \/ UNCHANGED vars
    <2>1. UNCHANGED <<generation, change, revision, quit, items, fields, listed, calls>>
      BY <1>2 DEF TimePasses, Lapses, TimerFires, vars, tokenVars, sessionVars, mainVars, dialogVars
    <2> QED BY <1>0, <2>1, FromSubset, CallsLeft
  <1>3. ASSUME NEW r, PortalAnswers(r) PROVE CallsInv'
    <2>1. UNCHANGED <<generation, change, revision, quit, items, fields, listed>>
      BY <1>3 DEF PortalAnswers, Issues, Denies, dialogVars
    <2>2. Resume(r, TRUE) \/ Resume(r, FALSE)
      BY <1>3 DEF PortalAnswers
    <2> QED BY <1>0, <2>1, <2>2, FromResume, CallsLeft
  <1>4. ASSUME NEW c \in calls, NextRequest(c) PROVE CallsInv'
    <2>1. /\ UNCHANGED <<generation, change, revision, quit, items, fields, listed>>
          /\ Awaits(calls \ {c}, c)
      BY <1>4 DEF NextRequest, RefreshesFirst, mainVars, dialogVars
    <2> QED BY <1>0, <2>1, FromAgain, CallsLeft
  <1> QED BY <1>0, <1>1, <1>2, <1>3, <1>4, CallsEnd DEF Next

-----------------------------------------------------------------------------
(* Types                                                                 *)

RequestType == [kind : {"login", "refresh"}, of : Generations, attempt : Attempts]
ContextOK == [of : Generations, change : Changes]
ListType == [revision : Revisions, servers : SUBSET Ids]
ConnectionType == [up : BOOLEAN, kind : Kinds, of : Generations, token : Tokens]
BadgeType == [hasToken : BOOLEAN, sending : BOOLEAN, error : BOOLEAN]
ShownType == [revision : Revisions, selected : Ids \cup {All}, servers : SUBSET Ids,
              ready : SUBSET Ids]

PlanOK == plan \in Plans /\ portal = plan.portal

TokenOK ==
    /\ generation \in Generations /\ token \in Tokens /\ lapsed \in BOOLEAN
    /\ timer \in Attempts /\ requests \subseteq RequestType /\ issued \in 0 .. plan.tokens

ServersOK ==
    /\ change \in Changes /\ revision \in Revisions
    /\ DOMAIN servers \subseteq Ids
    /\ \A s \in DOMAIN servers : servers[s] \in ContextOK
    /\ selected \in Ids \cup {All}

ListsOK == items \in ListType /\ listed \in ListType

MainOK ==
    /\ loginPending \in BOOLEAN /\ sending \in BOOLEAN /\ quit \in BOOLEAN
    /\ applied \in Generations /\ transport \in ConnectionType
    /\ fields \in {"none", "endpoint in use", "another endpoint"}
    /\ badge \in BadgeType

DialogOK ==
    /\ shown \in ShownType /\ busy \in {"no", "yes", "apply", "loads"} /\ drafted \in BOOLEAN

LEMMA TypeParts ==
    TypeOK <=> PlanOK /\ TokenOK /\ ServersOK /\ ListsOK /\ MainOK /\ DialogOK
               /\ calls \in SUBSET CallType
  BY DEF TypeOK, PlanOK, TokenOK, ServersOK, ListsOK, MainOK, DialogOK, CallType, RequestType,
         ContextOK, ListType, ConnectionType, BadgeType, ShownType, Kinds

LEMMA Zeros ==
    ASSUME plan \in Plan
    PROVE  /\ 0 \in Generations /\ 0 \in Changes /\ 0 \in Revisions /\ NoToken \in Tokens
           /\ Generations \subseteq Nat /\ Changes \subseteq Nat /\ Revisions \subseteq Nat
           /\ NoItems \in ListType /\ NoSession \in ShownType
           /\ Idle \in ConnectionType /\ Unvalidated \in ContextOK
  <1>1. plan.signIns \in Nat /\ plan.changes \in Nat /\ plan.tokens \in Nat
    BY PlanNumbers
  <1>2. 0 \in Generations /\ 0 \in Changes /\ 0 \in Revisions
    BY <1>1 DEF Generations, Changes, Revisions
  <1>3. Generations \subseteq Nat /\ Changes \subseteq Nat /\ Revisions \subseteq Nat
    BY <1>1 DEF Generations, Changes, Revisions
  <1>4. NoToken \in Tokens
    BY <1>1, <1>2 DEF NoToken, Tokens
  <1>5. NoItems \in ListType /\ NoSession \in ShownType /\ Unvalidated \in ContextOK
    BY <1>2 DEF NoItems, ListType, NoSession, ShownType, Unvalidated, ContextOK
  <1>6. Idle \in ConnectionType
    BY <1>2, <1>4 DEF Idle, ConnectionType, Kinds
  <1> QED BY <1>2, <1>3, <1>4, <1>5, <1>6

LEMMA TypesSame ==
    ASSUME plan' = plan
    PROVE  /\ Generations' = Generations /\ Changes' = Changes /\ Revisions' = Revisions
           /\ Tokens' = Tokens /\ RequestType' = RequestType /\ ContextOK' = ContextOK
           /\ ListType' = ListType /\ ConnectionType' = ConnectionType
           /\ BadgeType' = BadgeType /\ ShownType' = ShownType
  BY DEF Generations, Changes, Revisions, Tokens, RequestType, ContextOK, ListType,
         ConnectionType, BadgeType, ShownType, Ids, Attempts, Kinds

\* Timers
LEMMA AttemptRange ==
    /\ Foreground \in Attempts /\ NoTimer \in Attempts /\ 0 \in Attempts
    /\ \A n \in 0 .. Retries - 1 : n + 1 \in Attempts
  BY TokenAssumption DEF Attempts, Foreground, NoTimer

\* A new request, or none
LEMMA TokenRefresh ==
    ASSUME TokenOK, UNCHANGED <<plan, generation, token, lapsed, issued>>,
           \/ UNCHANGED <<requests, timer>>
           \/ \E attempt \in Attempts : Refresh(attempt)
    PROVE  TokenOK'
  <1>1. CASE UNCHANGED <<requests, timer>>
    BY <1>1, TypesSame DEF TokenOK
  <1>2. ASSUME NEW attempt \in Attempts, Refresh(attempt) PROVE TokenOK'
    <2>1. CASE Refreshing
      BY <1>1, <1>2, <2>1 DEF Refresh
    <2>2. CASE ~ Refreshing
      <3> DEFINE r == [kind |-> "refresh", of |-> generation, attempt |-> attempt]
      <3>1. requests' = requests \cup {r} /\ timer' = NoTimer
        BY <1>2, <2>2 DEF Refresh
      <3>2. r \in RequestType
        BY DEF RequestType, TokenOK
      <3> HIDE DEF r
      <3> QED BY <3>1, <3>2, AttemptRange, TypesSame DEF TokenOK
    <2> QED BY <2>1, <2>2
  <1> QED BY <1>1, <1>2

LEMMA TokenAwaits ==
    ASSUME TokenOK, UNCHANGED <<plan, generation, token, lapsed, issued>>,
           NEW others, NEW call, Awaits(others, call)
    PROVE  TokenOK'
  BY TokenRefresh, AttemptRange DEF Awaits

LEMMA TokenReset ==
    ASSUME TokenOK, plan \in Plan, UNCHANGED <<plan, issued>>, SignedOut,
           generation <= plan.signIns,
           \/ requests' = requests
           \/ AsksForToken
    PROVE  TokenOK'
  <1>1. generation \in Nat /\ plan.signIns \in Nat
    BY Zeros, PlanNumbers DEF TokenOK
  <1>2. generation' \in Generations
    BY <1>1 DEF SignedOut, Generations
  <1>3. token' \in Tokens /\ lapsed' \in BOOLEAN /\ timer' \in Attempts
    BY Zeros, AttemptRange DEF SignedOut
  <1>4. requests' \subseteq RequestType
    <2>1. CASE requests' = requests
      BY <2>1 DEF TokenOK
    <2>2. CASE AsksForToken
      <3> DEFINE r == [kind |-> "login", of |-> generation', attempt |-> Foreground]
      <3>1. requests' = requests \cup {r}
        BY <2>2 DEF AsksForToken
      <3>2. r \in RequestType
        BY <1>2, AttemptRange DEF RequestType
      <3> HIDE DEF r
      <3> QED BY <3>1, <3>2 DEF TokenOK
    <2> QED BY <2>1, <2>2
  <1> QED BY <1>2, <1>3, <1>4, TypesSame DEF TokenOK

LEMMA TokenPortal ==
    ASSUME TokenOK, plan \in Plan, plan' = plan, NEW r \in requests, PortalAnswers(r)
    PROVE  TokenOK'
  <1>1. requests' \subseteq RequestType
    BY DEF PortalAnswers, Issues, Denies, TokenOK
  <1>2. CASE Issues(r) /\ issued < plan.tokens
    <2>1. /\ token' = [of |-> generation, number |-> issued + 1] /\ issued' = issued + 1
          /\ lapsed' = FALSE /\ timer' = 0 /\ generation' = generation
      BY <1>2 DEF Issues, Fresh
    <2>2. issued + 1 \in 0 .. plan.tokens
      BY <1>2, PlanNumbers DEF TokenOK
    <2>3. token' \in Tokens
      BY <2>1, <2>2 DEF TokenOK, Tokens
    <2> QED BY <1>1, <2>1, <2>2, <2>3, AttemptRange, TypesSame DEF TokenOK
  <1>3. CASE Denies(r)
    <2>1. timer' \in Attempts
      BY <1>3, AttemptRange DEF Denies, RetriesAfter, TokenOK
    <2> QED BY <1>1, <1>3, <2>1, TypesSame DEF Denies, TokenOK
  <1> QED BY <1>2, <1>3 DEF PortalAnswers

LEMMA TokenTypes ==
    ASSUME TokenOK, CountsInv, plan \in Plan, [Next]_vars
    PROVE  TokenOK'
  <1>0. plan' = plan
    BY DEF Next, vars
  <1>1. CASE ~ quit /\ UserActs
    <2>1. ASSUME UNCHANGED tokenVars PROVE TokenOK'
      BY <1>0, <2>1, TokenRefresh DEF tokenVars
    <2>2. CASE PressSignIn
      <3>1. CASE BeginsSignIn
        <4>1. AsksForToken /\ SignedOut /\ issued' = issued
          BY <3>1 DEF BeginsSignIn, AsksForToken
        <4> QED BY <1>0, <1>1, <4>1, TokenReset DEF CountsInv
      <3> QED BY <2>1, <2>2, <3>1 DEF PressSignIn, RefusesSignIn, RefusesPortal
    <2>3. CASE Quits
      <3>1. SignedOut /\ UNCHANGED <<requests, issued>>
        BY <2>3 DEF Quits
      <3> QED BY <1>0, <1>1, <3>1, TokenReset DEF CountsInv
    <2>4. CASE PressDetect \/ (\E mode : PressApplyUrl(mode)) \/ LoadsItems \/ (\E s : PressApply(s))
      <3>1. UNCHANGED <<generation, token, lapsed, issued>>
        BY <2>4 DEF PressDetect, PressApplyUrl, LoadsItems, PressApply
      <3>2. UNCHANGED <<requests, timer>> \/ \E others, call : Awaits(others, call)
        BY <2>4 DEF PressDetect, BeginDetect, PressApplyUrl, BeginEndpoint, RefusesEndpoint, LoadsItems,
                    BeginList, PressApply, BeginDetails
      <3> QED BY <1>0, <3>1, <3>2, TokenRefresh, TokenAwaits
    <2>5. CASE (\E s : PressSelect(s)) \/ LoadsNothing \/ PressTokenOnly \/ TurnsAway \/ Toggles
               \/ (\E kind : Connects(kind)) \/ Disconnects
      <3>1. UNCHANGED tokenVars
        BY <2>5 DEF PressSelect, LoadsNothing, PressTokenOnly, TurnsAway, Toggles, Connects, Disconnects
      <3> QED BY <2>1, <3>1
    <2> QED BY <1>1, <2>2, <2>3, <2>4, <2>5 DEF UserActs
  <1>2. CASE TimePasses
    <2>1. CASE Lapses
      BY <1>0, <2>1, TypesSame DEF Lapses, TokenOK
    <2>2. CASE TimerFires
      <3>1. Refresh(timer) /\ timer \in Attempts
        BY <2>2 DEF TimerFires, TokenOK
      <3> QED BY <1>0, <2>2, <3>1, TokenRefresh DEF TimerFires
    <2> QED BY <1>2, <2>1, <2>2 DEF TimePasses
  <1>3. CASE \E r \in requests : PortalAnswers(r)
    BY <1>0, <1>3, TokenPortal
  <1>4. ASSUME NEW c \in calls, CallEnds(c) \/ NextRequest(c) PROVE TokenOK'
    <2>1. CASE CallEnds(c)
      <3>1. UNCHANGED tokenVars
        BY <2>1 DEF CallEnds, LoginEnds, DetectEnds, EndpointEnds, ListEnds, ApplyEnds
      <3> QED BY <1>0, <3>1, TokenRefresh DEF tokenVars
    <2>2. CASE NextRequest(c)
      BY <1>0, <2>2, TokenAwaits DEF NextRequest, RefreshesFirst
    <2> QED BY <1>4, <2>1, <2>2
  <1>5. CASE UNCHANGED vars
    BY <1>0, <1>5, TokenRefresh DEF vars, tokenVars
  <1> QED BY <1>1, <1>2, <1>3, <1>4, <1>5 DEF Next

\* The servers that an answer brings
LEMMA ServersAnswered ==
    ASSUME PlanOK, plan \in Plan, ServersOK, calls \in SUBSET CallType, CountsInv,
           NEW c \in calls, CallEnds(c), plan' = plan
    PROVE  ServersOK'
  <1>0. /\ c \in CallType /\ c.of \in Generations /\ c.change \in Changes /\ c.targets \subseteq Ids
        /\ [of |-> c.of, change |-> c.change] \in ContextOK /\ Unvalidated \in ContextOK
        /\ change \in Changes /\ revision \in Revisions /\ change \in Nat /\ revision \in Nat
        /\ plan.changes \in Nat
    BY Zeros, PlanNumbers DEF CallType, ContextOK, ServersOK
  <1>1. change' = change
    BY DEF CallEnds, LoginEnds, DetectEnds, EndpointEnds, ListEnds, ApplyEnds
  <1>2. \A found \in Directory \cup {{Custom}} : found \subseteq Ids
    BY DEF PlanOK, Plan, Directory, Ids
  <1>3. ASSUME Claimant(generation, change, c), revision' = revision + 1
        PROVE  revision' \in Revisions
    <2>1. ~ quit /\ revision < 2 * change /\ change <= plan.changes
      BY <1>3 DEF CountsInv, Claimed, Claimant
    <2>2. revision + 1 <= 2 * plan.changes + 1
      BY <1>0, <2>1
    <2> QED BY <1>0, <1>3, <2>2 DEF Revisions
  <1>4. CASE UNCHANGED <<servers, selected, revision>>
    BY <1>0, <1>1, <1>4, TypesSame DEF ServersOK, Ids
  <1>5. CASE LoginEnds(c) /\ LoginFinds(c)
    <2>1. c.op = "login" /\ c.of = generation /\ c.change = change /\ revision' = revision + 1
      BY <1>5 DEF LoginEnds, LoginFinds, Answered, Current
    <2>2. revision' \in Revisions
      BY <1>3, <2>1 DEF Claimant
    <2>3. PICK found \in Directory \cup {{Custom}} : \E ready \in SUBSET found :
             /\ servers' = [s \in found |-> IF s \in ready THEN [of |-> c.of, change |-> c.change]
                                            ELSE Unvalidated]
             /\ selected' \in found \cup {All}
      BY <1>5 DEF LoginFinds
    <2>4. DOMAIN servers' = found /\ found \subseteq Ids
      BY <1>2, <2>3
    <2>5. \A s \in DOMAIN servers' : servers'[s] \in ContextOK
      BY <1>0, <2>3
    <2>6. selected' \in Ids \cup {All}
      BY <2>3, <2>4
    <2> QED BY <1>0, <1>1, <2>2, <2>4, <2>5, <2>6, TypesSame DEF ServersOK, Ids
  <1>6. CASE LoginEnds(c) /\ LoginRefusesAll(c)
    <2>1. /\ UNCHANGED <<selected, revision>>
          /\ \E found \in Directory : servers' = [s \in found |-> Unvalidated]
      BY <1>6 DEF LoginRefusesAll
    <2>2. DOMAIN servers' \subseteq Ids /\ \A s \in DOMAIN servers' : servers'[s] \in ContextOK
      BY <1>0, <1>2, <2>1
    <2> QED BY <1>0, <1>1, <2>1, <2>2, TypesSame DEF ServersOK, Ids
  <1>7. CASE DetectEnds(c) /\ DetectFinds(c)
    <2>1. /\ UNCHANGED <<selected, revision>>
          /\ servers' = servers \/ \E found \in Directory : servers' = [s \in found |-> Unvalidated]
      BY <1>7 DEF DetectEnds, DetectFinds
    <2>2. DOMAIN servers' \subseteq Ids /\ \A s \in DOMAIN servers' : servers'[s] \in ContextOK
      BY <1>0, <1>2, <2>1 DEF ServersOK
    <2> QED BY <1>0, <1>1, <2>1, <2>2, TypesSame DEF ServersOK, Ids
  <1>8. CASE EndpointEnds(c) /\ EndpointApplies(c)
    <2> DEFINE validated == [of |-> c.of, change |-> c.change]
    <2>1. c.op = "endpoint" /\ c.of = generation /\ c.change = change /\ revision' = revision + 1
      BY <1>8 DEF EndpointEnds, EndpointApplies, Answered, Current
    <2>2. revision' \in Revisions
      BY <1>3, <2>1 DEF Claimant
    <2>3. CASE (\E found \in Directory : servers' = [s \in found |-> validated]) /\ selected' = All
      <3>1. DOMAIN servers' \subseteq Ids /\ \A s \in DOMAIN servers' : servers'[s] \in ContextOK
        BY <1>0, <1>2, <2>3
      <3> QED BY <1>0, <1>1, <2>2, <2>3, <3>1, TypesSame DEF ServersOK, Ids
    <2>4. CASE /\ servers' = [s \in DOMAIN servers \cup c.targets |->
                                IF s \in c.targets THEN validated ELSE servers[s]]
               /\ selected' = selected
      <3>1. DOMAIN servers' = DOMAIN servers \cup c.targets
        BY <2>4
      <3>2. \A s \in DOMAIN servers' : servers'[s] \in ContextOK
        BY <1>0, <2>4 DEF ServersOK
      <3> QED BY <1>0, <1>1, <2>2, <2>4, <3>1, <3>2, TypesSame DEF ServersOK, Ids
    <2> QED BY <1>8, <2>3, <2>4 DEF EndpointApplies
  <1> QED BY <1>4, <1>5, <1>6, <1>7, <1>8 DEF CallEnds, LoginEnds, DetectEnds, EndpointEnds, ListEnds,
             ApplyEnds

LEMMA ServersTypes ==
    ASSUME PlanOK, plan \in Plan, ServersOK, calls \in SUBSET CallType, CountsInv, [Next]_vars
    PROVE  ServersOK'
  <1>0. plan' = plan
    BY DEF Next, vars
  <1>1. ASSUME UNCHANGED <<change, revision, servers, selected>> PROVE ServersOK'
    BY <1>0, <1>1, TypesSame DEF ServersOK, Ids
  <1>2. CASE ~ quit /\ UserActs
    <2>0. /\ change \in Nat /\ revision \in Nat /\ plan.changes \in Nat
          /\ change <= plan.changes /\ revision <= 2 * change
      BY <1>2, Zeros, PlanNumbers DEF ServersOK, CountsInv
    <2>1. CASE Reset
      <3>1. change' \in Changes
        BY <2>0, <2>1 DEF Reset, Changes
      <3>2. revision' \in Revisions
        <4>1. revision + 1 <= 2 * plan.changes + 1
          BY <2>0
        <4> QED BY <2>0, <2>1, <4>1 DEF Reset, Revisions
      <3>3. DOMAIN servers' = {} /\ selected' = All
        BY <2>1 DEF Reset, NoServers
      <3> QED BY <1>0, <3>1, <3>2, <3>3, TypesSame DEF ServersOK
    <2>2. ASSUME NEW mode, PressApplyUrl(mode) PROVE ServersOK'
      <3>1. UNCHANGED <<revision, servers, selected>> /\ change < plan.changes
            /\ change' \in {change, change + 1}
        BY <2>2 DEF PressApplyUrl, BeginEndpoint, RefusesEndpoint
      <3>2. change' \in Changes
        BY <2>0, <3>1 DEF Changes
      <3> QED BY <1>0, <3>1, <3>2, TypesSame DEF ServersOK, Ids
    <2>3. ASSUME NEW s, PressSelect(s) PROVE ServersOK'
      <3>1. UNCHANGED <<change, revision, servers>>
            /\ selected' \in DOMAIN servers \cup {All, selected}
        BY <2>3 DEF PressSelect
      <3> QED BY <1>0, <3>1, TypesSame DEF ServersOK, Ids
    <2>4. CASE PressSignIn \/ Quits
      BY <1>1, <2>1, <2>4 DEF PressSignIn, BeginsSignIn, BeginLogin, RefusesSignIn, RefusesPortal, Quits
    <2>5. CASE PressDetect \/ LoadsItems \/ LoadsNothing \/ (\E s : PressApply(s)) \/ PressTokenOnly
               \/ TurnsAway \/ Toggles \/ (\E kind : Connects(kind)) \/ Disconnects
      <3>1. UNCHANGED <<change, revision, servers, selected>>
        BY <2>5 DEF PressDetect, LoadsItems, LoadsNothing, PressApply, PressTokenOnly, TurnsAway,
                    Toggles, Connects, Disconnects, sessionVars
      <3> QED BY <1>1, <3>1
    <2> QED BY <1>2, <2>2, <2>3, <2>4, <2>5 DEF UserActs
  <1>3. CASE TimePasses \/ (\E r : PortalAnswers(r)) \/ (\E c : NextRequest(c)) \/ UNCHANGED vars
    <2>1. UNCHANGED <<change, revision, servers, selected>>
      BY <1>3 DEF TimePasses, PortalAnswers, NextRequest, vars, sessionVars
    <2> QED BY <1>1, <2>1
  <1> QED BY <1>0, <1>2, <1>3, ServersAnswered DEF Next

LEMMA ListsTypes ==
    ASSUME plan \in Plan, ServersOK, ListsOK, calls \in SUBSET CallType, [Next]_vars
    PROVE  ListsOK'
  <1>0. plan' = plan /\ NoItems \in ListType /\ ListType' = ListType
    BY Zeros, TypesSame DEF Next, vars
  <1>1. ASSUME items' \in {items, NoItems}, listed' \in {listed, NoItems} PROVE ListsOK'
    BY <1>0, <1>1 DEF ListsOK
  <1>2. CASE UserActs
    <2>1. items' \in {items, NoItems} /\ listed' \in {listed, NoItems}
      BY <1>2 DEF UserActs, PressSignIn, BeginsSignIn, BeginLogin, RefusesSignIn, RefusesPortal,
                  PressDetect, PressApplyUrl, PressSelect, LoadsItems, BeginList, LoadsNothing, PressApply,
                  PressTokenOnly, TurnsAway, Toggles, Connects, Disconnects, Quits, sessionVars,
                  dialogVars
    <2> QED BY <1>1, <2>1
  <1>3. CASE TimePasses \/ (\E r : PortalAnswers(r)) \/ (\E c : NextRequest(c)) \/ UNCHANGED vars
    <2>1. UNCHANGED <<items, listed>>
      BY <1>3 DEF TimePasses, PortalAnswers, NextRequest, vars, sessionVars, dialogVars
    <2> QED BY <1>1, <2>1
  <1>4. ASSUME NEW c \in calls, CallEnds(c) PROVE ListsOK'
    <2>1. CASE ListEnds(c) /\ ListArrives(c)
      <3>1. PICK got \in SUBSET (c.targets \cap Validated) :
               items' = [revision |-> c.revision, servers |-> got]
        BY <2>1 DEF ListArrives
      <3>2. c.revision \in Revisions /\ got \in SUBSET Ids
        BY <3>1 DEF CallType
      <3>3. items' \in ListType
        BY <3>1, <3>2 DEF ListType
      <3>4. listed' = items' \/ listed' = listed
        BY <2>1 DEF ListEnds
      <3> QED BY <1>0, <3>3, <3>4 DEF ListsOK
    <2>2. CASE ~ (ListEnds(c) /\ ListArrives(c))
      <3>1. UNCHANGED <<items, listed>>
        BY <1>4, <2>2 DEF CallEnds, LoginEnds, DetectEnds, EndpointEnds, ListEnds, ApplyEnds
      <3> QED BY <1>1, <3>1
    <2> QED BY <2>1, <2>2
  <1> QED BY <1>2, <1>3, <1>4 DEF Next

\* What the dialog shows is what the session was at the end of the step.
LEMMA DialogTypes ==
    ASSUME plan \in Plan, DialogOK, ServersOK', [Next]_vars
    PROVE  DialogOK'
  <1>0. plan' = plan /\ NoSession \in ShownType /\ ShownType' = ShownType
    BY Zeros, TypesSame DEF Next, vars
  <1>1. Snapshot' \in ShownType
    <2>1. /\ revision' \in Revisions /\ selected' \in Ids \cup {All}
          /\ DOMAIN servers' \in SUBSET Ids /\ Validated' \in SUBSET Ids
      BY <1>0, TypesSame DEF ServersOK, Validated, Ids
    <2> QED BY <2>1 DEF Snapshot, ShownType
  <1>2. Accepts => DialogOK'
    BY <1>0, <1>1 DEF Accepts, DialogOK
  <1>3. CASE UserActs
    <2>1. CASE \E s : PressSelect(s)
      <3>1. Accepts \/ UNCHANGED <<shown, drafted, busy>>
        BY <2>1 DEF PressSelect
      <3> QED BY <1>0, <1>2, <3>1 DEF DialogOK
    <2>2. CASE ~ \E s : PressSelect(s)
      <3>1. shown' \in {shown, NoSession}
        BY <1>3, <2>2 DEF UserActs, PressSignIn, PressDetect, PressApplyUrl, LoadsItems, LoadsNothing,
              PressApply, PressTokenOnly, TurnsAway, Edits, Closes, Toggles, Connects, Disconnects,
              Quits, dialogVars
      <3>2. busy' \in {busy, "no", "yes", "apply", "loads"}
        BY <1>3, <2>2 DEF UserActs, PressSignIn, BeginsSignIn, RefusesSignIn, RefusesPortal, PressDetect,
              PressApplyUrl, LoadsItems, LoadsNothing, PressApply, PressTokenOnly, TurnsAway, Toggles,
              Connects, Disconnects, Quits, dialogVars
      <3>3. drafted' \in BOOLEAN \cup {drafted}
        BY <1>3, <2>2 DEF UserActs, PressSignIn, PressDetect, PressApplyUrl, LoadsItems, LoadsNothing,
              PressApply, PressTokenOnly, TurnsAway, Edits, Closes, Toggles, Connects, Disconnects,
              Quits, dialogVars
      <3> QED BY <1>0, <3>1, <3>2, <3>3 DEF DialogOK
    <2> QED BY <2>1, <2>2
  <1>4. CASE TimePasses \/ (\E r : PortalAnswers(r)) \/ (\E c : NextRequest(c)) \/ UNCHANGED vars
    <2>1. UNCHANGED <<shown, drafted, busy>>
      BY <1>4 DEF TimePasses, PortalAnswers, NextRequest, vars, dialogVars
    <2> QED BY <1>0, <2>1 DEF DialogOK
  <1>5. ASSUME NEW c, CallEnds(c) PROVE DialogOK'
    <2>1. Accepts \/ (UNCHANGED <<shown, drafted>> /\ busy' \in {busy, "no"})
      BY <1>5 DEF CallEnds, LoginEnds, DetectEnds, EndpointEnds, ListEnds, ApplyEnds, NoLongerBusy
    <2> QED BY <1>0, <1>2, <2>1 DEF DialogOK
  <1> QED BY <1>3, <1>4, <1>5 DEF Next

LEMMA MainTypes ==
    ASSUME plan \in Plan, MainOK, TokenOK, TokenOK', [Next]_vars
    PROVE  MainOK'
  <1>0. /\ plan' = plan /\ NoToken \in Tokens /\ Idle \in ConnectionType /\ 0 \in Generations
        /\ Generations' = Generations /\ ConnectionType' = ConnectionType /\ BadgeType' = BadgeType
        /\ Tokens' = Tokens /\ generation \in Generations
    BY Zeros, TypesSame DEF Next, vars, TokenOK
  <1>1. TokenForConnection \in Tokens /\ TokenForConnection' \in Tokens
    <2>1. TokenForConnection = token \/ TokenForConnection = NoToken
      BY DEF TokenForConnection
    <2>2. TokenForConnection' = token' \/ TokenForConnection' = NoToken
      BY DEF TokenForConnection, NoToken
    <2> QED BY <1>0, <2>1, <2>2 DEF TokenOK
  <1>2. \A disable : HotSwap(disable) => transport' \in ConnectionType
    <2>1. [transport EXCEPT !.token = TokenForConnection'] \in ConnectionType
      BY <1>1 DEF MainOK, ConnectionType
    <2> QED BY <2>1 DEF HotSwap, MainOK
  <1>3. Authenticated \in BOOLEAN /\ Authenticated' \in BOOLEAN
    BY DEF Authenticated
  <1>4. ASSUME sending' \in BOOLEAN, ShowsToken PROVE badge' \in BadgeType
    BY <1>3, <1>4 DEF ShowsToken, MainOK, BadgeType
  <1>5. ASSUME UNCHANGED mainVars PROVE MainOK'
    BY <1>0, <1>5 DEF MainOK, mainVars
  <1>6. CASE UserActs
    <2>1. CASE PressSignIn
      <3>1. UNCHANGED <<transport, fields, badge, quit>>
        BY <2>1 DEF PressSignIn
      <3>2. /\ loginPending' \in {loginPending, TRUE} /\ sending' \in {sending, FALSE}
            /\ applied' \in {applied, 0}
        BY <2>1 DEF PressSignIn, BeginsSignIn, RefusesSignIn, RefusesPortal
      <3> QED BY <1>0, <3>1, <3>2 DEF MainOK
    <2>2. CASE PressDetect \/ (\E mode : PressApplyUrl(mode)) \/ (\E s : PressSelect(s)) \/ LoadsItems
               \/ LoadsNothing \/ (\E s : PressApply(s)) \/ TurnsAway
      <3>1. UNCHANGED mainVars
        BY <2>2 DEF PressDetect, PressApplyUrl, PressSelect, LoadsItems, LoadsNothing, PressApply,
                    TurnsAway
      <3> QED BY <1>5, <3>1
    <2>3. CASE PressTokenOnly
      <3>1. /\ UNCHANGED <<loginPending, fields, quit>> /\ applied' = generation /\ sending' = TRUE
            /\ transport' \in ConnectionType /\ badge' \in BadgeType
        BY <1>2, <2>3 DEF PressTokenOnly, BadgeType
      <3> QED BY <1>0, <3>1 DEF MainOK
    <2>4. CASE Toggles
      <3>1. /\ UNCHANGED <<loginPending, fields, quit>> /\ applied' \in {applied, generation}
            /\ transport' \in ConnectionType
        BY <1>2, <2>4 DEF Toggles
      <3>2. sending' \in BOOLEAN
        BY <2>4 DEF Toggles
      <3>3. badge' \in BadgeType
        BY <1>4, <2>4, <3>2 DEF Toggles
      <3> QED BY <1>0, <3>1, <3>2, <3>3 DEF MainOK
    <2>5. ASSUME NEW kind \in plan.kinds, Connects(kind) PROVE MainOK'
      <3>1. kind \in Kinds
        BY <2>5 DEF Plan, Kinds
      <3>2. transport' \in ConnectionType
        BY <1>0, <1>1, <2>5, <3>1 DEF Connects, ConnectionType, MainOK
      <3> QED BY <1>0, <2>5, <3>2 DEF Connects, MainOK
    <2>6. CASE Disconnects \/ Quits
      <3>1. /\ UNCHANGED <<loginPending, sending, applied, fields, badge>> /\ transport' = Idle
            /\ quit' \in {quit, TRUE}
        BY <2>6 DEF Disconnects, Quits
      <3> QED BY <1>0, <3>1 DEF MainOK
    <2> QED BY <1>6, <2>1, <2>2, <2>3, <2>4, <2>5, <2>6 DEF UserActs
  <1>7. CASE TimePasses \/ (\E c : NextRequest(c)) \/ UNCHANGED vars
    <2>1. UNCHANGED mainVars
      BY <1>7 DEF TimePasses, NextRequest, vars, mainVars
    <2> QED BY <1>5, <2>1
  <1>8. ASSUME NEW r, PortalAnswers(r) PROVE MainOK'
    <2>1. UNCHANGED <<loginPending, sending, applied, fields, quit>>
      BY <1>8 DEF PortalAnswers
    <2>2. transport' \in ConnectionType
      BY <1>2, <1>8 DEF PortalAnswers, MainOK
    <2>3. badge' \in BadgeType
      <3>1. \/ badge' = [hasToken |-> TRUE, sending |-> sending, error |-> FALSE]
            \/ badge' = [hasToken |-> Authenticated, sending |-> sending, error |-> TRUE]
            \/ badge' = badge
        BY <1>8 DEF PortalAnswers
      <3>2. sending \in BOOLEAN /\ badge \in BadgeType
        BY DEF MainOK
      <3>3. \A a, b, e \in BOOLEAN : [hasToken |-> a, sending |-> b, error |-> e] \in BadgeType
        BY DEF BadgeType
      <3> DEFINE a == Authenticated
      <3>4. a \in BOOLEAN
        BY <1>3
      <3>5. \/ badge' = [hasToken |-> TRUE, sending |-> sending, error |-> FALSE]
            \/ badge' = [hasToken |-> a, sending |-> sending, error |-> TRUE]
            \/ badge' = badge
        BY <3>1
      <3> HIDE DEF a
      <3> QED BY <3>2, <3>3, <3>4, <3>5
    <2> QED BY <1>0, <2>1, <2>2, <2>3 DEF MainOK
  <1>9. ASSUME NEW c, CallEnds(c) PROVE MainOK'
    <2>1. CASE LoginEnds(c) \/ EndpointEnds(c)
      <3>1. /\ UNCHANGED <<sending, applied, transport, fields, quit>>
            /\ loginPending' \in {loginPending, FALSE}
        BY <2>1 DEF LoginEnds, EndpointEnds
      <3>2. badge' = badge \/ ShowsToken
        BY <2>1 DEF LoginEnds, EndpointEnds
      <3>3. badge' \in BadgeType
        BY <1>4, <3>1, <3>2 DEF MainOK
      <3> QED BY <1>0, <3>1, <3>3 DEF MainOK
    <2>2. CASE DetectEnds(c) \/ ListEnds(c)
      BY <1>5, <2>2 DEF DetectEnds, ListEnds
    <2>3. CASE ApplyEnds(c)
      <3>1. UNCHANGED <<loginPending, quit>>
        BY <2>3 DEF ApplyEnds
      <3>2. CASE UNCHANGED <<sending, applied, transport, fields, badge>>
        BY <1>0, <3>1, <3>2 DEF MainOK
      <3>3. CASE /\ applied' = generation /\ sending' \in BOOLEAN /\ HotSwap(FALSE)
                 /\ fields' \in {"endpoint in use", "another endpoint"}
                 /\ badge' = [hasToken |-> Authenticated, sending |-> sending', error |-> FALSE]
        <4>1. transport' \in ConnectionType /\ badge' \in BadgeType
          BY <1>2, <1>3, <3>3 DEF BadgeType
        <4> QED BY <1>0, <3>1, <3>3, <4>1 DEF MainOK
      <3> QED BY <2>3, <3>2, <3>3 DEF ApplyEnds
    <2> QED BY <1>9, <2>1, <2>2, <2>3 DEF CallEnds
  <1> QED BY <1>6, <1>7, <1>8, <1>9 DEF Next

-----------------------------------------------------------------------------
(* All of it                                                             *)

SettlesInv == TypeOK /\ CountsInv /\ FeedsInv /\ SwapInv

LEMMA SettlesInit == Init => SettlesInv
  <1> SUFFICES ASSUME Init PROVE SettlesInv
    OBVIOUS
  <1>1. plan \in Plan /\ PlanOK /\ plan.tokens \in Nat
    BY LoginAssumption, PlanNumbers DEF Init, PlanOK
  <1>2. /\ 0 \in Generations /\ 0 \in Changes /\ 0 \in Revisions /\ NoToken \in Tokens
        /\ NoItems \in ListType /\ NoSession \in ShownType /\ Idle \in ConnectionType
    BY <1>1, Zeros
  <1>3. TokenOK
    <2>1. generation \in Generations /\ token \in Tokens /\ lapsed \in BOOLEAN
      BY <1>2 DEF Init, TokenInit
    <2>2. timer \in Attempts /\ requests \subseteq RequestType
      BY AttemptRange DEF Init, TokenInit
    <2>3. issued \in 0 .. plan.tokens
      BY <1>1 DEF Init, TokenInit
    <2> QED BY <2>1, <2>2, <2>3 DEF TokenOK
  <1>4. ServersOK /\ ListsOK
    BY <1>2 DEF Init, SessionInit, ServersOK, ListsOK, NoServers
  <1>5. MainOK /\ DialogOK
    BY <1>2 DEF Init, MainOK, DialogOK, BadgeType
  <1>6. calls = {} /\ CountsInv
    BY <1>1, PlanNumbers DEF Init, TokenInit, SessionInit, CountsInv, Sole, Claimed
  <1>7. FeedsInv
    BY <1>6, NoFeeds DEF Init, SessionInit, FeedsInv
  <1> QED BY <1>1, <1>3, <1>4, <1>5, <1>6, <1>7, SwapInit, TypeParts DEF SettlesInv

LEMMA SettlesNext ==
    ASSUME LoginInv, SessionInv, SettlesInv, [Next]_vars
    PROVE  SettlesInv'
  <1>1. /\ PlanOK /\ TokenOK /\ ServersOK /\ ListsOK /\ MainOK /\ DialogOK
        /\ calls \in SUBSET CallType /\ CountsInv /\ FeedsInv /\ SwapInv
    BY TypeParts DEF SettlesInv
  <1>2. plan \in Plan /\ PlanOK'
    BY <1>1, LoginAssumption DEF PlanOK, Next, vars
  <1>3. TokenOK' /\ ServersOK' /\ ListsOK'
    BY <1>1, <1>2, TokenTypes, ServersTypes, ListsTypes
  <1>4. MainOK' /\ DialogOK'
    BY <1>1, <1>2, <1>3, MainTypes, DialogTypes
  <1>5. CallsHere
    <2>1. CountTypes
      BY <1>1, <1>2, Zeros DEF CountTypes, TokenOK, ServersOK
    <2>2. FeedTypes
      BY <1>1, <1>2, <2>1, Zeros DEF FeedTypes, FeedType, ListsOK, ListType, CountTypes
    <2>3. Calls(generation, calls)
      BY DEF SessionInv, PendingInv
    <2> QED BY <1>1, <2>1, <2>2, <2>3 DEF CallsHere, CallsInv
  <1>6. CallsInv'
    BY <1>1, <1>5, CallsNext DEF TokenOK, ServersOK
  <1>7. SwapInv'
    BY <1>1, SwapNext
  <1>8. TypeOK'
    <2>1. calls' \in SUBSET CallType'
      BY <1>6 DEF CallsInv
    <2> QED BY <1>2, <1>3, <1>4, <2>1
            DEF TypeOK, PlanOK, TokenOK, ServersOK, ListsOK, MainOK, DialogOK, CallType, RequestType,
                ContextOK, ListType, ConnectionType, BadgeType, ShownType, Kinds
  <1> QED BY <1>6, <1>7, <1>8 DEF SettlesInv, CallsInv

LEMMA SettlesInvAlways == Spec => []SettlesInv
  <1>1. LoginInv /\ SessionInv /\ SettlesInv /\ [Next]_vars => SettlesInv'
    BY SettlesNext
  <1> QED BY <1>1, SettlesInit, LoginInvAlways, SessionInvAlways, PTL DEF Spec

\* Settings are applied to a connection that is down, from a feed that was listed at the
\* endpoint in use, and a client that is up gets the newest token of its sign-in, however
\* sign-ins, endpoint changes, answers and edits of the dialog overlap (velocity:apply-item,
\* velocity:set-token-sending and hotSwapVelocityAuthToken of main.js).
THEOREM SettingsReachTheConnection == Spec => SettingsAreApplied
  <1>1. SettlesInv => TypeOK /\ FieldsAreOfTheEndpointInUse
    BY DEF SettlesInv, FeedsInv, FieldsAreOfTheEndpointInUse
  <1>2. LoginInv /\ SettlesInv /\ [Next]_vars => [NewestToken]_vars
    BY NewestTokenNext DEF SettlesInv
  <1>3. [Next]_vars => [AppliedDown]_vars
    BY AppliedDownNext
  <1>4. Spec => TransportGetsTheNewest
    BY <1>2, LoginInvAlways, SettlesInvAlways, PTL DEF Spec, TransportGetsTheNewest, NewestToken
  <1>5. Spec => AppliedWhileDisconnected
    BY <1>3, PTL DEF Spec, AppliedWhileDisconnected, AppliedDown
  <1> QED BY <1>1, <1>4, <1>5, SettlesInvAlways, PTL DEF SettingsAreApplied
=============================================================================
