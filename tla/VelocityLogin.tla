---------------------------- MODULE VelocityLogin ----------------------------
(***************************************************************************)
(* Signing in and using the sign-in: the dialog (velocity-login-renderer   *)
(* .js, velocity-endpoint-ui.js), the handlers of the main process         *)
(* (main.js), which pass its requests to the session and hand the token to *)
(* the transport, and the badge of the main window (renderer.js).          *)
(*                                                                         *)
(* A request of the dialog is handled when it is made, and its answer is   *)
(* taken when it is given; the user may edit or close the dialog meanwhile,*)
(* which makes it deaf to the answers under way (`heard').                 *)
(***************************************************************************)
EXTENDS VelocitySession

CONSTANTS
    Plans  \* what the behaviours are bounded by: each has one of these plans

Plan == [portal : SUBSET Registered,
         signIns : Nat,    \* sign-ins
         changes : Nat,    \* sign-ins and endpoint changes
         tokens : Nat,     \* tokens issued; the last one does not expire
         calls : Nat,      \* operations under way
         browses : BOOLEAN,         \* the servers and feeds are used, too
         sends : BOOLEAN,           \* the token is used without a feed, too
         kinds : SUBSET {"client", "websocket", "other"}]   \* connections made

ASSUME LoginAssumption == Plans \subseteq Plan

VARIABLES
    plan,          \* the plan of this behaviour
    loginPending,  \* velocityLoginPending
    sending,       \* velocitySendAuthToken
    applied,       \* velocityAppliedRevision
    transport,     \* the connection, velocityConnectionBusy and velocityTransportRevision
    fields,        \* the feed the connection fields were filled from: listed at what endpoint
    badge,         \* what the badge of the main window shows
    shown,         \* the dialog's session
    busy,          \* the dialog's busy
    drafted,       \* the endpoint was edited and not applied
    listed,        \* the feeds the dialog lists
    quit           \* before-quit

mainVars == <<loginPending, sending, applied, transport, fields, badge, quit>>
dialogVars == <<shown, busy, drafted, listed>>
vars == <<plan, portal, tokenVars, sessionVars, mainVars, dialogVars>>

Idle == [up |-> FALSE, kind |-> "none", of |-> 0, token |-> NoToken]
NoSession == [revision |-> 0, selected |-> All, servers |-> {}, ready |-> {}]

Init ==
    /\ plan \in Plans
    /\ portal = plan.portal
    /\ TokenInit
    /\ SessionInit
    /\ loginPending = FALSE
    /\ sending = FALSE
    /\ applied = 0
    /\ transport = Idle
    /\ fields = "none"
    /\ badge = [hasToken |-> FALSE, sending |-> FALSE, error |-> FALSE]
    /\ shown = NoSession
    /\ busy = "no"
    /\ drafted = FALSE
    /\ listed = NoItems
    /\ quit = FALSE

-----------------------------------------------------------------------------
(* The token and the transport                                             *)

\* getVelocityAuthTokenForConnection()
TokenForConnection == IF sending /\ Authenticated /\ applied = generation THEN token ELSE NoToken

MutantHotSwap(explicitDisable) ==
    transport' = IF /\ transport.kind = "client"
                    /\ explicitDisable \/ (~ loginPending' /\ transport.of = generation')
                 THEN [transport EXCEPT !.token = TokenForConnection]
                 ELSE transport

\* hotSwapVelocityAuthToken(), at the end of a step
HotSwap(explicitDisable) ==
    transport' = IF /\ transport.kind = "client"
                    /\ explicitDisable \/ (~ loginPending' /\ transport.of = generation')
                 THEN [transport EXCEPT !.token = TokenForConnection']
                 ELSE transport

\* sendVelocityTokenState(), at the end of a step
ShowsToken == badge' = [badge EXCEPT !.hasToken = Authenticated', !.sending = sending']

\* The Portal answers: the operations that wait resume, and the listeners of main.js run.
PortalAnswers(r) ==
    /\ r \in requests
    /\ UNCHANGED <<change, revision, servers, selected, items>>
    /\ UNCHANGED <<dialogVars, loginPending, sending, applied, fields, quit>>
    /\ \/ /\ issued < plan.tokens
          /\ Issues(r)                               \* 'refreshed'
          /\ Resume(r, TRUE)
          /\ HotSwap(FALSE)
          /\ badge' = [hasToken |-> TRUE, sending |-> sending, error |-> FALSE]
       \/ /\ Denies(r)
          /\ Resume(r, FALSE)
          /\ UNCHANGED transport
          /\ badge' = IF GivesUp(r)                    \* 'error'
                      THEN [hasToken |-> Authenticated, sending |-> sending, error |-> TRUE]
                      ELSE badge

TimePasses ==
    /\ issued < plan.tokens
    /\ Lapses \/ TimerFires
    /\ UNCHANGED <<sessionVars, mainVars, dialogVars>>

Connects(kind) ==
    /\ ~ transport.up
    /\ transport' = [up |-> TRUE, kind |-> kind, of |-> applied,
                     token |-> IF kind = "other" THEN NoToken ELSE TokenForConnection]
    /\ UNCHANGED <<tokenVars, sessionVars, dialogVars, loginPending, sending, applied, fields,
                   badge, quit>>

Disconnects ==
    /\ transport.up
    /\ transport' = Idle
    /\ UNCHANGED <<tokenVars, sessionVars, dialogVars, loginPending, sending, applied, fields,
                   badge, quit>>

\* A click on the badge: velocity:set-token-sending
Toggles ==
    /\ plan.sends
    /\ badge.hasToken /\ ~ badge.error
    /\ UNCHANGED <<tokenVars, sessionVars, dialogVars, loginPending, fields, quit>>
    /\ sending' = ~ badge.sending
    /\ applied' = IF sending' /\ ~ transport.up THEN generation ELSE applied
    /\ HotSwap(~ sending')
    /\ ShowsToken

-----------------------------------------------------------------------------
(* The dialog                                                              *)

\* The servers in view, and the one an endpoint change is for
View == IF shown.selected = All THEN shown.servers ELSE {shown.selected}
Single == Cardinality(View) = 1
AllServersView == shown.selected = All /\ Cardinality(shown.servers) > 1
Selection == IF Single THEN CHOOSE s \in View : TRUE ELSE shown.selected

CanBrowse == shown # NoSession /\ ~ drafted /\ View \cap shown.ready # {}

CanAsk == plan.browses /\ shown # NoSession /\ busy = "no" /\ Cardinality(calls) < plan.calls

Deaf == {[c EXCEPT !.heard = FALSE] : c \in calls}

Snapshot == [revision |-> revision, selected |-> selected,
             servers |-> DOMAIN servers, ready |-> Validated]

\* acceptSession() of the state at the end of the step: it refuses one whose token has
\* expired.  The dialog stays busy to list the feeds.
Accepts ==
    IF Authenticated
    THEN shown' = Snapshot' /\ drafted' = FALSE /\ busy' = "loads"
    ELSE UNCHANGED <<shown, drafted>> /\ busy' = "no"

\* The answer is given: busy ends if the dialog still waits for it.
Ends(c) == calls' = calls \ {c}
MutantNoLongerBusy(c) == busy' = IF c.heard /\ c.stage = "answer" THEN "no" ELSE busy

NoLongerBusy(c) == busy' = IF c.heard THEN "no" ELSE busy

\* signIn() and loginVelocity()
BeginsSignIn ==
    /\ ~ loginPending
    /\ generation < plan.signIns /\ change < plan.changes /\ Cardinality(calls) < plan.calls
    /\ loginPending' = TRUE
    /\ sending' = FALSE
    /\ applied' = 0
    /\ AsksForToken
    /\ BeginLogin(Deaf)
    /\ busy' = "yes"
    /\ UNCHANGED issued

\* A field is empty, or a sign-in is pending.
RefusesSignIn ==
    /\ calls' = Deaf
    /\ UNCHANGED <<tokenVars, change, revision, servers, selected, items, loginPending, sending,
                   applied, busy>>

\* login() throws at once because of the Portal's address: the session stays as it is.
RefusesPortal ==
    /\ ~ loginPending
    /\ sending' = FALSE
    /\ applied' = 0
    /\ items' = NoItems
    /\ calls' = Superseded(Browsing, Deaf)
    /\ UNCHANGED <<tokenVars, change, revision, servers, selected, loginPending, busy>>

PressSignIn ==
    /\ busy = "no"
    /\ BeginsSignIn \/ RefusesSignIn \/ RefusesPortal
    /\ shown' = NoSession
    /\ listed' = NoItems
    /\ UNCHANGED <<drafted, transport, fields, badge, quit>>

LoginEnds(c) ==
    /\ c.op = "login"
    /\ c.stage \notin {"sign-in", "refresh"}
    /\ Ends(c)
    /\ loginPending' = FALSE
    /\ UNCHANGED <<tokenVars, change, items, listed, sending, applied, transport, fields, quit>>
    /\ \/ /\ \/ LoginFinds(c)
             \/ LoginRefusesAll(c)
             \/ Current(c) /\ c.stage # "no token" /\ UNCHANGED <<servers, selected, revision>>
          /\ ShowsToken
          /\ IF c.heard THEN Accepts ELSE UNCHANGED <<shown, drafted, busy>>
       \/ /\ ~ Current(c) \/ c.stage = "no token"
          /\ NoLongerBusy(c)
          /\ UNCHANGED <<servers, selected, revision, shown, drafted, badge>>

\* detect(): the dialog takes the addresses only, not the servers.
PressDetect ==
    /\ CanAsk
    /\ BeginDetect
    /\ busy' = "yes"
    /\ UNCHANGED <<generation, token, lapsed, issued, change, revision, servers,
                   selected, items, mainVars, shown, drafted, listed>>

DetectEnds(c) ==
    /\ c.op = "detect"
    /\ c.stage # "refresh"
    /\ Ends(c)
    /\ NoLongerBusy(c)
    /\ DetectFinds(c) \/ UNCHANGED servers
    /\ UNCHANGED <<tokenVars, change, revision, selected, items, mainVars, shown, drafted, listed>>

\* velocity:apply-endpoint refuses to change all of several servers.
RefusesSelection == Selection = All /\ Cardinality(DOMAIN servers) > 1

\* applyEndpoint()
PressApplyUrl(mode) ==
    /\ CanAsk
    /\ ~ AllServersView
    /\ change < plan.changes
    /\ listed' = NoItems
    /\ UNCHANGED <<generation, token, lapsed, issued, revision, servers, selected,
                   mainVars, shown, drafted>>
    /\ \/ /\ RefusesSelection
          /\ calls' = Deaf
          /\ UNCHANGED <<requests, timer, change, items, busy>>
       \/ /\ ~ RefusesSelection
          /\ items' = NoItems
          /\ \/ /\ BeginEndpoint(Selection, mode, Superseded(Browsing, Deaf))
                /\ busy' = "yes"
             \/ /\ RefusesEndpoint(Selection, mode)
                /\ calls' = Superseded(Browsing, Deaf)
                /\ UNCHANGED busy

EndpointEnds(c) ==
    /\ c.op = "endpoint"
    /\ c.stage # "refresh"
    /\ Ends(c)
    /\ UNCHANGED <<tokenVars, change, items, listed, loginPending, sending, applied, transport,
                   fields, quit>>
    /\ \/ /\ EndpointApplies(c)
          /\ ShowsToken
          /\ IF c.heard THEN Accepts ELSE UNCHANGED <<shown, drafted, busy>>
       \/ /\ NoLongerBusy(c)
          /\ UNCHANGED <<servers, selected, revision, shown, drafted, badge>>

\* selectServer(): answered at once.
PressSelect(s) ==
    /\ plan.browses /\ shown # NoSession /\ busy = "no"
    /\ listed' = NoItems
    /\ UNCHANGED <<tokenVars, change, revision, servers, mainVars>>
    /\ \/ /\ s \in DOMAIN servers \cup {All}
          /\ selected' = s
          /\ items' = NoItems
          /\ calls' = Superseded(Browsing, Deaf)
          /\ Accepts
       \/ /\ s \notin DOMAIN servers \cup {All}
          /\ calls' = Deaf
          /\ UNCHANGED <<selected, items, shown, drafted, busy>>

\* loadItems() when the user asks for it, or when a session was accepted: then the dialog is
\* busy until the list has come.
Loading == \E c \in calls : c.op = "list" /\ c.heard

LoadsItems ==
    /\ plan.browses /\ Cardinality(calls) < plan.calls
    /\ busy = "no" \/ (busy = "loads" /\ ~ Loading)
    /\ CanBrowse
    /\ listed' = NoItems
    /\ UNCHANGED <<generation, token, lapsed, issued, change, revision, servers,
                   selected, mainVars, shown, drafted>>
    /\ LET others == {IF c.op = "list" THEN [c EXCEPT !.heard = FALSE] ELSE c : c \in calls}
       IN  \/ /\ shown.revision = revision
              /\ BeginList(shown.selected, others)
              /\ UNCHANGED busy
           \/ /\ shown.revision # revision
              /\ calls' = others
              /\ busy' = "no"
              /\ UNCHANGED <<requests, timer, items>>

\* No server can be listed, or the preferences were not stored.
LoadsNothing ==
    /\ busy = "loads" /\ ~ Loading
    /\ busy' = "no"
    /\ UNCHANGED <<tokenVars, sessionVars, mainVars, shown, drafted, listed>>

ListEnds(c) ==
    /\ c.op = "list"
    /\ c.stage # "refresh"
    /\ Ends(c)
    /\ busy' = IF c.heard /\ busy = "loads" THEN "no" ELSE busy
    /\ UNCHANGED <<tokenVars, change, revision, servers, selected, mainVars, shown, drafted>>
    /\ \/ /\ ListArrives(c)
          /\ listed' = IF c.heard THEN items' ELSE listed
       \/ UNCHANGED <<items, listed>>

\* applyItem() of a feed, and velocity:apply-item up to its await
PressApply(s) ==
    /\ CanAsk
    /\ CanBrowse
    /\ s \in listed.servers
    /\ ~ transport.up
    /\ BeginDetails(listed.revision, s)
    /\ busy' = "apply"
    /\ UNCHANGED <<generation, token, lapsed, issued, change, revision, servers,
                   selected, items, mainVars, shown, drafted, listed>>

\* The settings are applied, unless a connection has begun meanwhile.
ApplyEnds(c) ==
    /\ c.op = "apply"
    /\ c.stage # "refresh"
    /\ Ends(c)
    /\ NoLongerBusy(c)
    /\ UNCHANGED <<tokenVars, change, revision, servers, selected, items, loginPending, shown,
                   drafted, listed, quit>>
    /\ \/ /\ DetailsArrive(c)
          /\ ~ transport.up
          /\ applied' = generation
          /\ sending' \in BOOLEAN
          /\ HotSwap(FALSE)
          /\ fields' = IF items.revision = revision THEN "endpoint in use" ELSE "another endpoint"
          /\ badge' = [hasToken |-> Authenticated, sending |-> sending', error |-> FALSE]
       \/ UNCHANGED <<sending, applied, transport, fields, badge>>

\* Use Token Only
PressTokenOnly ==
    /\ plan.sends
    /\ shown # NoSession /\ busy = "no"
    /\ ~ transport.up
    /\ Authenticated
    /\ UNCHANGED <<tokenVars, sessionVars, dialogVars, loginPending, fields, quit>>
    /\ applied' = generation
    /\ sending' = TRUE
    /\ HotSwap(FALSE)
    /\ badge' = [hasToken |-> TRUE, sending |-> TRUE, error |-> FALSE]

\* edited() and close(): the dialog no longer waits for what is under way.
Edits ==
    /\ busy # "apply"
    /\ drafted' \in IF Single THEN BOOLEAN ELSE {FALSE}
    /\ shown' \in {shown, NoSession}   \* NoSession: another Portal was typed

Closes == UNCHANGED <<drafted, shown>>

TurnsAway ==
    /\ Edits \/ Closes
    /\ calls' = Deaf
    /\ busy' = "no"
    /\ listed' = NoItems
    /\ UNCHANGED <<tokenVars, change, revision, servers, selected, items, mainVars>>

\* before-quit: the windows are gone.
Quits ==
    /\ quit' = TRUE
    /\ SignedOut
    /\ Reset
    /\ transport' = Idle
    /\ calls' = Superseded({"detect"}, Deaf)
    /\ shown' = NoSession
    /\ busy' = "no"
    /\ drafted' = FALSE
    /\ listed' = NoItems
    /\ UNCHANGED <<requests, issued, items, loginPending, sending, applied, fields, badge>>

-----------------------------------------------------------------------------

CallEnds(c) == LoginEnds(c) \/ DetectEnds(c) \/ EndpointEnds(c) \/ ListEnds(c) \/ ApplyEnds(c)

NextRequest(c) ==
    /\ RefreshesFirst(c)
    /\ UNCHANGED <<generation, token, lapsed, issued, change, revision, servers,
                   selected, items, mainVars, dialogVars>>

UserActs ==
    \/ PressSignIn
    \/ PressDetect
    \/ \E mode \in {"automatic", "custom"} : PressApplyUrl(mode)
    \/ \E s \in shown.servers \cup {All} : PressSelect(s)
    \/ LoadsItems
    \/ LoadsNothing
    \/ \E s \in listed.servers : PressApply(s)
    \/ PressTokenOnly
    \/ TurnsAway
    \/ Toggles
    \/ \E kind \in plan.kinds : Connects(kind)
    \/ Disconnects
    \/ Quits

Next ==
    /\ UNCHANGED <<plan, portal>>
    /\ \/ ~ quit /\ UserActs
       \/ ~ quit /\ TimePasses
       \/ \E r \in requests : PortalAnswers(r)
       \/ \E c \in calls : CallEnds(c) \/ NextRequest(c)

Spec == Init /\ [][Next]_vars

\* A request is answered or times out after 30 seconds, so that requests and the operations
\* that wait for them end; and the dialog goes on to list the feeds.  The user and the clock of
\* the token owe nothing.
Answers(r) == PortalAnswers(r) /\ UNCHANGED <<plan, portal>>
Returns(c) == CallEnds(c) /\ UNCHANGED <<plan, portal>>
GoesOn == busy = "loads" /\ (LoadsItems \/ LoadsNothing) /\ UNCHANGED <<plan, portal>>

FairSpec ==
    /\ Spec
    /\ WF_vars(\E r \in requests : Fresh(r) /\ Answers(r))
    /\ WF_vars(\E c \in calls : c.heard /\ Returns(c))
    /\ WF_vars(GoesOn)

-----------------------------------------------------------------------------
(* Properties                                                              *)

Generations == 0 .. plan.signIns + 1
Changes == 0 .. plan.changes + 1
Revisions == 0 .. 2 * plan.changes + 1
Tokens == [of : Generations, number : 0 .. plan.tokens]
Attempts == Foreground .. Retries

TypeOK ==
    /\ plan \in Plans /\ portal = plan.portal
    /\ generation \in Generations
    /\ token \in Tokens
    /\ {lapsed, loginPending, sending, drafted, quit} \subseteq BOOLEAN
    /\ timer \in Attempts
    /\ requests \subseteq [kind : {"login", "refresh"}, of : Generations, attempt : Attempts]
    /\ issued \in 0 .. plan.tokens
    /\ change \in Changes
    /\ revision \in Revisions
    /\ DOMAIN servers \subseteq Ids
    /\ \A s \in DOMAIN servers : servers[s] \in [of : Generations, change : Changes]
    /\ selected \in Ids \cup {All}
    /\ items \in [revision : Revisions, servers : SUBSET Ids]
    /\ calls \subseteq [op : {"login", "detect", "endpoint", "list", "apply"}, of : Generations,
                        change : Changes, revision : Revisions, targets : SUBSET Ids,
                        replace : BOOLEAN, latest : BOOLEAN, heard : BOOLEAN,
                        stage : {"sign-in", "refresh", "answer", "denied", "no token"}]
    /\ applied \in Generations
    /\ transport \in [up : BOOLEAN, kind : {"client", "websocket", "other", "none"},
                       of : Generations, token : Tokens]
    /\ fields \in {"none", "endpoint in use", "another endpoint"}
    /\ badge \in [hasToken : BOOLEAN, sending : BOOLEAN, error : BOOLEAN]
    /\ shown \in [revision : Revisions, selected : Ids \cup {All}, servers : SUBSET Ids,
                   ready : SUBSET Ids]
    /\ busy \in {"no", "yes", "apply", "loads"}
    /\ listed \in [revision : Revisions, servers : SUBSET Ids]

\* A token that is issued after its sign-in has ended is dropped: the token in use is of the
\* current sign-in, and there is none once the user has quit.
TokenIsOfThisSignIn ==
    /\ token # NoToken => token.of = generation
    /\ quit => token = NoToken

\* A connection sends no token of another sign-in than the one its settings were applied
\* under, although tokens are swapped under it while the user signs in again.
TransportKeepsItsSignIn ==
    transport.token # NoToken => transport.token.of = transport.of

\* Tokens and the connections that send them belong to one sign-in each.
TokensKeepTheirSignIn == TokenIsOfThisSignIn /\ TransportKeepsItsSignIn

\* "Active gRPC and HTTP clients hot-swap refreshed tokens": a client that sends a token gets
\* the next one of its sign-in while sending is on.  While a sign-in is pending nothing is
\* swapped.
TransportGetsTheNewest ==
    [][ /\ token' # token /\ token' # NoToken
        /\ ~ loginPending /\ sending
        /\ transport.kind = "client"
        /\ transport.token # NoToken
        /\ transport.of = generation
        => transport.token' = token' ]_vars

\* The address of a server was validated under the current sign-in.
ContextsAreCurrent == \A s \in DOMAIN servers : servers[s] = Unvalidated \/ servers[s].of = generation

\* The server selected is one there is, whatever replaces the servers.
SelectionIsRegistered == selected = All \/ selected \in DOMAIN servers

\* The servers offered are those of the current sign-in, the selected one among them.
ServersAreCurrent == ContextsAreCurrent /\ SelectionIsRegistered

\* The connection fields were filled from a feed that was listed at the endpoint in use
\* when they were filled.
FieldsAreOfTheEndpointInUse == fields # "another endpoint"

\* "Apply" and "Use Token Only" are "blocked while a transport is connecting or connected".
AppliedWhileDisconnected ==
    [][fields' # fields \/ (applied' # applied /\ applied' # 0) => ~ transport.up]_vars

\* What is applied to a connection is current, and reaches the one that is up only as a
\* newer token.
SettingsAreApplied ==
    /\ [](TypeOK /\ FieldsAreOfTheEndpointInUse)
    /\ AppliedWhileDisconnected
    /\ TransportGetsTheNewest

\* Of two endpoint changes that overlap the later one wins: a server never goes back to the
\* address of an older change.
NewestChangeWins ==
    [][\A s \in DOMAIN servers \cap DOMAIN servers' :
          generation' = generation => servers'[s].change >= servers[s].change]_vars

\* The dialog does not stay busy.
DialogIsAnswered == busy # "no" ~> busy = "no"
=============================================================================
