---------------------------- MODULE UserInterface ----------------------------
(***************************************************************************)
(* The simulator with a window: the renderer and the main process, and the *)
(* ordered channels between them (src/src/preload.js).                     *)
(***************************************************************************)
EXTENDS MainConnection

vars == <<playbackVars, mainVars>>

\* Late outcomes are looked at with hasty users, who may do all that a patient one does.
Init == PlaybackInit /\ MainInit /\ (Late => hasty)

\* Nothing is under way: no message, and no attempt.
Quiet == /\ toMain = <<>>
         /\ toWindow = <<>>
         /\ unsettled = {}
         /\ \A a \in Attempts : link[a] \in {"none", "up", "lost", "closed"}

\* The user may try again as long as there are attempts left: a hasty one when the answer of
\* a refused attempt has arrived, any other when everything about the earlier ones has.
WindowSteps ==
    /\ WindowStep
    /\ toMain' # toMain => \E a \in Attempts : link[a] = "none"
    /\ PressConnect => IF hasty
                       THEN \A i \in DOMAIN toWindow : toWindow[i] # "refused"
                       ELSE Quiet
    /\ UNCHANGED mainVars

Next == WindowSteps \/ MainStep

Spec == Init /\ [][Next]_vars

\* A WebSocket client's attempt is under way; the code sets no timeout for it.
UpgradePends(a) == kind[a] = "ws client" /\ link[a] = "opening"

\* Messages arrive, and what was begun settles.  The user and the peers owe nothing: an
\* XMPP server may never come back, and a WebSocket server never answer the upgrade.
FairSpec ==
    /\ Spec
    /\ WF_vars(Receive /\ UNCHANGED mainVars)
    /\ WF_vars(Handles)
    /\ WF_vars(\E a \in Attempts : Settles(a) /\ ~ UpgradePends(a))

-----------------------------------------------------------------------------
(* Properties                                                              *)

Statuses == {"disconnected", "connecting", "connected"}

WindowType == [status : Statuses, isSending : BOOLEAN, isPaused : BOOLEAN, interval : BOOLEAN,
               lostInterval : BOOLEAN, valid : BOOLEAN, canConnect : BOOLEAN,
               canPlay : BOOLEAN, canStep : BOOLEAN]

LinkStates == {"none", "resolving", "opening", "adrift", "returned", "up", "lost", "closing",
               "cleaning", "closed"}

TypeOK ==
    /\ mix \in Mixes
    /\ hasty \in BOOLEAN
    /\ win \in WindowType
    /\ file \in [lines : 0 .. MaxLines, currentLineIndex : 0 .. MaxLines, loading : BOOLEAN]
    /\ toMain \in Seq(Kind \cup {"disconnect"})
    /\ toWindow \in Seq(Statuses \cup {"refused"})
    /\ link \in [Attempts -> LinkStates]
    /\ kind \in [Attempts -> Kind]
    /\ aborted \subseteq Attempts
    /\ unsettled \subseteq Attempts
    /\ returning \subseteq Attempts
    /\ {connection, object, xmpp, controller} \subseteq Attempts \cup {None}
    /\ busy \in BOOLEAN
    /\ faults \in 0 .. MaxFaults

\* The button tells what happens: an interval sends records exactly while the window
\* shows that it plays (with parameters that are valid), and never a second one, in
\* whatever order buttons, rate changes, file loads and connection states come.
PlaysWhatItShows ==
    /\ ~ win.lostInterval
    /\ win.interval <=> win.isSending /\ ~ win.isPaused /\ win.valid
    /\ win.isSending => win.status # "disconnected"

\* "Object transports (XMPP, gRPC, HTTP, WebSocket) tear down asynchronously, so the handler
\* awaits them and reports 'disconnected' only once teardown has finished": what was
\* reported disconnected, of these and of UDP, is closed and forgotten, however late a
\* stream comes back.  TCP is reported before its socket has closed, and an XMPP attempt
\* that was cancelled is reported twice, the first time maybe too early (RejectsLate).
DisconnectedMeansTornDown ==
    mix \cap {"tcp client", "tcp server"} = {} /\ aborted = {} /\ ~ busy =>
        /\ connection = None /\ object = None /\ xmpp = None
        /\ \A a \in Attempts : link[a] \in {"none", "closed"}

\* When all is quiet the window shows what the main process has: connected with the one
\* connection that is up, connecting while XMPP waits to reconnect, and otherwise
\* disconnected, with nothing in the main process that would refuse a new connection.
\* (A hasty user's second request is refused, and the refusal is shown as disconnected;
\* and after a late outcome the window may show what is not there.)
WindowAgrees ==
    ~ hasty /\ ~ Late /\ Quiet =>
        /\ win.status = "connected" <=> \E a \in Attempts : link[a] = "up" /\ connection = a
        /\ win.status = "connecting" <=> \E a \in Attempts : link[a] = "lost"
        /\ win.status = "disconnected" => ~ Active

\* Connecting ends, though a request may cross an answer, and a cancelled attempt
\* may report twice; but a WebSocket client waits for its server, and meanwhile the
\* request to disconnect is refused (main.js:2785).
ConnectingEnds ==
    win.status = "connecting" /\ ~ Late ~>
        win.status # "connecting" \/ \E a \in Attempts : link[a] = "lost" \/ UpgradePends(a)

\* A disconnect of what is connected is always carried out.
DisconnectTakes ==
    ~ Late /\ win.status = "connected" /\ (\E i \in DOMAIN toMain : toMain[i] = "disconnect")
        ~> win.status = "disconnected"

\* What the user asked for comes about.
AttemptsEnd == ConnectingEnds /\ DisconnectTakes
=============================================================================
