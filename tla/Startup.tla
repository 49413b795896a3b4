------------------------------- MODULE Startup -------------------------------
(***************************************************************************)
(* How the process starts (src/src/main.js, where parseCommandLineArgs()   *)
(* and 'ready' are): a launch becomes help, a refusal, a window, or a      *)
(* headless session with the options its arguments and configuration file  *)
(* resolve to.                                                             *)
(***************************************************************************)
EXTENDS HeadlessRunner, XmppSettings

CONSTANT Launches  \* the launches considered

VARIABLES
    launch,      \* the arguments, the configuration file, and the input file's length
    cliOptions,  \* what parseCommandLineArgs() made of them
    startup      \* "starting", or what became of it

\* A launch is [args, file, readable, records]; all it says is text.
FileParts == {"output", "streaming", "connection", "headless", "top"}
ASSUME LaunchAssumption ==
    \A l \in Launches :
        /\ DOMAIN l = {"args", "file", "readable", "records"}
        /\ l.args \in Seq(CommandArguments)
        /\ \A part \in FileParts : \A k \in DOMAIN l.file[part] : l.file[part][k] \in Texts

IsXmpp(cli) == cli.mode = "headless" /\ cli.headless["protocol"] = "xmpp"

\* The addresses a server that was launched goes by are known to the constants.
ASSUME AddressesAreKnown ==
    \A l \in Launches :
        LET cli == ParseCommandLine(l)
            o == cli.headless
            service == ServiceJid(NormalDomain(o))
        IN  IsXmpp(cli) /\ o["mode"] = "server" /\ ~ NameRefused(o) =>
                /\ service \in Texts \ ({""} \union DOMAIN Trimmed)
                /\ service \in DOMAIN JidLists /\ JidLists[service] = service
                /\ o["xmppConversation"] = "muc" =>
                       Parses(RoomParts(o["xmppRoom"], NormalDomain(o)))

startupVars == <<launch, cliOptions, startup>>

\* What the replay engine is run with; 0 stands for null there.
OrZero(limit) == IF limit = NULL THEN 0 ELSE limit

EngineOptions(o, records) ==
    [available |-> records, startLine |-> o["startLine"], endLine |-> OrZero(o["endLine"]),
     maxLines |-> OrZero(o["maxLines"]), linesPerInterval |-> o["linesPerInterval"],
     loop |-> o["loop"], autoConnect |-> o["autoConnect"], autoStart |-> o["autoStart"],
     waitForClient |-> o["waitForClient"], connectWaitForServer |-> o["connectWaitForServer"],
     mode |-> o["mode"], onError |-> o["onError"]]

\* The options runHeadlessSession() is called with, if it is.
HandedOver(cli) == IF cli.mode = "headless" THEN cli.headless ELSE Defaults

StartupInit ==
    /\ launch \in Launches
    /\ cliOptions = ParseCommandLine(launch)
    /\ startup = "starting"
    /\ opt = EngineOptions(HandedOver(cliOptions), launch.records)
    /\ exitOnComplete = HandedOver(cliOptions)["exitOnComplete"]
    /\ HeadlessInit

\* app 'ready': a headless launch becomes a session.
StartHeadless ==
    /\ startup = "starting"
    /\ cliOptions.mode = "headless"
    /\ startup' = "headless"
    /\ runHeadlessSession
    /\ UNCHANGED <<launch, cliOptions>>

OpenWindow ==
    /\ startup = "starting"
    /\ cliOptions.mode = "ui"
    /\ startup' = "window"
    /\ UNCHANGED <<headlessVars, launch, cliOptions>>

\* requestGracefulCliExit()
GracefulExit(mode, code) ==
    /\ startup = "starting"
    /\ cliOptions.mode = mode
    /\ startup' = mode
    /\ exitCode' = code
    /\ UNCHANGED <<vars, exitOnComplete, unwritable, session, doneFile, launch,
                   cliOptions>>

ShowHelp == GracefulExit("help", 0)
Refuse == GracefulExit("error", 1)

SessionStep ==
    /\ startup = "headless"
    /\ \/ EngineSettled
       \/ Finish
       \/ Fail
       \/ EngineStep
    /\ UNCHANGED startupVars

StartupNext == StartHeadless \/ OpenWindow \/ ShowHelp \/ Refuse \/ SessionStep

startVars == <<headlessVars, startupVars>>

InSession(A) == startup = "headless" /\ A /\ UNCHANGED startupVars
EngineDoes(A) == InSession(Alive /\ A /\ UNCHANGED runnerVars)

StartupSpec ==
    /\ StartupInit
    /\ [][StartupNext]_startVars
    /\ WF_startVars(StartHeadless)
    /\ WF_startVars(ShowHelp)
    /\ WF_startVars(Refuse)
    /\ WF_startVars(InSession(EngineSettled))
    /\ WF_startVars(InSession(Finish))
    /\ WF_startVars(InSession(Fail))
    /\ WF_startVars(EngineDoes(RunStep))
    /\ \A t \in Tick : /\ WF_startVars(EngineDoes(TickStep(t)))
                       /\ WF_startVars(EngineDoes(IntervalFires(t)))
    /\ WF_startVars(EngineDoes(RecipientJoins))

-----------------------------------------------------------------------------
(* Properties                                                              *)

\* The process' exit code and done file tell what happened: 0 is a run that
\* replayed what it was asked to (or help), 1 a launch that was refused and sent
\* nothing, 2 a run that failed.
ExitIsHonest ==
    /\ startup = "headless" => ExitZeroMeansReplayed
    /\ ExitTellsTheOutcome
    /\ (exitCode = 1) <=> (startup = "error")
    /\ startup \in {"help", "error", "window"} => eng.outcome = "none" /\ history = <<>>

\* A session that was to end its process does end it.
LaunchEnds ==
    /\ ProcessExits
    /\ (startup = "starting" /\ cliOptions.mode = "error") ~> (exitCode = 1)

\* The window validates socket settings with a copy of the rules a headless launch is
\* held to (cli-options.js:2648): whatever the file and the arguments say together,
\* both take it or both refuse it, and a form that was filled in says what the
\* headless session would have used.
Shown(presets, k) == IF Settings[k] = Field
                     THEN (IF Trim(presets[k]) = "" THEN NULL ELSE Trim(presets[k]))
                     ELSE presets[k]

SocketKeysRead == UiRead \union DOMAIN SocketFields

ValidatorsAgree ==
    startup = "starting" =>
        LET merged == MergedValues(launch)
            used == ReadSettings(merged)
            presets == UiPresets(merged)
            refused == BadValues(merged, SocketKeysRead) \union SocketErrors(used)
        IN  /\ (refused = {}) <=> (UiSocketErrors(merged) = {})
            /\ refused = {} => \A k \in SocketKeysRead \intersect DOMAIN presets :
                                   Shown(presets, k) = used[k]

\* An XMPP launch the command line takes is one the transport can be built from, all but
\* the form of its names, which only the transport looks at: settings that do not fit
\* are a configuration error and not a failed run (cli-options.js:2384 and
\* xmpp-transport.js:111, 256 and 584 hold the same rules).
XmppRulesAgree ==
    startup = "starting" /\ IsXmpp(cliOptions) => ~ OptionsRefused(cliOptions.headless)

\* Nothing is refused by one set of rules and taken by another.
RulesAgree == ValidatorsAgree /\ XmppRulesAgree

\* "Every line is a canonical `option=value` pair, so the copied block can be pasted
\* straight into a command line" (xmpp-transport.js:933): that launch is accepted, and
\* its client signs in to the server's domain, under its policy, with the account the
\* server knows, and looks for records where the server publishes them.  What a room
\* asks of whoever enters it (a nickname nobody has there, a password) is not judged.
PastedArguments(o, selfSigned) ==
    <<Pair("runMode", "headless"), Pair("filename", "records")>>
        \o SettingLines(ClientSettings(o, selfSigned))

PastedLaunches(o) ==
    {ParseCommandLine([launch EXCEPT !.args = PastedArguments(o, selfSigned)]) :
        selfSigned \in BOOLEAN}

CopiedSettingsConnect ==
    /\ startup = "starting"
    /\ IsXmpp(cliOptions)
    /\ cliOptions.headless["mode"] = "server"
    /\ ~ TransportRefuses(cliOptions.headless)
    =>
        \A pasted \in PastedLaunches(cliOptions.headless) :
            /\ IsXmpp(pasted)
            /\ ~ TransportRefuses(pasted.headless)
            /\ ClientIdentity(pasted.headless) = ServerIdentity(cliOptions.headless)
=============================================================================
