----------------------------- MODULE CommandLine -----------------------------
(***************************************************************************)
(* src/src/cli-options.js: what a launch's arguments and its configuration *)
(* file ask for.                                                           *)
(*                                                                         *)
(* Every setting is text, as on a command line; JSON's own true and 12 are *)
(* read as "true" and "12" are.  What a parser makes of a text is given by *)
(* the constants below; a text that is not in the domain of Trimmed,       *)
(* LowerCase or JidParts is its own trimmed form, its own lower case, and  *)
(* a name without '@'.                                                     *)
(***************************************************************************)
EXTENDS Integers, Sequences

CONSTANTS
    Texts,         \* the texts
    NULL,          \* null
    Unset,         \* what a parser answers that leaves the default in place
    Trimmed,       \* function: text -> text.trim()
    LowerCase,     \* function: text -> text.toLowerCase()
    ParseInt,      \* function: text -> what Number.parseInt() makes of it
    StrictNumber,  \* function: text -> what Number() makes of it, where an integer
    Undecodable,   \* the greetings with a broken escape
    JidParts,      \* function: text with '@' -> <<local, domain>>, lower case
    JidLists,      \* function: list of bare JIDs -> its normal form; others are malformed
    LoopbackHosts, \* the hosts isLoopbackHost() knows
    BrokenNames,   \* the nicknames with '/' or '@'
    BadAccounts,   \* the names normalizeAccountUsername() refuses, the empty one too
    BadDomains,    \* the names normalizeDomain() refuses, the empty one too
    Decimal        \* function: number -> its text

Trim(v) == IF v \in DOMAIN Trimmed THEN Trimmed[v] ELSE v
Lower(v) == IF v \in DOMAIN LowerCase THEN LowerCase[v] ELSE v
Falsy(text) == text = NULL \/ text = ""
Holds(flag) == flag = TRUE

\* The model's file names are all relative.
AbsolutePath(p) == IF p = "" THEN "" ELSE "/work/" \o p

\* A function from texts to texts whose results it leaves as they are.
Normalises(f) == /\ f \in [DOMAIN f -> Texts]
                 /\ \A v \in DOMAIN f : f[v] \notin DOMAIN f

\* The words the program itself uses.
Words == {"", "/", "127.0.0.1", "localhost", "velocity-simulator", "delimited", "registered",
          "headless", "records", "xmpp", "client", "server", "direct", "muc", "required",
          "preferred", "disabled", "true", "false"}

\* null and `unset` are no texts, numbers or flags; trim() and toLowerCase() do nothing
\* to what they returned, and toLowerCase() adds no blanks.
TextAssumption ==
    /\ NULL \notin Texts /\ NULL \notin Int /\ NULL \notin BOOLEAN
    /\ Unset \notin Texts /\ Unset \notin Int /\ Unset \notin BOOLEAN /\ Unset # NULL
    /\ Normalises(Trimmed) /\ Normalises(LowerCase)
    /\ \A v \in DOMAIN LowerCase : v \notin DOMAIN Trimmed => LowerCase[v] \notin DOMAIN Trimmed
    /\ Words \subseteq Texts
    /\ \A v \in Words : v \notin DOMAIN Trimmed /\ v \notin DOMAIN LowerCase
    /\ ParseInt \in [DOMAIN ParseInt -> Int] /\ StrictNumber \in [DOMAIN StrictNumber -> Int]
    /\ "" \notin Undecodable /\ AbsolutePath("records") \in Texts \ {""}
ASSUME TextsAreNormalised == TextAssumption

\* What a number is written as reads as that number, those the program knows included.
ASSUME NumbersAreWritten ==
    \A n \in {ParseInt[v] : v \in DOMAIN ParseInt} \union {5222, 15000, 30000, 60000} :
        /\ Decimal[n] \in Texts \ DOMAIN Trimmed
        /\ Decimal[n] \in DOMAIN ParseInt /\ ParseInt[Decimal[n]] = n

\* A list of bare JIDs in its normal form is one that stays as it is.
ASSUME JidListsAreNormalised ==
    \A j \in DOMAIN JidLists : /\ JidLists[j] \in Texts \ {""}
                              /\ JidLists[j] \in DOMAIN JidLists
                              /\ JidLists[JidLists[j]] = JidLists[j]

-----------------------------------------------------------------------------
(* How one setting is read                                                 *)

Kind(is, of) == [is |-> is, of |-> of]
Anything == Kind("anything", {})       \* as it is, empty included
Verbatim == Kind("verbatim", {})       \* as it is, unless empty
Text == Kind("text", {})               \* trimmed, unless empty
Address == Kind("address", {})         \* trimmed, empty included
Field == Kind("field", {})             \* trimmed; blank means none
Path == Kind("path", {})
Boolean == Kind("boolean", {})
TlsFlag == Kind("flag", {})            \* anything but true is false
OneOf(S) == Kind("one of", S)          \* whatever its case
Exactly(S) == Kind("exactly", S)
From(least) == Kind("integer", least)
Limit == Kind("limit", 1)              \* an integer that may be left out
Port == Kind("port", 65535)
LocalPort == Kind("local port", 65535)
Wkid == Kind("wkid", 1)
LocalHost == Kind("local host", {})

Sets(v) == [error |-> FALSE, value |-> v]
Keeps == Sets(Unset)
RefusesAs(v) == [error |-> TRUE, value |-> v]
Refuses == RefusesAs(Unset)

BOOLEAN_TRUE == {"true", "1", "yes", "y", "on"}
BOOLEAN_FALSE == {"false", "0", "no", "n", "off"}

ParseBoolean(v) ==
    LET word == Lower(Trim(v)) IN
    IF word \in BOOLEAN_TRUE THEN Sets(TRUE)
    ELSE IF word \in BOOLEAN_FALSE THEN Sets(FALSE)
    ELSE RefusesAs(NULL)

InRange(kind, n) == IF kind.is = "port" THEN n \in 1..kind.of ELSE n >= kind.of

ParseInteger(kind, v) ==
    IF v \in DOMAIN ParseInt /\ InRange(kind, ParseInt[v]) THEN Sets(ParseInt[v]) ELSE RefusesAs(NULL)

Read(kind, v) ==
    CASE kind.is = "anything"   -> Sets(v)
      [] kind.is = "verbatim"   -> IF v = "" THEN Keeps ELSE Sets(v)
      [] kind.is = "text"       -> IF v = "" THEN Keeps ELSE Sets(Trim(v))
      [] kind.is = "address"    -> Sets(Trim(v))
      [] kind.is = "field"      -> Sets(IF Trim(v) = "" THEN NULL ELSE Trim(v))
      [] kind.is = "path"       -> IF v = "" THEN Keeps ELSE Sets(AbsolutePath(v))
      [] kind.is = "boolean"    -> ParseBoolean(v)
      [] kind.is = "flag"       -> Sets(v = "true")
      [] kind.is = "one of"     -> IF Lower(Trim(v)) \in kind.of THEN Sets(Lower(Trim(v))) ELSE Refuses
      [] kind.is = "exactly"    -> IF v \in kind.of THEN Sets(v) ELSE Refuses
      [] kind.is = "integer"    -> ParseInteger(kind, v)
      [] kind.is = "limit"      -> IF v = "" THEN Keeps ELSE ParseInteger(kind, v)
      [] kind.is = "port"       -> ParseInteger(kind, v)
      [] kind.is = "wkid"       -> IF ParseInteger(kind, v).error THEN Refuses ELSE ParseInteger(kind, v)
      [] kind.is = "local host" -> IF Trim(v) = "" THEN Refuses ELSE Sets(Trim(v))
      [] kind.is = "local port" -> IF v \in DOMAIN StrictNumber /\ StrictNumber[v] \in 0..kind.of
                                   THEN Sets(StrictNumber[v]) ELSE Refuses

-----------------------------------------------------------------------------
(* The settings                                                            *)

\* What f says, and what g says of a key that f leaves out.
f ++ g == [k \in DOMAIN f \union DOMAIN g |-> IF k \in DOMAIN f THEN f[k] ELSE g[k]]

Nothing == [k \in {} |-> NULL]

SessionOptions ==
    [protocol |-> OneOf({"tcp", "udp", "grpc", "http", "ws", "xmpp"}),
     mode |-> OneOf({"server", "client"}), ip |-> Address, port |-> Port,
     connectTimeoutMs |-> From(0), logLevel |-> OneOf({"error", "warn", "info", "debug"}),
     onError |-> OneOf({"exit", "continue", "pause"}), runId |-> Text, filename |-> Path,
     logFile |-> Path, config |-> Path, doneFile |-> Path, linesPerInterval |-> From(1),
     intervalMs |-> From(1), connectRetryIntervalMs |-> From(1), startLine |-> From(1),
     endLine |-> Limit, maxLines |-> Limit, loop |-> Boolean, autoConnect |-> Boolean,
     autoStart |-> Boolean, exitOnComplete |-> Boolean, waitForClient |-> Boolean,
     connectWaitForServer |-> Boolean, stdout |-> Boolean]

SocketAddressFamilies ==
    [tcpAddressFamily |-> OneOf({"auto", "ipv4", "ipv6"}),
     udpAddressFamily |-> OneOf({"ipv4", "ipv6"})]

UdpPairingOptions ==
    [udpConnectionMode |-> Exactly({"direct", "registered"}),
     udpLocalHost |-> LocalHost,
     udpLocalPort |-> LocalPort]

TcpHandshakeOptions == [tcpHandshakeText |-> Anything, tcpHandshakeUseEscapes |-> Boolean]

SocketFormats ==
    [tcpFormat |-> OneOf({"delimited", "json", "geo-json", "esri-json"}),
     udpFormat |-> OneOf({"delimited", "json", "geo-json", "esri-json"}),
     tcpInputHasHeader |-> Boolean, udpInputHasHeader |-> Boolean,
     udpAppendNewline |-> Boolean, tcpWkid |-> Wkid, udpWkid |-> Wkid]

SocketFields ==
    [tcpXField |-> Field, tcpYField |-> Field, udpXField |-> Field, udpYField |-> Field]

GrpcOptions ==
    [grpcSerialization |-> OneOf({"protobuf", "kryo", "text"}),
     grpcSendMethod |-> OneOf({"stream", "unary"}), useTls |-> TlsFlag,
     grpcHeaderPath |-> Text, grpcHeaderPathKey |-> Text, tlsCaPath |-> Path,
     tlsCertPath |-> Path, tlsKeyPath |-> Path, allowUnverifiedTls |-> Boolean,
     httpAllowUnverifiedTls |-> Boolean, wsAllowUnverifiedTls |-> Boolean,
     httpPolling |-> Boolean]

HttpOptions ==
    [httpFormat |-> OneOf({"json", "delimited", "esri-json", "geo-json", "xml"}),
     httpTls |-> Boolean, httpPath |-> Text, httpTlsCaPath |-> Path,
     httpTlsCertPath |-> Path, httpTlsKeyPath |-> Path]

WebSocketOptions ==
    [wsFormat |-> OneOf({"json", "delimited", "esri-json", "geo-json", "xml"}),
     wsPath |-> Text, wsTlsCaPath |-> Path, wsTlsCertPath |-> Path, wsTlsKeyPath |-> Path,
     wsTls |-> Boolean, wsIgnoreFirstMsg |-> Boolean, wsSubscriptionMsg |-> Verbatim,
     wsHeaders |-> Verbatim]

XmppTimings == {"xmppConnectTimeoutMs", "xmppReplyTimeoutMs", "xmppPingIntervalMs",
                "xmppReconnectDelayMs"}

XmppOptions ==
    [xmppTlsPolicy |-> OneOf({"required", "preferred", "disabled"}),
     xmppRoomPassword |-> Verbatim, xmppConversation |-> OneOf({"direct", "muc"}),
     xmppDomain |-> Text, xmppUsername |-> Text, xmppResource |-> Text,
     xmppExternalUsername |-> Text, xmppDestination |-> Text, xmppRoom |-> Text,
     xmppNickname |-> Text, xmppTlsCaPath |-> Path, xmppTlsCertPath |-> Path,
     xmppTlsKeyPath |-> Path, xmppAllowUnverifiedTls |-> Boolean,
     xmppAllowRemote |-> Boolean, xmppPassword |-> Anything,
     xmppExternalPassword |-> Anything, xmppConnectTimeoutMs |-> From(1),
     xmppReplyTimeoutMs |-> From(1), xmppPingIntervalMs |-> From(1),
     xmppReconnectDelayMs |-> From(1)]

SocketOptions ==
    SocketAddressFamilies ++ UdpPairingOptions ++ TcpHandshakeOptions ++ SocketFormats
    ++ SocketFields
StreamOptions == GrpcOptions ++ HttpOptions ++ WebSocketOptions

ConnectionOptions == SocketOptions ++ StreamOptions ++ XmppOptions

Settings == SessionOptions ++ ConnectionOptions

HelpKeys == {"help", "help-detailed", "help-table-narrow", "help-table-wide", "help-wide"}
CLI_OPTION_KEYS == DOMAIN Settings \union HelpKeys \union {"runMode", "explain"}
CLI_OPTION_ALIASES == {"h", "rateMs", "silent"}
ASSUME OptionNamesAreTexts == CLI_OPTION_KEYS \subseteq Texts
SECRET_OPTION_KEYS == {"tcpHandshakeText", "xmppPassword", "xmppExternalPassword", "xmppRoomPassword"}

\* APP_DEFAULTS and what DEFAULT_HEADLESS_OPTIONS adds; null where nothing is said.
SessionDefaults ==
    [protocol |-> "tcp", mode |-> "server", ip |-> "127.0.0.1", port |-> 5565,
     connectTimeoutMs |-> 0, logLevel |-> "debug", onError |-> "exit",
     linesPerInterval |-> 1, startLine |-> 1, intervalMs |-> 1000,
     connectRetryIntervalMs |-> 1000, loop |-> FALSE, waitForClient |-> FALSE,
     connectWaitForServer |-> FALSE, autoConnect |-> TRUE, autoStart |-> TRUE,
     exitOnComplete |-> TRUE, stdout |-> TRUE]

SocketDefaults ==
    [tcpHandshakeText |-> "", tcpAddressFamily |-> "auto", udpAddressFamily |-> "ipv4",
     udpConnectionMode |-> "direct", udpLocalHost |-> "127.0.0.1", udpLocalPort |-> 0,
     tcpFormat |-> "delimited", udpFormat |-> "delimited", tcpWkid |-> 4326,
     udpWkid |-> 4326, tcpInputHasHeader |-> FALSE, udpInputHasHeader |-> FALSE,
     udpAppendNewline |-> TRUE, tcpHandshakeUseEscapes |-> TRUE]

StreamDefaults ==
    [grpcHeaderPath |-> "replace.with.dedicated.uid", grpcHeaderPathKey |-> "grpc-path",
     grpcSerialization |-> "protobuf", grpcSendMethod |-> "stream",
     httpFormat |-> "delimited", wsFormat |-> "delimited", httpPath |-> "/",
     wsPath |-> "/", useTls |-> TRUE, httpTls |-> TRUE, wsTls |-> TRUE,
     allowUnverifiedTls |-> FALSE, httpAllowUnverifiedTls |-> FALSE,
     wsAllowUnverifiedTls |-> FALSE, httpPolling |-> FALSE, wsIgnoreFirstMsg |-> FALSE]

XmppDefaultOptions ==
    [xmppDomain |-> "localhost", xmppTlsPolicy |-> "required",
     xmppConversation |-> "direct", xmppConnectTimeoutMs |-> 30000,
     xmppReplyTimeoutMs |-> 15000, xmppResource |-> "velocity-simulator",
     xmppNickname |-> "velocity-simulator", xmppPingIntervalMs |-> 60000,
     xmppReconnectDelayMs |-> 60000, xmppAllowUnverifiedTls |-> FALSE,
     xmppAllowRemote |-> FALSE]

Defaults ==
    SessionDefaults ++ SocketDefaults ++ StreamDefaults ++ XmppDefaultOptions
    ++ [k \in DOMAIN Settings |-> NULL]

-----------------------------------------------------------------------------
(* Where the settings come from                                            *)

\* An argument is an option=value pair, or a lone word or flag.
CommandArguments == [is : {"pair"}, key : Texts, value : Texts] \union [is : {"word", "flag"}, text : Texts]

HelpWords == HelpKeys \union {"h"}
HelpFlags == {"--help", "-h", "--help-detailed", "--help-table-wide", "--help-table-narrow",
              "--help-wide"}

ArgsOf(args, is) == {args[i] : i \in {j \in DOMAIN args : args[j].is = is}}

\* The last of several wins; what is secret keeps its blanks.
RawValues(args) ==
    [k \in {a.key : a \in ArgsOf(args, "pair")} |->
        LET i == CHOOSE i \in DOMAIN args :
                     /\ args[i].is = "pair" /\ args[i].key = k
                     /\ \A j \in DOMAIN args : args[j].is = "pair" /\ args[j].key = k => j <= i
        IN  IF k \in SECRET_OPTION_KEYS THEN args[i].value ELSE Trim(args[i].value)]

HelpRequested(args) ==
    \/ \E a \in ArgsOf(args, "word") : a.text \in HelpWords
    \/ \E a \in ArgsOf(args, "flag") : a.text \in HelpFlags
    \/ \E a \in ArgsOf(args, "pair") :
           a.key \in HelpWords /\ Lower(Trim(a.value)) \in BOOLEAN_TRUE

FlattenConfig(file) == file.output ++ file.streaming ++ file.connection ++ file.headless ++ file.top

NormalizeKnownKeys(given) ==
    IF "rateMs" \in DOMAIN given THEN given ++ [intervalMs |-> given["rateMs"]] ELSE given

\* A saved UDP server that does not say how it pairs keeps the older behaviour.
LoadRunConfig(file) ==
    LET values == FlattenConfig(file)
        Says(k, v) == k \in DOMAIN values /\ Lower(values[k]) = v
    IN  IF /\ Says("protocol", "udp")
           /\ Says("mode", "server") \/ Says("mode", "") \/ "mode" \notin DOMAIN values
        THEN values ++ [udpConnectionMode |-> "registered"]
        ELSE values

NamesConfig(args) == "config" \in DOMAIN RawValues(args) /\ RawValues(args)["config"] # ""

\* A launch is [args, file, readable, records].
MergedValues(launch) ==
    RawValues(launch.args)
    ++ IF NamesConfig(launch.args) /\ launch.readable THEN LoadRunConfig(launch.file) ELSE Nothing

-----------------------------------------------------------------------------
(* What the settings must satisfy together                                 *)

SocketKeys ==
    {[format |-> "tcpFormat", x |-> "tcpXField", y |-> "tcpYField", wkid |-> "tcpWkid"],
     [format |-> "udpFormat", x |-> "udpXField", y |-> "udpYField", wkid |-> "udpWkid"]}

BadValues(given, keys) ==
    {k \in keys \intersect DOMAIN given : Read(Settings[k], given[k]).error}

HandshakeErrors(text, useEscapes) ==
    IF useEscapes \notin BOOLEAN \/ (useEscapes /\ text \in Undecodable)
    THEN {"tcpHandshakeText"} ELSE {}

SocketErrors(o) ==
    {s.x : s \in {s \in SocketKeys : Falsy(o[s.x]) # Falsy(o[s.y])}}
    \union {s.wkid : s \in {s \in SocketKeys : o[s.format] = "geo-json" /\ o[s.wkid] # 4326}}
    \union HandshakeErrors(o["tcpHandshakeText"], o["tcpHandshakeUseEscapes"])

\* The UI's copy of the same rules, over the values as they were merged.
UiRead == DOMAIN (SocketAddressFamilies ++ UdpPairingOptions ++ TcpHandshakeOptions
                  ++ SocketFormats) \union {"httpPolling"}

UiValues(given) ==
    [k \in DOMAIN given |->
        IF k \notin UiRead THEN given[k]
        ELSE LET r == Read(Settings[k], given[k]) IN
             IF r.error /\ Settings[k] = Wkid THEN NULL
             ELSE IF r.value = Unset THEN given[k] ELSE r.value]

Or(v, k, default) == IF k \in DOMAIN v THEN v[k] ELSE default

MutantUiWkidErrors(v) ==
    {s.wkid : s \in {s \in SocketKeys :
                         Or(v, s.format, "none") = "geo-json" /\ Or(v, s.wkid, NULL) # 4326}}
UiWkidErrors(v) ==
    {s.wkid : s \in {s \in SocketKeys :
                         Or(v, s.format, "none") = "geo-json" /\ Or(v, s.wkid, 4326) # 4326}}

UiFieldErrors(given) ==
    LET Blank(k) == Trim(Or(given, k, "")) = "" IN
    {s.x : s \in {s \in SocketKeys : Blank(s.x) # Blank(s.y)}}

UiSocketErrors(given) ==
    LET v == UiValues(given) IN
    BadValues(given, UiRead) \union UiFieldErrors(given) \union UiWkidErrors(v)
        \union HandshakeErrors(Or(v, "tcpHandshakeText", ""), Or(v, "tcpHandshakeUseEscapes", TRUE))

\* The local part of an account name, as the account store compares it.
CanonicalName(v) == IF v \in DOMAIN JidParts THEN JidParts[v][1] ELSE Lower(Trim(v))
INTERNAL_APP_USERNAME == "velocity-simulator"

\* Only once XMPP is chosen do the role and the port have defaults of its own.
XmppDefaults(o, given) ==
    [o EXCEPT !["mode"] = IF "mode" \in DOMAIN given THEN @ ELSE "client",
              !["port"] = IF "port" \in DOMAIN given THEN @ ELSE 5222]

ClientErrors(o) ==
    {k \in {"xmppUsername"} : Falsy(o[k])} \union {k \in {"xmppPassword"} : o[k] = NULL}

ServerErrors(o) ==
    {k \in {"xmppTlsCertPath"} : Falsy(o[k]) # Falsy(o["xmppTlsKeyPath"])}
    \union {k \in {"xmppExternalPassword"} : o[k] = NULL}
    \union {k \in {"xmppExternalUsername"} :
               Falsy(o[k]) \/ CanonicalName(o[k]) = INTERNAL_APP_USERNAME}
    \union {k \in {"ip"} : /\ ~ Holds(o["xmppAllowRemote"])
                           /\ o[k] # "" /\ Lower(o[k]) \notin LoopbackHosts}

ConversationErrors(o) ==
    IF o["xmppConversation"] = "muc"
    THEN {k \in {"xmppRoom"} : Falsy(o[k])} \union {k \in {"xmppNickname"} : o[k] \in BrokenNames}
    ELSE {k \in {"xmppDestination"} : o["mode"] = "client" /\ Falsy(o[k])}

XmppErrors(o) ==
    (IF o["mode"] = "client" THEN ClientErrors(o) ELSE ServerErrors(o))
    \union ConversationErrors(o)
    \union {k \in {"xmppDestination"} : ~ Falsy(o[k]) /\ o[k] \notin DOMAIN JidLists}

\* Said of every session, whatever its protocol.
SessionErrors(o) ==
    {k \in {"filename"} : Falsy(o[k])}
    \union {k \in {"ip"} : o["mode"] = "client" /\ Falsy(o[k])}
    \union {k \in {"endLine"} : o[k] # NULL /\ o["startLine"] # NULL /\ o[k] < o["startLine"]}

\* What is put right with a warning instead of being refused.
Adjusted(o) ==
    [o EXCEPT !["autoConnect"] = IF Holds(o["autoStart"]) THEN TRUE ELSE @,
              !["waitForClient"] = IF o["mode"] = "client" THEN FALSE ELSE @,
              !["connectWaitForServer"] = IF o["mode"] = "server" THEN FALSE ELSE @]

ReadSettings(given) ==
    LET read == [k \in DOMAIN given \intersect DOMAIN Settings |-> Read(Settings[k], given[k]).value]
    IN  [k \in {k \in DOMAIN read : read[k] # Unset} |-> read[k]] ++ Defaults

WithRole(given) ==
    LET o == ReadSettings(given) IN
    IF o["protocol"] = "xmpp" THEN XmppDefaults(o, given) ELSE o

Destinations(o) ==
    IF o["protocol"] = "xmpp" /\ o["xmppDestination"] \in DOMAIN JidLists
    THEN [o EXCEPT !["xmppDestination"] = JidLists[@]] ELSE o

\* validateHeadlessOptions()
HeadlessOptions(merged) == Destinations(Adjusted(WithRole(NormalizeKnownKeys(merged))))

HeadlessErrors(merged) ==
    LET given == NormalizeKnownKeys(merged)
        o == WithRole(given)
    IN  BadValues(given, DOMAIN Settings) \union SocketErrors(o) \union SessionErrors(o)
        \union (IF o["protocol"] = "xmpp" THEN XmppErrors(o) ELSE {})

\* What the window's form is filled with.
UiPresetKeys == DOMAIN ConnectionOptions
                \union {"protocol", "mode", "ip", "port", "intervalMs", "linesPerInterval", "loop"}

UiPresets(given) ==
    LET v == UiValues(given)
        presets == [k \in DOMAIN v \intersect UiPresetKeys |-> v[k]]
        role == IF "protocol" \in DOMAIN v /\ Lower(v["protocol"]) = "xmpp"
                THEN [mode |-> "client"] ELSE Nothing
        rate == IF "rateMs" \in DOMAIN v THEN [intervalMs |-> v["rateMs"]] ELSE Nothing
    IN  presets ++ role ++ rate

-----------------------------------------------------------------------------
(* parseCommandLineArgs()                                                  *)

RunMode(merged) == IF "runMode" \in DOMAIN merged /\ merged["runMode"] # ""
                   THEN Lower(Trim(merged["runMode"])) ELSE "ui"

HeadlessRequested(merged) == RunMode(merged) \in {"silent", "headless"}

ArgumentErrors(launch) ==
    {a.text : a \in ArgsOf(launch.args, "word") \union ArgsOf(launch.args, "flag")}
    \union (DOMAIN RawValues(launch.args) \ (CLI_OPTION_KEYS \union CLI_OPTION_ALIASES))
    \union {k \in {"config"} : NamesConfig(launch.args) /\ ~ launch.readable}

\* What main.js keeps as cliOptions.
ParseCommandLine(launch) ==
    LET merged == MergedValues(launch)
        errors == ArgumentErrors(launch)
                  \union {k \in {"runMode"} : RunMode(merged) \notin {"ui", "silent", "headless"}}
        headless == HeadlessRequested(merged)
        refused == errors \union (IF headless THEN HeadlessErrors(merged) ELSE UiSocketErrors(merged))
    IN  IF HelpRequested(launch.args) THEN [mode |-> "help"]
        ELSE IF refused # {} THEN [mode |-> "error"]
        ELSE IF headless THEN [mode |-> "headless", headless |-> HeadlessOptions(merged)]
        ELSE [mode |-> "ui", presets |-> UiPresets(merged)]
=============================================================================
