------------------------------ MODULE MCStartup ------------------------------
(***************************************************************************)
(* The launches TLC considers, and what the parsers make of their texts.   *)
(***************************************************************************)
EXTENDS Startup, TLC

\* Every text there is.
MCTexts == STRING

MCTrimmed == " " :> "" @@ " json" :> "json" @@ " lon " :> "lon"
MCLowerCase == "GEO-JSON" :> "geo-json" @@ "IPv6" :> "ipv6" @@ "Server" :> "server"
               @@ "MUC" :> "muc" @@ "Plant" :> "plant" @@ "TRUE" :> "true"
MCNumbers == [n \in {"0", "1", "2", "3", "250", "500", "3857", "4326", "5222", "5300", "5565",
                     "15000", "30000", "60000", "70000"} |->
                CHOOSE i \in {0, 1, 2, 3, 250, 500, 3857, 4326, 5222, 5300, 5565, 15000, 30000,
                              60000, 70000} : ToString(i) = n]
MCDecimal == [i \in {MCNumbers[n] : n \in DOMAIN MCNumbers} |-> ToString(i)]
MCParseInt == MCNumbers @@ "2x" :> 2 @@ "4326x" :> 4326
MCJidParts ==
    "feed@elsewhere" :> <<"feed", "elsewhere">>
    @@ "Feed@elsewhere" :> <<"feed", "elsewhere">>
    @@ "Velocity-Simulator@elsewhere" :> <<"velocity-simulator", "elsewhere">>
    @@ "traffic@rooms.elsewhere" :> <<"traffic", "rooms.elsewhere">>
    @@ "traffic@conference.localhost" :> <<"traffic", "conference.localhost">>
    @@ "traffic@conference.plant" :> <<"traffic", "conference.plant">>
MCJidLists ==
    [j \in {"ops@plant", "velocity-simulator@localhost", "velocity-simulator@plant"} |-> j]
    @@ "ops@plant, Ops@plant" :> "ops@plant"

\* A record of texts, one per setting, in which a setting can be left out.
Left == "(left out)"
Given(r) == [k \in {k \in DOMAIN r : r[k] # Left} |-> r[k]]
Every(records) == {Given(r) : r \in records}

Order == <<"runMode", "filename", "config", "protocol", "mode", "ip", "port", "startLine", "maxLines",
           "loop", "autoConnect", "autoStart", "exitOnComplete", "waitForClient",
           "connectWaitForServer", "onError", "intervalMs", "rateMs", "silent",
           "tcpFormat", "tcpWkid", "tcpXField", "tcpYField", "udpFormat", "udpWkid",
           "tcpHandshakeText", "tcpHandshakeUseEscapes", "tcpAddressFamily", "udpAddressFamily",
           "udpConnectionMode", "udpLocalHost", "udpLocalPort", "tcpInputHasHeader",
           "xmppDomain", "xmppAllowRemote", "xmppUsername", "xmppPassword", "xmppExternalUsername",
           "xmppExternalPassword", "xmppConversation", "xmppRoom", "xmppNickname",
           "xmppDestination", "xmppTlsCertPath", "xmppTlsKeyPath", "xmppPingIntervalMs", "helpme">>
Arguments(given) ==
    LET Has(k) == k \in DOMAIN given
        keys == SelectSeq(Order, Has)
    IN  [i \in DOMAIN keys |-> Pair(keys[i], given[keys[i]])]

NoFile == [top |-> Nothing, headless |-> Nothing, connection |-> Nothing,
           streaming |-> Nothing, output |-> Nothing]
Launched(args, file, readable) == [args |-> args, file |-> file, readable |-> readable, records |-> 2]
Typed(given) == Launched(Arguments(given), NoFile, TRUE)
Saved(file, given) == Launched(Arguments("config" :> "saved" @@ given), file, TRUE)
Headless == "runMode" :> "headless" @@ "filename" :> "records"

\* Two records; every combination of the options that decide how a session ends, and
\* some of those that the command line puts right.
MCEndings ==
    {Typed(Headless @@ g) : g \in
        Every({r \in [startLine : {"1", "3"}, maxLines : {"", "1"}, loop : {Left, "yes"},
                      autoConnect : {Left, "no"}, autoStart : {"true", "off"},
                      waitForClient : {Left, "1"}, connectWaitForServer : {Left, "y"},
                      mode : {"client", "Server"}, onError : {"continue", "pause", "exit"},
                      exitOnComplete : {Left, "false"}] :
                  /\ r.loop # Left => r.maxLines = "1"
                  /\ r.waitForClient # Left => r.connectWaitForServer = Left
                  /\ r.waitForClient # Left /\ r.mode = "client" =>
                         r.onError = "exit" /\ r.startLine = "1"
                  /\ r.connectWaitForServer # Left /\ r.mode # "client" =>
                         r.onError = "exit" /\ r.startLine = "1"})}

\* Socket settings, split between the file and the arguments.
MCSockets ==
    {Saved([NoFile EXCEPT !.top = f, !.connection = c], g) :
        f \in Every([tcpFormat : {Left, "GEO-JSON"}, tcpWkid : {Left, "3857"}]),
        c \in Every([tcpWkid : {Left, "4326x", ""}, tcpXField : {Left, " lon ", " "}]),
        g \in Every([tcpFormat : {Left, "geo-json", "xml"}, tcpWkid : {Left, "3857", "0"},
                     tcpYField : {Left, "lat"}])}
    \union
    {Saved([NoFile EXCEPT !.headless = f], g) :
        f \in Every([protocol : {"udp"}, mode : {Left, "Server"}, udpConnectionMode : {Left, "direct"},
                     tcpHandshakeText : {Left, "bad escape"}]),
        g \in Every([udpConnectionMode : {Left, "Registered"}, udpLocalHost : {Left, " "},
                     udpLocalPort : {Left, "2x", "70000"}, udpAddressFamily : {Left, "auto"},
                     tcpHandshakeUseEscapes : {Left, "false", "2"}])}
    \union
    {Typed(g) : g \in Every(
        [tcpAddressFamily : {Left, "IPv6", "any"}, tcpInputHasHeader : {Left, "on", "2"},
         udpLocalPort : {Left, "0"}, udpFormat : {Left, " json"}, udpWkid : {Left, "4326"}])}

\* Sessions that only say that they are ready: what matters is who they are.
Quiet == Headless @@ "protocol" :> "xmpp" @@ "autoStart" :> "false" @@ "autoConnect" :> "false"

MCXmpp ==
    {Typed(Quiet @@ g) : g \in Every(
        [mode : {Left, "client"}, ip : {Left}, xmppUsername : {Left, " ", "Feed@elsewhere"},
         xmppPassword : {Left, ""}, xmppConversation : {Left, "MUC"},
         xmppRoom : {Left, "traffic"}, xmppNickname : {Left, "a/b", "endless"},
         xmppDestination : {Left, "ops@plant, Ops@plant", "ops"}])}
    \union
    {Typed(Quiet @@ "mode" :> "server" @@ g) : g \in Every(
        [port : {"5300"}, xmppDomain : {Left, "Plant", ".plant"},
         xmppExternalUsername : {Left, "feed", "two words", "Feed@elsewhere",
                                 "Velocity-Simulator@elsewhere"},
         xmppExternalPassword : {Left, "", " pw"}, xmppConversation : {"direct", "muc"},
         xmppNickname : {Left, "endless"},
         xmppRoom : {Left, "traffic", "traffic@rooms.elsewhere"}, xmppDestination : {Left, "ops"}])}
    \union
    {Typed(Quiet @@ "mode" :> "server" @@ "xmppExternalUsername" :> "feed"
           @@ "xmppExternalPassword" :> "pw" @@ g) : g \in Every(
        [ip : {Left, "localhost", "10.0.0.1", " "}, xmppAllowRemote : {Left, "TRUE"},
         xmppTlsCertPath : {Left, "", "cert"}, xmppTlsKeyPath : {Left, "key"}])}
    \union
    {Saved([NoFile EXCEPT !.connection = "xmppDomain" :> " "],
           Quiet @@ "mode" :> "server" @@ "xmppExternalUsername" :> "feed"
           @@ "xmppExternalPassword" :> "pw")}

\* Help, what nobody knows, files that cannot be read, and what sections say of a setting.
Lone(is, text) == [is |-> is, text |-> text]
MCOthers ==
    {Launched(Arguments(g) \o a, f, r) :
        g \in Every([runMode : {Left, "silent", "ui", "bogus"}, filename : {"records"},
                     config : {Left, "saved"}, protocol : {"xmpp"}, helpme : {Left, "1"},
                     rateMs : {Left, "250"}, silent : {Left, "true"}]),
        a \in {<<>>, <<Lone("flag", "--help")>>, <<Lone("flag", "-x")>>, <<Lone("word", "records")>>,
               <<Pair("help", "no"), Pair("help", "Y")>>, <<Pair("runMode", "ui"), Pair("autoStart", "0")>>},
        f \in {NoFile, [NoFile EXCEPT !.top = "autoStart" :> "off" @@ "runMode" :> "headless",
                                      !.output = "autoStart" :> "false" @@ "filename" :> "other"]},
        r \in BOOLEAN}

MCLaunches == MCEndings \union MCSockets \union MCXmpp \union MCOthers

\* The option sets the engine may be handed, and that no launch is handed another.
MCOptions ==
    {o \in [available : {2}, startLine : {1, 3}, endLine : {0}, maxLines : {0, 1},
            linesPerInterval : {1}, loop : BOOLEAN, autoConnect : BOOLEAN, autoStart : BOOLEAN,
            waitForClient : BOOLEAN, connectWaitForServer : BOOLEAN, mode : {"client", "server"},
            onError : {"continue", "pause", "exit"}] : Normalised(o)}

ASSUME EveryLaunchIsRun ==
    \A l \in MCLaunches : EngineOptions(HandedOver(ParseCommandLine(l)), l.records) \in MCOptions
=============================================================================
