---------------------------- MODULE XmppSettings ----------------------------
(***************************************************************************)
(* What the XMPP transport makes of its options when it is built, and the  *)
(* settings a running server hands to whoever connects to it               *)
(* (src/src/xmpp-transport.js).                                            *)
(***************************************************************************)
EXTENDS CommandLine

CONSTANT UnfitNames  \* the nicknames that are too long, or hold control characters

HasAt(name) == name \in DOMAIN JidParts

BareJid(local, domain) == local \o "@" \o domain
MucDomain(domain) == "conference." \o domain
ServiceJid(domain) == BareJid(INTERNAL_APP_USERNAME, domain)

\* What BareJid() writes is read as the parts it was made of.
Parses(parts) ==
    LET jid == BareJid(parts[1], parts[2]) IN
    /\ jid \in Texts \ ({""} \union DOMAIN Trimmed)
    /\ jid \in DOMAIN JidParts /\ JidParts[jid] = parts

\* The parts of a name are in their normal form, and the first has no '@'; blanks and
\* capitals are no '@'.  The program's own name will do, an empty one will not.
ASSUME NamesAreNormalised ==
    /\ \A v \in DOMAIN JidParts :
           /\ JidParts[v][1] \in Texts
           /\ JidParts[v][1] \notin DOMAIN JidParts \union DOMAIN Trimmed \union DOMAIN LowerCase
    /\ \A v \in DOMAIN Trimmed \ DOMAIN JidParts : Trimmed[v] \notin DOMAIN JidParts
    /\ \A v \in DOMAIN LowerCase \ DOMAIN JidParts : LowerCase[v] \notin DOMAIN JidParts
    /\ INTERNAL_APP_USERNAME \notin BrokenNames
    /\ "" \in BadAccounts /\ "" \in BadDomains

\* No domain is that of the machine.
NormalDomain(o) == IF o["xmppDomain"] = "" THEN "localhost" ELSE Lower(o["xmppDomain"])

\* A bare room name belongs to the conversation sub-domain of the domain.
RoomParts(room, domain) ==
    IF HasAt(room) THEN JidParts[room] ELSE <<Lower(room), MucDomain(domain)>>
resolveRoomJid(room, domain) == BareJid(RoomParts(room, domain)[1], RoomParts(room, domain)[2])

\* A user@domain name brings its own domain.
ClientDomain(o) ==
    IF HasAt(o["xmppUsername"]) THEN JidParts[o["xmppUsername"]][2] ELSE NormalDomain(o)

Account(o) == IF o["mode"] = "client" THEN o["xmppUsername"] ELSE o["xmppExternalUsername"]
Nickname(o) == IF Falsy(o["xmppNickname"]) THEN "velocity-simulator" ELSE o["xmppNickname"]

-----------------------------------------------------------------------------
(* When it cannot be built; the files its options name are there           *)

TimingIsValid(n) == n >= 1

CommonRefused(o) ==
    \/ \E k \in XmppTimings : ~ TimingIsValid(o[k])
    \/ o["xmppConversation"] = "muc" /\ (Falsy(o["xmppRoom"]) \/ o["xmppNickname"] \in BrokenNames)

ClientRefused(o) ==
    \/ Falsy(Trim(o["ip"]))
    \/ Falsy(o["xmppUsername"])
    \/ o["xmppPassword"] = NULL
    \/ o["xmppConversation"] = "direct" /\ o["xmppDestination"] \notin DOMAIN JidLists

ServerRefused(o) ==
    \/ o["xmppAllowRemote"] # TRUE /\ o["ip"] # "" /\ Lower(o["ip"]) \notin LoopbackHosts
    \/ Falsy(o["xmppExternalUsername"])
    \/ o["xmppExternalPassword"] = NULL
    \/ CanonicalName(o["xmppExternalUsername"]) = INTERNAL_APP_USERNAME
    \/ Falsy(o["xmppTlsCertPath"]) # Falsy(o["xmppTlsKeyPath"])
    \/ /\ o["xmppConversation"] = "direct"
       /\ ~ Falsy(o["xmppDestination"]) /\ o["xmppDestination"] \notin DOMAIN JidLists

\* normalizeDomain(), normalizeAccountUsername(), requireBareJid() and requireNickname()
\* throw at these; a client's room is first looked for in the domain of its options.
DomainsUsed(o) == {NormalDomain(o)} \union {d \in {ClientDomain(o)} : o["mode"] = "client"}

NameRefused(o) ==
    \/ CanonicalName(Account(o)) \in BadAccounts
    \/ o["xmppConversation"] = "muc" /\ Nickname(o) \in UnfitNames
    \/ \E domain \in DomainsUsed(o) :
           LET room == RoomParts(o["xmppRoom"], domain) IN
           \/ domain \in BadDomains
           \/ o["xmppConversation"] = "muc" /\ (room[1] \in BadAccounts \/ room[2] \in BadDomains)

OptionsRefused(o) ==
    CommonRefused(o) \/ IF o["mode"] = "client" THEN ClientRefused(o) ELSE ServerRefused(o)

TransportRefuses(o) == OptionsRefused(o) \/ NameRefused(o)

-----------------------------------------------------------------------------
(* Who the transport is, once it was built                                 *)

ClientIdentity(o) ==
    [account |-> CanonicalName(o["xmppUsername"]), password |-> o["xmppPassword"],
     domain |-> ClientDomain(o), tlsPolicy |-> o["xmppTlsPolicy"],
     talksIn |-> IF o["xmppConversation"] = "muc" THEN resolveRoomJid(o["xmppRoom"], ClientDomain(o))
                 ELSE JidLists[o["xmppDestination"]]]

ServerIdentity(o) ==
    [account |-> CanonicalName(o["xmppExternalUsername"]), password |-> o["xmppExternalPassword"],
     domain |-> NormalDomain(o), tlsPolicy |-> o["xmppTlsPolicy"],
     talksIn |-> IF o["xmppConversation"] = "muc" THEN resolveRoomJid(o["xmppRoom"], NormalDomain(o))
                 ELSE ServiceJid(NormalDomain(o))]

BoundAddress(ip) == IF ip \in {"", "localhost"} THEN "127.0.0.1" ELSE ip

\* The account a copied block names: the one the server compares user names with.
AccountAsTyped(o) == o["xmppExternalUsername"]
ClientAccount(o) == CanonicalName(o["xmppExternalUsername"])

\* getClientSettings({includePassword: true}) of a listening server, as the values it
\* prints.  The address is the one it is bound to; a server with a certificate of its
\* own making says that the certificate cannot be verified.
ClientSettings(o, selfSigned) ==
    LET me == ServerIdentity(o) IN
    [ip |-> BoundAddress(o["ip"]), port |-> Decimal[o["port"]],
     protocol |-> "xmpp", mode |-> "client",
     xmppDomain |-> me.domain, xmppTlsPolicy |-> me.tlsPolicy,
     xmppAllowUnverifiedTls |-> IF selfSigned THEN "true" ELSE "false",
     xmppUsername |-> ClientAccount(o), xmppPassword |-> me.password,
     xmppResource |-> "velocity-simulator",
     xmppConversation |-> o["xmppConversation"],
     xmppDestination |-> ServiceJid(me.domain), xmppRoom |-> me.talksIn, xmppNickname |-> Nickname(o),
     timings |-> [k \in XmppTimings |-> Decimal[o[k]]]]

Pair(k, v) == [is |-> "pair", key |-> k, value |-> v]

\* formatClientSettings(): an option=value line each, in this order.
SettingLines(s) ==
    <<Pair("ip", s.ip), Pair("port", s.port), Pair("protocol", s.protocol), Pair("mode", s.mode),
      Pair("xmppDomain", s.xmppDomain), Pair("xmppTlsPolicy", s.xmppTlsPolicy),
      Pair("xmppAllowUnverifiedTls", s.xmppAllowUnverifiedTls),
      Pair("xmppUsername", s.xmppUsername), Pair("xmppPassword", s.xmppPassword),
      Pair("xmppResource", s.xmppResource), Pair("xmppConversation", s.xmppConversation)>>
    \o (IF s.xmppConversation = "muc"
        THEN <<Pair("xmppRoom", s.xmppRoom), Pair("xmppNickname", s.xmppNickname)>>
        ELSE <<Pair("xmppDestination", s.xmppDestination)>>)
    \o <<Pair("xmppConnectTimeoutMs", s.timings["xmppConnectTimeoutMs"]),
         Pair("xmppReplyTimeoutMs", s.timings["xmppReplyTimeoutMs"]),
         Pair("xmppPingIntervalMs", s.timings["xmppPingIntervalMs"]),
         Pair("xmppReconnectDelayMs", s.timings["xmppReconnectDelayMs"])>>
=============================================================================
