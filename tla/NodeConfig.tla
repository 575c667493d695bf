----------------------------- MODULE NodeConfig -----------------------------
(***************************************************************************)
(* What the panel's records become.  api/node.go reads a node's record     *)
(* into a NodeInfo (NodeResponse) and the record of the node it relays to  *)
(* into a RelayNodeInfo (GetTransitNode); node/inbound.go, outbound.go,    *)
(* router.go and stream.go build the core's handlers and rules from them.  *)
(* Everything here is a function of the record, so there are no variables: *)
(* NodeManager applies it.                                                 *)
(*                                                                         *)
(* A record is [type, port, net, sec]: its protocol, the port others       *)
(* connect to, the "transportSettings" and the "securitySettings".  JSON   *)
(* is reduced to the keys that are present ("keys") and the values of      *)
(* those the code tells apart; what is copied as it stands is one opaque   *)
(* "value".  A port or range text is the sequence of its parts, NaN for    *)
(* one that is no number.  An operator that may fail returns the set of    *)
(* its possible results, which is empty for an error.                      *)
(***************************************************************************)
EXTENDS Naturals, Sequences

CONSTANTS MaxPort,   \* 65535
          NaN        \* a text that strconv.ParseUint refuses

ASSUME NodeConfigAssumption == MaxPort \in Nat \ {0} /\ NaN \notin Nat

-----------------------------------------------------------------------------
(* Texts.                                                                  *)

Blank == "blank"   \* the empty text

Numbers(seg) == \A k \in DOMAIN seg : seg[k] # NaN
From(seg) == seg[1]
To(seg) == seg[Len(seg)]

\* The segments of a port text between its commas, blank ones left out.
Segments(port) == {port[k] : k \in DOMAIN port} \ {<<>>}

WellFormed(seg) == Len(seg) \in {1, 2} /\ Numbers(seg)

\* Faulty variant: a range is expanded from port 0.
ExpandFromZero(seg) ==
    IF WellFormed(seg) /\ From(seg) \in 0..MaxPort /\ To(seg) \in 1..MaxPort
    THEN {From(seg)..(To(seg) + 1)} ELSE {}

\* One segment's ports; a reversed range has none.
expandPortRange(seg) ==
    IF WellFormed(seg) /\ From(seg) \in 1..MaxPort /\ To(seg) \in 1..MaxPort
    THEN {From(seg)..To(seg)} ELSE {}

\* Any of the ports, none when a segment is wrong or all are empty.
selectSinglePort(port) ==
    IF \A seg \in Segments(port) : expandPortRange(seg) # {}
    THEN UNION UNION {expandPortRange(seg) : seg \in Segments(port)}
    ELSE {}

\* The ranges a port text lists, for a listener and for a blocking rule:
\* unlike selectSinglePort it has no bound and refuses a reversed range.
parsePortString(port) ==
    IF port # <<>> /\ \A seg \in Segments(port) :
                          WellFormed(seg) /\ From(seg) <= To(seg)
    THEN {{From(seg)..To(seg) : seg \in Segments(port)}}
    ELSE {}

parseInt32Range(text, from, to) ==
    CASE text = <<>>     -> {<<from, to>>}
      [] WellFormed(text) -> {<<From(text), To(text)>>}
      [] OTHER            -> {}

-----------------------------------------------------------------------------
(* api/node.go: records.                                                   *)

\* strings.ToLower, for the one spelling that matters.
ToLower(type) == IF type = "VLESS" THEN "vless" ELSE type

\* The transports whose settings are read.
Parsed == {"hysteria", "masque", "xhttp", "raw", "tcp", "kcp", "grpc", "ws",
           "httpupgrade"}

\* XhttpSettings with its defaults; xmux stands for its five ranges.
XhttpSettings(net) ==
    [net.settings EXCEPT !.bytes = IF @ = <<>> THEN <<100, 1000>> ELSE @,
                         !.secs  = IF @ = <<>> THEN <<20, 80>> ELSE @,
                         !.xmux  = IF "xmux" \in net.keys THEN @ ELSE <<>>]

\* The pointer that a transport's settings are stored in: <<>> when nil.
Settings(net) ==
    CASE net.type = "xhttp"     -> <<XhttpSettings(net)>>
      [] net.type \in Parsed \ {"xhttp"} -> <<net.settings>>
      [] OTHER                  -> <<>>

parseNetworkSettings(net) ==
    IF {"transportProtocol", "type", "settings"} \subseteq net.keys /\ net.type # Blank
    THEN {[type |-> net.type, settings |-> Settings(net)]}
    ELSE {}

SecurityType(sec) ==
    IF "realitySettings" \in sec.keys THEN "reality"
    ELSE IF "tlsSettings" \in sec.keys THEN "tls" ELSE "none"

\* A node with tlsSettings needs the key certDomainName, and a text in it
\* unless it takes no certificate.
parseSecuritySettings(sec) ==
    IF "tlsSettings" \in sec.keys
       /\ \/ "certDomainName" \notin sec.keys
          \/ sec.certMode # "none" /\ sec.certDomainName = NaN
    THEN {}
    ELSE {[type |-> SecurityType(sec), certMode |-> sec.certMode, cert |-> sec.cert]}

\* Faulty variant: reality does not take precedence over tls.
RelaySecurityTlsFirst(sec) ==
    IF "tlsSettings" \in sec.keys THEN "tls" ELSE SecurityType(sec)

\* The relay's side reads other fields of them and refuses nothing.
parseRelaySecuritySettings(sec) == SecurityType(sec)

\* Masks are in force when one list or the QUIC parameters are there; a
\* list that is none (NaN) is an error.
parseMaskSettingsInto(sec) ==
    LET m == sec.maskSettings
    IN  IF "maskSettings" \notin sec.keys THEN {[m EXCEPT !.enabled = FALSE]}
        ELSE IF NaN \in {m.tcp, m.udp} THEN {}
        ELSE {[m EXCEPT !.enabled = m.tcp # 0 \/ m.udp # 0 \/ m.quicParams]}

\* The actions of the final rules: blank for one that is no text.
parseFinalRules(sec) ==
    IF "finalRules" \in sec.keys
    THEN {IF action = NaN THEN Blank ELSE action : action \in sec.finalRules}
    ELSE {}

\* What is blocked: ports, and lists of addresses, domains or protocols.
parseBlockingRules(rules) ==
    [port  |-> IF "port" \in rules.keys THEN rules.port ELSE <<>>,
     lists |-> rules.keys \cap {"ip", "domain", "protocol"} # {}]

fillSocketSettings(sec) ==
    IF "socketSettings" \in sec.keys THEN <<sec.socketSettings>> ELSE <<>>

\* Entries without a destination are skipped.
parseFallbackConfigs(net) == SelectSeq(net.fallbacks, LAMBDA f : f.dest # Blank)

Relays(s) == s.relayType = 1 /\ s.relayNodeId > 0

\* What of a server's record makes its NodeInfo.
NodeResponse(s) ==
    {[type        |-> ToLower(s.node.type),
      relayType   |-> s.relayType,
      relayNodeId |-> s.relayNodeId,
      port        |-> s.node.net.listeningPort,
      cipher      |-> IF ToLower(s.node.type) = "shadowsocks"
                      THEN s.node.net.cipher ELSE Blank,
      decryption  |-> s.node.net.decryption,
      masque      |-> s.node.net.masque,
      fallbacks   |-> IF ToLower(s.node.type) \in {"vless", "trojan"}
                      THEN parseFallbackConfigs(s.node.net) ELSE <<>>,
      net |-> net, sec |-> sec, mask |-> mask,
      socket      |-> fillSocketSettings(s.node.sec),
      finalRules  |-> parseFinalRules(s.node.sec),
      rules       |-> parseBlockingRules(s.rules)] :
        net  \in parseNetworkSettings(s.node.net),
        sec  \in parseSecuritySettings(s.node.sec),
        mask \in parseMaskSettingsInto(s.node.sec)}

\* The node to relay to: its type is taken as it is spelled.
GetTransitNode(r) ==
    {[type          |-> r.type,
      port          |-> port,
      listeningPort |-> listening,
      cipher        |-> IF r.type = "shadowsocks" THEN r.net.cipher ELSE Blank,
      net |-> net, mask |-> mask,
      sec           |-> parseRelaySecuritySettings(r.sec),
      socket        |-> fillSocketSettings(r.sec)] :
        port      \in selectSinglePort(r.port),
        listening \in selectSinglePort(r.net.listeningPort),
        net       \in parseNetworkSettings(r.net),
        mask      \in parseMaskSettingsInto(r.sec)}

-----------------------------------------------------------------------------
(* node/stream.go, and what both builders share.                           *)

Protocols == {"vless", "vmess", "trojan", "shadowsocks", "hysteria", "masque"}

\* shadowaead_2022.List.
Ciphers2022 == {"2022-blake3-aes-128-gcm", "2022-blake3-aes-256-gcm",
                "2022-blake3-chacha20-poly1305"}

\* conf.TransportProtocol.Build: the core's name of a transport.
CoreTransport ==
    [raw |-> "tcp", tcp |-> "tcp", ws |-> "websocket", websocket |-> "websocket",
     xhttp |-> "splithttp", splithttp |-> "splithttp", kcp |-> "mkcp",
     mkcp |-> "mkcp", grpc |-> "grpc", httpupgrade |-> "httpupgrade",
     hysteria |-> "hysteria", masque |-> "masque"]

\* The transports whose settings both sides copy: default ones when nil.
applyCommonTransport(net) ==
    [name |-> CoreTransport[net.type], settings |-> net.settings]

\* The masks both sides put on the stream.
applyMaskSettings(m) ==
    IF m.enabled THEN <<[tcp |-> m.tcp, udp |-> m.udp, quicParams |-> m.quicParams]>>
    ELSE <<>>

\* The inbound takes what concerns accepted connections too.
buildSocketConfig(socket, side) ==
    IF socket = <<>> THEN <<>>
    ELSE <<[Head(socket) EXCEPT !.acceptProxyProtocol = side = "inbound" /\ @]>>

\* The version, or the DNS servers, of a protocol that brings its transport
\* are read through a pointer that only that transport's settings fill.
NilSettings(type, net, protocols) ==
    type \in protocols /\ (net.type # type \/ net.settings = <<>>)

-----------------------------------------------------------------------------
(* node/inbound.go.                                                        *)

\* At least one prefix and at most one of a kind; an MTU it can carry.
buildMasqueServerConfig(masque) ==
    LET prefixes == SelectSeq(masque.address, LAMBDA a : a # Blank)
    IN  /\ masque.mtu = 0 \/ masque.mtu \in 1280..65535
        /\ prefixes # <<>>
        /\ \A k \in DOMAIN prefixes :
              /\ prefixes[k] # NaN
              /\ \A l \in DOMAIN prefixes : prefixes[l] = prefixes[k] => l = k

\* Obfuscation fields are those of the settings in obfuscation mode only.
XhttpServer(x) ==
    {[value |-> x.value, mode |-> x.mode,
      secs |-> secs, bytes |-> bytes, length |-> length, xmux |-> xmux,
      obfs |-> x.obfs, fields |-> IF x.obfs THEN x.fields ELSE Blank] :
        secs   \in parseInt32Range(x.secs, 20, 80),
        bytes  \in parseInt32Range(x.bytes, 100, 1000),
        length \in parseInt32Range(IF x.obfs THEN x.length ELSE <<>>, 0, 0),
        xmux   \in parseInt32Range(x.xmux, 0, 0)}

ServerTransport(net) ==
    IF net.type \notin DOMAIN CoreTransport THEN {}
    ELSE IF CoreTransport[net.type] # "splithttp" THEN {applyCommonTransport(net)}
    ELSE {[name |-> "splithttp", settings |-> <<x>>] :
              x \in UNION {XhttpServer(net.settings[k]) : k \in DOMAIN net.settings}}

\* The certificate of a mode, or none when something it needs is missing.
getCertFile(sec) ==
    sec.certMode \in {"file", "dns", "http", "tls", "self-signed"} /\ sec.cert

ServerSecurity(sec) ==
    IF sec.type = "tls" /\ sec.certMode = "none" THEN {"none"}
    ELSE IF sec.type = "tls" /\ ~getCertFile(sec) THEN {}
    ELSE {sec.type}

\* HysteriaSettings.Version is read whatever the transport is.
InboundPanics(n) ==
    /\ parsePortString(n.port) \notin {{}, {{}}}
    /\ NilSettings(n.type, n.net, {"hysteria"})

\* A vless inbound falls back only when it decrypts nothing itself.
Fallbacks(n) ==
    IF n.type = "vless" /\ n.decryption # "none" THEN <<>> ELSE n.fallbacks

InboundBuilder(n) ==
    {[protocol |-> n.type, ports |-> ports, transport |-> transport,
      fallbacks |-> Fallbacks(n), mask |-> applyMaskSettings(n.mask), security |-> security,
      socket |-> buildSocketConfig(n.socket, "inbound")] :
        ports     \in IF n.type \in Protocols
                         /\ n.type = "masque" => buildMasqueServerConfig(n.masque)
                      THEN parsePortString(n.port) \ {{}} ELSE {},
        transport \in ServerTransport(n.net),
        security  \in ServerSecurity(n.sec)}

\* subscription/builders.go: what a user proves itself with, as it stands.
UserKey(type, s) ==
    [text |-> IF type = "shadowsocks" THEN s.passwd ELSE s.uuid, as |-> "plain"]

-----------------------------------------------------------------------------
(* node/outbound.go.                                                       *)

\* A final rule without an action is left out; the core refuses one with an
\* action it does not know.
buildFinalRule(action) == action \in {Blank, "allow", "block"}

\* OutboundBuilder: the node's own outbound.
OutboundBuilds(n) == \A action \in n.finalRules : buildFinalRule(action)

\* How much the core pads when its configuration does not say.
CorePadding == <<100, 1000>>

\* Faulty variant: only xmux makes the builder wrap settings in "extra".
XhttpClientXmuxOnly(x) ==
    IF x.xmux # <<>>
    THEN {[value |-> x.value, mode |-> x.mode, bytes |-> CorePadding,
           length |-> x.length, xmux |-> xmux, obfs |-> x.obfs, fields |-> x.fields] :
             xmux \in parseInt32Range(x.xmux, 0, 0)}
    ELSE {[value |-> x.value, mode |-> x.mode, bytes |-> CorePadding,
           length |-> <<>>, xmux |-> <<0, 0>>, obfs |-> FALSE, fields |-> Blank]}

\* The obfuscation fields and xmux go into "extra", if there is either, the
\* length of session ids as the text it is.  The padding's bytes never do.
XhttpClient(x) ==
    IF x.obfs \/ x.xmux # <<>>
    THEN {[value |-> x.value, mode |-> x.mode, bytes |-> CorePadding,
           length |-> x.length, xmux |-> xmux, obfs |-> x.obfs, fields |-> x.fields] :
             xmux \in parseInt32Range(x.xmux, 0, 0)}
    ELSE {[value |-> x.value, mode |-> x.mode, bytes |-> CorePadding,
           length |-> <<>>, xmux |-> <<0, 0>>, obfs |-> FALSE, fields |-> Blank]}

\* Without xhttp settings the relay uses defaults; masque parses its xmux.
ClientTransport(net) ==
    IF net.type \notin DOMAIN CoreTransport THEN {}
    ELSE IF net.settings = <<>> THEN {applyCommonTransport(net)}
    ELSE IF net.type = "xhttp"
    THEN {[name |-> "splithttp", settings |-> <<x>>] : x \in XhttpClient(net.settings[1])}
    ELSE IF net.type = "masque" /\ parseInt32Range(net.settings[1].xmux, 0, 0) = {}
    THEN {}
    ELSE {applyCommonTransport(net)}

RelayPanics(t) == NilSettings(t.type, t.net, {"hysteria", "masque"})

\* What a relay outbound presents for a subscription: a 2022 cipher's key is
\* cut from the password and encoded.
RelayKey(t, s) ==
    [text    |-> IF t.type = "masque" THEN s.uuid ELSE s.passwd,
     as      |-> IF t.cipher \in Ciphers2022 THEN "base64" ELSE "plain"]

OutboundRelayBuilder(t, s) ==
    {[protocol |-> t.type, port |-> t.port, transport |-> transport,
      mask |-> applyMaskSettings(t.mask), security |-> t.sec, key |-> RelayKey(t, s),
      socket |-> buildSocketConfig(t.socket, "outbound")] :
        transport \in IF t.type \in Protocols THEN ClientTransport(t.net) ELSE {}}

-----------------------------------------------------------------------------
(* node/manager.go and node/router.go.                                     *)

\* A password that is long enough for the key of a 2022 cipher.
CheckShadowsocksPassword(s, cipher) ==
    s.length >= (IF cipher = "2022-blake3-aes-128-gcm" THEN 16 ELSE 32)

\* Does a relay take the subscription?  One without a key is passed over.
Takes(t, s) == t.cipher \in Ciphers2022 => CheckShadowsocksPassword(s, t.cipher)

Own(tag) == [of |-> tag, part |-> "own"]
Blackhole(tag) == [of |-> tag, part |-> "blackhole"]
RelayOf(rtag, s) == [of |-> rtag, part |-> s.id]

\* The kinds of connection that blocking rules tell apart.  Lists and ports
\* make one rule: "blocked" is what meets all of its conditions.
Kinds == {"blocked", "plain"}

\* Everything that enters by the tag.
DefaultRouterBuilder(tag) ==
    [tag |-> [of |-> tag, part |-> "default"], inbound |-> tag,
     users |-> {}, dest |-> Own(tag), matches |-> Kinds]

\* What a user of the inbound is called ...
buildUserTag(tag, s) == [tag |-> tag, email |-> s.email]

\* ... and whom a relay's rule asks for.
RelayRouterBuilder(tag, rtag, s) ==
    [tag |-> RelayOf(rtag, s), inbound |-> tag,
     users |-> {[tag |-> tag, email |-> s.email, id |-> s.id]},
     dest |-> RelayOf(rtag, s), matches |-> Kinds]

HasBlockingRules(rules) ==
    rules.lists \/ rules.port \notin {<<>>, << <<0>> >>}

\* No rule without blocking rules; a port text of blanks restricts nothing.
BlackHoleRouterBuilder(rules, tag) ==
    IF ~HasBlockingRules(rules) THEN {<<>>}
    ELSE {<<[tag |-> Blackhole(tag), inbound |-> tag, users |-> {},
             dest |-> Blackhole(tag),
             matches |-> IF rules.lists \/ ranges # {} THEN {"blocked"} ELSE Kinds]>> :
             ranges \in IF rules.port \in {<<>>, << <<0>> >>} THEN {{}}
                        ELSE parsePortString(rules.port)}
=============================================================================
