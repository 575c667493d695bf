---------------------------- MODULE NodeManagerMC ----------------------------
(* Records and lists for model checking NodeManager: a plain record, and    *)
(* one variation of it for each thing the code tells apart.                 *)
EXTENDS NodeManager

Text == [value |-> "s", mode |-> "auto", obfs |-> FALSE, fields |-> Blank, bytes |-> <<>>,
         secs |-> <<>>, length |-> <<>>, xmux |-> <<>>]

PlainNet == [keys |-> {"transportProtocol", "type", "settings"}, type |-> "ws",
             settings |-> Text, listeningPort |-> << <<2>> >>, cipher |-> Blank,
             decryption |-> "none",
             masque |-> [address |-> <<>>, mtu |-> 0], fallbacks |-> <<>>]

PlainSec == [keys |-> {}, certMode |-> "none", certDomainName |-> "d", cert |-> TRUE,
             maskSettings |-> [enabled |-> FALSE, tcp |-> 0, udp |-> 0, quicParams |-> FALSE],
             socketSettings |-> [acceptProxyProtocol |-> TRUE, value |-> "s"],
             finalRules |-> {}]

BadRule == [PlainSec EXCEPT !.keys = {"finalRules"}, !.finalRules = {NaN, "other"}]

Peer == [type |-> "vless", port |-> << <<2>> >>, net |-> PlainNet, sec |-> PlainSec]

NoRules == [keys |-> {}, port |-> <<>>]

Server == [node |-> Peer, transit |-> Peer, relayType |-> 0, relayNodeId |-> 0,
           rules |-> NoRules]

\* Ports, as the listening port and the port to connect to.
Ports == { << <<2>> >>, << <<1, 2>> >>, << <<1>>, <<>>, <<2, 3>> >>, << <<3, 1>>, <<2>> >>,
           << <<0>> >>, << <<4>> >>, << <<2>>, <<3, 4>> >>, << <<NaN>> >>, <<>>, << <<>>, <<>> >> }

PortPeers == {[Peer EXCEPT !.port = p, !.net.listeningPort = p] : p \in Ports}

\* Every protocol over every transport.
TypePeers == {[Peer EXCEPT !.type = y, !.net.type = w,
                           !.net.masque.address = <<"v4", Blank, "v6">>] :
                y \in Protocols \cup {"VLESS", "other"},
                w \in Parsed \cup {"websocket", "splithttp", "other"}}

KeyPeers == {[Peer EXCEPT !.net.keys = @ \ {k}] : k \in PlainNet.keys}
            \cup {[Peer EXCEPT !.net.type = Blank]}

MasquePeers == {[Peer EXCEPT !.type = "masque", !.net.type = "masque",
                             !.net.masque = [address |-> a, mtu |-> m]] :
                  a \in {<<"v4">>, <<"v4", "v4">>, <<"v4", NaN>>, <<Blank>>},
                  m \in {0, 1000, 1400}}

XhttpPeers == {[Peer EXCEPT !.net.type = "xhttp",
                            !.net.keys = @ \cup {"xmux"},
                            !.net.settings = [Text EXCEPT !.mode = "packet-up", !.obfs = b,
                                              !.fields = "f", !.bytes = p, !.xmux = x, !.length = l]] :
                 b \in BOOLEAN, p \in {<<>>, <<100, 1000>>, <<100>>, <<2, NaN>>},
                 x \in {<<>>, <<1, 2>>, <<NaN>>}, l \in {<<>>, <<1, 2, 3>>}}

SecurityPeers == {[Peer EXCEPT !.sec.keys = ks, !.sec.certMode = m, !.sec.cert = c] :
                    ks \in {{"tlsSettings"}, {"tlsSettings", "certDomainName"},
                            {"tlsSettings", "certDomainName", "realitySettings"}},
                    m \in {"none", "file", "other"}, c \in BOOLEAN}

MaskPeers == {[Peer EXCEPT !.sec.keys = {"maskSettings", "socketSettings"},
                           !.sec.maskSettings = [PlainSec.maskSettings EXCEPT !.tcp = n, !.quicParams = q]] :
                n \in {0, 1, NaN}, q \in BOOLEAN}

Shadowsocks == [Peer EXCEPT !.type = "shadowsocks", !.net.cipher = "2022-blake3-chacha20-poly1305"]

Peers == PortPeers \cup TypePeers \cup KeyPeers \cup MasquePeers \cup XhttpPeers
         \cup SecurityPeers \cup MaskPeers \cup {Shadowsocks}

\* Servers that relay to each of these.
RelayServers == {[Server EXCEPT !.relayType = 1, !.relayNodeId = 1, !.transit = r] : r \in Peers}

\* And those whose own record is one of a few.
Nodes == {[Server EXCEPT !.node = r] :
            r \in {[Peer EXCEPT !.net.listeningPort = << <<1>> >>],
                   [Peer EXCEPT !.net.listeningPort = << <<3, 1>> >>],
                   [Peer EXCEPT !.type = "hysteria"],
                   [Peer EXCEPT !.sec = BadRule],
                   [Peer EXCEPT !.net.type = Blank]}}
         \cup {[Server EXCEPT !.rules = b] :
                 b \in {[keys |-> {"port"}, port |-> << <<1>> >>],
                        [keys |-> {"port"}, port |-> << <<3, 1>> >>],
                        [keys |-> {"port"}, port |-> << <<>>, <<>> >>],
                        [keys |-> {"port", "ip"}, port |-> << <<0>> >>]}}
         \cup {[Server EXCEPT !.relayType = 2, !.relayNodeId = 1],
               [Server EXCEPT !.relayType = 1], [Server EXCEPT !.relayNodeId = 1],
               [Server EXCEPT !.relayType = 1, !.relayNodeId = 1,
                              !.node.sec = BadRule]}

Subscription(i, e) == [id |-> i, email |-> e, uuid |-> e, passwd |-> e, length |-> 16]

SomeLists == {<<>>,
              <<Subscription("1", "a")>>,
              <<[Subscription("1", "a") EXCEPT !.length = 32, !.passwd = "p"],
                Subscription("2", "b")>>}

FewServers == {Server, [Server EXCEPT !.relayType = 1, !.relayNodeId = 1]}
EditedServers == FewServers \cup
    {[Server EXCEPT !.relayType = 2, !.relayNodeId = 1],
     [Server EXCEPT !.node.net.listeningPort = << <<1>> >>],
     [Server EXCEPT !.node.sec = BadRule],
     [Server EXCEPT !.node.net.type = Blank],
     [Server EXCEPT !.rules.keys = {"domain"}],
     [Server EXCEPT !.rules = [keys |-> {"port"}, port |-> << <<3, 1>> >>]],
     [Server EXCEPT !.relayType = 1, !.relayNodeId = 1, !.transit = Shadowsocks],
     [Server EXCEPT !.relayType = 1, !.relayNodeId = 1, !.transit.port = <<>>]}

AllServers == RelayServers \cup Nodes \cup EditedServers
=============================================================================
