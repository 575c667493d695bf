----------------------------- MODULE NodeManager -----------------------------
(***************************************************************************)
(* What a node puts into the core: node.Manager adds and removes its       *)
(* inbound, its own outbound, the blackhole, the relay outbounds and the   *)
(* routing rules, one call to the core at a time, in the order in which    *)
(* Controller.Start, apiMonitor and Close ask for it.                      *)
(*                                                                         *)
(* NodeSync has these methods as single steps that may fail at any time,   *)
(* and executions of apiMonitor that interleave.  Here one execution runs  *)
(* at a time, every call to the core succeeds unless the core refuses it   *)
(* for what it holds, and it is the panel's record that decides what is    *)
(* built, what fails and what panics.  The core's router takes the first   *)
(* rule that matches, and the core's default when none does: an outbound   *)
(* of its own file, or else the first one that anybody adds.               *)
(***************************************************************************)
EXTENDS NodeConfig, FiniteSets, SequencesExt

CONSTANTS Servers,   \* records of the node that the panel may hold
          Edits,     \* those of them that an edit replaces by one another
          Lists      \* subscription lists: sequences of subscriptions

ASSUME NodeManagerAssumption ==
    /\ Edits \subseteq Servers
    /\ \A l \in Lists : l \in Seq(Range(l))

VARIABLES panel,     \* [server, list]: what the panel holds
          seen,      \* the same, as the client last fetched it
          info,      \* c.nodeInfo, as a set: empty before the first Start
          subs,      \* c.subscriptionList
          tag,       \* c.Tag
          rtag,      \* c.RelayTag
          relayOn,   \* c.Relay
          status,    \* off, up or panic
          mode,      \* what the controller does: start, rebuild, keep, close
          steps,     \* the manager's methods it has still to call
          todo,      \* the calls to the core that the present one has to make
          new,       \* what the execution fetched: [info, list, listNew]
          past,      \* of this process: has a node been rebuilt, a sync aborted?
          inbounds,  \* the core: tags with an inbound
          outbounds, \* the core: tags with an outbound
          rules,     \* the core: the router's rules, in order
          first      \* the core: its default outbound

source == <<panel, seen>>
ctrl   == <<info, subs, tag, rtag>>
job    == <<status, mode, steps, todo, new, past>>
core   == <<inbounds, outbounds, rules, first>>
vars   == <<source, ctrl, relayOn, job, core>>

NoTag == [type |-> Blank, port |-> <<>>, relay |-> FALSE]

\* The core's default before this node adds any: one of the core's own file or
\* of another node, or none, with which a connection is refused.
CoreDefault == [of |-> NoTag, part |-> "core"]
Nowhere == [of |-> NoTag, part |-> "none"]

buildNodeTag(n) == [type |-> n.type, port |-> n.port, relay |-> FALSE]
buildRNodeTag(t) ==
    [type |-> t.type, port |-> << <<t.listeningPort>> >>, relay |-> TRUE]

\* Faulty variant: Start adds the inbound before the blackhole.
OrderInboundFirst ==
    [start   |-> <<"transit", "inbound", "blackhole", "end">>,
     rebuild |-> <<"unrelay", "unblock", "remove", "adopt",
                   "transit", "inbound", "blackhole", "end">>,
     keep    |-> <<"unrelay", "adopt", "transit", "end">>,
     close   |-> <<"unblock", "remove", "unrelay", "off">>]

\* Faulty variant: a rebuild does not remove the old inbound.
OrderKeepsInbound ==
    [start   |-> <<"transit", "blackhole", "inbound", "end">>,
     rebuild |-> <<"unrelay", "unblock", "adopt",
                   "transit", "inbound", "blackhole", "end">>,
     keep    |-> <<"unrelay", "adopt", "transit", "end">>,
     close   |-> <<"unblock", "remove", "unrelay", "off">>]

\* Start; apiMonitor's two branches; Close.
Order ==
    [start   |-> <<"transit", "blackhole", "inbound", "end">>,
     rebuild |-> <<"unrelay", "unblock", "remove", "adopt",
                   "transit", "inbound", "blackhole", "end">>,
     keep    |-> <<"unrelay", "adopt", "transit", "end">>,
     close   |-> <<"unblock", "remove", "unrelay", "off">>]

Init ==
    /\ panel \in [server : Servers, list : Lists]
    /\ seen = panel
    /\ info = {} /\ subs = <<>> /\ tag = NoTag /\ rtag = NoTag
    /\ relayOn = FALSE
    /\ status = "off" /\ mode = "close" /\ steps = <<>> /\ todo = <<>>
    /\ new = [info |-> {}, list |-> <<>>, listNew |-> FALSE]
    /\ past = {}
    /\ inbounds = {} /\ outbounds = {} /\ rules = <<>>
    /\ first \in {CoreDefault, Nowhere}

-----------------------------------------------------------------------------
Idle == steps = <<>> /\ todo = <<>>

\* An administrator edits the node or its subscriptions.  A change that is
\* not fetched before the next one is as good as none.
PanelChange ==
    /\ Idle /\ (panel = seen \/ status = "off")
    /\ panel.server \in Edits
    /\ panel' \in [server : Edits, list : Lists]
    /\ UNCHANGED <<seen, ctrl, relayOn, job, core>>

\* Controller.Start reads both; a record it cannot read leaves the node off.
Start ==
    /\ status = "off" /\ Idle
    /\ seen' = panel
    /\ info' = NodeResponse(panel.server)
    /\ info' # {}
    /\ new' = [info |-> info', list |-> panel.list, listNew |-> TRUE]
    /\ subs' = panel.list
    /\ tag' = buildNodeTag(CHOOSE n \in info' : TRUE)
    /\ relayOn' = FALSE
    /\ status' = "up" /\ mode' = "start" /\ steps' = Order.start
    /\ UNCHANGED <<panel, rtag, todo, past, core>>

\* apiMonitor: a record that cannot be read ends it, and is not read again.
Unreadable ==
    /\ status = "up" /\ Idle
    /\ panel.server # seen.server
    /\ NodeResponse(panel.server) = {}
    /\ seen' = [seen EXCEPT !.server = panel.server]
    /\ UNCHANGED <<panel, ctrl, relayOn, job, core>>

\* apiMonitor: what is new decides between the branches.
Sync ==
    /\ status = "up" /\ Idle
    /\ panel # seen
    /\ LET infoNew == panel.server # seen.server
           fetched == IF infoNew THEN NodeResponse(panel.server) ELSE info
       IN  /\ fetched # {}
           /\ new' = [info |-> fetched, list |-> panel.list,
                      listNew |-> panel.list # seen.list]
           /\ mode' = IF infoNew /\ fetched # info THEN "rebuild" ELSE "keep"
    /\ seen' = panel
    /\ steps' = Order[mode']
    /\ UNCHANGED <<panel, ctrl, relayOn, status, todo, past, core>>

\* Controller.Close, when the panel no longer lists the node.
Close ==
    /\ status = "up" /\ Idle
    /\ mode' = "close" /\ steps' = Order.close
    /\ UNCHANGED <<source, ctrl, relayOn, status, todo, new, past, core>>

-----------------------------------------------------------------------------
(* The manager's methods: what each builds, and the calls it makes.        *)

Calls(op, args) == [k \in DOMAIN args |-> [op |-> op, arg |-> args[k]]]
Call(op, arg) == Calls(op, <<arg>>)
NoCalls == <<>>

\* What the relays of a list are known by, outbounds and rules alike.
RelayTags(list) == [k \in DOMAIN list |-> RelayOf(rtag, list[k])]

\* What has gone wrong ends the execution: Start panics with it, apiMonitor
\* returns it, except that of AddBlackHoleRuleTag, and Close goes on.
Panic ==
    /\ status' = "panic" /\ steps' = <<>> /\ todo' = <<>>
    /\ UNCHANGED past

Fails ==
    IF mode = "start" THEN Panic
    ELSE /\ steps' = IF mode = "close" \/ Head(steps) = "blackhole"
                     THEN Tail(steps) ELSE <<>>
         /\ past' = past \cup {"aborted"}
         /\ todo' = <<>>
         /\ UNCHANGED status

\* The present method makes these calls; it is left when they are made.
Makes(calls) ==
    /\ todo' = Append(calls, [op |-> "return", arg |-> NoTag])
    /\ UNCHANGED <<status, steps, past>>

At(method) == steps # <<>> /\ Head(steps) = method /\ todo = <<>>

\* Faulty variant: a relay outbound is removed before the rule to it.
RemoveRelayOutboundsFirst ==
    /\ At("unrelay")
    /\ Makes(IF relayOn
             THEN Calls("delOutbound", RelayTags(subs)) \o Calls("delRule", RelayTags(subs))
                  \o (IF mode = "close" THEN NoCalls ELSE Call("relay", FALSE))
             ELSE NoCalls)
    /\ UNCHANGED <<source, ctrl, relayOn, mode, new, core>>

\* RemoveRelayRules and RemoveRelayTag, for the list the controller has.
RemoveRelay ==
    /\ At("unrelay")
    /\ Makes(IF relayOn
             THEN Calls("delRule", RelayTags(subs)) \o Calls("delOutbound", RelayTags(subs))
                  \o (IF mode = "close" THEN NoCalls ELSE Call("relay", FALSE))
             ELSE NoCalls)
    /\ UNCHANGED <<source, ctrl, relayOn, mode, new, core>>

RemoveBlockingRules ==
    /\ At("unblock")
    /\ Makes(Call("delRule", Blackhole(tag)) \o Call("delOutbound", Blackhole(tag)))
    /\ UNCHANGED <<source, ctrl, relayOn, mode, new, core>>

\* Faulty variant: the default rule is left behind.
RemoveTagOnly ==
    /\ At("remove")
    /\ Makes(Call("delInbound", tag) \o Call("delOutbound", Own(tag)))
    /\ UNCHANGED <<source, ctrl, relayOn, mode, new, core>>

RemoveTag ==
    /\ At("remove")
    /\ Makes(Call("delInbound", tag) \o Call("delOutbound", Own(tag))
             \o Call("delRule", [of |-> tag, part |-> "default"]))
    /\ UNCHANGED <<source, ctrl, relayOn, mode, new, core>>

\* The controller takes over the new record and, if rebuilt, its tag.
Adopt ==
    /\ At("adopt")
    /\ info' = new.info
    /\ tag' = IF mode = "rebuild" THEN buildNodeTag(CHOOSE n \in new.info : TRUE) ELSE tag
    /\ past' = IF mode = "rebuild" THEN past \cup {"rebuilt"} ELSE past
    /\ steps' = Tail(steps)
    /\ UNCHANGED <<source, subs, rtag, relayOn, status, mode, todo, new, core>>

\* Does the node relay, and is it this execution that has to see to it?
ToRelay ==
    /\ \E n \in new.info : Relays(n)
    /\ mode = "keep" => new.listNew /\ ~relayOn

NotRelaying ==
    /\ At("transit") /\ ~ToRelay
    /\ steps' = Tail(steps)
    /\ UNCHANGED <<source, ctrl, relayOn, status, mode, todo, new, past, core>>

\* One subscription: an outbound and the rule that leads to it.
RelayCalls(t, s) ==
    Call("addOutbound", RelayOf(buildRNodeTag(t), s))
    \o Call("addRule", RelayRouterBuilder(tag, buildRNodeTag(t), s))

\* GetTransitNode and AddRelayTag, for the new list.
AddRelayTag ==
    /\ At("transit") /\ ToRelay
    /\ \E t \in GetTransitNode(seen.server.transit) :
          LET taken == {k \in DOMAIN new.list : Takes(t, new.list[k])}
          IN  /\ rtag' = buildRNodeTag(t)
              /\ IF taken # {} /\ RelayPanics(t) THEN Panic
                 ELSE IF \E k \in taken : OutboundRelayBuilder(t, new.list[k]) = {} THEN Fails
                 ELSE Makes(FlattenSeq([k \in DOMAIN new.list |->
                                IF k \in taken THEN RelayCalls(t, new.list[k]) ELSE NoCalls])
                            \o Call("relay", TRUE))
    /\ UNCHANGED <<source, info, subs, tag, relayOn, mode, new, core>>

NoTransit ==
    /\ At("transit") /\ ToRelay
    /\ GetTransitNode(seen.server.transit) = {}
    /\ Fails
    /\ UNCHANGED <<source, ctrl, relayOn, mode, new, core>>

\* Faulty variant: only a node that relays to no server gets the rule.
DirectNoServer(n) == n.relayNodeId = 0

\* AddTag's condition for the default rule.
Direct(n) == n.relayType = 0 \/ n.relayNodeId = 0

AddTag ==
    /\ At("inbound")
    /\ \E n \in new.info :
          IF InboundPanics(n) THEN Panic
          ELSE IF InboundBuilder(n) = {} THEN Fails
          ELSE Makes(Call("addInbound", tag)
                     \o (IF OutboundBuilds(n) THEN Call("addOutbound", Own(tag))
                         ELSE Call("refused", tag))
                     \o (IF Direct(n) THEN Call("addRule", DefaultRouterBuilder(tag))
                         ELSE NoCalls))
    /\ UNCHANGED <<source, ctrl, relayOn, mode, new, core>>

\* The outbound comes first and stays when the rule cannot be built.
AddBlackHoleRuleTag ==
    /\ At("blackhole")
    /\ \E n \in new.info :
          LET built == BlackHoleRouterBuilder(n.rules, tag)
          IN  Makes(Call("addOutbound", Blackhole(tag))
                    \o (IF built = {} THEN Call("refused", tag)
                        ELSE Calls("addRule", CHOOSE b \in built : TRUE)))
    /\ UNCHANGED <<source, ctrl, relayOn, mode, new, core>>

Finish ==
    /\ At("end") \/ At("off")
    /\ subs' = IF At("end") THEN new.list ELSE subs
    /\ status' = IF At("end") THEN "up" ELSE "off"
    /\ steps' = <<>>
    /\ UNCHANGED <<source, info, tag, rtag, relayOn, mode, todo, new, past, core>>

-----------------------------------------------------------------------------
(* The core's answer to one call.                                          *)

Rules == {rules[k].tag : k \in DOMAIN rules}

Refused(c) ==
    CASE c.op = "addInbound"  -> c.arg \in inbounds
      [] c.op = "delInbound"  -> c.arg \notin inbounds
      [] c.op = "addOutbound" -> c.arg \in outbounds
      [] c.op = "addRule"     -> c.arg.tag \in Rules
      [] OTHER                -> c.op = "refused"

\* The router without the rule of that tag, if it has one.
Without(t) ==
    IF t \in Rules THEN RemoveAt(rules, CHOOSE k \in DOMAIN rules : rules[k].tag = t)
    ELSE rules

CallRefused ==
    /\ todo # <<>> /\ Refused(Head(todo))
    /\ Fails
    /\ UNCHANGED <<source, ctrl, relayOn, mode, new, core>>

CallMade ==
    /\ todo # <<>> /\ ~Refused(Head(todo))
    /\ LET c == Head(todo)
       IN  /\ inbounds' = CASE c.op = "addInbound" -> inbounds \cup {c.arg}
                            [] c.op = "delInbound" -> inbounds \ {c.arg}
                            [] OTHER               -> inbounds
           /\ outbounds' = CASE c.op = "addOutbound" -> outbounds \cup {c.arg}
                             [] c.op = "delOutbound" -> outbounds \ {c.arg}
                             [] OTHER                -> outbounds
           /\ rules' = CASE c.op = "addRule" -> Append(rules, c.arg)
                         [] c.op = "delRule" -> Without(c.arg)
                         [] OTHER            -> rules
           /\ first' = CASE c.op = "addOutbound" /\ first = Nowhere -> c.arg
                         [] c.op = "delOutbound" /\ first = c.arg   -> Nowhere
                         [] OTHER                                   -> first
           /\ relayOn' = IF c.op = "relay" THEN c.arg ELSE relayOn
           /\ steps' = IF c.op = "return" THEN Tail(steps) ELSE steps
    /\ todo' = Tail(todo)
    /\ UNCHANGED <<source, ctrl, status, mode, new, past>>

\* A process that panicked is started again, with an empty core.
Reboot ==
    /\ status = "panic"
    /\ status' = "off" /\ past' = {} /\ mode' = "close"
    /\ relayOn' = FALSE
    /\ inbounds' = {} /\ outbounds' = {} /\ rules' = <<>>
    /\ first' \in {CoreDefault, Nowhere}
    /\ UNCHANGED <<source, ctrl, steps, todo, new>>

-----------------------------------------------------------------------------
Next ==
    \/ PanelChange \/ Start \/ Unreadable \/ Sync \/ Close
    \/ RemoveRelay \/ RemoveBlockingRules \/ RemoveTag \/ Adopt
    \/ NotRelaying \/ AddRelayTag \/ NoTransit \/ AddTag \/ AddBlackHoleRuleTag
    \/ Finish \/ CallRefused \/ CallMade \/ Reboot

Spec == Init /\ [][Next]_vars
-----------------------------------------------------------------------------
(* Types: the tag is that of the record the controller has, whatever is     *)
(* left to do belongs to a method it has begun, the node has one inbound    *)
(* and no two rules of the core share a tag.                                *)
TypeOK ==
    /\ {panel.list, seen.list} \subseteq Lists
    /\ \A n \in info : tag = buildNodeTag(n)
    /\ Cardinality(info) <= 1
    /\ subs \in Lists \cup {<<>>}
    /\ relayOn \in BOOLEAN
    /\ status \in {"off", "up", "panic"}
    /\ mode \in DOMAIN Order
    /\ \E k \in 0..Len(Order[mode]) :
          steps = SubSeq(Order[mode], k + 1, Len(Order[mode]))
    /\ steps = <<>> => todo = <<>>
    /\ past \subseteq {"rebuilt", "aborted"}
    /\ Cardinality(inbounds) <= 1
    /\ first \in outbounds \cup {CoreDefault, Nowhere}
    /\ IsInjective([k \in DOMAIN rules |-> rules[k].tag])

\* The outbound the router takes for a connection that enters by the tag.
Matching(user, kind) ==
    {k \in DOMAIN rules : /\ rules[k].inbound = tag
                          /\ rules[k].users = {} \/ user \in rules[k].users
                          /\ kind \in rules[k].matches}

Exit(user, kind) ==
    LET M == Matching(user, kind)
    IN  IF M = {} THEN first ELSE rules[CHOOSE k \in M : \A l \in M : k <= l].dest

Serving == status = "up" /\ Idle /\ tag \in inbounds

(* At no moment, also between two calls, does a rule lead connections of an *)
(* inbound that listens to an outbound that is not there.                   *)
NoDangling ==
    \A k \in DOMAIN rules : rules[k].inbound \in inbounds => rules[k].dest \in outbounds

(* A node that does not relay sends what it accepts out by its own outbound *)
(* (whose address and strategy are the panel's), however many syncs failed  *)
(* before.  Everyone else leaves by the core's default: the users of a node *)
(* that relays, or is to relay in another way than by a server's number     *)
(* (type 2), for no rule asks for them, and those of a node whose outbound  *)
(* could not be built, for AddTag has added the inbound by then and the     *)
(* next sync gives it users.  A blocking rule for no port at all is left    *)
(* out: it applies to everything.                                           *)
OwnExit ==
    Serving =>
        \A n \in info : ~(n.rules.port # <<>> /\ Segments(n.rules.port) = {}) =>
            \A k \in DOMAIN subs :
                Exit(buildUserTag(tag, subs[k]), "plain") =
                    IF 0 \in {n.relayType, n.relayNodeId} /\ OutboundBuilds(n)
                    THEN Own(tag) ELSE first

(* What the panel blocks is blocked, from the start of a node until its     *)
(* inbound is rebuilt; after that the default rule comes first.             *)
BlocksApply ==
    Serving /\ "rebuilt" \notin past =>
        \A n \in info : ~Relays(n) /\ HasBlockingRules(n.rules) =>
            \A k \in DOMAIN subs :
                Exit(buildUserTag(tag, subs[k]), "blocked") = Blackhole(tag)

(* When a sync adopts a new record everything of the old one is gone from   *)
(* the core, and so it is when the controller is closed: no later addition  *)
(* meets a tag that exists.  Only an aborted sync may leave something.      *)
Clean ==
    (mode = "rebuild" /\ At("adopt")) \/ (status = "off" /\ Idle) =>
        "aborted" \in past \/ (inbounds = {} /\ outbounds = {} /\ rules = <<>>)

\* What the relay's outbound says is what an inbound of that record takes.
Accepts(i, o) ==
    /\ o.protocol = i.protocol
    /\ o.transport.name = i.transport.name
    /\ IF i.transport.name = "splithttp"
       THEN \A x \in Range(i.transport.settings), y \in Range(o.transport.settings) :
                /\ x.value = y.value /\ x.mode = y.mode
                /\ x.obfs => /\ x.obfs = y.obfs /\ x.fields = y.fields
                             /\ x.length \in parseInt32Range(y.length, 0, 0)
       ELSE o.transport.settings = i.transport.settings
    /\ o.mask = i.mask

\* How much the two ends pad their requests by.
Padding(transport) ==
    IF transport.name = "splithttp" THEN {x.bytes : x \in Range(transport.settings)} ELSE {}

\* The server of the node that is relayed to.
Target(r) == [node |-> r, transit |-> r, relayType |-> 0, relayNodeId |-> 0,
              rules |-> panel.server.rules]

\* The relay asks for tls where the node, without a certificate, takes none.
Plain(r) == SecurityType(r.sec) = "tls" /\ r.sec.certMode = "none"

\* A padding of the record's own, which only the inbound is told of.
Padded(r) ==
    r.net.type = "xhttp"
    /\ CorePadding \notin parseInt32Range(XhttpSettings(r.net).bytes, 100, 1000)

\* The relay presents the key that the node's users have.
KeysAgree(r, s) ==
    CASE r.type = "masque"      -> TRUE
      [] r.type = "shadowsocks" -> r.net.cipher \notin Ciphers2022
      [] OTHER                  -> s.uuid = s.passwd

\* Inbound and outbound of one record agree, but for what is named above.
Agree(r, s, n, i, o) ==
    /\ Accepts(i, o)
    /\ r.port = r.net.listeningPort => o.port \in UNION i.ports
    /\ o.security = i.security <=> ~Plain(r)
    /\ Padding(o.transport) = Padding(i.transport) <=> ~Padded(r)
    /\ o.key = UserKey(n.type, s) <=> KeysAgree(r, s)

(* The relay's outbound and the inbound that the server it leads to builds  *)
(* from the same record agree on protocol, transport and masks, and on the  *)
(* port where the record has one text for both.  They disagree in three     *)
(* ways and no other: on security for a node with tls and no certificate;   *)
(* on xhttp's padding where the record sets its own (README.md:368 has it   *)
(* among what must match, and is wrapped for the relay); and on the key     *)
(* wherever a relay's password is not its users' UUID, and for the ciphers  *)
(* of 2022, whose key only the relay encodes.                               *)
RelayAgrees ==
    LET r == panel.server.transit
    IN  \A n \in NodeResponse(Target(r)),
           t \in GetTransitNode(r), k \in DOMAIN panel.list :
           \A i \in InboundBuilder(n), o \in OutboundRelayBuilder(t, panel.list[k]) :
               Agree(r, panel.list[k], n, i, o)

(* The connections of a relaying node's users leave by the relay outbounds  *)
(* of their subscriptions.                                                  *)
Relayed ==
    Serving /\ relayOn =>
        \A k \in DOMAIN subs :
            RelayOf(rtag, subs[k]) \in outbounds =>
                Exit(buildUserTag(tag, subs[k]), "plain") = RelayOf(rtag, subs[k])
=============================================================================
