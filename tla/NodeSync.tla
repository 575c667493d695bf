------------------------------ MODULE NodeSync ------------------------------
(***************************************************************************)
(* How a node follows the panel: Controller.apiMonitor, run by the "node"  *)
(* task and by webhookTriggerLoop, fetches the node's configuration and    *)
(* its subscription list (each guarded by an ETag), and applies what has   *)
(* changed to the core's inbound, its users, the relay outbounds and the   *)
(* limiter.  No lock covers an execution: each call to the panel, to the   *)
(* core or to the limiter is a step, and executions interleave.            *)
(*                                                                         *)
(* The core's managers are external: an inbound is added or removed by its *)
(* tag, a user by its email, and both refuse a second addition and the     *)
(* removal of what is absent; outbounds and rules can be removed twice.    *)
(*                                                                         *)
(* A NodeInfo is reduced to what apiMonitor tells apart: the part of the   *)
(* tag (port), the rest of the structure (form), whether it relays, and    *)
(* the settings that change in place (speed, interval).  A subscription is *)
(* reduced to what Compare tells apart: its email, its plan (the limits    *)
(* and the password) and its uuid, which Compare does not look at.         *)
(*                                                                         *)
(* Three kinds of update are passed over by the code as it stands; the     *)
(* history variable missed follows them, from what an execution is given   *)
(* and not from what it leaves behind.                                     *)
(***************************************************************************)
EXTENDS Naturals, FiniteSets, Functions

CONSTANTS Syncers,     \* goroutines that execute apiMonitor
          NodeInfos,   \* configurations the panel may hold
          Lists,       \* subscription lists: id -> [email, plan, uuid]
          Settings     \* what one behaviour may be: who executes apiMonitor,
                       \* whether calls fail for reasons of their own, what
                       \* the panel may hold and how often it changes

ASSUME NodeSyncAssumption ==
    /\ \A s \in Settings :
          /\ s.syncers \subseteq Syncers /\ s.fail \in BOOLEAN
          /\ s.infos \subseteq NodeInfos /\ s.lists \subseteq Lists
          /\ s.changes \in Nat
    /\ \A i \in NodeInfos : i.relay \in BOOLEAN
    /\ \A l \in Lists : \A i, j \in DOMAIN l :
          l[i].email = l[j].email => i = j

VARIABLES setting,     \* chosen at the start
          panelInfo,   \* the node's configuration at the panel
          panelList,   \* its subscriptions at the panel
          changes,     \* how often the panel has changed
          eTags,       \* what the client's two ETags stand for
          nodeInfo,    \* c.nodeInfo
          subs,        \* c.subscriptionList
          tag,         \* c.Tag
          relayOn,     \* c.Relay
          interval,    \* c.currentPollInterval, of the two periodic tasks
          inbounds,    \* the core: tag -> [info, users]
          blocking,    \* the core: tags with a blackhole outbound and rule
          relays,      \* the core: ids with a relay outbound and rule
          limits,      \* the limiter: tag -> [speed, subs]
          loc,         \* per syncer: its place in apiMonitor and locals
          missed       \* history: the updates passed over

panel == <<setting, panelInfo, panelList, changes>>
ctrl  == <<nodeInfo, subs, tag, relayOn, interval>>
core  == <<inbounds, blocking, relays>>
vars  == <<panel, eTags, ctrl, core, limits, loc, missed>>

Tag(info) == info.port

\* nodeInfoChangedStructurally
Structural(old, new) ==
    \/ old.port # new.port
    \/ old.form # new.form
    \/ old.relay # new.relay

Put(f, g) == [x \in DOMAIN f \cup DOMAIN g |->
                IF x \in DOMAIN g THEN g[x] ELSE f[x]]

Drop(f, S) == Restrict(f, DOMAIN f \ S)

Emails(list) == {list[i].email : i \in DOMAIN list}

Owner(list, e) == CHOOSE i \in DOMAIN list : list[i].email = e

\* The core's users of a list, and the limiter's entries, which know no UUID.
Users(list) ==
    [e \in Emails(list) |-> [plan |-> list[Owner(list, e)].plan,
                             uuid |-> list[Owner(list, e)].uuid]]

Plans(list) == [e \in Emails(list) |-> list[Owner(list, e)].plan]

\* subscription.Compare
Deleted(old, new) == Restrict(old, DOMAIN old \ DOMAIN new)
Added(old, new) == Restrict(new, DOMAIN new \ DOMAIN old)

Kept(old, new) == DOMAIN old \cap DOMAIN new

\* Faulty variant: only a changed email counts as a change.
ModifiedEmail(old, new) ==
    Restrict(new, {i \in Kept(old, new) : old[i].email # new[i].email})

\* A changed UUID is not looked at.
Modified(old, new) ==
    Restrict(new, {i \in Kept(old, new) : \/ old[i].plan # new[i].plan
                                          \/ old[i].email # new[i].email})

\* Modified subscriptions are removed by their new email: an old one stays.
Renamed(old, new) == \E i \in Kept(old, new) : old[i].email # new[i].email

\* The ids that the core knows by an earlier UUID once the differences are
\* applied: theirs changed, and nothing that Compare looks at has since.
Overlooked(old, new) ==
    {i \in Kept(old, new) \ DOMAIN Modified(old, new) :
        i \in missed.uuid \/ old[i].uuid # new[i].uuid}

Idle == [pc |-> "idle"]

\* What Controller.Start leaves behind when it succeeds.
Init ==
    \E s \in Settings : \E info \in s.infos, list \in s.lists :
        /\ setting = s
        /\ panelInfo = info /\ panelList = list
        /\ changes = 0
        /\ eTags = [info |-> info, list |-> list]
        /\ nodeInfo = info /\ subs = list
        /\ tag = Tag(info)
        /\ relayOn = info.relay
        /\ interval = info.interval
        /\ inbounds = [t \in {Tag(info)} |-> [info |-> info, users |-> Users(list)]]
        /\ blocking = {Tag(info)}
        /\ relays = IF info.relay THEN DOMAIN list ELSE {}
        /\ limits = [t \in {Tag(info)} |-> [speed |-> info.speed, subs |-> Plans(list)]]
        /\ loc = [p \in Syncers |-> Idle]
        /\ missed = [uuid |-> {}, email |-> FALSE, relay |-> FALSE]

-----------------------------------------------------------------------------
\* An administrator edits the node or its subscriptions.
PanelChange ==
    /\ changes < setting.changes
    /\ changes' = changes + 1
    /\ \/ /\ panelInfo' \in setting.infos \ {panelInfo}
          /\ UNCHANGED panelList
       \/ /\ panelList' \in setting.lists \ {panelList}
          /\ UNCHANGED panelInfo
    /\ UNCHANGED <<setting, eTags, ctrl, core, limits, loc, missed>>

At(p, where) == loc[p].pc = where

Goto(p, where) == loc' = [loc EXCEPT ![p].pc = where]

Return(p) == loc' = [loc EXCEPT ![p] = Idle]

\* GetNodeInfo: 304 when the ETag is current, else the new configuration.
InfoFetched == IF eTags.info = panelInfo THEN nodeInfo ELSE panelInfo

GetNode(p) ==
    /\ At(p, "idle")
    /\ loc' = [loc EXCEPT ![p] =
                 [pc      |-> "getSubs",
                  info    |-> InfoFetched,
                  infoNew |-> eTags.info # panelInfo]]
    /\ eTags' = [eTags EXCEPT !.info = panelInfo]
    /\ UNCHANGED <<panel, ctrl, core, limits, missed>>

\* Faulty variant: an unchanged list is taken to be empty.
GetSubsForgets(p) ==
    /\ At(p, "getSubs")
    /\ loc' = [loc EXCEPT ![p] =
                 [pc      |-> "relay",
                  info    |-> loc[p].info,
                  infoNew |-> loc[p].infoNew,
                  list    |-> IF eTags.list = panelList THEN <<>> ELSE panelList,
                  listNew |-> eTags.list # panelList]]
    /\ eTags' = [eTags EXCEPT !.list = panelList]
    /\ UNCHANGED <<panel, ctrl, core, limits, missed>>

\* GetSubscriptionList, likewise.
ListFetched == IF eTags.list = panelList THEN subs ELSE panelList

GetSubs(p) ==
    /\ At(p, "getSubs")
    /\ loc' = [loc EXCEPT ![p] =
                 [pc      |-> "relay",
                  info    |-> loc[p].info,
                  infoNew |-> loc[p].infoNew,
                  list    |-> ListFetched,
                  listNew |-> eTags.list # panelList]]
    /\ eTags' = [eTags EXCEPT !.list = panelList]
    /\ UNCHANGED <<panel, ctrl, core, limits, missed>>

\* A request of this execution fails and apiMonitor returns.  By then the
\* ETag of an answer that could not be used may have been stored.
RequestFails(p) ==
    /\ setting.fail
    /\ \/ At(p, "idle") /\ eTags' \in {eTags, [eTags EXCEPT !.info = panelInfo]}
    /\ \/ At(p, "getSubs") /\ eTags' \in {eTags, [eTags EXCEPT !.list = panelList]}
       \/ At(p, "relayUp") /\ UNCHANGED eTags
    /\ Return(p)
    /\ UNCHANGED <<panel, ctrl, core, limits, missed>>

\* RemoveRelayRules and RemoveRelayTag, if anything changed; then the branch.
RelayDown(p) ==
    /\ At(p, "relay")
    /\ IF relayOn /\ (loc[p].infoNew \/ loc[p].listNew)
       THEN relays' = relays \ DOMAIN subs /\ relayOn' = FALSE
       ELSE UNCHANGED <<relays, relayOn>>
    /\ Goto(p, IF loc[p].infoNew /\ Structural(nodeInfo, loc[p].info)
               THEN "rebuild" ELSE "adjust")
    /\ UNCHANGED <<panel, eTags, nodeInfo, subs, tag, interval, inbounds,
                   blocking, limits, missed>>

-----------------------------------------------------------------------------
(* The structural branch.                                                  *)

\* Faulty variant: the inbound of the new tag, not of the old, is removed.
RebuildDropsNew(p) ==
    /\ At(p, "rebuild")
    /\ blocking' = blocking \ {tag}
    /\ inbounds' = Drop(inbounds, {Tag(loc[p].info)})
    /\ loc' = [loc EXCEPT ![p] = [pc      |-> "adopt",
                                  info    |-> loc[p].info,
                                  list    |-> loc[p].list,
                                  oldTag  |-> tag,
                                  next    |-> "addTag"]]
    /\ UNCHANGED <<panel, eTags, ctrl, relays, limits, missed>>

\* Faulty variant: an error of RemoveTag is only logged.
RebuildGoesOn(p) ==
    /\ At(p, "rebuild")
    /\ blocking' = blocking \ {tag}
    /\ inbounds' = Drop(inbounds, {tag})
    /\ loc' = [loc EXCEPT ![p] = [pc      |-> "adopt",
                                  info    |-> loc[p].info,
                                  list    |-> loc[p].list,
                                  oldTag  |-> tag,
                                  next    |-> "addTag"]]
    /\ UNCHANGED <<panel, eTags, ctrl, relays, limits, missed>>

\* RemoveBlockingRules and RemoveTag.
Rebuild(p) ==
    /\ At(p, "rebuild")
    /\ blocking' = blocking \ {tag}
    /\ IF tag \notin DOMAIN inbounds
       THEN Return(p) /\ UNCHANGED inbounds
       ELSE /\ inbounds' = Drop(inbounds, {tag})
            /\ loc' = [loc EXCEPT ![p] = [pc      |-> "adopt",
                                          info    |-> loc[p].info,
                                          list    |-> loc[p].list,
                                          oldTag  |-> tag,
                                          next    |-> "addTag"]]
    /\ UNCHANGED <<panel, eTags, ctrl, relays, limits, missed>>

\* Once the inbound is gone the controller's own state follows.
Adopt(p) ==
    /\ At(p, "adopt")
    /\ nodeInfo' = loc[p].info
    /\ tag' = Tag(loc[p].info)
    /\ Goto(p, IF loc[p].info.relay THEN "relayUp" ELSE "addTag")
    /\ missed' = [missed EXCEPT !.relay = FALSE]
    /\ UNCHANGED <<panel, eTags, subs, relayOn, interval, core, limits>>

\* AddRelayTag: an outbound and a rule for each id, until one has them
\* already or a call fails.
RelaysAdded(ids, ok) ==
    \/ /\ ok
       /\ relays \cap ids = {}
       /\ relays' = relays \cup ids
    \/ /\ ~ok
       /\ setting.fail \/ relays \cap ids # {}
       /\ \E some \in SUBSET ids : relays' = relays \cup some

\* GetTransitNode and AddRelayTag.
RelayUp(p) ==
    /\ At(p, "relayUp")
    /\ \/ /\ RelaysAdded(DOMAIN loc[p].list, TRUE)
          /\ relayOn' = TRUE
          /\ Goto(p, loc[p].next)
       \/ /\ RelaysAdded(DOMAIN loc[p].list, FALSE)
          /\ Return(p)
          /\ UNCHANGED relayOn
    /\ UNCHANGED <<panel, eTags, nodeInfo, subs, tag, interval, inbounds,
                   blocking, limits, missed>>

\* AddTag: the inbound of the new tag, without users.  One that failed to
\* start may stay registered.
InboundAdded(info, ok) ==
    LET more == Put(inbounds, [t \in {tag} |-> [info |-> info, users |-> <<>>]])
    IN  \/ /\ ok
           /\ tag \notin DOMAIN inbounds
           /\ inbounds' = more
        \/ /\ ~ok
           /\ setting.fail \/ tag \in DOMAIN inbounds
           /\ \/ UNCHANGED inbounds
              \/ tag \notin DOMAIN inbounds /\ inbounds' = more

\* AddTag, then AddBlackHoleRuleTag, whose error is only logged.
AddTag(p) ==
    /\ At(p, "addTag")
    /\ \/ /\ InboundAdded(loc[p].info, TRUE)
          /\ blocking' = blocking \cup {tag} \/ (setting.fail /\ UNCHANGED blocking)
          /\ Goto(p, "addUsers")
       \/ /\ InboundAdded(loc[p].info, FALSE)
          /\ Return(p)
          /\ UNCHANGED blocking
    /\ UNCHANGED <<panel, eTags, ctrl, relays, limits, missed>>

\* addInboundSubscriptions: user by user, until one exists or a call fails.
UsersAdded(new, ok) ==
    \/ /\ ok
       /\ tag \in DOMAIN inbounds
       /\ DOMAIN new \cap DOMAIN inbounds[tag].users = {}
       /\ inbounds' = [inbounds EXCEPT ![tag].users = Put(@, new)]
    \/ /\ ~ok
       /\ tag \in DOMAIN inbounds
       /\ setting.fail \/ DOMAIN new \cap DOMAIN inbounds[tag].users # {}
       /\ \E some \in SUBSET (DOMAIN new \ DOMAIN inbounds[tag].users) :
             inbounds' = [inbounds EXCEPT ![tag].users = Put(@, Restrict(new, some))]
    \/ /\ ~ok
       /\ tag \notin DOMAIN inbounds
       /\ UNCHANGED inbounds

\* removeInboundSubscriptions, likewise.
UsersRemoved(emails, ok) ==
    \/ /\ ok
       /\ tag \in DOMAIN inbounds
       /\ emails \subseteq DOMAIN inbounds[tag].users
       /\ inbounds' = [inbounds EXCEPT ![tag].users = Drop(@, emails)]
    \/ /\ ~ok
       /\ tag \in DOMAIN inbounds
       /\ setting.fail \/ ~(emails \subseteq DOMAIN inbounds[tag].users)
       /\ \E some \in SUBSET (emails \cap DOMAIN inbounds[tag].users) :
             inbounds' = [inbounds EXCEPT ![tag].users = Drop(@, some)]
    \/ /\ ~ok
       /\ tag \notin DOMAIN inbounds
       /\ UNCHANGED inbounds

\* AddNewSubscription for the whole list; its error is only logged.
AddUsers(p) ==
    /\ At(p, "addUsers")
    /\ \E ok \in BOOLEAN : UsersAdded(Users(loc[p].list), ok)
    /\ Goto(p, "limiter")
    /\ missed' = [missed EXCEPT !.uuid = {}]
    /\ UNCHANGED <<panel, eTags, ctrl, blocking, relays, limits>>

\* UpdateInboundLimiter and DeleteSubscriptionBuckets on one tag's entries.
Forget(lim, emails) == [lim EXCEPT !.subs = Drop(@, emails)]
Store(lim, users) == [lim EXCEPT !.subs = Put(@, users)]

\* Faulty variant: the limiter of a rebuilt inbound is kept as it is.
LimiterKept(p) ==
    /\ At(p, "limiter")
    /\ IF loc[p].oldTag # tag
       THEN limits' = Put(Drop(limits, {loc[p].oldTag}),
                          [t \in {tag} |-> [speed |-> loc[p].info.speed,
                                            subs  |-> Plans(loc[p].list)]])
       ELSE UNCHANGED limits
    /\ interval' = nodeInfo.interval
    /\ Goto(p, "end")
    /\ UNCHANGED <<panel, eTags, nodeInfo, subs, tag, relayOn, core, missed>>

\* The limiter of a new tag, or the differences for an old one.
Limiter(p) ==
    /\ At(p, "limiter")
    /\ LET info == loc[p].info
           list == loc[p].list
           old  == loc[p].oldTag
       IN  limits' =
             IF old # tag
             THEN Put(Drop(limits, {old}),
                      [t \in {tag} |-> [speed |-> info.speed, subs |-> Plans(list)]])
             ELSE IF tag \notin DOMAIN limits THEN limits
             ELSE [limits EXCEPT ![tag] =
                     Store(Store(Forget([@ EXCEPT !.speed = info.speed],
                                        Emails(Deleted(subs, list))),
                                 Plans(Added(subs, list))),
                           Plans(Modified(subs, list)))]
    /\ missed' = [missed EXCEPT !.email =
                     loc[p].oldTag = tag /\ (@ \/ Renamed(subs, loc[p].list))]
    /\ interval' = nodeInfo.interval
    /\ Goto(p, "end")
    /\ UNCHANGED <<panel, eTags, nodeInfo, subs, tag, relayOn, core>>

-----------------------------------------------------------------------------
(* The branch that keeps the inbound.                                      *)

\* UpdateNodeInfo and the tasks' interval, if the configuration is new; then
\* the subscriptions, if the list is.
Adjust(p) ==
    /\ At(p, "adjust")
    /\ IF loc[p].infoNew
       THEN /\ nodeInfo' = loc[p].info
            /\ interval' = loc[p].info.interval
            /\ limits' = IF tag \in DOMAIN limits
                         THEN [limits EXCEPT ![tag].speed = loc[p].info.speed]
                         ELSE limits
       ELSE UNCHANGED <<nodeInfo, interval, limits>>
    /\ loc' = [loc EXCEPT ![p] =
                 [pc   |-> IF ~loc[p].listNew THEN "end"
                           ELSE IF loc[p].info.relay /\ ~relayOn THEN "relayUp"
                           ELSE "compare",
                  info |-> loc[p].info,
                  list |-> loc[p].list,
                  next |-> "compare"]]
    /\ missed' = [missed EXCEPT !.relay =
                     ~loc[p].listNew /\ (@ \/ (loc[p].infoNew /\ loc[p].info.relay))]
    /\ UNCHANGED <<panel, eTags, subs, tag, relayOn, core>>

\* Compare, then Remove(deleted): the limiter forgets them on success only.
RemoveDeleted(p) ==
    /\ At(p, "compare")
    /\ LET gone == Emails(Deleted(subs, loc[p].list))
       IN  \E ok \in BOOLEAN :
              /\ \/ gone # {} /\ UsersRemoved(gone, ok)
                 \/ gone = {} /\ ok /\ UNCHANGED inbounds
              /\ limits' = IF ok /\ tag \in DOMAIN limits
                           THEN [limits EXCEPT ![tag] = Forget(@, gone)]
                           ELSE limits
    /\ loc' = [loc EXCEPT ![p] =
                 [pc   |-> "add",
                  list |-> loc[p].list,
                  old  |-> subs]]
    /\ missed' = [missed EXCEPT !.uuid = Overlooked(subs, loc[p].list),
                                !.email = @ \/ Renamed(subs, loc[p].list)]
    /\ UNCHANGED <<panel, eTags, ctrl, blocking, relays>>

\* AddNewSubscription(added): the limiter learns of them on success only.
AddAdded(p) ==
    /\ At(p, "add")
    /\ LET new == Added(loc[p].old, loc[p].list)
       IN  \E ok \in BOOLEAN :
              /\ \/ new # <<>> /\ UsersAdded(Users(new), ok)
                 \/ new = <<>> /\ ok /\ UNCHANGED inbounds
              /\ limits' = IF ok /\ tag \in DOMAIN limits
                           THEN [limits EXCEPT ![tag] = Store(@, Plans(new))]
                           ELSE limits
    /\ Goto(p, "modify")
    /\ UNCHANGED <<panel, eTags, ctrl, blocking, relays, missed>>

\* Modified subscriptions are removed ...
RemoveModified(p) ==
    /\ At(p, "modify")
    /\ LET mod == Emails(Modified(loc[p].old, loc[p].list))
       IN  \E ok \in BOOLEAN :
              /\ \/ mod # {} /\ UsersRemoved(mod, ok)
                 \/ mod = {} /\ ok /\ UNCHANGED inbounds
              /\ limits' = IF ok /\ tag \in DOMAIN limits
                           THEN [limits EXCEPT ![tag] = Forget(@, mod)]
                           ELSE limits
    /\ Goto(p, "readd")
    /\ UNCHANGED <<panel, eTags, ctrl, blocking, relays, missed>>

\* ... and added again, whatever came of that.
ReaddModified(p) ==
    /\ At(p, "readd")
    /\ LET new == Modified(loc[p].old, loc[p].list)
       IN  /\ \/ new # <<>> /\ \E ok \in BOOLEAN : UsersAdded(Users(new), ok)
              \/ new = <<>> /\ UNCHANGED inbounds
           /\ limits' = IF tag \in DOMAIN limits
                        THEN [limits EXCEPT ![tag] = Store(@, Plans(new))]
                        ELSE limits
    /\ Goto(p, "end")
    /\ UNCHANGED <<panel, eTags, ctrl, blocking, relays, missed>>

\* The last line of apiMonitor.
End(p) ==
    /\ At(p, "end")
    /\ subs' = loc[p].list
    /\ Return(p)
    /\ UNCHANGED <<panel, eTags, nodeInfo, tag, relayOn, interval, core, limits,
                   missed>>

-----------------------------------------------------------------------------
Sync(p) ==
    \/ GetNode(p) \/ GetSubs(p) \/ RequestFails(p) \/ RelayDown(p)
    \/ Rebuild(p) \/ Adopt(p) \/ RelayUp(p) \/ AddTag(p) \/ AddUsers(p) \/ Limiter(p)
    \/ Adjust(p) \/ RemoveDeleted(p) \/ AddAdded(p) \/ RemoveModified(p)
    \/ ReaddModified(p) \/ End(p)

Runs(p) == p \in setting.syncers /\ Sync(p)

Next == PanelChange \/ \E p \in Syncers : Runs(p)

\* apiMonitor is executed again and again and its calls return.
Fairness == \A p \in Syncers : WF_vars(Runs(p))

Spec == Init /\ [][Next]_vars /\ Fairness

-----------------------------------------------------------------------------
AtRest == \A p \in Syncers : loc[p] = Idle

\* What an execution knows between its calls, branch by branch.
Tags == {Tag(i) : i \in NodeInfos}
Ids == UNION {DOMAIN l : l \in Lists}

Asked == [pc : {"getSubs"}, info : NodeInfos, infoNew : BOOLEAN]

Answered == [pc : {"relay", "rebuild", "adjust"}, info : NodeInfos,
             infoNew : BOOLEAN, list : Lists, listNew : BOOLEAN]

Rebuilt == [pc : {"adopt", "relayUp", "addTag", "addUsers", "limiter", "end"},
            info : NodeInfos, list : Lists, oldTag : Tags, next : {"addTag"}]

Adjusted == [pc : {"relayUp", "compare", "end"},
             info : NodeInfos, list : Lists, next : {"compare"}]

Comparing == [pc : {"add", "modify", "readd", "end"}, list : Lists, old : Lists]

(* Types: the controller's fields and an execution's locals always hold a   *)
(* configuration, a list and a tag that the panel has sent, and inbounds,   *)
(* limiters and relays exist for known tags and ids only.                   *)
TypeOK ==
    /\ setting \in Settings
    /\ panelInfo \in NodeInfos /\ panelList \in Lists
    /\ changes \in 0..setting.changes
    /\ eTags \in [info : NodeInfos, list : Lists]
    /\ nodeInfo \in NodeInfos /\ subs \in Lists
    /\ tag \in Tags
    /\ relayOn \in BOOLEAN
    /\ interval \in {i.interval : i \in NodeInfos}
    /\ DOMAIN inbounds \subseteq Tags /\ blocking \subseteq Tags
    /\ DOMAIN limits \subseteq Tags
    /\ relays \subseteq Ids
    /\ loc \in [Syncers -> {Idle} \cup Asked \cup Answered \cup Rebuilt
                           \cup Adjusted \cup Comparing]
    /\ missed \in [uuid : SUBSET Ids, email : BOOLEAN, relay : BOOLEAN]

\* The users are the list's, each with the credential and the plan it gives
\* them (but for the UUIDs that Compare does not look at) ...
Admits(users, list) ==
    /\ DOMAIN users = Emails(list)
    /\ \A i \in DOMAIN list :
          /\ users[list[i].email].plan = list[i].plan
          /\ i \notin missed.uuid => users[list[i].email].uuid = list[i].uuid

\* ... and the limiter has an entry for each of them and for nobody else.
Limited(plans, list) ==
    /\ DOMAIN plans = Emails(list)
    /\ \A i \in DOMAIN list : plans[list[i].email] = list[i].plan

(* What the panel holds is in force: one inbound, of its tag and structure, *)
(* and one limiter, of its speed; the users and their limits, unless an     *)
(* email changed under an id; a relay for each subscription, unless the     *)
(* configuration of a relaying node changed in place while its list did not.*)
Served ==
    LET t == Tag(panelInfo)
    IN  /\ DOMAIN inbounds = {t} /\ ~Structural(inbounds[t].info, panelInfo)
        /\ DOMAIN limits = {t} /\ limits[t].speed = panelInfo.speed
        /\ missed.email \/ (/\ Admits(inbounds[t].users, panelList)
                            /\ Limited(limits[t].subs, panelList))
        /\ relays = IF relayOn THEN DOMAIN panelList ELSE {}
        /\ missed.relay \/ relayOn = panelInfo.relay

(* When no call fails: between two syncs, once both ETags say that the      *)
(* panel has nothing new, what it last sent is in force, but for the three  *)
(* updates the code passes over (missed): no other is skipped for good.     *)
UpdatesApplied ==
    /\ ~setting.fail /\ AtRest
    /\ eTags = [info |-> panelInfo, list |-> panelList]
    => Served

Alone == ~setting.fail /\ Cardinality(setting.syncers) = 1

(* When the panel stops changing, one execution at a time and calls that    *)
(* succeed bring the node to serve it (but for what missed names), and it   *)
(* stays so.                                                                *)
Converges == Alone => <>[]Served

(* Whatever fails, a node never listens under two tags: before a new        *)
(* inbound is added the old one is gone.                                    *)
OneInbound == DOMAIN inbounds \subseteq {tag}

\* An execution between its RemoveTag and its AddTag.
Rebuilding(p) ==
    loc[p].pc \in {"adopt", "addTag", "relayUp"} /\ loc[p].next = "addTag"

(* Although no lock covers apiMonitor, two executions never rebuild the     *)
(* inbound together: RemoveTag fails on an inbound that is gone, and the    *)
(* one that removed it is alone until its AddTag.                           *)
Exclusive ==
    \A p \in Syncers : Rebuilding(p) =>
        /\ DOMAIN inbounds = {}
        /\ \A q \in Syncers : Rebuilding(q) => q = p
=============================================================================
