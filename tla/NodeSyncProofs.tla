--------------------------- MODULE NodeSyncProofs ---------------------------
(***************************************************************************)
(* Proofs about NodeSync, for any number of executions that interleave,    *)
(* any configurations and lists, and calls that fail or succeed.           *)
(*                                                                         *)
(* TypeOK is inductive as it stands, for the sets Asked to Comparing say   *)
(* what an execution knows.  OneInbound is not: between RemoveTag and the  *)
(* assignment to c.Tag another execution could add the old tag again.  It  *)
(* cannot, because RemoveTag fails on an inbound that is gone: between a   *)
(* RemoveTag and the AddTag that follows, the execution that removed the   *)
(* inbound is the only one in its rebuild (Exclusive).                     *)
(*                                                                         *)
(* UpdatesApplied is about rest, so its invariant says what holds in       *)
(* between: at each place of apiMonitor, what an execution that is alone   *)
(* and whose calls succeed has by then made of the inbound, the relays and *)
(* the limiter (Follows).  A list is applied as three differences, one     *)
(* call after the other; AfterDeletes to AfterReadds say what the core's   *)
(* users are after each.  The updates that Compare and the relays' removal *)
(* pass over are carried along in missed: an id in missed.uuid is excused  *)
(* its UUID, missed.email everything that is keyed by email.               *)
(***************************************************************************)
EXTENDS NodeSync, TLAPS

-----------------------------------------------------------------------------
(* Domains, which is all that the two invariants say of the core's maps.   *)

LEMMA DropDomain == \A f, S : DOMAIN Drop(f, S) = DOMAIN f \ S
BY DEF Drop, Restrict

LEMMA DropShrinks == \A f, S : DOMAIN Drop(f, S) \subseteq DOMAIN f
BY DEF Drop, Restrict

LEMMA PutDomain == \A f, g : DOMAIN Put(f, g) = DOMAIN f \cup DOMAIN g
BY DEF Put

LEMMA UsersAddedDomain ==
    ASSUME NEW new, NEW ok \in BOOLEAN, UsersAdded(new, ok)
    PROVE  DOMAIN inbounds' = DOMAIN inbounds
BY DEF UsersAdded

LEMMA UsersRemovedDomain ==
    ASSUME NEW emails, NEW ok \in BOOLEAN, UsersRemoved(emails, ok)
    PROVE  DOMAIN inbounds' = DOMAIN inbounds
BY DEF UsersRemoved

\* The steps that only add or remove users, or leave the inbounds alone.
LEMMA SameInbounds ==
    ASSUME NEW p \in Syncers,
           \/ GetNode(p) \/ GetSubs(p) \/ RequestFails(p) \/ RelayDown(p)
           \/ RelayUp(p) \/ AddUsers(p) \/ Limiter(p) \/ Adjust(p)
           \/ RemoveDeleted(p) \/ AddAdded(p) \/ RemoveModified(p)
           \/ ReaddModified(p) \/ End(p)
    PROVE  DOMAIN inbounds' = DOMAIN inbounds /\ tag' = tag
<1>1. CASE GetNode(p) \/ GetSubs(p) \/ RequestFails(p) \/ Limiter(p) \/ Adjust(p) \/ End(p)
  BY <1>1 DEF GetNode, GetSubs, RequestFails, Limiter, Adjust, End, ctrl, core
<1>2. CASE RelayDown(p) \/ RelayUp(p)
  BY <1>2 DEF RelayDown, RelayUp, RelaysAdded
<1>3. CASE AddUsers(p) \/ AddAdded(p) \/ ReaddModified(p)
  BY <1>3, UsersAddedDomain DEF AddUsers, AddAdded, ReaddModified, ctrl
<1>4. CASE RemoveDeleted(p) \/ RemoveModified(p)
  BY <1>4, UsersRemovedDomain DEF RemoveDeleted, RemoveModified, ctrl
<1> QED
  BY <1>1, <1>2, <1>3, <1>4

-----------------------------------------------------------------------------
(* Types.                                                                  *)

Local == {Idle} \cup Asked \cup Answered \cup Rebuilt \cup Adjusted \cup Comparing

\* Where an execution is tells what it knows.
LEMMA Whereabouts ==
    ASSUME NEW l \in Local
    PROVE  /\ l.pc = "getSubs" => l \in Asked
           /\ l.pc \in {"relay", "rebuild", "adjust"} => l \in Answered
           /\ l.pc \in {"adopt", "addTag", "addUsers", "limiter"} => l \in Rebuilt
           /\ l.pc = "relayUp" => l \in Rebuilt \/ l \in Adjusted
           /\ l.pc = "compare" => l \in Adjusted
           /\ l.pc \in {"add", "modify", "readd"} => l \in Comparing
           /\ l.pc = "end" => l.list \in Lists
BY DEF Local, Idle, Asked, Answered, Rebuilt, Adjusted, Comparing

LEMMA Stepped ==
    /\ \A l \in Answered : \A w \in {"rebuild", "adjust"} : [l EXCEPT !.pc = w] \in Answered
    /\ \A l \in Rebuilt : \A w \in {"relayUp", "addTag", "addUsers", "limiter", "end"} :
          [l EXCEPT !.pc = w] \in Rebuilt
    /\ \A l \in Adjusted : [l EXCEPT !.pc = "compare"] \in Adjusted
    /\ \A l \in Comparing : \A w \in {"modify", "readd", "end"} : [l EXCEPT !.pc = w] \in Comparing
BY DEF Answered, Rebuilt, Adjusted, Comparing

LEMMA InitTypes == Init => TypeOK
<1> SUFFICES ASSUME Init PROVE TypeOK
  OBVIOUS
<1> PICK s \in Settings : \E info \in s.infos, list \in s.lists :
        /\ setting = s
        /\ panelInfo = info /\ panelList = list /\ changes = 0
        /\ eTags = [info |-> info, list |-> list]
        /\ nodeInfo = info /\ subs = list /\ tag = Tag(info)
        /\ relayOn = info.relay /\ interval = info.interval
        /\ DOMAIN inbounds = {Tag(info)} /\ blocking = {Tag(info)}
        /\ relays = IF info.relay THEN DOMAIN list ELSE {}
        /\ DOMAIN limits = {Tag(info)}
        /\ loc = [p \in Syncers |-> Idle]
        /\ missed = [uuid |-> {}, email |-> FALSE, relay |-> FALSE]
  BY DEF Init
<1>1. PICK info \in NodeInfos, list \in Lists :
        /\ setting = s
        /\ panelInfo = info /\ panelList = list /\ changes = 0
        /\ eTags = [info |-> info, list |-> list]
        /\ nodeInfo = info /\ subs = list /\ tag = Tag(info)
        /\ relayOn = info.relay /\ interval = info.interval
        /\ DOMAIN inbounds = {Tag(info)} /\ blocking = {Tag(info)}
        /\ relays = IF info.relay THEN DOMAIN list ELSE {}
        /\ DOMAIN limits = {Tag(info)}
        /\ loc = [p \in Syncers |-> Idle]
        /\ missed = [uuid |-> {}, email |-> FALSE, relay |-> FALSE]
  BY NodeSyncAssumption
<1>2. Tag(info) \in Tags
  BY DEF Tags
<1>3. info.relay \in BOOLEAN
  BY NodeSyncAssumption
<1> QED
  BY <1>1, <1>2, <1>3, NodeSyncAssumption DEF TypeOK, Ids

\* An execution leaves the panel alone.
LEMMA AskTypes ==
    ASSUME TypeOK, NEW p \in Syncers, GetNode(p) \/ GetSubs(p) \/ RequestFails(p)
    PROVE  TypeOK'
<1>1. CASE GetNode(p)
  BY <1>1 DEF GetNode, InfoFetched, TypeOK, Asked, panel, ctrl, core
<1>2. CASE GetSubs(p)
  <2>1. loc[p] \in Asked
    BY <1>2, Whereabouts DEF TypeOK, Local, GetSubs, At
  <2> QED
    BY <1>2, <2>1 DEF GetSubs, ListFetched, TypeOK, Asked, Answered, panel, ctrl, core
<1>3. CASE RequestFails(p)
  BY <1>3 DEF RequestFails, Return, TypeOK, panel, ctrl, core
<1> QED
  BY <1>1, <1>2, <1>3

LEMMA RelayTypes ==
    ASSUME TypeOK, NEW p \in Syncers, RelayDown(p) \/ RelayUp(p)
    PROVE  TypeOK'
<1>1. CASE RelayDown(p)
  <2>1. loc[p] \in Answered
    BY <1>1, Whereabouts DEF TypeOK, Local, RelayDown, At
  <2>2. loc'[p] \in Answered
    BY <1>1, <2>1, Stepped DEF RelayDown, Goto, TypeOK
  <2> QED
    BY <1>1, <2>2 DEF RelayDown, Goto, TypeOK, panel
<1>2. CASE RelayUp(p)
  <2>1. loc[p] \in Rebuilt \/ loc[p] \in Adjusted
    BY <1>2, Whereabouts DEF TypeOK, Local, RelayUp, At
  <2>2. DOMAIN loc[p].list \subseteq Ids
    BY <2>1 DEF Rebuilt, Adjusted, Ids
  <2>3. [loc[p] EXCEPT !.pc = loc[p].next] \in Local
    BY <2>1, Stepped DEF Local, Rebuilt, Adjusted
  <2>4. loc' \in [Syncers -> Local]
    BY <1>2, <2>3 DEF RelayUp, Goto, Return, TypeOK, Local
  <2> QED
    BY <1>2, <2>2, <2>4 DEF RelayUp, RelaysAdded, TypeOK, Local, panel
<1> QED
  BY <1>1, <1>2

LEMMA RebuildTypes ==
    ASSUME TypeOK, NEW p \in Syncers,
           \/ Rebuild(p) \/ Adopt(p) \/ AddTag(p)
           \/ AddUsers(p) \/ Limiter(p)
    PROVE  TypeOK'
<1>1. CASE Rebuild(p)
  <2>1. loc[p] \in Answered
    BY <1>1, Whereabouts DEF TypeOK, Local, Rebuild, At
  <2>2. loc[p].info \in NodeInfos /\ loc[p].list \in Lists /\ Tag(loc[p].info) \in Tags
    BY <2>1 DEF Answered, Tags
  <2>3. loc' \in [Syncers -> Local]
    BY <1>1, <2>2 DEF Rebuild, Return, TypeOK, Rebuilt, Local
  <2>4. DOMAIN inbounds' \subseteq Tags
    BY <1>1, DropShrinks DEF Rebuild, TypeOK
  <2>5. blocking' \subseteq Tags
    BY <1>1 DEF Rebuild, TypeOK
  <2> QED
    BY <1>1, <2>3, <2>4, <2>5 DEF Rebuild, TypeOK, Local, panel, ctrl
<1>2. CASE AddTag(p)
  <2>1. loc[p] \in Rebuilt
    BY <1>2, Whereabouts DEF TypeOK, Local, AddTag, At
  <2>2. loc' \in [Syncers -> Local]
    BY <1>2, <2>1, Stepped DEF AddTag, Goto, Return, TypeOK, Local
  <2>3. \A info : DOMAIN Put(inbounds, [t \in {tag} |-> [info |-> info, users |-> <<>>]])
                    = DOMAIN inbounds \cup {tag}
    BY PutDomain
  <2>4. DOMAIN inbounds' \subseteq DOMAIN inbounds \cup {tag}
    <3>1. InboundAdded(loc[p].info, TRUE) \/ InboundAdded(loc[p].info, FALSE)
      BY <1>2 DEF AddTag
    <3> QED
      BY <2>3, <3>1 DEF InboundAdded
  <2>5. DOMAIN inbounds' \subseteq Tags /\ blocking' \subseteq Tags
    BY <1>2, <2>4 DEF AddTag, TypeOK
  <2> QED
    BY <1>2, <2>2, <2>5 DEF AddTag, TypeOK, Local, panel, ctrl
<1>3. CASE AddUsers(p)
  <2>1. loc[p] \in Rebuilt
    BY <1>3, Whereabouts DEF TypeOK, Local, AddUsers, At
  <2>2. loc' \in [Syncers -> Local]
    BY <1>3, <2>1, Stepped DEF AddUsers, Goto, TypeOK, Local
  <2> QED
    BY <1>3, <2>2, SameInbounds DEF AddUsers, TypeOK, Local, panel, ctrl
<1>4. CASE Limiter(p)
  <2>1. loc[p] \in Rebuilt
    BY <1>4, Whereabouts DEF TypeOK, Local, Limiter, At
  <2>2. loc' \in [Syncers -> Local]
    BY <1>4, <2>1, Stepped DEF Limiter, Goto, TypeOK, Local
  <2>3. DOMAIN Drop(limits, {loc[p].oldTag}) \subseteq DOMAIN limits
    BY DropShrinks
  <2>4. DOMAIN limits' \subseteq DOMAIN limits \cup {tag}
    <3>1. CASE loc[p].oldTag # tag
      <4>1. \A f : DOMAIN Put(f, [t \in {tag} |-> [speed |-> loc[p].info.speed,
                                                  subs  |-> Plans(loc[p].list)]])
                      = DOMAIN f \cup {tag}
        BY PutDomain
      <4>2. limits' = Put(Drop(limits, {loc[p].oldTag}),
                          [t \in {tag} |-> [speed |-> loc[p].info.speed,
                                            subs  |-> Plans(loc[p].list)]])
        BY <1>4, <3>1 DEF Limiter
      <4> QED
        BY <2>3, <4>1, <4>2
    <3>2. CASE loc[p].oldTag = tag
      BY <1>4, <3>2 DEF Limiter
    <3> QED
      BY <3>1, <3>2
  <2>5. DOMAIN limits' \subseteq Tags
    BY <2>4 DEF TypeOK
  <2> QED
    BY <1>4, <2>2, <2>5 DEF Limiter, TypeOK, Local, panel, core
<1>5. CASE Adopt(p)
  <2>1. loc[p] \in Rebuilt
    BY <1>5, Whereabouts DEF TypeOK, Local, Adopt, At
  <2>2. loc' \in [Syncers -> Local]
    BY <1>5, <2>1, Stepped DEF Adopt, Goto, TypeOK, Local
  <2>3. nodeInfo' \in NodeInfos /\ tag' \in Tags
    BY <1>5, <2>1 DEF Adopt, Rebuilt, Tags
  <2> QED
    BY <1>5, <2>2, <2>3 DEF Adopt, TypeOK, Local, panel, core
<1> QED
  BY <1>1, <1>2, <1>3, <1>4, <1>5

LEMMA AdjustTypes ==
    ASSUME TypeOK, NEW p \in Syncers,
           \/ Adjust(p) \/ RemoveDeleted(p) \/ AddAdded(p)
           \/ RemoveModified(p) \/ ReaddModified(p) \/ End(p)
    PROVE  TypeOK'
<1>1. CASE Adjust(p)
  <2>1. loc[p] \in Answered
    BY <1>1, Whereabouts DEF TypeOK, Local, Adjust, At
  <2>2. loc' \in [Syncers -> Local]
    BY <1>1, <2>1 DEF Adjust, TypeOK, Answered, Adjusted, Local
  <2>3. loc[p].info \in NodeInfos
    BY <2>1 DEF Answered
  <2> QED
    BY <1>1, <2>2, <2>3 DEF Adjust, TypeOK, Local, panel, core
<1>2. CASE RemoveDeleted(p)
  <2>1. loc[p] \in Adjusted
    BY <1>2, Whereabouts DEF TypeOK, Local, RemoveDeleted, At
  <2>2. loc' \in [Syncers -> Local]
    BY <1>2, <2>1 DEF RemoveDeleted, TypeOK, Adjusted, Comparing, Local
  <2>3. DOMAIN limits' = DOMAIN limits
    BY <1>2 DEF RemoveDeleted
  <2>4. Overlooked(subs, loc[p].list) \subseteq Ids
    BY <2>1 DEF Overlooked, Kept, Ids, Adjusted
  <2>5. missed' \in [uuid : SUBSET Ids, email : BOOLEAN, relay : BOOLEAN]
    BY <1>2, <2>4 DEF RemoveDeleted, TypeOK
  <2> QED
    BY <1>2, <2>2, <2>3, <2>5, SameInbounds DEF RemoveDeleted, TypeOK, Local, panel, ctrl
<1>3. CASE AddAdded(p) \/ RemoveModified(p) \/ ReaddModified(p)
  <2>1. loc[p] \in Comparing
    BY <1>3, Whereabouts DEF TypeOK, Local, AddAdded, RemoveModified, ReaddModified, At
  <2>2. loc' \in [Syncers -> Local]
    BY <1>3, <2>1, Stepped DEF AddAdded, RemoveModified, ReaddModified, Goto, TypeOK, Local
  <2>3. DOMAIN limits' = DOMAIN limits
    BY <1>3 DEF AddAdded, RemoveModified, ReaddModified
  <2> QED
    BY <1>3, <2>2, <2>3, SameInbounds
       DEF AddAdded, RemoveModified, ReaddModified, TypeOK, Local, panel, ctrl
<1>4. CASE End(p)
  <2>1. loc[p].list \in Lists
    BY <1>4, Whereabouts DEF TypeOK, Local, End, At
  <2> QED
    BY <1>4, <2>1 DEF End, Return, TypeOK, panel, core
<1> QED
  BY <1>1, <1>2, <1>3, <1>4

LEMMA NextTypes == TypeOK /\ [Next]_vars => TypeOK'
<1> SUFFICES ASSUME TypeOK, [Next]_vars PROVE TypeOK'
  OBVIOUS
<1>1. CASE PanelChange
  BY <1>1, NodeSyncAssumption DEF PanelChange, TypeOK, ctrl, core
<1>2. ASSUME NEW p \in Syncers, Sync(p) PROVE TypeOK'
  BY <1>2, AskTypes, RelayTypes, RebuildTypes, AdjustTypes DEF Sync
<1>3. CASE UNCHANGED vars
  BY <1>3 DEF vars, panel, ctrl, core, TypeOK
<1> QED
  BY <1>1, <1>2, <1>3 DEF Next, Runs

(* The controller never holds a configuration, list or tag that the panel   *)
(* has not sent, and every execution knows what its next call needs.        *)
THEOREM TypeCorrect == Spec => []TypeOK
BY InitTypes, NextTypes, PTL DEF Spec

-----------------------------------------------------------------------------
(* One inbound.                                                            *)

OInv == TypeOK /\ OneInbound /\ Exclusive

\* Moving on changes nothing but the place.
LEMMA MovedOn ==
    /\ \A w : \A l \in Local : [l EXCEPT !.pc = w].pc = w
    /\ \A w : \A l \in Rebuilt \cup Adjusted : [l EXCEPT !.pc = w].next = l.next
BY DEF Local, Idle, Asked, Answered, Rebuilt, Adjusted, Comparing

\* Nothing but Rebuild enters a rebuild.
LEMMA NobodyEnters ==
    ASSUME TypeOK, NEW p \in Syncers, Sync(p), ~Rebuild(p)
    PROVE  \A q \in Syncers : Rebuilding(q)' => Rebuilding(q)
<1>1. \A q \in Syncers \ {p} : loc'[q] = loc[q]
  BY DEF Sync, Rebuild, GetNode, GetSubs, RequestFails, RelayDown, RelayUp, Adopt,
         AddTag, AddUsers, Limiter, Adjust, RemoveDeleted, AddAdded, RemoveModified,
         ReaddModified, End, Goto, Return, TypeOK
<1>2. loc[p] \in Local /\ loc \in [Syncers -> Local]
  BY DEF TypeOK, Local
<1>3. SUFFICES ASSUME Rebuilding(p)' PROVE Rebuilding(p)
  BY <1>1 DEF Rebuilding
<1>4. CASE Adopt(p)
  BY <1>2, <1>3, <1>4, Whereabouts DEF Adopt, At, Rebuilding, Rebuilt
<1>5. CASE RelayUp(p)
  <2>1. loc'[p] # Idle
    BY <1>3 DEF Rebuilding, Idle
  <2>2. loc'[p] = [loc[p] EXCEPT !.pc = loc[p].next]
    BY <1>2, <1>5, <2>1 DEF RelayUp, Goto, Return
  <2>3. loc[p] \in Rebuilt \cup Adjusted
    BY <1>2, <1>5, Whereabouts DEF RelayUp, At
  <2> QED
    BY <1>3, <1>5, <2>2, <2>3, MovedOn DEF RelayUp, At, Rebuilding
<1>6. CASE Adjust(p)
  BY <1>2, <1>3, <1>6 DEF Adjust, Rebuilding
<1>7. CASE GetNode(p) \/ GetSubs(p) \/ RequestFails(p) \/ RemoveDeleted(p) \/ End(p)
  BY <1>2, <1>3, <1>7
     DEF GetNode, GetSubs, RequestFails, RemoveDeleted, End, Return, Rebuilding, Idle
<1>8. CASE \/ RelayDown(p) \/ AddTag(p) \/ AddUsers(p) \/ Limiter(p)
           \/ AddAdded(p) \/ RemoveModified(p) \/ ReaddModified(p)
  <2>1. CASE loc'[p] = Idle
    BY <1>3, <2>1 DEF Rebuilding, Idle
  <2>2. ASSUME NEW w \in {"rebuild", "adjust", "addUsers", "limiter", "end", "modify", "readd"},
               loc'[p] = [loc[p] EXCEPT !.pc = w]
        PROVE  FALSE
    BY <1>2, <1>3, <2>2, MovedOn DEF Rebuilding
  <2> QED
    BY <1>2, <1>8, <2>1, <2>2
       DEF RelayDown, AddTag, AddUsers, Limiter, AddAdded, RemoveModified,
           ReaddModified, Goto, Return
<1> QED
  BY <1>4, <1>5, <1>6, <1>7, <1>8 DEF Sync

LEMMA InitOInv == Init => OInv
<1>1. Init => OneInbound
  BY DEF Init, OneInbound
<1>2. Init => Exclusive
  BY DEF Init, Exclusive, Rebuilding, Idle
<1> QED
  BY <1>1, <1>2, InitTypes DEF OInv

LEMMA NextOInv == OInv /\ [Next]_vars => OInv'
<1> SUFFICES ASSUME OInv, [Next]_vars PROVE (OneInbound /\ Exclusive)'
  BY NextTypes DEF OInv
<1>1. CASE PanelChange \/ UNCHANGED vars
  BY <1>1 DEF OInv, OneInbound, Exclusive, Rebuilding, PanelChange, vars, ctrl, core
<1>2. ASSUME NEW p \in Syncers, Rebuild(p) PROVE (OneInbound /\ Exclusive)'
  <2>1. loc \in [Syncers -> Local]
    BY DEF OInv, TypeOK, Local
  <2>2. CASE tag \notin DOMAIN inbounds
    <3>1. inbounds' = inbounds /\ tag' = tag /\ loc' = [loc EXCEPT ![p] = Idle]
      BY <1>2, <2>2 DEF Rebuild, Return, ctrl
    <3>2. \A q \in Syncers : Rebuilding(q)' => Rebuilding(q)
      BY <2>1, <3>1 DEF Rebuilding, Idle
    <3> QED
      BY <3>1, <3>2 DEF OInv, OneInbound, Exclusive
  <2>3. CASE tag \in DOMAIN inbounds
    <3>1. DOMAIN inbounds' = {} /\ tag' = tag
      <4>1. inbounds' = Drop(inbounds, {tag}) /\ tag' = tag
        BY <1>2, <2>3 DEF Rebuild, ctrl
      <4>2. DOMAIN inbounds' = DOMAIN inbounds \ {tag}
        BY <4>1, DropDomain
      <4> QED
        BY <4>1, <4>2 DEF OInv, OneInbound
    <3>2. \A q \in Syncers : ~Rebuilding(q)
      BY <2>3 DEF OInv, Exclusive
    <3>3. \A q \in Syncers \ {p} : loc'[q] = loc[q]
      BY <1>2, <2>1, <2>3 DEF Rebuild
    <3> QED
      BY <3>1, <3>2, <3>3 DEF OneInbound, Exclusive, Rebuilding
  <2> QED
    BY <2>2, <2>3
<1>3. ASSUME NEW p \in Syncers, AddTag(p) PROVE (OneInbound /\ Exclusive)'
  <2>1. \A info : DOMAIN Put(inbounds, [t \in {tag} |-> [info |-> info, users |-> <<>>]])
                    = DOMAIN inbounds \cup {tag}
    BY PutDomain
  <2>2. DOMAIN inbounds' \subseteq DOMAIN inbounds \cup {tag} /\ tag' = tag
    BY <1>3, <2>1 DEF AddTag, InboundAdded, ctrl
  <2>3. loc[p] \in Local /\ loc \in [Syncers -> Local]
    BY DEF OInv, TypeOK, Local
  <2>4. Rebuilding(p)
    BY <1>3, <2>3, Whereabouts DEF AddTag, At, Rebuilding, Rebuilt
  <2>5. ~Rebuilding(p)'
    <3>1. loc'[p] = Idle \/ loc'[p] = [loc[p] EXCEPT !.pc = "addUsers"]
      BY <1>3, <2>3 DEF AddTag, Goto, Return
    <3>2. loc'[p].pc \in {"idle", "addUsers"}
      <4>1. Idle.pc = "idle"
        BY DEF Idle
      <4>2. [loc[p] EXCEPT !.pc = "addUsers"].pc = "addUsers"
        BY <2>3, MovedOn
      <4> QED
        BY <3>1, <4>1, <4>2
    <3> QED
      BY <3>2 DEF Rebuilding
  <2>6. \A q \in Syncers : ~Rebuilding(q)'
    BY <1>3, <2>3, <2>4, <2>5, NobodyEnters DEF OInv, Exclusive, Sync, AddTag, Rebuild, At
  <2> QED
    BY <2>2, <2>6 DEF OInv, OneInbound, Exclusive
<1>4. ASSUME NEW p \in Syncers, Adopt(p) PROVE (OneInbound /\ Exclusive)'
  <2>1. Rebuilding(p) /\ inbounds' = inbounds
    BY <1>4, Whereabouts DEF Adopt, At, Rebuilding, Rebuilt, OInv, TypeOK, Local, core
  <2>2. \A q \in Syncers : Rebuilding(q)' => Rebuilding(q)
    BY <1>4, NobodyEnters DEF OInv, Sync, Adopt, Rebuild, At
  <2> QED
    BY <2>1, <2>2 DEF OInv, OneInbound, Exclusive
<1>5. ASSUME NEW p \in Syncers, Sync(p), ~Rebuild(p), ~AddTag(p), ~Adopt(p)
      PROVE  (OneInbound /\ Exclusive)'
  <2>1. DOMAIN inbounds' = DOMAIN inbounds /\ tag' = tag
    BY <1>5, SameInbounds DEF Sync
  <2>2. \A q \in Syncers : Rebuilding(q)' => Rebuilding(q)
    BY <1>5, NobodyEnters DEF OInv
  <2> QED
    BY <2>1, <2>2 DEF OInv, OneInbound, Exclusive
<1> QED
  BY <1>1, <1>2, <1>3, <1>4, <1>5 DEF Next, Runs

(* However executions of apiMonitor interleave and whatever fails in them,  *)
(* the node never listens under a tag that is not the controller's.         *)
THEOREM OneInboundHolds == Spec => []OneInbound
<1>1. OInv => OneInbound
  BY DEF OInv
<1> QED
  BY <1>1, InitOInv, NextOInv, PTL DEF Spec

(* Two executions that interleave never rebuild the inbound together: the   *)
(* core's refusal to remove what is gone keeps the second one out.          *)
THEOREM ExclusiveHolds == Spec => []Exclusive
<1>1. OInv => Exclusive
  BY DEF OInv
<1> QED
  BY <1>1, InitOInv, NextOInv, PTL DEF Spec

-----------------------------------------------------------------------------
(* What the differences of two lists do to a map keyed by email, be it the  *)
(* core's users or the limiter's entries.                                   *)

Distinct(list) ==
    \A i, j \in DOMAIN list : list[i].email = list[j].email => i = j

LEMMA ListsDistinct == \A list \in Lists : Distinct(list)
BY NodeSyncAssumption DEF Distinct

LEMMA EntryAt ==
    ASSUME NEW list, Distinct(list), NEW i \in DOMAIN list
    PROVE  /\ list[i].email \in Emails(list)
           /\ Users(list)[list[i].email].plan = list[i].plan
           /\ Users(list)[list[i].email].uuid = list[i].uuid
           /\ Plans(list)[list[i].email] = list[i].plan
<1> DEFINE e == list[i].email
           c == Owner(list, e)
<1>1. e \in Emails(list)
  BY DEF Emails
<1>2. c \in DOMAIN list /\ list[c].email = e
  BY DEF Owner
<1>3. c = i
  BY <1>2 DEF Distinct
<1>4. Users(list)[e] = [plan |-> list[c].plan, uuid |-> list[c].uuid]
  BY <1>1 DEF Users
<1>5. Plans(list)[e] = list[c].plan
  BY <1>1 DEF Plans
<1> QED
  BY <1>1, <1>3, <1>4, <1>5

LEMMA EntryDomains ==
    \A list : DOMAIN Users(list) = Emails(list) /\ DOMAIN Plans(list) = Emails(list)
BY DEF Users, Plans

EmailsOf(list, S) == {list[i].email : i \in S}

(* The entries of a part of a list.                                         *)
LEMMA PartOfList ==
    ASSUME NEW list, Distinct(list), NEW S \in SUBSET DOMAIN list, NEW part,
           part = Restrict(list, S)
    PROVE  /\ Emails(part) = EmailsOf(list, S)
           /\ DOMAIN Users(part) = EmailsOf(list, S)
           /\ DOMAIN Plans(part) = EmailsOf(list, S)
           /\ \A i \in S : /\ Users(part)[list[i].email].plan = list[i].plan
                           /\ Users(part)[list[i].email].uuid = list[i].uuid
                           /\ Plans(part)[list[i].email] = list[i].plan
<1>1. DOMAIN part = S /\ \A i \in S : part[i] = list[i]
  BY DEF Restrict
<1>2. Distinct(part)
  BY <1>1 DEF Distinct
<1>3. Emails(part) = EmailsOf(list, S)
  BY <1>1 DEF Emails, EmailsOf
<1>4. \A i \in S : /\ Users(part)[list[i].email].plan = list[i].plan
                   /\ Users(part)[list[i].email].uuid = list[i].uuid
                   /\ Plans(part)[list[i].email] = list[i].plan
  BY <1>1, <1>2, EntryAt
<1> QED
  BY <1>3, <1>4, EntryDomains

(* Dropping what is gone: the emails of both lists remain.                  *)
LEMMA DropGone ==
    ASSUME NEW old, NEW new, Distinct(old), Distinct(new), ~Renamed(old, new),
           NEW u, DOMAIN u = Emails(old), NEW gone, gone = Emails(Deleted(old, new))
    PROVE  /\ gone \subseteq DOMAIN u
           /\ DOMAIN Drop(u, gone) = EmailsOf(new, Kept(old, new))
           /\ \A i \in Kept(old, new) : Drop(u, gone)[new[i].email] = u[old[i].email]
<1>1. gone = EmailsOf(old, DOMAIN old \ DOMAIN new)
  BY PartOfList DEF Deleted
<1>2. gone \subseteq DOMAIN u
  BY <1>1 DEF Emails, EmailsOf
<1>3. \A i \in Kept(old, new) : old[i].email = new[i].email /\ i \in DOMAIN old /\ i \in DOMAIN new
  BY DEF Renamed, Kept
<1>4. Drop(u, gone) = [e \in Emails(old) \ gone |-> u[e]]
  BY DEF Drop, Restrict
<1>5. Emails(old) \ gone = EmailsOf(new, Kept(old, new))
  <2>1. \A e \in Emails(old) \ gone : \E i \in Kept(old, new) : e = new[i].email
    BY <1>1, <1>3 DEF Emails, EmailsOf, Kept
  <2>2. ASSUME NEW i \in Kept(old, new)
        PROVE  new[i].email \in Emails(old) /\ new[i].email \notin gone
    BY <1>1, <1>3 DEF Emails, EmailsOf, Distinct
  <2> QED
    BY <2>1, <2>2 DEF EmailsOf
<1>6. ASSUME NEW i \in Kept(old, new)
      PROVE  Drop(u, gone)[new[i].email] = u[old[i].email]
  <2>1. new[i].email \in Emails(old) \ gone
    BY <1>5 DEF EmailsOf
  <2> QED
    BY <1>3, <1>4, <2>1
<1> QED
  BY <1>2, <1>4, <1>5, <1>6

(* Entries of other ids are put next to those there are.                    *)
LEMMA PutOthers ==
    ASSUME NEW list, Distinct(list), NEW S \in SUBSET DOMAIN list,
           NEW T \in SUBSET DOMAIN list, S \cap T = {},
           NEW u, DOMAIN u = EmailsOf(list, S), NEW a, DOMAIN a = EmailsOf(list, T)
    PROVE  /\ DOMAIN a \cap DOMAIN u = {}
           /\ DOMAIN Put(u, a) = EmailsOf(list, S \cup T)
           /\ \A i \in S : Put(u, a)[list[i].email] = u[list[i].email]
           /\ \A i \in T : Put(u, a)[list[i].email] = a[list[i].email]
<1>1. DOMAIN a \cap DOMAIN u = {}
  BY DEF EmailsOf, Distinct
<1>2. Put(u, a) = [e \in DOMAIN u \cup DOMAIN a |-> IF e \in DOMAIN a THEN a[e] ELSE u[e]]
  BY DEF Put
<1>3. DOMAIN u \cup DOMAIN a = EmailsOf(list, S \cup T)
  BY DEF EmailsOf
<1>4. \A i \in S : list[i].email \in DOMAIN u
  BY DEF EmailsOf
<1>5. \A i \in T : list[i].email \in DOMAIN a
  BY DEF EmailsOf
<1>6. \A i \in S : Put(u, a)[list[i].email] = u[list[i].email]
  BY <1>1, <1>2, <1>4
<1>7. \A i \in T : Put(u, a)[list[i].email] = a[list[i].email]
  BY <1>2, <1>5
<1> QED
  BY <1>1, <1>2, <1>3, <1>6, <1>7

(* Or over some of those there are.                                         *)
LEMMA PutOver ==
    ASSUME NEW list, Distinct(list), NEW S \in SUBSET DOMAIN list,
           NEW T \in SUBSET S,
           NEW u, DOMAIN u = EmailsOf(list, S), NEW a, DOMAIN a = EmailsOf(list, T)
    PROVE  /\ DOMAIN Put(u, a) = EmailsOf(list, S)
           /\ \A i \in S \ T : Put(u, a)[list[i].email] = u[list[i].email]
           /\ \A i \in T : Put(u, a)[list[i].email] = a[list[i].email]
<1>2. Put(u, a) = [e \in DOMAIN u \cup DOMAIN a |-> IF e \in DOMAIN a THEN a[e] ELSE u[e]]
  BY DEF Put
<1>3. DOMAIN u \cup DOMAIN a = EmailsOf(list, S)
  BY DEF EmailsOf
<1>4. \A i \in S \ T : list[i].email \in DOMAIN u /\ list[i].email \notin DOMAIN a
  BY DEF EmailsOf, Distinct
<1>5. \A i \in T : list[i].email \in DOMAIN a
  BY DEF EmailsOf
<1>6. \A i \in S \ T : Put(u, a)[list[i].email] = u[list[i].email]
  BY <1>2, <1>4
<1>7. \A i \in T : Put(u, a)[list[i].email] = a[list[i].email]
  BY <1>2, <1>5
<1> QED
  BY <1>2, <1>3, <1>6, <1>7

LEMMA DropSome ==
    ASSUME NEW list, Distinct(list), NEW S \in SUBSET DOMAIN list,
           NEW T \in SUBSET S,
           NEW u, DOMAIN u = EmailsOf(list, S), NEW gone, gone = EmailsOf(list, T)
    PROVE  /\ gone \subseteq DOMAIN u
           /\ DOMAIN Drop(u, gone) = EmailsOf(list, S \ T)
           /\ \A i \in S \ T : Drop(u, gone)[list[i].email] = u[list[i].email]
<1>1. Drop(u, gone) = [e \in DOMAIN u \ gone |-> u[e]]
  BY DEF Drop, Restrict
<1>2. DOMAIN u \ gone = EmailsOf(list, S \ T)
  <2>1. \A e \in DOMAIN u \ gone : \E i \in S \ T : e = list[i].email
    BY DEF EmailsOf
  <2>2. \A i \in S \ T : list[i].email \in DOMAIN u /\ list[i].email \notin gone
    BY DEF EmailsOf, Distinct
  <2> QED
    BY <2>1, <2>2 DEF EmailsOf
<1>3. \A i \in S \ T : list[i].email \in DOMAIN u \ gone
  BY <1>2 DEF EmailsOf
<1>4. gone \subseteq DOMAIN u
  BY DEF EmailsOf
<1> QED
  BY <1>1, <1>2, <1>3, <1>4

(* The parts of two lists that Compare tells apart.                         *)
ModifiedIds(old, new) ==
    {i \in Kept(old, new) : old[i].plan # new[i].plan \/ old[i].email # new[i].email}

LEMMA Parts ==
    ASSUME NEW old, NEW new
    PROVE  /\ Kept(old, new) \subseteq DOMAIN new
           /\ Kept(old, new) \subseteq DOMAIN old
           /\ DOMAIN Modified(old, new) = ModifiedIds(old, new)
           /\ ModifiedIds(old, new) \subseteq Kept(old, new)
           /\ Kept(old, new) \cap (DOMAIN new \ DOMAIN old) = {}
           /\ Kept(old, new) \cup (DOMAIN new \ DOMAIN old) = DOMAIN new
BY DEF Kept, Modified, ModifiedIds, Restrict

LEMMA ModifiedEntries ==
    ASSUME NEW old, NEW new, Distinct(new), NEW mod, mod = Modified(old, new)
    PROVE  /\ Emails(mod) = EmailsOf(new, ModifiedIds(old, new))
           /\ DOMAIN Users(mod) = EmailsOf(new, ModifiedIds(old, new))
           /\ DOMAIN Plans(mod) = EmailsOf(new, ModifiedIds(old, new))
           /\ \A i \in ModifiedIds(old, new) :
                 /\ Users(mod)[new[i].email].plan = new[i].plan
                 /\ Users(mod)[new[i].email].uuid = new[i].uuid
                 /\ Plans(mod)[new[i].email] = new[i].plan
<1>1. mod = Restrict(new, ModifiedIds(old, new)) /\ ModifiedIds(old, new) \in SUBSET DOMAIN new
  BY DEF Modified, ModifiedIds, Kept
<1> QED
  BY <1>1, PartOfList

LEMMA AddedEntries ==
    ASSUME NEW old, NEW new, Distinct(new), NEW more, more = Added(old, new)
    PROVE  /\ Emails(more) = EmailsOf(new, DOMAIN new \ DOMAIN old)
           /\ DOMAIN Users(more) = EmailsOf(new, DOMAIN new \ DOMAIN old)
           /\ DOMAIN Plans(more) = EmailsOf(new, DOMAIN new \ DOMAIN old)
           /\ \A i \in DOMAIN new \ DOMAIN old :
                 /\ Users(more)[new[i].email].plan = new[i].plan
                 /\ Users(more)[new[i].email].uuid = new[i].uuid
                 /\ Plans(more)[new[i].email] = new[i].plan
<1>1. more = Restrict(new, DOMAIN new \ DOMAIN old) /\ DOMAIN new \ DOMAIN old \in SUBSET DOMAIN new
  BY DEF Added
<1> QED
  BY <1>1, PartOfList

-----------------------------------------------------------------------------
(* Updates applied.  What one execution at a time, whose calls succeed,     *)
(* leaves in the core and in the limiter, step by step.                     *)

\* One execution at a time: the code has two goroutines that start one.
Solo == \A s \in Settings : s.fail \/ \E p \in Syncers : s.syncers = {p}

IsMap(f) == f = [x \in DOMAIN f |-> f[x]]

Inbound(t, info, users) == [x \in {t} |-> [info |-> info, users |-> users]]
Limiting(t, speed, plans) == [x \in {t} |-> [speed |-> speed, subs |-> plans]]

\* The core and the limiter know the ids S of a list, and those of T as the
\* list has them.
AdmitsOn(users, list, S, T) ==
    /\ IsMap(users)
    /\ DOMAIN users = EmailsOf(list, S)
    /\ \A i \in T :
          /\ users[list[i].email].plan = list[i].plan
          /\ i \notin missed.uuid => users[list[i].email].uuid = list[i].uuid

LimitedOn(plans, list, S, T) ==
    /\ IsMap(plans)
    /\ DOMAIN plans = EmailsOf(list, S)
    /\ \A i \in T : plans[list[i].email] = list[i].plan

\* The inbound of a configuration that needs no rebuild, and what limits it.
Up(info, list, S, T) ==
    \E built \in NodeInfos : \E users, plans :
        /\ ~Structural(built, info)
        /\ inbounds = Inbound(Tag(info), built, users)
        /\ limits = Limiting(Tag(info), info.speed, plans)
        /\ missed.email \/ AdmitsOn(users, list, S, T)
        /\ missed.email \/ LimitedOn(plans, list, S, T)

Whole(info, list) == Up(info, list, DOMAIN list, DOMAIN list)

RelaysFor(list) == relays = IF relayOn THEN DOMAIN list ELSE {}
NoRelays == ~relayOn /\ relays = {}
RelayRight == missed.relay \/ relayOn = nodeInfo.relay

Knows(info, list) == eTags.info = info /\ eTags.list = list

\* Between RemoveTag and the end of a rebuild.
NoInbound == DOMAIN inbounds = {}
OldLimits(t) ==
    \E speed, plans : /\ limits = Limiting(t, speed, plans)
                      /\ missed.email \/ LimitedOn(plans, subs, DOMAIN subs, DOMAIN subs)

\* The ids that are as the new list has them before the modified ones are.
Settled(old, new) == DOMAIN new \ ModifiedIds(old, new)

Follows(l) ==
    /\ tag = Tag(nodeInfo)
    /\ l.pc \in {"idle", "getSubs", "relay", "rebuild", "adjust"} =>
          Whole(nodeInfo, subs) /\ RelaysFor(subs)
    /\ l.pc \in {"idle", "getSubs", "relay"} => RelayRight
    /\ l.pc = "idle" => Knows(nodeInfo, subs)
    /\ l.pc = "getSubs" => Knows(l.info, subs) /\ (l.infoNew \/ l.info = nodeInfo)
    /\ l.pc \in {"relay", "rebuild", "adjust"} =>
          Knows(l.info, l.list) /\ (l.infoNew \/ l.info = nodeInfo)
                                /\ (l.listNew \/ l.list = subs)
    /\ l.pc = "rebuild" => NoRelays
    /\ l.pc = "adjust" => /\ IF l.infoNew \/ l.listNew THEN NoRelays ELSE RelayRight
                          /\ l.infoNew => ~Structural(nodeInfo, l.info)
    /\ l.pc = "adopt" => /\ NoInbound /\ OldLimits(tag) /\ l.oldTag = tag
                         /\ NoRelays /\ Knows(l.info, l.list)
    /\ l.pc \in {"relayUp", "addTag", "addUsers", "limiter", "compare"} =>
          Knows(nodeInfo, l.list) /\ l.info = nodeInfo
    /\ l.pc = "relayUp" => NoRelays /\ nodeInfo.relay
    /\ l.pc \in {"addTag", "addUsers", "limiter", "compare", "add", "modify", "readd", "end"} =>
          RelaysFor(l.list) /\ RelayRight
    /\ l.pc = "addTag" \/ (l.pc = "relayUp" /\ l.next = "addTag") =>
          NoInbound /\ OldLimits(l.oldTag)
    /\ l.pc = "addUsers" => inbounds = Inbound(tag, l.info, <<>>) /\ OldLimits(l.oldTag)
    /\ l.pc = "limiter" => inbounds = Inbound(tag, l.info, Users(l.list)) /\ OldLimits(l.oldTag)
    /\ l.pc = "compare" \/ (l.pc = "relayUp" /\ l.next = "compare") =>
          Whole(nodeInfo, subs)
    /\ l.pc \in {"add", "modify", "readd", "end"} => Knows(nodeInfo, l.list)
    /\ l.pc = "add" =>
          Up(nodeInfo, l.list, Kept(l.old, l.list),
             Kept(l.old, l.list) \ ModifiedIds(l.old, l.list))
    /\ l.pc = "modify" => Up(nodeInfo, l.list, DOMAIN l.list, Settled(l.old, l.list))
    /\ l.pc = "readd" =>
          Up(nodeInfo, l.list, Settled(l.old, l.list), Settled(l.old, l.list))
    /\ l.pc = "end" => Whole(nodeInfo, l.list)

SInv == setting.fail \/ \E p \in Syncers :
            /\ setting.syncers = {p}
            /\ \A q \in Syncers \ {p} : loc[q] = Idle
            /\ Follows(loc[p])

\* What a step that leaves its variables alone keeps.
LEMMA Same ==
    /\ UNCHANGED <<inbounds, limits, missed>> =>
          \A info, list, S, T : Up(info, list, S, T)' = Up(info, list, S, T)
    /\ UNCHANGED <<limits, subs, missed>> => \A t : OldLimits(t)' = OldLimits(t)
    /\ UNCHANGED <<relays, relayOn>> =>
          /\ NoRelays' = NoRelays
          /\ \A list : RelaysFor(list)' = RelaysFor(list)
    /\ UNCHANGED <<missed, relayOn, nodeInfo>> => RelayRight' = RelayRight
    /\ UNCHANGED eTags => \A info, list : Knows(info, list)' = Knows(info, list)
<1>1. UNCHANGED <<inbounds, limits, missed>> =>
         \A info, list, S, T : Up(info, list, S, T)' = Up(info, list, S, T)
  BY DEF Up, AdmitsOn, LimitedOn
<1>2. UNCHANGED <<limits, subs, missed>> => \A t : OldLimits(t)' = OldLimits(t)
  BY DEF OldLimits, LimitedOn
<1> QED
  BY <1>1, <1>2 DEF NoRelays, RelaysFor, Knows, RelayRight

LEMMA ForNoRelays == NoRelays => \A list : RelaysFor(list)
BY DEF NoRelays, RelaysFor

\* An answer is new, or what the controller has.
LEMMA AnswerNew ==
    /\ \A r, mine, theirs :
          r = [pc |-> "getSubs", info |-> theirs, infoNew |-> mine # theirs]
            => r.pc = "getSubs" /\ r.info = theirs /\ (r.infoNew \/ r.info = mine)
    /\ \A r, i, n, mine, theirs :
          r = [pc |-> "relay", info |-> i, infoNew |-> n,
               list |-> theirs, listNew |-> mine # theirs]
            => /\ r.pc = "relay" /\ r.info = i /\ r.infoNew = n
               /\ r.list = theirs /\ (r.listNew \/ r.list = mine)
<1>1. ASSUME NEW r, NEW mine, NEW theirs,
             r = [pc |-> "getSubs", info |-> theirs, infoNew |-> mine # theirs]
      PROVE  r.pc = "getSubs" /\ r.info = theirs /\ (r.infoNew \/ r.info = mine)
  BY <1>1
<1>2. ASSUME NEW r, NEW i, NEW n, NEW mine, NEW theirs,
             r = [pc |-> "relay", info |-> i, infoNew |-> n,
                  list |-> theirs, listNew |-> mine # theirs]
      PROVE  /\ r.pc = "relay" /\ r.info = i /\ r.infoNew = n
             /\ r.list = theirs /\ (r.listNew \/ r.list = mine)
  BY <1>2
<1> QED
  BY <1>1, <1>2, Zenon

LEMMA AskFollows ==
    ASSUME TypeOK, ~setting.fail, NEW p \in Syncers, Follows(loc[p]),
           GetNode(p) \/ GetSubs(p) \/ RequestFails(p)
    PROVE  Follows(loc[p])'
<1>1. CASE GetNode(p)
  <2>1. /\ Whole(nodeInfo, subs) /\ RelaysFor(subs) /\ tag = Tag(nodeInfo) /\ RelayRight
        /\ eTags.info = nodeInfo /\ eTags.list = subs
    BY <1>1 DEF GetNode, At, Follows, Knows
  <2>2. /\ loc'[p] = [pc |-> "getSubs", info |-> panelInfo,
                      infoNew |-> nodeInfo # panelInfo]
        /\ UNCHANGED <<ctrl, core, limits, missed>>
    BY <1>1, <2>1 DEF GetNode, InfoFetched, TypeOK
  <2>3. Knows(panelInfo, subs)'
    BY <1>1, <2>1 DEF GetNode, Knows, TypeOK, panel, ctrl
  <2>4. /\ Whole(nodeInfo, subs)' /\ RelaysFor(subs)' /\ RelayRight'
        /\ UNCHANGED <<tag, nodeInfo, subs>>
    BY <2>1, <2>2, Same DEF ctrl, core, Whole
  <2>5. UNCHANGED panelInfo /\ Knows(loc[p].info, subs)'
    BY <1>1, <2>2, <2>3 DEF GetNode, panel
  <2>6. loc'[p].pc = "getSubs" /\ (loc'[p].infoNew \/ loc'[p].info = nodeInfo)
    BY <2>2, AnswerNew
  <2> QED
    BY <2>1, <2>4, <2>5, <2>6 DEF Follows
<1>2. CASE GetSubs(p)
  <2>1. /\ Whole(nodeInfo, subs) /\ RelaysFor(subs) /\ tag = Tag(nodeInfo) /\ RelayRight
        /\ eTags.info = loc[p].info /\ eTags.list = subs
        /\ loc[p].infoNew \/ loc[p].info = nodeInfo
    BY <1>2 DEF GetSubs, At, Follows, Knows
  <2>2. /\ loc'[p] = [pc |-> "relay", info |-> loc[p].info, infoNew |-> loc[p].infoNew,
                      list |-> panelList, listNew |-> subs # panelList]
        /\ UNCHANGED <<ctrl, core, limits, missed>>
    BY <1>2, <2>1 DEF GetSubs, ListFetched, TypeOK
  <2>3. Knows(loc[p].info, panelList)'
    <3>1. eTags' = [eTags EXCEPT !.list = panelList] /\ panelList' = panelList
      BY <1>2 DEF GetSubs, panel
    <3>2. eTags'.info = loc[p].info /\ eTags'.list = panelList
      BY <2>1, <3>1 DEF TypeOK
    <3>3. loc'[p].info = loc[p].info
      BY <2>2
    <3> QED
      BY <3>1, <3>2, <3>3 DEF Knows
  <2>4. /\ Whole(nodeInfo, subs)' /\ RelaysFor(subs)' /\ RelayRight'
        /\ UNCHANGED <<tag, nodeInfo, subs>>
    BY <2>1, <2>2, Same DEF ctrl, core, Whole
  <2>5. UNCHANGED panelList /\ Knows(loc[p].info, loc[p].list)'
    BY <1>2, <2>2, <2>3 DEF GetSubs, panel
  <2>6. /\ loc'[p].pc = "relay"
        /\ loc'[p].infoNew \/ loc'[p].info = nodeInfo
        /\ loc'[p].listNew \/ loc'[p].list = subs
    BY <2>1, <2>2, AnswerNew
  <2> QED
    BY <2>1, <2>4, <2>5, <2>6 DEF Follows
<1>3. CASE RequestFails(p)
  BY <1>3 DEF RequestFails
<1> QED
  BY <1>1, <1>2, <1>3

LEMMA RelayDownFollows ==
    ASSUME TypeOK, NEW p \in Syncers, Follows(loc[p]), RelayDown(p)
    PROVE  Follows(loc[p])'
<1> DEFINE l == loc[p]
           w == IF l.infoNew /\ Structural(nodeInfo, l.info) THEN "rebuild" ELSE "adjust"
<1>1. /\ Whole(nodeInfo, subs) /\ RelaysFor(subs) /\ tag = Tag(nodeInfo) /\ RelayRight
      /\ Knows(l.info, l.list)
      /\ l.infoNew \/ l.info = nodeInfo
      /\ l.listNew \/ l.list = subs
  BY DEF RelayDown, At, Follows
<1>2. /\ loc'[p] = [l EXCEPT !.pc = w]
      /\ UNCHANGED <<eTags, nodeInfo, subs, tag, inbounds, limits, missed>>
  BY DEF RelayDown, Goto, TypeOK
<1>3. l \in Answered
  BY Whereabouts DEF TypeOK, Local, RelayDown, At
<1>4. /\ loc'[p].pc = w /\ loc'[p].info = l.info /\ loc'[p].list = l.list
      /\ loc'[p].infoNew = l.infoNew /\ loc'[p].listNew = l.listNew
  BY <1>2, <1>3 DEF Answered
<1>5. /\ RelaysFor(subs)'
      /\ IF l.infoNew \/ l.listNew THEN NoRelays' ELSE RelayRight'
  BY <1>1, <1>2, <1>3 DEF RelayDown, RelaysFor, NoRelays, RelayRight, TypeOK
<1>6. w \in {"rebuild", "adjust"}
      /\ (w = "rebuild" => l.infoNew) /\ (w = "adjust" /\ l.infoNew => ~Structural(nodeInfo, l.info))
  OBVIOUS
<1>7. Whole(nodeInfo, subs)' /\ Knows(l.info, l.list)'
  BY <1>1, <1>2, <1>4, Same DEF Whole
<1> HIDE DEF w, l
<1> QED
  BY <1>1, <1>2, <1>4, <1>5, <1>6, <1>7 DEF Follows, l

LEMMA RebuildFollows ==
    ASSUME TypeOK, NEW p \in Syncers, Follows(loc[p]), Rebuild(p)
    PROVE  Follows(loc[p])'
<1>1. /\ Whole(nodeInfo, subs) /\ tag = Tag(nodeInfo) /\ NoRelays
      /\ Knows(loc[p].info, loc[p].list)
  BY DEF Rebuild, At, Follows
<1>2. tag \in DOMAIN inbounds /\ DOMAIN inbounds = {tag} /\ OldLimits(tag)
  <2>1. \E built, users : inbounds = Inbound(tag, built, users)
    BY <1>1 DEF Whole, Up
  <2>2. DOMAIN inbounds = {tag}
    BY <2>1 DEF Inbound
  <2>3. OldLimits(tag)
    BY <1>1 DEF Whole, Up, OldLimits
  <2> QED
    BY <2>2, <2>3
<1>3. /\ loc'[p] = [pc |-> "adopt", info |-> loc[p].info, list |-> loc[p].list,
                    oldTag |-> tag, next |-> "addTag"]
      /\ inbounds' = Drop(inbounds, {tag})
      /\ UNCHANGED <<eTags, nodeInfo, subs, tag, relayOn, relays, limits, missed>>
  BY <1>2 DEF Rebuild, TypeOK, ctrl
<1>4. loc'[p].pc = "adopt" /\ loc'[p].oldTag = tag /\ loc'[p].info = loc[p].info
      /\ loc'[p].list = loc[p].list
  BY <1>3
<1>5. NoInbound'
  <2>1. DOMAIN Drop(inbounds, {tag}) = DOMAIN inbounds \ {tag}
    BY DropDomain
  <2> QED
    BY <1>2, <1>3, <2>1 DEF NoInbound
<1>6. OldLimits(tag)' /\ NoRelays' /\ Knows(loc[p].info, loc[p].list)'
  BY <1>1, <1>2, <1>3, <1>4, Same
<1> QED
  BY <1>1, <1>3, <1>4, <1>5, <1>6 DEF Follows

LEMMA AdoptFollows ==
    ASSUME TypeOK, NEW p \in Syncers, Follows(loc[p]), Adopt(p)
    PROVE  Follows(loc[p])'
<1>1. /\ NoInbound /\ OldLimits(loc[p].oldTag) /\ NoRelays
      /\ Knows(loc[p].info, loc[p].list)
  BY DEF Adopt, At, Follows
<1>2. loc[p] \in Rebuilt
  BY Whereabouts DEF TypeOK, Local, Adopt, At
<1>3. /\ loc'[p].pc = (IF loc[p].info.relay THEN "relayUp" ELSE "addTag")
      /\ loc'[p].next = "addTag"
      /\ loc'[p].info = loc[p].info /\ loc'[p].list = loc[p].list
      /\ loc'[p].oldTag = loc[p].oldTag
  BY <1>2 DEF Adopt, Goto, TypeOK, Rebuilt
<1>4. /\ nodeInfo' = loc[p].info /\ tag' = Tag(nodeInfo')
      /\ UNCHANGED <<eTags, subs, relayOn, relays, inbounds, limits>>
      /\ missed'.email = missed.email /\ missed'.uuid = missed.uuid
  BY DEF Adopt, core, TypeOK
<1>5. /\ NoInbound' /\ NoRelays'
      /\ Knows(nodeInfo, loc[p].list)' /\ RelaysFor(loc[p].list)'
  BY <1>1, <1>3, <1>4, Same, ForNoRelays DEF NoInbound, NoRelays, RelaysFor, Knows
<1>6. OldLimits(loc[p].oldTag)'
  BY <1>1, <1>3, <1>4 DEF OldLimits, LimitedOn
<1>7. loc'[p].pc # "relayUp" => RelayRight'
  <2> SUFFICES ASSUME loc'[p].pc # "relayUp" PROVE RelayRight'
    OBVIOUS
  <2>1. loc[p].info.relay = FALSE
    BY <1>2, <1>3, NodeSyncAssumption DEF Rebuilt
  <2>2. relayOn' = FALSE
    BY <1>1, <1>4 DEF NoRelays, TypeOK
  <2> QED
    BY <1>4, <2>1, <2>2 DEF RelayRight
<1> QED
  BY <1>3, <1>4, <1>5, <1>6, <1>7 DEF Follows

LEMMA RelayUpFollows ==
    ASSUME TypeOK, ~setting.fail, NEW p \in Syncers, Follows(loc[p]), RelayUp(p)
    PROVE  Follows(loc[p])'
<1> DEFINE l == loc[p]
<1>1. /\ NoRelays /\ Knows(nodeInfo, l.list) /\ l.info = nodeInfo /\ tag = Tag(nodeInfo)
      /\ nodeInfo.relay
      /\ l.next = "addTag" => NoInbound /\ OldLimits(l.oldTag)
      /\ l.next = "compare" => Whole(nodeInfo, subs)
  BY DEF RelayUp, At, Follows
<1>2. l \in Rebuilt \/ l \in Adjusted
  BY Whereabouts DEF TypeOK, Local, RelayUp, At
<1>3. /\ relays' = DOMAIN l.list /\ relayOn' = TRUE
      /\ loc' = [loc EXCEPT ![p].pc = l.next]
      /\ UNCHANGED <<eTags, nodeInfo, subs, tag, inbounds, limits, missed>>
  BY <1>1 DEF RelayUp, RelaysAdded, Goto, NoRelays
<1>4. /\ loc'[p].pc = l.next /\ loc'[p].next = l.next
      /\ loc'[p].info = l.info /\ loc'[p].list = l.list
      /\ l.next = "addTag" => loc'[p].oldTag = l.oldTag
      /\ l.next \in {"addTag", "compare"}
  BY <1>2, <1>3 DEF TypeOK, Rebuilt, Adjusted
<1>5. RelaysFor(l.list)' /\ Knows(nodeInfo, l.list)'
  BY <1>1, <1>3, <1>4 DEF RelaysFor, Knows
<1>6. /\ l.next = "addTag" => NoInbound' /\ OldLimits(l.oldTag)'
      /\ l.next = "compare" => Whole(nodeInfo, subs)'
  BY <1>1, <1>3, <1>4, Same DEF NoInbound, Whole
<1>7. RelayRight'
  <2>1. nodeInfo.relay = TRUE
    BY <1>1, NodeSyncAssumption DEF TypeOK
  <2> QED
    BY <1>3, <2>1 DEF RelayRight
<1> HIDE DEF l
<1> QED
  BY <1>1, <1>3, <1>4, <1>5, <1>6, <1>7 DEF Follows, l

(* The core's and the limiter's maps of one tag, after an edit.             *)
LEMMA EditUsers ==
    ASSUME NEW t, NEW a, NEW old, NEW new
    PROVE  [Inbound(t, a, old) EXCEPT ![t].users = new] = Inbound(t, a, new)
BY DEF Inbound

LEMMA EditSubs ==
    ASSUME NEW t, NEW a, NEW old, NEW new
    PROVE  [Limiting(t, a, old) EXCEPT ![t].subs = new] = Limiting(t, a, new)
BY DEF Limiting

LEMMA EditSpeed ==
    ASSUME NEW t, NEW old, NEW new, NEW users
    PROVE  [Limiting(t, old, users) EXCEPT ![t].speed = new] = Limiting(t, new, users)
BY DEF Limiting

LEMMA Maps ==
    /\ \A f, g : IsMap(Put(f, g))
    /\ \A f, S : IsMap(Drop(f, S))
    /\ \A list : IsMap(Users(list)) /\ IsMap(Plans(list))
BY DEF IsMap, Put, Drop, Restrict, Users, Plans

LEMMA NothingToDo ==
    /\ \A f : IsMap(f) => Put(f, <<>>) = f /\ Drop(f, {}) = f
    /\ \A g : IsMap(g) => Put(<<>>, g) = g
    /\ DOMAIN <<>> = {}
BY DEF IsMap, Put, Drop, Restrict

LEMMA AddTagFollows ==
    ASSUME TypeOK, ~setting.fail, NEW p \in Syncers, Follows(loc[p]), AddTag(p)
    PROVE  Follows(loc[p])'
<1> DEFINE l == loc[p]
<1>1. /\ NoInbound /\ OldLimits(l.oldTag) /\ RelaysFor(l.list) /\ RelayRight
      /\ Knows(nodeInfo, l.list) /\ l.info = nodeInfo /\ tag = Tag(nodeInfo)
  BY DEF AddTag, At, Follows
<1>2. l \in Rebuilt
  BY Whereabouts DEF TypeOK, Local, AddTag, At
<1>3. /\ inbounds' = Inbound(tag, l.info, <<>>)
      /\ loc' = [loc EXCEPT ![p].pc = "addUsers"]
      /\ UNCHANGED <<eTags, nodeInfo, subs, tag, relayOn, relays, limits, missed>>
  <2>1. tag \notin DOMAIN inbounds
    BY <1>1 DEF NoInbound
  <2>2. ~InboundAdded(l.info, FALSE)
    BY <2>1 DEF InboundAdded
  <2>3. /\ InboundAdded(l.info, TRUE) /\ Goto(p, "addUsers")
        /\ UNCHANGED <<eTags, nodeInfo, subs, tag, relayOn, relays, limits, missed>>
    BY <2>2 DEF AddTag, ctrl
  <2>4. inbounds' = Put(inbounds, [t \in {tag} |-> [info |-> l.info, users |-> <<>>]])
    BY <2>3 DEF InboundAdded
  <2>5. inbounds' = Inbound(tag, l.info, <<>>)
    BY <1>1, <2>4 DEF NoInbound, Put, Inbound
  <2> QED
    BY <2>3, <2>5 DEF Goto
<1>4. /\ loc'[p].pc = "addUsers" /\ loc'[p].info = l.info /\ loc'[p].list = l.list
      /\ loc'[p].oldTag = l.oldTag
  BY <1>2, <1>3 DEF TypeOK, Rebuilt
<1>5. RelaysFor(l.list)' /\ Knows(nodeInfo, l.list)' /\ RelayRight'
  BY <1>1, <1>3, <1>4 DEF RelaysFor, Knows, RelayRight
<1>6. OldLimits(l.oldTag)'
  BY <1>1, <1>3, <1>4 DEF OldLimits, LimitedOn
<1> HIDE DEF l
<1> QED
  BY <1>1, <1>3, <1>4, <1>5, <1>6 DEF Follows, l

LEMMA AddUsersFollows ==
    ASSUME TypeOK, ~setting.fail, NEW p \in Syncers, Follows(loc[p]), AddUsers(p)
    PROVE  Follows(loc[p])'
<1> DEFINE l == loc[p]
<1>1. /\ inbounds = Inbound(tag, l.info, <<>>) /\ OldLimits(l.oldTag) /\ RelaysFor(l.list)
      /\ Knows(nodeInfo, l.list) /\ l.info = nodeInfo /\ tag = Tag(nodeInfo) /\ RelayRight
  BY DEF AddUsers, At, Follows
<1>2. l \in Rebuilt
  BY Whereabouts DEF TypeOK, Local, AddUsers, At
<1>3. /\ tag \in DOMAIN inbounds /\ inbounds[tag].users = <<>>
      /\ DOMAIN Users(l.list) \cap DOMAIN inbounds[tag].users = {}
  <2>1. tag \in DOMAIN inbounds /\ inbounds[tag].users = <<>>
    BY <1>1 DEF Inbound
  <2> QED
    BY <2>1, NothingToDo
<1>4. inbounds' = Inbound(tag, l.info, Users(l.list))
  <2>1. inbounds' = [inbounds EXCEPT ![tag].users = Put(@, Users(l.list))]
    BY <1>3 DEF AddUsers, UsersAdded
  <2>2. inbounds' = [inbounds EXCEPT ![tag].users = Users(l.list)]
    BY <1>3, <2>1, Maps, NothingToDo
  <2> QED
    BY <1>1, <2>2, EditUsers
<1>5. /\ loc' = [loc EXCEPT ![p].pc = "limiter"]
      /\ UNCHANGED <<eTags, nodeInfo, subs, tag, relayOn, relays, limits>>
      /\ missed'.email = missed.email /\ missed'.relay = missed.relay
  BY DEF AddUsers, Goto, ctrl, TypeOK
<1>6. /\ loc'[p].pc = "limiter" /\ loc'[p].info = l.info /\ loc'[p].list = l.list
      /\ loc'[p].oldTag = l.oldTag
  BY <1>2, <1>5 DEF TypeOK, Rebuilt
<1>7. RelaysFor(l.list)' /\ Knows(nodeInfo, l.list)' /\ RelayRight'
  BY <1>1, <1>5, <1>6 DEF RelaysFor, Knows, RelayRight
<1>8. OldLimits(l.oldTag)'
  BY <1>1, <1>5, <1>6 DEF OldLimits, LimitedOn
<1> HIDE DEF l
<1> QED
  BY <1>1, <1>4, <1>5, <1>6, <1>7, <1>8 DEF Follows, l

(* The limiter's entries after the differences are applied to them.         *)
LEMMA PlansApply ==
    ASSUME NEW old \in Lists, NEW new \in Lists, ~Renamed(old, new), NEW plans,
           LimitedOn(plans, old, DOMAIN old, DOMAIN old)
    PROVE  LimitedOn(Put(Put(Drop(plans, Emails(Deleted(old, new))),
                             Plans(Added(old, new))),
                         Plans(Modified(old, new))),
                     new, DOMAIN new, DOMAIN new)
<1> DEFINE u == Drop(plans, Emails(Deleted(old, new)))
           v == Put(u, Plans(Added(old, new)))
           w == Put(v, Plans(Modified(old, new)))
           more == Added(old, new)
           mod == Modified(old, new)
           New == DOMAIN new \ DOMAIN old
           K == Kept(old, new)
           M == ModifiedIds(old, new)
<1>1. Distinct(old) /\ Distinct(new)
  BY ListsDistinct
<1>2. /\ DOMAIN plans = Emails(old)
      /\ \A i \in DOMAIN old : plans[old[i].email] = old[i].plan
  BY DEF LimitedOn, EmailsOf, Emails
<1>3. /\ DOMAIN u = EmailsOf(new, K)
      /\ \A i \in K : u[new[i].email] = plans[old[i].email]
  BY <1>1, <1>2, DropGone
<1>4. /\ DOMAIN Plans(more) = EmailsOf(new, New)
      /\ \A i \in New : Plans(more)[new[i].email] = new[i].plan
  <2>1. PICK m : m = more
    OBVIOUS
  <2> HIDE DEF more
  <2>2. /\ DOMAIN Plans(m) = EmailsOf(new, New)
        /\ \A i \in New : Plans(m)[new[i].email] = new[i].plan
    BY <1>1, <2>1, AddedEntries DEF more
  <2> QED
    BY <2>1, <2>2
<1>5. /\ DOMAIN Plans(mod) = EmailsOf(new, M)
      /\ \A i \in M : Plans(mod)[new[i].email] = new[i].plan
  <2>1. PICK m : m = mod
    OBVIOUS
  <2> HIDE DEF mod
  <2>2. /\ DOMAIN Plans(m) = EmailsOf(new, M)
        /\ \A i \in M : Plans(m)[new[i].email] = new[i].plan
    <3>1. m = Modified(old, new) /\ Distinct(new)
      BY <1>1, <2>1 DEF mod
    <3>2. DOMAIN Plans(m) = EmailsOf(new, ModifiedIds(old, new))
      BY <3>1, ModifiedEntries
    <3>3. \A i \in ModifiedIds(old, new) : Plans(m)[new[i].email] = new[i].plan
      BY <3>1, ModifiedEntries
    <3> QED
      BY <3>2, <3>3
  <2> QED
    BY <2>1, <2>2
<1>6. /\ K \in SUBSET DOMAIN new /\ New \in SUBSET DOMAIN new /\ K \cap New = {}
      /\ K \cup New = DOMAIN new /\ M \in SUBSET DOMAIN new /\ K \subseteq DOMAIN old
  BY Parts
<1> HIDE DEF u
<1>7. /\ DOMAIN v = EmailsOf(new, DOMAIN new)
      /\ \A i \in K : v[new[i].email] = u[new[i].email]
      /\ \A i \in New : v[new[i].email] = Plans(more)[new[i].email]
  <2> HIDE DEF K, New, M
  <2> QED
    BY <1>1, <1>3, <1>4, <1>6, PutOthers
<1> HIDE DEF v
<1>8. /\ DOMAIN w = EmailsOf(new, DOMAIN new)
      /\ \A i \in DOMAIN new \ M : w[new[i].email] = v[new[i].email]
      /\ \A i \in M : w[new[i].email] = Plans(mod)[new[i].email]
  <2> HIDE DEF M
  <2> QED
    BY <1>1, <1>5, <1>6, <1>7, PutOver
<1>9. ASSUME NEW i \in DOMAIN new PROVE w[new[i].email] = new[i].plan
  <2>1. CASE i \in M
    BY <1>5, <1>8, <2>1
  <2>2. CASE i \in New
    <3>1. i \notin M
      BY <2>2, Parts DEF Kept
    <3> QED
      BY <1>4, <1>7, <1>8, <2>2, <3>1
  <2>3. CASE i \in K \ M
    <3>1. old[i].plan = new[i].plan /\ i \in DOMAIN old /\ i \in K /\ i \in DOMAIN new \ M
      BY <2>3, Parts DEF ModifiedIds
    <3> HIDE DEF M, K, New, w
    <3>2. w[new[i].email] = v[new[i].email]
      BY <1>8, <3>1
    <3>3. v[new[i].email] = plans[old[i].email]
      BY <1>3, <1>7, <3>1
    <3> QED
      BY <1>2, <3>1, <3>2, <3>3
  <2> QED
    BY <1>6, <2>1, <2>2, <2>3
<1>10. IsMap(w)
  BY Maps
<1> QED
  BY <1>8, <1>9, <1>10 DEF LimitedOn, u, v

LEMMA LimiterFollows ==
    ASSUME TypeOK, ~setting.fail, NEW p \in Syncers, Follows(loc[p]), Limiter(p)
    PROVE  Follows(loc[p])'
<1> DEFINE l == loc[p]
<1>1. /\ inbounds = Inbound(tag, l.info, Users(l.list)) /\ OldLimits(l.oldTag)
      /\ RelaysFor(l.list) /\ Knows(nodeInfo, l.list) /\ RelayRight
      /\ l.info = nodeInfo /\ tag = Tag(nodeInfo)
  BY DEF Limiter, At, Follows
<1>2. l \in Rebuilt /\ l.list \in Lists /\ subs \in Lists
  BY Whereabouts DEF TypeOK, Local, Limiter, At, Rebuilt
<1>3. PICK speed, plans : /\ limits = Limiting(l.oldTag, speed, plans)
                          /\ missed.email \/ LimitedOn(plans, subs, DOMAIN subs, DOMAIN subs)
  BY <1>1 DEF OldLimits
<1>4. /\ loc' = [loc EXCEPT ![p].pc = "end"]
      /\ UNCHANGED <<eTags, nodeInfo, subs, tag, relayOn, relays, inbounds>>
      /\ missed'.uuid = missed.uuid /\ missed'.relay = missed.relay
      /\ missed'.email = (l.oldTag = tag /\ (missed.email \/ Renamed(subs, l.list)))
  BY DEF Limiter, Goto, core, TypeOK
<1>5. /\ loc'[p].pc = "end" /\ loc'[p].list = l.list
  BY <1>2, <1>4 DEF TypeOK, Rebuilt
<1>6. Distinct(l.list)
  BY <1>2, ListsDistinct
<1>7. \E q : /\ limits' = Limiting(tag, l.info.speed, q)
             /\ missed'.email \/ LimitedOn(q, l.list, DOMAIN l.list, DOMAIN l.list)
  <2>1. CASE l.oldTag # tag
    <3>1. limits' = Put(Drop(limits, {l.oldTag}),
                        [t \in {tag} |-> [speed |-> l.info.speed, subs |-> Plans(l.list)]])
      BY <2>1 DEF Limiter
    <3>2. DOMAIN Drop(limits, {l.oldTag}) = {}
      <4>1. DOMAIN limits = {l.oldTag}
        BY <1>3 DEF Limiting
      <4> QED
        BY <4>1, DropDomain
    <3>3. limits' = Limiting(tag, l.info.speed, Plans(l.list))
      BY <3>1, <3>2 DEF Put, Limiting
    <3>4. LimitedOn(Plans(l.list), l.list, DOMAIN l.list, DOMAIN l.list)
      BY <1>6, EntryAt, EntryDomains, Maps DEF LimitedOn, EmailsOf, Emails
    <3> QED
      BY <3>3, <3>4
  <2>2. CASE l.oldTag = tag
    <3> DEFINE gone == Emails(Deleted(subs, l.list))
               more == Plans(Added(subs, l.list))
               mod == Plans(Modified(subs, l.list))
               q == Put(Put(Drop(plans, gone), more), mod)
    <3>1. tag \in DOMAIN limits /\ limits[tag] = [speed |-> speed, subs |-> plans]
      BY <1>3, <2>2 DEF Limiting
    <3>2. limits' = [limits EXCEPT ![tag] =
                       Store(Store(Forget([@ EXCEPT !.speed = l.info.speed], gone), more), mod)]
      BY <2>2, <3>1 DEF Limiter
    <3> HIDE DEF gone, more, mod
    <3>3. Forget([limits[tag] EXCEPT !.speed = l.info.speed], gone)
            = [speed |-> l.info.speed, subs |-> Drop(plans, gone)]
      <4>1. [limits[tag] EXCEPT !.speed = l.info.speed]
              = [speed |-> l.info.speed, subs |-> plans]
        BY <3>1
      <4>2. \A speeds, users, emails :
               Forget([speed |-> speeds, subs |-> users], emails)
                 = [speed |-> speeds, subs |-> Drop(users, emails)]
        BY DEF Forget
      <4> QED
        BY <4>1, <4>2
    <3>4. \A speeds, users, others :
             Store([speed |-> speeds, subs |-> users], others)
               = [speed |-> speeds, subs |-> Put(users, others)]
      BY DEF Store
    <3>5. Store(Store([speed |-> l.info.speed, subs |-> Drop(plans, gone)], more), mod)
            = [speed |-> l.info.speed, subs |-> q]
      BY <3>4
    <3>6. limits' = [limits EXCEPT ![tag] = [speed |-> l.info.speed, subs |-> q]]
      BY <3>2, <3>3, <3>5
    <3>7. limits' = Limiting(tag, l.info.speed, q)
      <4> HIDE DEF q
      <4> QED
        BY <1>3, <2>2, <3>6 DEF Limiting
    <3>8. ~missed'.email => LimitedOn(q, l.list, DOMAIN l.list, DOMAIN l.list)
      <4> SUFFICES ASSUME ~missed'.email
                   PROVE  LimitedOn(q, l.list, DOMAIN l.list, DOMAIN l.list)
        OBVIOUS
      <4>1. ~missed.email /\ ~Renamed(subs, l.list)
        BY <1>4, <2>2
      <4> QED
        BY <1>2, <1>3, <4>1, PlansApply DEF gone, more, mod
    <3> QED
      BY <3>7, <3>8
  <2> QED
    BY <2>1, <2>2
<1>8. AdmitsOn(Users(l.list), l.list, DOMAIN l.list, DOMAIN l.list)'
  <2>1. \A i \in DOMAIN l.list :
           /\ Users(l.list)[l.list[i].email].plan = l.list[i].plan
           /\ Users(l.list)[l.list[i].email].uuid = l.list[i].uuid
    BY <1>6, EntryAt
  <2>2. DOMAIN Users(l.list) = EmailsOf(l.list, DOMAIN l.list) /\ IsMap(Users(l.list))
    BY EntryDomains, Maps DEF EmailsOf, Emails
  <2> HIDE DEF l
  <2>3. \A users, list :
           /\ DOMAIN users = EmailsOf(list, DOMAIN list) /\ IsMap(users)
           /\ \A i \in DOMAIN list : /\ users[list[i].email].plan = list[i].plan
                                     /\ users[list[i].email].uuid = list[i].uuid
           => /\ IsMap(users) /\ DOMAIN users = EmailsOf(list, DOMAIN list)
              /\ \A i \in DOMAIN list :
                    /\ users[list[i].email].plan = list[i].plan
                    /\ i \notin missed'.uuid => users[list[i].email].uuid = list[i].uuid
    OBVIOUS
  <2> QED
    BY <1>5, <2>1, <2>2, <2>3 DEF AdmitsOn, l
<1>9. Whole(nodeInfo, l.list)'
  <2>1. nodeInfo' \in NodeInfos /\ ~Structural(nodeInfo', nodeInfo')
    BY <1>4 DEF TypeOK, Structural
  <2>2. inbounds' = Inbound(Tag(nodeInfo'), nodeInfo', Users(l.list))
    BY <1>1, <1>4
  <2>3. PICK q : /\ limits' = Limiting(Tag(nodeInfo'), nodeInfo'.speed, q)
                 /\ missed'.email \/ LimitedOn(q, l.list, DOMAIN l.list, DOMAIN l.list)
    BY <1>1, <1>4, <1>7
  <2>4. loc'[p].list = l.list
    BY <1>5
  <2>5. AdmitsOn(Users(loc[p].list), loc[p].list, DOMAIN loc[p].list, DOMAIN loc[p].list)'
    BY <1>8
  <2>6. missed'.email \/ LimitedOn(q, loc'[p].list, DOMAIN loc'[p].list, DOMAIN loc'[p].list)
    BY <2>3, <2>4
  <2>7. inbounds' = Inbound(Tag(nodeInfo'), nodeInfo', Users(loc'[p].list))
    BY <2>2, <2>4
  <2> HIDE DEF l
  <2> QED
    BY <2>1, <2>3, <2>5, <2>6, <2>7 DEF Whole, Up, LimitedOn, l
<1>10. RelaysFor(l.list)' /\ Knows(nodeInfo, l.list)' /\ RelayRight'
  BY <1>1, <1>4, <1>5 DEF RelaysFor, Knows, RelayRight
<1> HIDE DEF l
<1> QED
  BY <1>1, <1>4, <1>5, <1>9, <1>10 DEF Follows, l

LEMMA AdjustFollows ==
    ASSUME TypeOK, NEW p \in Syncers, Follows(loc[p]), Adjust(p)
    PROVE  Follows(loc[p])'
<1> DEFINE l == loc[p]
           w == IF ~l.listNew THEN "end"
                ELSE IF l.info.relay /\ ~relayOn THEN "relayUp" ELSE "compare"
<1>1. /\ Whole(nodeInfo, subs) /\ RelaysFor(subs) /\ tag = Tag(nodeInfo)
      /\ Knows(l.info, l.list)
      /\ l.infoNew \/ l.info = nodeInfo
      /\ l.listNew \/ l.list = subs
      /\ IF l.infoNew \/ l.listNew THEN NoRelays ELSE RelayRight
      /\ l.infoNew => ~Structural(nodeInfo, l.info)
  BY DEF Adjust, At, Follows
<1>2. l \in Answered
  BY Whereabouts DEF TypeOK, Local, Adjust, At
<1>3. /\ loc'[p] = [pc |-> w, info |-> l.info, list |-> l.list, next |-> "compare"]
      /\ UNCHANGED <<eTags, subs, tag, relayOn, relays, inbounds>>
      /\ missed'.uuid = missed.uuid /\ missed'.email = missed.email
      /\ missed'.relay = (~l.listNew /\ (missed.relay \/ (l.infoNew /\ l.info.relay)))
  BY DEF Adjust, TypeOK, core
<1>4. /\ loc'[p].pc = w /\ loc'[p].info = l.info /\ loc'[p].list = l.list
      /\ loc'[p].next = "compare"
  BY <1>3
<1>5. nodeInfo' = l.info
  BY <1>1 DEF Adjust
<1>6. tag' = Tag(nodeInfo')
  BY <1>1, <1>3, <1>5 DEF Structural, Tag
<1>7. Whole(nodeInfo, subs)'
  <2>1. PICK built \in NodeInfos : \E users, plans :
           /\ ~Structural(built, nodeInfo)
           /\ inbounds = Inbound(Tag(nodeInfo), built, users)
           /\ limits = Limiting(Tag(nodeInfo), nodeInfo.speed, plans)
           /\ missed.email \/ AdmitsOn(users, subs, DOMAIN subs, DOMAIN subs)
           /\ missed.email \/ LimitedOn(plans, subs, DOMAIN subs, DOMAIN subs)
    BY <1>1 DEF Whole, Up
  <2>2. PICK users, plans :
           /\ ~Structural(built, nodeInfo)
           /\ inbounds = Inbound(tag, built, users)
           /\ limits = Limiting(tag, nodeInfo.speed, plans)
           /\ missed.email \/ AdmitsOn(users, subs, DOMAIN subs, DOMAIN subs)
           /\ missed.email \/ LimitedOn(plans, subs, DOMAIN subs, DOMAIN subs)
    BY <1>1, <2>1
  <2>3. ~Structural(built, nodeInfo')
    BY <1>1, <1>5, <2>2 DEF Structural
  <2>4. limits' = Limiting(tag, nodeInfo'.speed, plans)
    <3>1. CASE l.infoNew
      <4>1. tag \in DOMAIN limits
        BY <2>2 DEF Limiting
      <4>2. limits' = [limits EXCEPT ![tag].speed = l.info.speed]
        BY <3>1, <4>1 DEF Adjust
      <4> QED
        BY <1>5, <2>2, <4>2, EditSpeed
    <3>2. CASE ~l.infoNew
      BY <1>1, <1>5, <2>2, <3>2 DEF Adjust
    <3> QED
      BY <3>1, <3>2
  <2>5. (missed.email \/ AdmitsOn(users, subs, DOMAIN subs, DOMAIN subs))'
    BY <1>3, <2>2 DEF AdmitsOn
  <2>6. (missed.email \/ LimitedOn(plans, subs, DOMAIN subs, DOMAIN subs))'
    BY <1>3, <2>2 DEF LimitedOn
  <2>7. inbounds' = Inbound(tag', built, users)
    BY <1>3, <2>2
  <2> QED
    BY <1>3, <1>6, <2>3, <2>4, <2>5, <2>6, <2>7 DEF Whole, Up
<1>8. Knows(nodeInfo, l.list)' /\ RelaysFor(subs)'
  BY <1>1, <1>3, <1>4, <1>5 DEF Knows, RelaysFor
<1>9. l.listNew => NoRelays' /\ RelaysFor(l.list)'
  BY <1>1, <1>3, <1>4 DEF NoRelays, RelaysFor
<1>10. /\ w \in {"end", "relayUp", "compare"}
       /\ w = "end" => l.list = subs
       /\ w # "end" => l.listNew
       /\ w = "relayUp" => l.info.relay
  BY <1>1
<1>11. w # "relayUp" => RelayRight'
  <2>1. l.info.relay \in BOOLEAN /\ relayOn \in BOOLEAN
    BY <1>2, NodeSyncAssumption DEF Answered, TypeOK
  <2>2. CASE l.listNew
    <3>1. relayOn = FALSE
      BY <1>1, <2>1, <2>2 DEF NoRelays
    <3>2. w # "relayUp" => l.info.relay = FALSE
      BY <2>1, <2>2, <3>1
    <3> QED
      BY <1>3, <1>5, <3>1, <3>2 DEF RelayRight
  <2>3. CASE ~l.listNew /\ l.infoNew
    <3>1. relayOn = FALSE
      BY <1>1, <2>1, <2>3 DEF NoRelays
    <3>2. missed'.relay \/ l.info.relay = FALSE
      BY <1>3, <2>1, <2>3
    <3> QED
      BY <1>3, <1>5, <3>1, <3>2 DEF RelayRight
  <2>4. CASE ~l.listNew /\ ~l.infoNew
    BY <1>1, <1>3, <1>5, <2>4 DEF RelayRight
  <2> QED
    BY <2>2, <2>3, <2>4
<1> HIDE DEF w
<1>12. w = "end" => Whole(nodeInfo, l.list)' /\ RelaysFor(l.list)'
  <2> SUFFICES ASSUME w = "end" PROVE Whole(nodeInfo, l.list)' /\ RelaysFor(l.list)'
    OBVIOUS
  <2>1. loc'[p].list = subs'
    BY <1>3, <1>4, <1>10
  <2> QED
    BY <1>7, <1>8, <2>1
<1>13. w = "relayUp" => nodeInfo'.relay
  BY <1>5, <1>10
<1> HIDE DEF l
<1> QED
  BY <1>3, <1>4, <1>5, <1>6, <1>7, <1>8, <1>9, <1>10, <1>11, <1>12, <1>13 DEF Follows, l

-----------------------------------------------------------------------------
(* The four calls that apply the differences.  What each makes of the core  *)
(* and of the limiter, whatever they know ...                               *)

LEMMA CoreAdds ==
    ASSUME ~setting.fail, NEW built, NEW users, inbounds = Inbound(tag, built, users),
           NEW new, NEW ok \in BOOLEAN, UsersAdded(new, ok)
    PROVE  /\ \E u : inbounds' = Inbound(tag, built, u)
           /\ DOMAIN new \cap DOMAIN users = {} =>
                 ok /\ inbounds' = Inbound(tag, built, Put(users, new))
<1>1. tag \in DOMAIN inbounds /\ inbounds[tag].users = users
  BY DEF Inbound
<1>2. CASE ok
  <2>1. inbounds' = [inbounds EXCEPT ![tag].users = Put(@, new)]
    BY <1>1, <1>2 DEF UsersAdded
  <2>2. inbounds' = [inbounds EXCEPT ![tag].users = Put(users, new)]
    BY <1>1, <2>1
  <2>3. inbounds' = Inbound(tag, built, Put(users, new))
    BY <2>2, EditUsers
  <2> QED
    BY <1>2, <2>3
<1>3. CASE ~ok
  <2>1. DOMAIN new \cap DOMAIN users # {}
    BY <1>1, <1>3 DEF UsersAdded
  <2>2. PICK some : inbounds' = [inbounds EXCEPT ![tag].users = Put(@, Restrict(new, some))]
    BY <1>1, <1>3 DEF UsersAdded
  <2>3. inbounds' = [inbounds EXCEPT ![tag].users = Put(users, Restrict(new, some))]
    BY <1>1, <2>2
  <2>4. inbounds' = Inbound(tag, built, Put(users, Restrict(new, some)))
    BY <2>3, EditUsers
  <2> QED
    BY <2>1, <2>4
<1> QED
  BY <1>2, <1>3

LEMMA CoreRemoves ==
    ASSUME ~setting.fail, NEW built, NEW users, inbounds = Inbound(tag, built, users),
           NEW emails, NEW ok \in BOOLEAN, UsersRemoved(emails, ok)
    PROVE  /\ \E u : inbounds' = Inbound(tag, built, u)
           /\ emails \subseteq DOMAIN users =>
                 ok /\ inbounds' = Inbound(tag, built, Drop(users, emails))
<1>1. tag \in DOMAIN inbounds /\ inbounds[tag].users = users
  BY DEF Inbound
<1>2. CASE ok
  <2>1. inbounds' = [inbounds EXCEPT ![tag].users = Drop(@, emails)]
    BY <1>1, <1>2 DEF UsersRemoved
  <2>2. inbounds' = [inbounds EXCEPT ![tag].users = Drop(users, emails)]
    BY <1>1, <2>1
  <2>3. inbounds' = Inbound(tag, built, Drop(users, emails))
    BY <2>2, EditUsers
  <2> QED
    BY <1>2, <2>3
<1>3. CASE ~ok
  <2>1. ~(emails \subseteq DOMAIN users)
    BY <1>1, <1>3 DEF UsersRemoved
  <2>2. PICK some : inbounds' = [inbounds EXCEPT ![tag].users = Drop(@, some)]
    BY <1>1, <1>3 DEF UsersRemoved
  <2>3. inbounds' = [inbounds EXCEPT ![tag].users = Drop(users, some)]
    BY <1>1, <2>2
  <2>4. inbounds' = Inbound(tag, built, Drop(users, some))
    BY <2>3, EditUsers
  <2> QED
    BY <2>1, <2>4
<1> QED
  BY <1>2, <1>3

LEMMA LimiterStores ==
    ASSUME NEW speed, NEW plans, limits = Limiting(tag, speed, plans), NEW more,
           NEW ok \in BOOLEAN,
           limits' = IF ok /\ tag \in DOMAIN limits
                     THEN [limits EXCEPT ![tag] = Store(@, more)] ELSE limits
    PROVE  /\ \E q : limits' = Limiting(tag, speed, q)
           /\ ok => limits' = Limiting(tag, speed, Put(plans, more))
<1>1. tag \in DOMAIN limits /\ limits[tag].subs = plans
  BY DEF Limiting
<1>2. CASE ok
  <2>1. limits' = [limits EXCEPT ![tag].subs = Put(plans, more)]
    BY <1>1, <1>2 DEF Store
  <2>2. limits' = Limiting(tag, speed, Put(plans, more))
    BY <2>1, EditSubs
  <2> QED
    BY <2>2
<1>3. CASE ~ok
  BY <1>3
<1> QED
  BY <1>2, <1>3

LEMMA LimiterForgets ==
    ASSUME NEW speed, NEW plans, limits = Limiting(tag, speed, plans), NEW emails,
           NEW ok \in BOOLEAN,
           limits' = IF ok /\ tag \in DOMAIN limits
                     THEN [limits EXCEPT ![tag] = Forget(@, emails)] ELSE limits
    PROVE  /\ \E q : limits' = Limiting(tag, speed, q)
           /\ ok => limits' = Limiting(tag, speed, Drop(plans, emails))
<1>1. tag \in DOMAIN limits /\ limits[tag].subs = plans
  BY DEF Limiting
<1>2. CASE ok
  <2>1. limits' = [limits EXCEPT ![tag].subs = Drop(plans, emails)]
    BY <1>1, <1>2 DEF Forget
  <2>2. limits' = Limiting(tag, speed, Drop(plans, emails))
    BY <2>1, EditSubs
  <2> QED
    BY <2>2
<1>3. CASE ~ok
  BY <1>3
<1> QED
  BY <1>2, <1>3

(* ... and when they know what the previous list says: after each call they *)
(* know a part of the new one.                                              *)

LEMMA AfterDeletes ==
    ASSUME NEW old \in Lists, NEW new \in Lists, ~Renamed(old, new),
           NEW users, AdmitsOn(users, old, DOMAIN old, DOMAIN old),
           NEW plans, LimitedOn(plans, old, DOMAIN old, DOMAIN old),
           NEW gone, gone = Emails(Deleted(old, new)),
           missed'.uuid = Overlooked(old, new)
    PROVE  /\ gone \subseteq DOMAIN users
           /\ AdmitsOn(Drop(users, gone), new, Kept(old, new),
                       Kept(old, new) \ ModifiedIds(old, new))'
           /\ LimitedOn(Drop(plans, gone), new, Kept(old, new),
                        Kept(old, new) \ ModifiedIds(old, new))'
<1>1. Distinct(old) /\ Distinct(new)
  BY ListsDistinct
<1>2. DOMAIN users = Emails(old) /\ DOMAIN plans = Emails(old)
  BY DEF AdmitsOn, LimitedOn, EmailsOf, Emails
<1> DEFINE u == Drop(users, gone)  q == Drop(plans, gone)
<1>3. /\ gone \subseteq DOMAIN users
      /\ DOMAIN u = EmailsOf(new, Kept(old, new))
      /\ \A i \in Kept(old, new) : u[new[i].email] = users[old[i].email]
  BY <1>1, <1>2, DropGone
<1>4. /\ DOMAIN q = EmailsOf(new, Kept(old, new))
      /\ \A i \in Kept(old, new) : q[new[i].email] = plans[old[i].email]
  BY <1>1, <1>2, DropGone
<1>5. IsMap(u) /\ IsMap(q)
  BY Maps
<1> HIDE DEF u, q
<1>6. ASSUME NEW i \in Kept(old, new) \ ModifiedIds(old, new)
      PROVE  /\ i \in DOMAIN old /\ old[i].plan = new[i].plan
             /\ i \notin missed'.uuid => i \notin missed.uuid /\ old[i].uuid = new[i].uuid
  <2>1. i \in DOMAIN old /\ old[i].plan = new[i].plan
    BY <1>6 DEF Kept, ModifiedIds
  <2>2. i \in Kept(old, new) \ DOMAIN Modified(old, new)
    BY <1>6, Parts
  <2> QED
    BY <2>1, <2>2 DEF Overlooked
<1>7. \A i \in DOMAIN old :
         /\ users[old[i].email].plan = old[i].plan
         /\ i \notin missed.uuid => users[old[i].email].uuid = old[i].uuid
         /\ plans[old[i].email] = old[i].plan
  BY DEF AdmitsOn, LimitedOn
<1>8. \A i \in Kept(old, new) \ ModifiedIds(old, new) :
         /\ u[new[i].email].plan = new[i].plan
         /\ i \notin missed'.uuid => u[new[i].email].uuid = new[i].uuid
         /\ q[new[i].email] = new[i].plan
  BY <1>3, <1>4, <1>6, <1>7
<1>9. AdmitsOn(u, new, Kept(old, new), Kept(old, new) \ ModifiedIds(old, new))'
  BY <1>3, <1>5, <1>8 DEF AdmitsOn, u
<1>10. LimitedOn(q, new, Kept(old, new), Kept(old, new) \ ModifiedIds(old, new))'
  BY <1>4, <1>5, <1>8 DEF LimitedOn, q
<1> QED
  BY <1>3, <1>9, <1>10 DEF u, q

LEMMA AfterAdds ==
    ASSUME NEW old \in Lists, NEW new \in Lists,
           NEW users, AdmitsOn(users, new, Kept(old, new), Kept(old, new) \ ModifiedIds(old, new)),
           NEW plans, LimitedOn(plans, new, Kept(old, new), Kept(old, new) \ ModifiedIds(old, new)),
           NEW more, more = Added(old, new)
    PROVE  /\ DOMAIN Users(more) \cap DOMAIN users = {}
           /\ AdmitsOn(Put(users, Users(more)), new, DOMAIN new, Settled(old, new))
           /\ LimitedOn(Put(plans, Plans(more)), new, DOMAIN new, Settled(old, new))
<1> DEFINE K == Kept(old, new)
           M == ModifiedIds(old, new)
           New == DOMAIN new \ DOMAIN old
           u == Put(users, Users(more))  q == Put(plans, Plans(more))
<1>1. Distinct(new)
  BY ListsDistinct
<1>2. /\ DOMAIN Users(more) = EmailsOf(new, New)
      /\ DOMAIN Plans(more) = EmailsOf(new, New)
      /\ \A i \in New : /\ Users(more)[new[i].email].plan = new[i].plan
                        /\ Users(more)[new[i].email].uuid = new[i].uuid
                        /\ Plans(more)[new[i].email] = new[i].plan
  BY <1>1, AddedEntries
<1>3. /\ K \in SUBSET DOMAIN new /\ New \in SUBSET DOMAIN new /\ K \cap New = {}
      /\ K \cup New = DOMAIN new /\ M \subseteq K
  BY Parts
<1>4. /\ DOMAIN users = EmailsOf(new, K) /\ DOMAIN plans = EmailsOf(new, K)
      /\ \A i \in K \ M : /\ users[new[i].email].plan = new[i].plan
                          /\ i \notin missed.uuid => users[new[i].email].uuid = new[i].uuid
                          /\ plans[new[i].email] = new[i].plan
  BY DEF AdmitsOn, LimitedOn
<1> HIDE DEF K, New, M
<1>5. /\ DOMAIN Users(more) \cap DOMAIN users = {}
      /\ DOMAIN u = EmailsOf(new, DOMAIN new)
      /\ \A i \in K : u[new[i].email] = users[new[i].email]
      /\ \A i \in New : u[new[i].email] = Users(more)[new[i].email]
  BY <1>1, <1>2, <1>3, <1>4, PutOthers
<1>6. /\ DOMAIN q = EmailsOf(new, DOMAIN new)
      /\ \A i \in K : q[new[i].email] = plans[new[i].email]
      /\ \A i \in New : q[new[i].email] = Plans(more)[new[i].email]
  BY <1>1, <1>2, <1>3, <1>4, PutOthers
<1>7. IsMap(u) /\ IsMap(q)
  BY Maps
<1> HIDE DEF u, q
<1>8. ASSUME NEW i \in DOMAIN new \ M
      PROVE  /\ u[new[i].email].plan = new[i].plan
             /\ i \notin missed.uuid => u[new[i].email].uuid = new[i].uuid
             /\ q[new[i].email] = new[i].plan
  <2>1. CASE i \in New
    BY <1>2, <1>5, <1>6, <2>1
  <2>2. CASE i \in K \ M
    BY <1>4, <1>5, <1>6, <2>2
  <2> QED
    BY <1>3, <1>8, <2>1, <2>2
<1>9. AdmitsOn(u, new, DOMAIN new, DOMAIN new \ M)
  BY <1>5, <1>7, <1>8 DEF AdmitsOn
<1>10. LimitedOn(q, new, DOMAIN new, DOMAIN new \ M)
  BY <1>6, <1>7, <1>8 DEF LimitedOn
<1> QED
  BY <1>5, <1>9, <1>10 DEF Settled, M, u, q

LEMMA AfterRemoves ==
    ASSUME NEW old \in Lists, NEW new \in Lists,
           NEW users, AdmitsOn(users, new, DOMAIN new, Settled(old, new)),
           NEW plans, LimitedOn(plans, new, DOMAIN new, Settled(old, new)),
           NEW gone, gone = Emails(Modified(old, new))
    PROVE  /\ gone \subseteq DOMAIN users
           /\ AdmitsOn(Drop(users, gone), new, Settled(old, new), Settled(old, new))
           /\ LimitedOn(Drop(plans, gone), new, Settled(old, new), Settled(old, new))
<1> DEFINE M == ModifiedIds(old, new)
           u == Drop(users, gone)  q == Drop(plans, gone)
<1>1. Distinct(new)
  BY ListsDistinct
<1>2. gone = EmailsOf(new, M)
  BY <1>1, ModifiedEntries
<1>3. M \in SUBSET DOMAIN new
  BY Parts
<1>4. DOMAIN users = EmailsOf(new, DOMAIN new) /\ DOMAIN plans = EmailsOf(new, DOMAIN new)
  BY DEF AdmitsOn, LimitedOn
<1>5. Settled(old, new) = DOMAIN new \ M
  BY DEF Settled
<1> HIDE DEF M
<1>6. /\ gone \subseteq DOMAIN users
      /\ DOMAIN u = EmailsOf(new, DOMAIN new \ M)
      /\ \A i \in DOMAIN new \ M : u[new[i].email] = users[new[i].email]
  BY <1>1, <1>2, <1>3, <1>4, DropSome
<1>7. /\ DOMAIN q = EmailsOf(new, DOMAIN new \ M)
      /\ \A i \in DOMAIN new \ M : q[new[i].email] = plans[new[i].email]
  BY <1>1, <1>2, <1>3, <1>4, DropSome
<1>8. IsMap(u) /\ IsMap(q)
  BY Maps
<1> HIDE DEF u, q
<1>9. AdmitsOn(u, new, Settled(old, new), Settled(old, new))
  BY <1>5, <1>6, <1>8 DEF AdmitsOn
<1>10. LimitedOn(q, new, Settled(old, new), Settled(old, new))
  BY <1>5, <1>7, <1>8 DEF LimitedOn
<1> QED
  BY <1>6, <1>9, <1>10 DEF u, q

LEMMA AfterReadds ==
    ASSUME NEW old \in Lists, NEW new \in Lists,
           NEW users, AdmitsOn(users, new, Settled(old, new), Settled(old, new)),
           NEW plans, LimitedOn(plans, new, Settled(old, new), Settled(old, new)),
           NEW mod, mod = Modified(old, new)
    PROVE  /\ DOMAIN Users(mod) \cap DOMAIN users = {}
           /\ AdmitsOn(Put(users, Users(mod)), new, DOMAIN new, DOMAIN new)
           /\ LimitedOn(Put(plans, Plans(mod)), new, DOMAIN new, DOMAIN new)
<1> DEFINE S == Settled(old, new)
           M == ModifiedIds(old, new)
           u == Put(users, Users(mod))  q == Put(plans, Plans(mod))
<1>1. Distinct(new)
  BY ListsDistinct
<1>2. /\ DOMAIN Users(mod) = EmailsOf(new, M)
      /\ DOMAIN Plans(mod) = EmailsOf(new, M)
      /\ \A i \in M : /\ Users(mod)[new[i].email].plan = new[i].plan
                      /\ Users(mod)[new[i].email].uuid = new[i].uuid
                      /\ Plans(mod)[new[i].email] = new[i].plan
  BY <1>1, ModifiedEntries
<1>3. /\ S \in SUBSET DOMAIN new /\ M \in SUBSET DOMAIN new /\ S \cap M = {}
      /\ S \cup M = DOMAIN new
  BY Parts DEF Settled
<1>4. /\ DOMAIN users = EmailsOf(new, S) /\ DOMAIN plans = EmailsOf(new, S)
      /\ \A i \in S : /\ users[new[i].email].plan = new[i].plan
                      /\ i \notin missed.uuid => users[new[i].email].uuid = new[i].uuid
                      /\ plans[new[i].email] = new[i].plan
  BY DEF AdmitsOn, LimitedOn
<1> HIDE DEF S, M
<1>5. /\ DOMAIN Users(mod) \cap DOMAIN users = {}
      /\ DOMAIN u = EmailsOf(new, DOMAIN new)
      /\ \A i \in S : u[new[i].email] = users[new[i].email]
      /\ \A i \in M : u[new[i].email] = Users(mod)[new[i].email]
  <2>1. /\ S \in SUBSET DOMAIN new /\ M \in SUBSET DOMAIN new /\ S \cap M = {}
        /\ DOMAIN users = EmailsOf(new, S) /\ DOMAIN Users(mod) = EmailsOf(new, M)
    BY <1>2, <1>3, <1>4
  <2>2. /\ DOMAIN Users(mod) \cap DOMAIN users = {}
        /\ DOMAIN u = EmailsOf(new, S \cup M)
        /\ \A i \in S : u[new[i].email] = users[new[i].email]
        /\ \A i \in M : u[new[i].email] = Users(mod)[new[i].email]
    <3>1. PICK a : a = Users(mod)
      OBVIOUS
    <3>2. /\ DOMAIN a \cap DOMAIN users = {}
          /\ DOMAIN Put(users, a) = EmailsOf(new, S \cup M)
          /\ \A i \in S : Put(users, a)[new[i].email] = users[new[i].email]
          /\ \A i \in M : Put(users, a)[new[i].email] = a[new[i].email]
      BY <1>1, <2>1, <3>1, PutOthers
    <3> QED
      BY <3>1, <3>2 DEF u
  <2> QED
    BY <1>3, <2>2
<1>6. /\ DOMAIN q = EmailsOf(new, DOMAIN new)
      /\ \A i \in S : q[new[i].email] = plans[new[i].email]
      /\ \A i \in M : q[new[i].email] = Plans(mod)[new[i].email]
  <2>1. /\ S \in SUBSET DOMAIN new /\ M \in SUBSET DOMAIN new /\ S \cap M = {}
        /\ DOMAIN plans = EmailsOf(new, S) /\ DOMAIN Plans(mod) = EmailsOf(new, M)
    BY <1>2, <1>3, <1>4
  <2>2. /\ DOMAIN q = EmailsOf(new, S \cup M)
        /\ \A i \in S : q[new[i].email] = plans[new[i].email]
        /\ \A i \in M : q[new[i].email] = Plans(mod)[new[i].email]
    BY <1>1, <2>1, PutOthers
  <2> QED
    BY <1>3, <2>2
<1>7. IsMap(u) /\ IsMap(q)
  BY Maps
<1> HIDE DEF u, q
<1>8. ASSUME NEW i \in DOMAIN new
      PROVE  /\ u[new[i].email].plan = new[i].plan
             /\ i \notin missed.uuid => u[new[i].email].uuid = new[i].uuid
             /\ q[new[i].email] = new[i].plan
  <2>1. CASE i \in M
    BY <1>2, <1>5, <1>6, <2>1
  <2>2. CASE i \in S
    BY <1>4, <1>5, <1>6, <2>2
  <2> QED
    BY <1>3, <1>8, <2>1, <2>2
<1>9. AdmitsOn(u, new, DOMAIN new, DOMAIN new)
  BY <1>5, <1>7, <1>8 DEF AdmitsOn
<1>10. LimitedOn(q, new, DOMAIN new, DOMAIN new)
  BY <1>6, <1>7, <1>8 DEF LimitedOn
<1> QED
  BY <1>5, <1>9, <1>10 DEF u, q

LEMMA RemoveDeletedFollows ==
    ASSUME TypeOK, ~setting.fail,
           NEW p \in Syncers, Follows(loc[p]), RemoveDeleted(p)
    PROVE  Follows(loc[p])'
<1> DEFINE l == loc[p]
<1>1. /\ Whole(nodeInfo, subs) /\ RelaysFor(l.list) /\ RelayRight
      /\ Knows(nodeInfo, l.list) /\ tag = Tag(nodeInfo)
  BY DEF RemoveDeleted, At, Follows
<1>2. subs \in Lists /\ l.list \in Lists
  BY Whereabouts DEF TypeOK, Local, RemoveDeleted, At, Adjusted
<1>3. /\ loc'[p] = [pc |-> "add", list |-> l.list, old |-> subs]
      /\ UNCHANGED <<eTags, nodeInfo, subs, tag, relayOn, relays>>
      /\ missed'.relay = missed.relay
      /\ missed'.uuid = Overlooked(subs, l.list)
      /\ missed'.email = (missed.email \/ Renamed(subs, l.list))
  BY DEF RemoveDeleted, TypeOK, ctrl
<1>4. loc'[p].pc = "add" /\ loc'[p].list = l.list /\ loc'[p].old = subs
  BY <1>3
<1>5. PICK old, new : old = subs /\ new = l.list
  OBVIOUS
<1>6. Up(nodeInfo, new, Kept(old, new), Kept(old, new) \ ModifiedIds(old, new))'
  <2> DEFINE gone == Emails(Deleted(old, new))
  <2>1. PICK ok \in BOOLEAN :
           /\ \/ gone # {} /\ UsersRemoved(gone, ok)
              \/ gone = {} /\ ok /\ UNCHANGED inbounds
           /\ limits' = IF ok /\ tag \in DOMAIN limits
                        THEN [limits EXCEPT ![tag] = Forget(@, gone)]
                        ELSE limits
    BY <1>5 DEF RemoveDeleted
  <2>2. PICK built \in NodeInfos : \E users, plans :
           /\ ~Structural(built, nodeInfo)
           /\ inbounds = Inbound(tag, built, users)
           /\ limits = Limiting(tag, nodeInfo.speed, plans)
           /\ missed.email \/ AdmitsOn(users, old, DOMAIN old, DOMAIN old)
           /\ missed.email \/ LimitedOn(plans, old, DOMAIN old, DOMAIN old)
    BY <1>1, <1>5 DEF Whole, Up
  <2>3. PICK users, plans :
           /\ ~Structural(built, nodeInfo)
           /\ inbounds = Inbound(tag, built, users)
           /\ limits = Limiting(tag, nodeInfo.speed, plans)
           /\ missed.email \/ AdmitsOn(users, old, DOMAIN old, DOMAIN old)
           /\ missed.email \/ LimitedOn(plans, old, DOMAIN old, DOMAIN old)
    BY <2>2
  <2> DEFINE K == Kept(old, new)
             T == Kept(old, new) \ ModifiedIds(old, new)
  <2>4. ~missed'.email =>
           /\ gone \subseteq DOMAIN users
           /\ IsMap(users)
           /\ AdmitsOn(Drop(users, gone), new, K, T)'
           /\ LimitedOn(Drop(plans, gone), new, K, T)'
    <3> SUFFICES ASSUME ~missed'.email
                 PROVE  /\ gone \subseteq DOMAIN users
                        /\ IsMap(users)
                        /\ AdmitsOn(Drop(users, gone), new, K, T)'
                        /\ LimitedOn(Drop(plans, gone), new, K, T)'
      OBVIOUS
    <3>1. ~missed.email /\ ~Renamed(old, new)
      BY <1>3, <1>5
    <3>2. old \in Lists /\ new \in Lists /\ missed'.uuid = Overlooked(old, new)
      BY <1>2, <1>3, <1>5
    <3>3. IsMap(users)
      BY <2>3, <3>1 DEF AdmitsOn
    <3>4. AdmitsOn(users, old, DOMAIN old, DOMAIN old) /\ LimitedOn(plans, old, DOMAIN old, DOMAIN old)
      BY <2>3, <3>1
    <3> QED
      BY <3>1, <3>2, <3>3, <3>4, AfterDeletes
  <2> HIDE DEF gone, K, T
  <2>5. \E u : /\ inbounds' = Inbound(tag, built, u)
               /\ ~missed'.email => ok /\ u = Drop(users, gone)
    <3>1. CASE gone # {} /\ UsersRemoved(gone, ok)
      <4>1. /\ \E u : inbounds' = Inbound(tag, built, u)
            /\ gone \subseteq DOMAIN users =>
                  ok /\ inbounds' = Inbound(tag, built, Drop(users, gone))
        BY <2>3, <3>1, CoreRemoves
      <4> QED
        BY <2>4, <4>1
    <3>2. CASE gone = {} /\ ok /\ UNCHANGED inbounds
      <4>1. ~missed'.email => users = Drop(users, gone)
        BY <2>4, <3>2, NothingToDo
      <4> QED
        BY <2>3, <3>2, <4>1
    <3> QED
      BY <2>1, <3>1, <3>2
  <2>6. PICK u : /\ inbounds' = Inbound(tag, built, u)
                 /\ ~missed'.email => ok /\ u = Drop(users, gone)
    BY <2>5
  <2>7. /\ \E q : limits' = Limiting(tag, nodeInfo.speed, q)
        /\ ok => limits' = Limiting(tag, nodeInfo.speed, Drop(plans, gone))
    BY <2>1, <2>3, LimiterForgets
  <2>8. PICK q : /\ limits' = Limiting(tag, nodeInfo.speed, q)
                 /\ ~missed'.email => q = Drop(plans, gone)
    BY <2>6, <2>7
  <2>9. /\ (missed.email \/ AdmitsOn(u, new, K, T))'
        /\ (missed.email \/ LimitedOn(q, new, K, T))'
    BY <2>4, <2>6, <2>8
  <2>10. /\ inbounds' = Inbound(Tag(nodeInfo'), built, u)
         /\ limits' = Limiting(Tag(nodeInfo'), nodeInfo'.speed, q)
         /\ ~Structural(built, nodeInfo')
    BY <1>1, <1>3, <2>3, <2>6, <2>8
  <2> QED
    BY <2>9, <2>10 DEF Up, K, T
<1>7. RelaysFor(l.list)' /\ Knows(nodeInfo, l.list)' /\ RelayRight'
  BY <1>1, <1>3, <1>4 DEF RelaysFor, Knows, RelayRight
<1>8. old = loc'[p].old /\ new = loc'[p].list
  BY <1>4, <1>5
<1>9. Up(nodeInfo, loc[p].list, Kept(loc[p].old, loc[p].list),
         Kept(loc[p].old, loc[p].list) \ ModifiedIds(loc[p].old, loc[p].list))'
  BY <1>6, <1>8
<1>10. tag' = Tag(nodeInfo')
  BY <1>1, <1>3
<1> HIDE DEF l
<1> QED
  BY <1>4, <1>7, <1>9, <1>10 DEF Follows, l

\* What the three later calls start from.
LEMMA ComparingAt ==
    ASSUME TypeOK, NEW p \in Syncers, loc[p].pc \in {"add", "modify", "readd"}
    PROVE  /\ loc[p].list \in Lists /\ loc[p].old \in Lists
           /\ \A w : [loc[p] EXCEPT !.pc = w].pc = w
           /\ \A w : [loc[p] EXCEPT !.pc = w].list = loc[p].list
           /\ \A w : [loc[p] EXCEPT !.pc = w].old = loc[p].old
BY Whereabouts DEF TypeOK, Local, Comparing

\* A list without a member stands for no user.
LEMMA NoUsers ==
    \A list : list = <<>> => /\ DOMAIN Users(list) = {} /\ Users(list) = <<>>
                             /\ DOMAIN Plans(list) = {} /\ Plans(list) = <<>>
BY DEF Users, Plans, Emails

LEMMA AddAddedFollows ==
    ASSUME TypeOK, ~setting.fail, NEW p \in Syncers, Follows(loc[p]), AddAdded(p)
    PROVE  Follows(loc[p])'
<1> DEFINE l == loc[p]
<1>1. /\ Up(nodeInfo, l.list, Kept(l.old, l.list),
            Kept(l.old, l.list) \ ModifiedIds(l.old, l.list))
      /\ RelaysFor(l.list) /\ RelayRight
      /\ Knows(nodeInfo, l.list) /\ tag = Tag(nodeInfo)
  BY DEF AddAdded, At, Follows
<1>2. /\ loc'[p].pc = "modify" /\ loc'[p].list = l.list /\ loc'[p].old = l.old
      /\ UNCHANGED <<eTags, nodeInfo, subs, tag, relayOn, relays, missed>>
  BY ComparingAt DEF AddAdded, At, Goto, TypeOK, ctrl
<1>3. PICK old, new : old = l.old /\ new = l.list
  OBVIOUS
<1>4. old \in Lists /\ new \in Lists
  BY <1>3, ComparingAt DEF AddAdded, At
<1>5. Up(nodeInfo, new, DOMAIN new, Settled(old, new))'
  <2>1. PICK more : more = Added(old, new)
    OBVIOUS
  <2>2. PICK ok \in BOOLEAN :
           /\ \/ more # <<>> /\ UsersAdded(Users(more), ok)
              \/ more = <<>> /\ ok /\ UNCHANGED inbounds
           /\ limits' = IF ok /\ tag \in DOMAIN limits
                        THEN [limits EXCEPT ![tag] = Store(@, Plans(more))]
                        ELSE limits
    BY <1>3, <2>1 DEF AddAdded
  <2> DEFINE K == Kept(old, new)
             T == Kept(old, new) \ ModifiedIds(old, new)
             S == Settled(old, new)
  <2>3. PICK built \in NodeInfos : \E users, plans :
           /\ ~Structural(built, nodeInfo)
           /\ inbounds = Inbound(tag, built, users)
           /\ limits = Limiting(tag, nodeInfo.speed, plans)
           /\ missed.email \/ AdmitsOn(users, new, K, T)
           /\ missed.email \/ LimitedOn(plans, new, K, T)
    BY <1>1, <1>3 DEF Up
  <2>4. PICK users, plans :
           /\ ~Structural(built, nodeInfo)
           /\ inbounds = Inbound(tag, built, users)
           /\ limits = Limiting(tag, nodeInfo.speed, plans)
           /\ missed.email \/ AdmitsOn(users, new, K, T)
           /\ missed.email \/ LimitedOn(plans, new, K, T)
    BY <2>3
  <2>5. ~missed.email =>
           /\ DOMAIN Users(more) \cap DOMAIN users = {}
           /\ IsMap(users)
           /\ AdmitsOn(Put(users, Users(more)), new, DOMAIN new, S)
           /\ LimitedOn(Put(plans, Plans(more)), new, DOMAIN new, S)
    <3> SUFFICES ASSUME ~missed.email
                 PROVE  /\ DOMAIN Users(more) \cap DOMAIN users = {}
                        /\ IsMap(users)
                        /\ AdmitsOn(Put(users, Users(more)), new, DOMAIN new, S)
                        /\ LimitedOn(Put(plans, Plans(more)), new, DOMAIN new, S)
      OBVIOUS
    <3>1. IsMap(users)
      BY <2>4 DEF AdmitsOn
    <3>2. AdmitsOn(users, new, K, T) /\ LimitedOn(plans, new, K, T)
      BY <2>4
    <3> QED
      BY <1>4, <2>1, <3>1, <3>2, AfterAdds
  <2> HIDE DEF K, T, S
  <2>6. \E u : /\ inbounds' = Inbound(tag, built, u)
               /\ ~missed.email => ok /\ u = Put(users, Users(more))
    <3>1. CASE more # <<>> /\ UsersAdded(Users(more), ok)
      <4>1. /\ \E u : inbounds' = Inbound(tag, built, u)
            /\ DOMAIN Users(more) \cap DOMAIN users = {} =>
                  ok /\ inbounds' = Inbound(tag, built, Put(users, Users(more)))
        BY <2>4, <3>1, CoreAdds
      <4> QED
        BY <2>5, <4>1
    <3>2. CASE more = <<>> /\ ok /\ UNCHANGED inbounds
      <4>1. ~missed.email => users = Put(users, Users(more))
        BY <2>5, <3>2, NothingToDo, NoUsers
      <4> QED
        BY <2>4, <3>2, <4>1
    <3> QED
      BY <2>2, <3>1, <3>2
  <2>7. PICK u : /\ inbounds' = Inbound(tag, built, u)
                 /\ ~missed.email => ok /\ u = Put(users, Users(more))
    BY <2>6
  <2>8. /\ \E q : limits' = Limiting(tag, nodeInfo.speed, q)
        /\ ok => limits' = Limiting(tag, nodeInfo.speed, Put(plans, Plans(more)))
    BY <2>2, <2>4, LimiterStores
  <2>9. PICK q : /\ limits' = Limiting(tag, nodeInfo.speed, q)
                 /\ ~missed.email => q = Put(plans, Plans(more))
    BY <2>7, <2>8
  <2>10. /\ missed.email \/ AdmitsOn(u, new, DOMAIN new, S)
         /\ missed.email \/ LimitedOn(q, new, DOMAIN new, S)
    BY <2>5, <2>7, <2>9
  <2>11. /\ (missed.email \/ AdmitsOn(u, new, DOMAIN new, S))'
         /\ (missed.email \/ LimitedOn(q, new, DOMAIN new, S))'
    BY <1>2, <2>10 DEF AdmitsOn, LimitedOn
  <2>12. /\ inbounds' = Inbound(Tag(nodeInfo'), built, u)
         /\ limits' = Limiting(Tag(nodeInfo'), nodeInfo'.speed, q)
         /\ ~Structural(built, nodeInfo')
    BY <1>1, <1>2, <2>4, <2>7, <2>9
  <2> QED
    BY <2>11, <2>12 DEF Up, S
<1>6. RelaysFor(l.list)' /\ Knows(nodeInfo, l.list)' /\ RelayRight'
  BY <1>1, <1>2 DEF RelaysFor, Knows, RelayRight
<1>7. old = loc'[p].old /\ new = loc'[p].list
  BY <1>2, <1>3
<1>8. Up(nodeInfo, loc[p].list, DOMAIN loc[p].list, Settled(loc[p].old, loc[p].list))'
  BY <1>5, <1>7
<1>9. tag' = Tag(nodeInfo')
  BY <1>1, <1>2
<1> HIDE DEF l
<1> QED
  BY <1>2, <1>6, <1>8, <1>9 DEF Follows, l

LEMMA RemoveModifiedFollows ==
    ASSUME TypeOK, ~setting.fail, NEW p \in Syncers, Follows(loc[p]), RemoveModified(p)
    PROVE  Follows(loc[p])'
<1> DEFINE l == loc[p]
<1>1. /\ Up(nodeInfo, l.list, DOMAIN l.list, Settled(l.old, l.list))
      /\ RelaysFor(l.list) /\ RelayRight
      /\ Knows(nodeInfo, l.list) /\ tag = Tag(nodeInfo)
  BY DEF RemoveModified, At, Follows
<1>2. /\ loc'[p].pc = "readd" /\ loc'[p].list = l.list /\ loc'[p].old = l.old
      /\ UNCHANGED <<eTags, nodeInfo, subs, tag, relayOn, relays, missed>>
  BY ComparingAt DEF RemoveModified, At, Goto, TypeOK, ctrl
<1>3. PICK old, new : old = l.old /\ new = l.list
  OBVIOUS
<1>4. old \in Lists /\ new \in Lists
  BY <1>3, ComparingAt DEF RemoveModified, At
<1>5. Up(nodeInfo, new, Settled(old, new), Settled(old, new))'
  <2>1. PICK gone : gone = Emails(Modified(old, new))
    OBVIOUS
  <2>2. PICK ok \in BOOLEAN :
           /\ \/ gone # {} /\ UsersRemoved(gone, ok)
              \/ gone = {} /\ ok /\ UNCHANGED inbounds
           /\ limits' = IF ok /\ tag \in DOMAIN limits
                        THEN [limits EXCEPT ![tag] = Forget(@, gone)]
                        ELSE limits
    BY <1>3, <2>1 DEF RemoveModified
  <2> DEFINE S == Settled(old, new)
  <2>3. PICK built \in NodeInfos : \E users, plans :
           /\ ~Structural(built, nodeInfo)
           /\ inbounds = Inbound(tag, built, users)
           /\ limits = Limiting(tag, nodeInfo.speed, plans)
           /\ missed.email \/ AdmitsOn(users, new, DOMAIN new, S)
           /\ missed.email \/ LimitedOn(plans, new, DOMAIN new, S)
    BY <1>1, <1>3 DEF Up
  <2>4. PICK users, plans :
           /\ ~Structural(built, nodeInfo)
           /\ inbounds = Inbound(tag, built, users)
           /\ limits = Limiting(tag, nodeInfo.speed, plans)
           /\ missed.email \/ AdmitsOn(users, new, DOMAIN new, S)
           /\ missed.email \/ LimitedOn(plans, new, DOMAIN new, S)
    BY <2>3
  <2>5. ~missed.email =>
           /\ gone \subseteq DOMAIN users
           /\ IsMap(users)
           /\ AdmitsOn(Drop(users, gone), new, S, S)
           /\ LimitedOn(Drop(plans, gone), new, S, S)
    <3> SUFFICES ASSUME ~missed.email
                 PROVE  /\ gone \subseteq DOMAIN users
                        /\ IsMap(users)
                        /\ AdmitsOn(Drop(users, gone), new, S, S)
                        /\ LimitedOn(Drop(plans, gone), new, S, S)
      OBVIOUS
    <3>1. IsMap(users)
      BY <2>4 DEF AdmitsOn
    <3>2. AdmitsOn(users, new, DOMAIN new, S) /\ LimitedOn(plans, new, DOMAIN new, S)
      BY <2>4
    <3> QED
      BY <1>4, <2>1, <3>1, <3>2, AfterRemoves
  <2> HIDE DEF S
  <2>6. \E u : /\ inbounds' = Inbound(tag, built, u)
               /\ ~missed.email => ok /\ u = Drop(users, gone)
    <3>1. CASE gone # {} /\ UsersRemoved(gone, ok)
      <4>1. /\ \E u : inbounds' = Inbound(tag, built, u)
            /\ gone \subseteq DOMAIN users =>
                  ok /\ inbounds' = Inbound(tag, built, Drop(users, gone))
        BY <2>4, <3>1, CoreRemoves
      <4> QED
        BY <2>5, <4>1
    <3>2. CASE gone = {} /\ ok /\ UNCHANGED inbounds
      <4>1. ~missed.email => users = Drop(users, gone)
        BY <2>5, <3>2, NothingToDo
      <4> QED
        BY <2>4, <3>2, <4>1
    <3> QED
      BY <2>2, <3>1, <3>2
  <2>7. PICK u : /\ inbounds' = Inbound(tag, built, u)
                 /\ ~missed.email => ok /\ u = Drop(users, gone)
    BY <2>6
  <2>8. /\ \E q : limits' = Limiting(tag, nodeInfo.speed, q)
        /\ ok => limits' = Limiting(tag, nodeInfo.speed, Drop(plans, gone))
    BY <2>2, <2>4, LimiterForgets
  <2>9. PICK q : /\ limits' = Limiting(tag, nodeInfo.speed, q)
                 /\ ~missed.email => q = Drop(plans, gone)
    BY <2>7, <2>8
  <2>10. /\ missed.email \/ AdmitsOn(u, new, S, S)
         /\ missed.email \/ LimitedOn(q, new, S, S)
    BY <2>5, <2>7, <2>9
  <2>11. /\ (missed.email \/ AdmitsOn(u, new, S, S))'
         /\ (missed.email \/ LimitedOn(q, new, S, S))'
    BY <1>2, <2>10 DEF AdmitsOn, LimitedOn
  <2>12. /\ inbounds' = Inbound(Tag(nodeInfo'), built, u)
         /\ limits' = Limiting(Tag(nodeInfo'), nodeInfo'.speed, q)
         /\ ~Structural(built, nodeInfo')
    BY <1>1, <1>2, <2>4, <2>7, <2>9
  <2> QED
    BY <2>11, <2>12 DEF Up, S
<1>6. RelaysFor(l.list)' /\ Knows(nodeInfo, l.list)' /\ RelayRight'
  BY <1>1, <1>2 DEF RelaysFor, Knows, RelayRight
<1>7. old = loc'[p].old /\ new = loc'[p].list
  BY <1>2, <1>3
<1>8. Up(nodeInfo, loc[p].list, Settled(loc[p].old, loc[p].list),
         Settled(loc[p].old, loc[p].list))'
  BY <1>5, <1>7
<1>9. tag' = Tag(nodeInfo')
  BY <1>1, <1>2
<1> HIDE DEF l
<1> QED
  BY <1>2, <1>6, <1>8, <1>9 DEF Follows, l

LEMMA ReaddModifiedFollows ==
    ASSUME TypeOK, ~setting.fail, NEW p \in Syncers, Follows(loc[p]), ReaddModified(p)
    PROVE  Follows(loc[p])'
<1> DEFINE l == loc[p]
<1>1. /\ Up(nodeInfo, l.list, Settled(l.old, l.list), Settled(l.old, l.list))
      /\ RelaysFor(l.list) /\ RelayRight
      /\ Knows(nodeInfo, l.list) /\ tag = Tag(nodeInfo)
  BY DEF ReaddModified, At, Follows
<1>2. /\ loc'[p].pc = "end" /\ loc'[p].list = l.list
      /\ UNCHANGED <<eTags, nodeInfo, subs, tag, relayOn, relays, missed>>
  BY ComparingAt DEF ReaddModified, At, Goto, TypeOK, ctrl
<1>3. PICK old, new : old = l.old /\ new = l.list
  OBVIOUS
<1>4. old \in Lists /\ new \in Lists
  BY <1>3, ComparingAt DEF ReaddModified, At
<1>5. Up(nodeInfo, new, DOMAIN new, DOMAIN new)'
  <2>1. PICK mod : mod = Modified(old, new)
    OBVIOUS
  <2>2. /\ \/ mod # <<>> /\ \E ok \in BOOLEAN : UsersAdded(Users(mod), ok)
           \/ mod = <<>> /\ UNCHANGED inbounds
        /\ limits' = IF TRUE /\ tag \in DOMAIN limits
                     THEN [limits EXCEPT ![tag] = Store(@, Plans(mod))]
                     ELSE limits
    BY <1>3, <2>1 DEF ReaddModified
  <2> DEFINE S == Settled(old, new)
  <2>3. PICK built \in NodeInfos : \E users, plans :
           /\ ~Structural(built, nodeInfo)
           /\ inbounds = Inbound(tag, built, users)
           /\ limits = Limiting(tag, nodeInfo.speed, plans)
           /\ missed.email \/ AdmitsOn(users, new, S, S)
           /\ missed.email \/ LimitedOn(plans, new, S, S)
    BY <1>1, <1>3 DEF Up
  <2>4. PICK users, plans :
           /\ ~Structural(built, nodeInfo)
           /\ inbounds = Inbound(tag, built, users)
           /\ limits = Limiting(tag, nodeInfo.speed, plans)
           /\ missed.email \/ AdmitsOn(users, new, S, S)
           /\ missed.email \/ LimitedOn(plans, new, S, S)
    BY <2>3
  <2>5. ~missed.email =>
           /\ DOMAIN Users(mod) \cap DOMAIN users = {}
           /\ IsMap(users)
           /\ AdmitsOn(Put(users, Users(mod)), new, DOMAIN new, DOMAIN new)
           /\ LimitedOn(Put(plans, Plans(mod)), new, DOMAIN new, DOMAIN new)
    <3> SUFFICES ASSUME ~missed.email
                 PROVE  /\ DOMAIN Users(mod) \cap DOMAIN users = {}
                        /\ IsMap(users)
                        /\ AdmitsOn(Put(users, Users(mod)), new, DOMAIN new, DOMAIN new)
                        /\ LimitedOn(Put(plans, Plans(mod)), new, DOMAIN new, DOMAIN new)
      OBVIOUS
    <3>1. IsMap(users)
      BY <2>4 DEF AdmitsOn
    <3>2. AdmitsOn(users, new, S, S) /\ LimitedOn(plans, new, S, S)
      BY <2>4
    <3> QED
      BY <1>4, <2>1, <3>1, <3>2, AfterReadds
  <2> HIDE DEF S
  <2>6. \E u : /\ inbounds' = Inbound(tag, built, u)
               /\ ~missed.email => u = Put(users, Users(mod))
    <3>1. CASE \E ok \in BOOLEAN : UsersAdded(Users(mod), ok)
      <4>1. /\ \E u : inbounds' = Inbound(tag, built, u)
            /\ DOMAIN Users(mod) \cap DOMAIN users = {} =>
                  inbounds' = Inbound(tag, built, Put(users, Users(mod)))
        BY <2>4, <3>1, CoreAdds
      <4> QED
        BY <2>5, <4>1
    <3>2. CASE mod = <<>> /\ UNCHANGED inbounds
      <4>1. ~missed.email => users = Put(users, Users(mod))
        BY <2>5, <3>2, NothingToDo, NoUsers
      <4> QED
        BY <2>4, <3>2, <4>1
    <3> QED
      BY <2>2, <3>1, <3>2
  <2>7. PICK u : /\ inbounds' = Inbound(tag, built, u)
                 /\ ~missed.email => u = Put(users, Users(mod))
    BY <2>6
  <2>8. limits' = Limiting(tag, nodeInfo.speed, Put(plans, Plans(mod)))
    BY <2>2, <2>4, LimiterStores
  <2>9. PICK q : q = Put(plans, Plans(mod))
    OBVIOUS
  <2>10. /\ missed.email \/ AdmitsOn(u, new, DOMAIN new, DOMAIN new)
         /\ missed.email \/ LimitedOn(q, new, DOMAIN new, DOMAIN new)
    BY <2>5, <2>7, <2>9
  <2>11. /\ (missed.email \/ AdmitsOn(u, new, DOMAIN new, DOMAIN new))'
         /\ (missed.email \/ LimitedOn(q, new, DOMAIN new, DOMAIN new))'
    BY <1>2, <2>10 DEF AdmitsOn, LimitedOn
  <2>12. /\ inbounds' = Inbound(Tag(nodeInfo'), built, u)
         /\ limits' = Limiting(Tag(nodeInfo'), nodeInfo'.speed, q)
         /\ ~Structural(built, nodeInfo')
    BY <1>1, <1>2, <2>4, <2>7, <2>8, <2>9
  <2> QED
    BY <2>11, <2>12 DEF Up
<1>6. RelaysFor(l.list)' /\ Knows(nodeInfo, l.list)' /\ RelayRight'
  BY <1>1, <1>2 DEF RelaysFor, Knows, RelayRight
<1>7. new = loc'[p].list
  BY <1>2, <1>3
<1>8. Whole(nodeInfo, loc[p].list)'
  BY <1>5, <1>7 DEF Whole
<1>9. tag' = Tag(nodeInfo')
  BY <1>1, <1>2
<1> HIDE DEF l
<1> QED
  BY <1>2, <1>6, <1>8, <1>9 DEF Follows, l

LEMMA EndFollows ==
    ASSUME TypeOK, NEW p \in Syncers, Follows(loc[p]), End(p)
    PROVE  Follows(loc[p])'
<1>1. /\ Whole(nodeInfo, loc[p].list) /\ RelaysFor(loc[p].list) /\ RelayRight
      /\ Knows(nodeInfo, loc[p].list) /\ tag = Tag(nodeInfo)
  BY DEF End, At, Follows
<1>2. /\ subs' = loc[p].list /\ loc'[p] = Idle
      /\ UNCHANGED <<eTags, nodeInfo, tag, relayOn, relays, inbounds, limits, missed>>
  BY DEF End, Return, TypeOK, core
<1>3. loc'[p].pc = "idle"
  BY <1>2 DEF Idle
<1>4. RelaysFor(subs)' /\ Knows(nodeInfo, subs)' /\ RelayRight'
  BY <1>1, <1>2 DEF RelaysFor, Knows, RelayRight
<1>5. PICK list : list = loc[p].list
  OBVIOUS
<1>6. Up(nodeInfo, list, DOMAIN list, DOMAIN list)'
  <2>1. Up(nodeInfo, list, DOMAIN list, DOMAIN list)
    BY <1>1, <1>5 DEF Whole
  <2> QED
    BY <1>2, <2>1, Same
<1>7. Whole(nodeInfo, subs)'
  <2>1. list = subs'
    BY <1>2, <1>5
  <2> QED
    BY <1>6, <2>1 DEF Whole
<1> QED
  BY <1>1, <1>2, <1>3, <1>4, <1>7 DEF Follows

LEMMA SyncFollows ==
    ASSUME TypeOK, ~setting.fail, NEW p \in Syncers, Follows(loc[p]), Sync(p)
    PROVE  Follows(loc[p])'
BY AskFollows, RelayDownFollows, RebuildFollows, AdoptFollows, RelayUpFollows,
   AddTagFollows, AddUsersFollows, LimiterFollows, AdjustFollows, RemoveDeletedFollows,
   AddAddedFollows, RemoveModifiedFollows, ReaddModifiedFollows, EndFollows DEF Sync

\* An execution changes neither the panel nor another execution.
LEMMA OthersWait ==
    ASSUME TypeOK, NEW p \in Syncers, Sync(p)
    PROVE  UNCHANGED panel /\ \A q \in Syncers \ {p} : loc'[q] = loc[q]
<1>1. UNCHANGED panel
  BY DEF Sync, GetNode, GetSubs, RequestFails, RelayDown, Rebuild, Adopt, RelayUp,
         AddTag, AddUsers, Limiter, Adjust, RemoveDeleted, AddAdded, RemoveModified,
         ReaddModified, End
<1>2. \A q \in Syncers \ {p} : loc'[q] = loc[q]
  BY DEF Sync, GetNode, GetSubs, RequestFails, RelayDown, Rebuild, Adopt, RelayUp,
         AddTag, AddUsers, Limiter, Adjust, RemoveDeleted, AddAdded, RemoveModified,
         ReaddModified, End, Goto, Return, TypeOK
<1> QED
  BY <1>1, <1>2

LEMMA InitSInv == Solo /\ Init => SInv
<1> SUFFICES ASSUME Solo, Init, ~setting.fail PROVE SInv
  BY DEF SInv
<1>1. setting \in Settings /\ nodeInfo \in NodeInfos /\ subs \in Lists
  BY InitTypes DEF TypeOK
<1>2. PICK p \in Syncers : setting.syncers = {p}
  BY <1>1 DEF Solo
<1>3. /\ eTags = [info |-> nodeInfo, list |-> subs] /\ tag = Tag(nodeInfo)
      /\ relayOn = nodeInfo.relay
      /\ relays = IF nodeInfo.relay THEN DOMAIN subs ELSE {}
      /\ inbounds = [t \in {Tag(nodeInfo)} |-> [info |-> nodeInfo, users |-> Users(subs)]]
      /\ limits = [t \in {Tag(nodeInfo)} |-> [speed |-> nodeInfo.speed, subs |-> Plans(subs)]]
      /\ \A q \in Syncers : loc[q] = Idle
  BY DEF Init
<1>4. Whole(nodeInfo, subs)
  <2>1. Distinct(subs)
    BY <1>1, ListsDistinct
  <2>2. AdmitsOn(Users(subs), subs, DOMAIN subs, DOMAIN subs)
    BY <2>1, EntryAt, EntryDomains, Maps DEF AdmitsOn, EmailsOf, Emails
  <2>3. LimitedOn(Plans(subs), subs, DOMAIN subs, DOMAIN subs)
    BY <2>1, EntryAt, EntryDomains, Maps DEF LimitedOn, EmailsOf, Emails
  <2>4. /\ inbounds = Inbound(Tag(nodeInfo), nodeInfo, Users(subs))
        /\ limits = Limiting(Tag(nodeInfo), nodeInfo.speed, Plans(subs))
        /\ ~Structural(nodeInfo, nodeInfo)
    BY <1>3 DEF Inbound, Limiting, Structural
  <2> QED
    BY <1>1, <2>2, <2>3, <2>4 DEF Whole, Up
<1>5. RelaysFor(subs) /\ Knows(nodeInfo, subs) /\ RelayRight /\ Idle.pc = "idle"
  BY <1>3 DEF RelaysFor, Knows, RelayRight, Idle
<1>6. Follows(Idle)
  BY <1>3, <1>4, <1>5 DEF Follows
<1> QED
  BY <1>2, <1>3, <1>6 DEF SInv

\* What the panel does leaves an execution where it is.
LEMMA FollowsAlike ==
    ASSUME NEW l, Follows(l), UNCHANGED <<eTags, ctrl, core, limits, missed>>
    PROVE  Follows(l)'
<1>1. UNCHANGED <<eTags, nodeInfo, subs, tag, relayOn, inbounds, relays, limits, missed>>
  BY DEF ctrl, core
<1>2. \A info, list, S, T : Up(info, list, S, T)' = Up(info, list, S, T)
  BY <1>1, Same
<1>3. \A t : OldLimits(t)' = OldLimits(t)
  BY <1>1, Same
<1>4. NoRelays' = NoRelays /\ \A list : RelaysFor(list)' = RelaysFor(list)
  BY <1>1, Same
<1>5. RelayRight' = RelayRight /\ \A info, list : Knows(info, list)' = Knows(info, list)
  BY <1>1, Same
<1>6. \A info, list : Whole(info, list)' = Whole(info, list)
  BY <1>2 DEF Whole
<1>7. NoInbound' = NoInbound
  BY <1>1 DEF NoInbound
<1>8. Whole(nodeInfo, subs)' = Whole(nodeInfo, subs) /\ RelaysFor(subs)' = RelaysFor(subs)
  BY <1>1, <1>4, <1>6 DEF RelaysFor, Whole, Up
<1> QED
  BY <1>1, <1>2, <1>3, <1>4, <1>5, <1>6, <1>7, <1>8 DEF Follows

LEMMA NextSInv == TypeOK /\ SInv /\ [Next]_vars => SInv'
<1> SUFFICES ASSUME TypeOK, SInv, [Next]_vars PROVE SInv'
  OBVIOUS
<1>1. setting' = setting
  BY OthersWait DEF Next, Runs, PanelChange, vars, panel
<1>2. CASE setting.fail
  BY <1>1, <1>2 DEF SInv
<1>3. CASE ~setting.fail
  <2>1. PICK p \in Syncers : /\ setting.syncers = {p}
                             /\ \A q \in Syncers \ {p} : loc[q] = Idle
                             /\ Follows(loc[p])
    BY <1>3 DEF SInv
  <2>2. CASE PanelChange \/ UNCHANGED vars
    <3>1. UNCHANGED <<eTags, ctrl, core, limits, loc, missed>>
      BY <2>2 DEF PanelChange, vars
    <3>2. PICK l : l = loc[p] /\ l = loc'[p]
      BY <3>1
    <3>3. Follows(l)
      BY <2>1, <3>2
    <3>4. Follows(l)'
      BY <3>1, <3>3, FollowsAlike
    <3>5. Follows(loc[p])'
      BY <3>2, <3>4 DEF Follows
    <3> QED
      BY <1>1, <2>1, <3>1, <3>5 DEF SInv
  <2>3. CASE Sync(p)
    BY <1>1, <1>3, <2>1, <2>3, SyncFollows, OthersWait DEF SInv
  <2> QED
    BY <2>1, <2>2, <2>3 DEF Next, Runs
<1> QED
  BY <1>2, <1>3

(* One execution at a time, whose calls succeed: once both ETags say that    *)
(* the panel has nothing new and no execution is under way, the core serves  *)
(* what the panel holds and the limiter limits it so, whatever changed and   *)
(* in whatever order it was fetched, but for the updates that missed names:  *)
(* a UUID Compare does not look at, whatever followed an email that changed  *)
(* under an id, and the relays of a configuration that changed in place.     *)
THEOREM UpdatesAppliedHolds == Solo => (Spec => []UpdatesApplied)
<1>1. TypeOK /\ SInv => UpdatesApplied
  <2> SUFFICES ASSUME TypeOK, SInv, ~setting.fail, AtRest,
                      eTags = [info |-> panelInfo, list |-> panelList]
               PROVE  Served
    BY DEF UpdatesApplied
  <2>1. Follows(Idle)
    BY DEF SInv, AtRest
  <2>2. /\ Whole(nodeInfo, subs) /\ nodeInfo = panelInfo /\ subs = panelList
        /\ RelaysFor(subs) /\ RelayRight
    BY <2>1 DEF Follows, Knows, Idle
  <2>3. PICK built \in NodeInfos : \E users, plans :
           /\ ~Structural(built, panelInfo)
           /\ inbounds = Inbound(Tag(panelInfo), built, users)
           /\ limits = Limiting(Tag(panelInfo), panelInfo.speed, plans)
           /\ missed.email \/ AdmitsOn(users, panelList, DOMAIN panelList, DOMAIN panelList)
           /\ missed.email \/ LimitedOn(plans, panelList, DOMAIN panelList, DOMAIN panelList)
    BY <2>2 DEF Whole, Up
  <2>4. PICK users, plans :
           /\ ~Structural(built, panelInfo)
           /\ inbounds = Inbound(Tag(panelInfo), built, users)
           /\ limits = Limiting(Tag(panelInfo), panelInfo.speed, plans)
           /\ missed.email \/ AdmitsOn(users, panelList, DOMAIN panelList, DOMAIN panelList)
           /\ missed.email \/ LimitedOn(plans, panelList, DOMAIN panelList, DOMAIN panelList)
    BY <2>3
  <2>5. /\ missed.email \/ Admits(users, panelList)
        /\ missed.email \/ Limited(plans, panelList)
    BY <2>4 DEF AdmitsOn, LimitedOn, Admits, Limited, EmailsOf, Emails
  <2>6. LET t == Tag(panelInfo)
        IN  /\ DOMAIN inbounds = {t} /\ inbounds[t].info = built /\ inbounds[t].users = users
            /\ DOMAIN limits = {t} /\ limits[t].speed = panelInfo.speed
            /\ limits[t].subs = plans
    BY <2>4 DEF Inbound, Limiting
  <2> QED
    BY <2>2, <2>4, <2>5, <2>6 DEF Served, RelaysFor, RelayRight
<1>2. Solo /\ TypeOK /\ SInv /\ [Next]_vars => (TypeOK /\ SInv)'
  BY NextTypes, NextSInv
<1>3. Solo /\ Init => TypeOK /\ SInv
  BY InitTypes, InitSInv
<1>4. SUFFICES ASSUME Solo PROVE Spec => []UpdatesApplied
  OBVIOUS
<1>5. Init => TypeOK /\ SInv
  BY <1>3, <1>4
<1>6. TypeOK /\ SInv /\ [Next]_vars => (TypeOK /\ SInv)'
  BY <1>2, <1>4
<1> QED
  BY <1>1, <1>5, <1>6, PTL DEF Spec

=============================================================================
