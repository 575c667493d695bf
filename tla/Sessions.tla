------------------------------ MODULE Sessions ------------------------------
(***************************************************************************)
(* The sessions of one inbound's users.  LimitingDispatcher.resolveSession *)
(* checks a session, asks the limiter for the user's rate bucket, and      *)
(* tracks the session's connection and link under its user; when the       *)
(* session's context ends it is untracked.  Meanwhile apiMonitor deletes   *)
(* and updates subscriptions, and DeleteSubscriptionBuckets cuts what is   *)
(* tracked; UpdateNodeInfo changes the node's rate, and GetOnlineIPs drops *)
(* buckets.  Each lock section and each call to a sync.Map is a step.      *)
(*                                                                         *)
(* A session is used once, and so is the bucket that its GetLimiter makes: *)
(* a bucket is named by the session that made it.  Several sessions can    *)
(* share a connection (mux).  The IP limit is IPLimit's; here a session is *)
(* admitted or refused.                                                    *)
(***************************************************************************)
EXTENDS Naturals

CONSTANTS Users,      \* subscriptions, by tagged email
          Ids,        \* sessions, and the buckets they make
          Conns,      \* client connections
          NoBucket,
          Rates       \* speed limits that occur; 0 is unlimited

ASSUME SessionsAssumption ==
    /\ Rates \subseteq Nat /\ Rates # {}
    /\ NoBucket \notin Ids
    /\ Users # {} /\ Conns # {}

VARIABLES core,       \* users the inbound authenticates
          nodeRate,   \* InboundInfo.NodeSpeedLimit
          subs,       \* SubscriptionInfo: keys ...
          subRate,    \* ... and their speed limits
          hub,        \* BucketHub: user -> bucket
          rate,       \* the rate of each bucket
          pc,         \* how far each session's resolveSession has come
          who,        \* its user
          via,        \* its connection
          seen,       \* the limit its GetLimiter has read and not yet used
          bucket,     \* the bucket it reads and writes through
          done,       \* sessions whose context has ended
          shut,       \* sessions whose connection or link was closed
          conns,      \* ld.conns, as pairs <<user, connection>>
          links,      \* ld.links, as pairs <<user, session>>
          untrackC,   \* sessions with an AfterFunc that untracks the connection
          untrackL,   \* ... that untracks the link
          op,         \* where the controller is
          victim,     \* the user it deletes or updates
          caught      \* sessions it has collected to close

limiter == <<nodeRate, subs, subRate, hub, rate>>
session == <<pc, who, via, seen, bucket>>
tracked == <<conns, links, untrackC, untrackL>>
ending  == <<done, shut>>
control == <<op, victim, caught>>
vars == <<core, limiter, session, tracked, ending, control>>

\* determineRate
Determine(node, sub) ==
    IF node = 0 THEN sub
    ELSE IF sub = 0 \/ node < sub THEN node ELSE sub

Init ==
    /\ core = Users /\ subs = Users
    /\ nodeRate \in Rates
    /\ subRate \in [Users -> Rates]
    /\ hub = [u \in Users |-> NoBucket]
    /\ rate = [b \in Ids |-> 0]
    /\ pc = [s \in Ids |-> "new"]
    /\ who \in [Ids -> Users]
    /\ via \in [Ids -> Conns]
    /\ \A s, t \in Ids : via[s] = via[t] => who[s] = who[t]
    /\ seen = [s \in Ids |-> 0]
    /\ bucket = [s \in Ids |-> NoBucket]
    /\ done = {} /\ shut = {}
    /\ conns = {} /\ links = {}
    /\ untrackC = {} /\ untrackL = {}
    /\ op = "idle"
    /\ victim \in Users
    /\ caught = {}

-----------------------------------------------------------------------------
(* A session.                                                              *)

Goto(s, where) == pc' = [pc EXCEPT ![s] = where]

\* The inbound authenticates the user and calls Dispatch.
Authenticate(s) ==
    /\ pc[s] = "new"
    /\ who[s] \in core
    /\ Goto(s, "limit")
    /\ UNCHANGED <<core, limiter, who, via, seen, bucket, tracked, ending, control>>

\* isUserValidInInbound asks the handler, which answers for its users only if
\* it is a proxy.UserManager, and GetLimiter begins: the user's speed limit.
\* A user without an entry counts as unlimited.
LoadLimit(s) ==
    /\ pc[s] = "limit"
    /\ seen' = [seen EXCEPT ![s] = IF who[s] \in subs THEN subRate[who[s]] ELSE 0]
    /\ Goto(s, "rate")
    /\ UNCHANGED <<core, limiter, who, via, bucket, tracked, ending, control>>

\* checkLimit lets the address pass, and the node's limit is read.
ReadRate(s) ==
    /\ pc[s] = "rate"
    /\ seen' = [seen EXCEPT ![s] = Determine(nodeRate, @)]
    /\ Goto(s, "bucket")
    /\ UNCHANGED <<core, limiter, who, via, bucket, tracked, ending, control>>

\* The user is not valid any more, or checkLimit rejects the address.
Refuse(s) ==
    /\ pc[s] \in {"limit", "rate"}
    /\ Goto(s, "refused")
    /\ UNCHANGED <<core, limiter, who, via, seen, bucket, tracked, ending, control>>

\* BucketHub.LoadOrStore, if there is a limit.
TakeBucket(s) ==
    /\ pc[s] = "bucket"
    /\ IF seen[s] = 0
       THEN UNCHANGED <<hub, rate, bucket>>
       ELSE IF hub[who[s]] # NoBucket
       THEN bucket' = [bucket EXCEPT ![s] = hub[who[s]]] /\ UNCHANGED <<hub, rate>>
       ELSE /\ hub' = [hub EXCEPT ![who[s]] = s]
            /\ rate' = [rate EXCEPT ![s] = seen[s]]
            /\ bucket' = [bucket EXCEPT ![s] = s]
    /\ seen' = [seen EXCEPT ![s] = 0]
    /\ Goto(s, "conn")
    /\ UNCHANGED <<core, nodeRate, subs, subRate, who, via, tracked, ending, control>>

\* trackConn, and its untrack as an AfterFunc of the context.
TrackConn(s) ==
    /\ pc[s] = "conn"
    /\ conns' = conns \cup {<<who[s], via[s]>>}
    /\ untrackC' = untrackC \cup {s}
    /\ Goto(s, "link")
    /\ UNCHANGED <<core, limiter, who, via, seen, bucket, links, untrackL, ending, control>>

\* Faulty variant: the AfterFunc is set before the link is tracked, and runs
\* at once if the context has ended.
TrackLinkLate(s) ==
    /\ pc[s] = "link"
    /\ links' = links \cup {<<who[s], s>>}
    /\ untrackL' = IF s \in done THEN untrackL ELSE untrackL \cup {s}
    /\ Goto(s, "open")
    /\ UNCHANGED <<core, limiter, who, via, seen, bucket, conns, untrackC, ending, control>>

\* trackLink, and its untrack, likewise; then the link is wrapped and used.
TrackLink(s) ==
    /\ pc[s] = "link"
    /\ links' = links \cup {<<who[s], s>>}
    /\ untrackL' = untrackL \cup {s}
    /\ Goto(s, "open")
    /\ UNCHANGED <<core, limiter, who, via, seen, bucket, conns, untrackC, ending, control>>

\* The client leaves, or the core notices that the session was shut.
EndContext(s) ==
    /\ pc[s] # "new"
    /\ s \notin done
    /\ done' = done \cup {s}
    /\ UNCHANGED <<core, limiter, session, tracked, shut, control>>

\* The AfterFuncs.  The connection is untracked for every session on it.
UntrackConn(s) ==
    /\ s \in untrackC \cap done
    /\ conns' = conns \ {<<who[s], via[s]>>}
    /\ untrackC' = untrackC \ {s}
    /\ UNCHANGED <<core, limiter, session, links, untrackL, ending, control>>

\* Faulty variant: untracking one link forgets the user's other links.
UntrackUser(s) ==
    /\ s \in untrackL \cap done
    /\ links' = {l \in links : l[1] # who[s]}
    /\ untrackL' = untrackL \ {s}
    /\ UNCHANGED <<core, limiter, session, conns, untrackC, ending, control>>

UntrackLink(s) ==
    /\ s \in untrackL \cap done
    /\ links' = links \ {<<who[s], s>>}
    /\ untrackL' = untrackL \ {s}
    /\ UNCHANGED <<core, limiter, session, conns, untrackC, ending, control>>

-----------------------------------------------------------------------------
(* The controller, one user at a time.                                     *)

\* apiMonitor removes a deleted or a modified user from the inbound.
RemoveUser(u) ==
    /\ op = "idle"
    /\ u \in core
    /\ core' = core \ {u}
    /\ victim' = u
    /\ op' = "forget"
    /\ UNCHANGED <<limiter, session, tracked, ending, caught>>

\* Limiter.DeleteSubscriptionBuckets.
ForgetUser ==
    /\ op = "forget"
    /\ hub' = [hub EXCEPT ![victim] = NoBucket]
    /\ subs' = subs \ {victim}
    /\ op' = "conns"
    /\ UNCHANGED <<core, nodeRate, subRate, rate, session, tracked, ending, victim, caught>>

\* DeleteSubscriptionBuckets of the dispatcher: the user's connections ...
CollectConns ==
    /\ op = "conns"
    /\ caught' = {s \in Ids : pc[s] # "new" /\ <<victim, via[s]>> \in conns}
    /\ conns' = {t \in conns : t[1] # victim}
    /\ op' = "links"
    /\ UNCHANGED <<core, limiter, session, links, untrackC, untrackL, ending, victim>>

\* Faulty variant: the links are forgotten and only connections are closed.
ForgetLinks ==
    /\ op = "links"
    /\ links' = {l \in links : l[1] # victim}
    /\ op' = "close"
    /\ UNCHANGED <<core, limiter, session, conns, untrackC, untrackL, ending, victim, caught>>

\* ... and its links are taken out of the maps ...
CollectLinks ==
    /\ op = "links"
    /\ caught' = caught \cup {s \in Ids : <<victim, s>> \in links}
    /\ links' = {l \in links : l[1] # victim}
    /\ op' = "close"
    /\ UNCHANGED <<core, limiter, session, conns, untrackC, untrackL, ending, victim>>

\* ... and closed.
CloseCaught ==
    /\ op = "close"
    /\ shut' = shut \cup caught
    /\ caught' = {}
    /\ op' = "idle"
    /\ UNCHANGED <<core, limiter, session, tracked, done, victim>>

\* A subscription is added (again), first to the inbound ...
AddUser(u) ==
    /\ op = "idle"
    /\ u \notin core
    /\ core' = core \cup {u}
    /\ victim' = u
    /\ op' = "store"
    /\ UNCHANGED <<limiter, session, tracked, ending, caught>>

\* ... then to the limiter: UpdateInboundLimiter stores its speed limit ...
StoreLimit ==
    /\ op = "store"
    /\ subs' = subs \cup {victim}
    /\ \E r \in Rates : subRate' = [subRate EXCEPT ![victim] = r]
    /\ op' = "rate"
    /\ UNCHANGED <<core, nodeRate, hub, rate, session, tracked, ending, victim, caught>>

\* Faulty variant: the bucket of a user who is unlimited now gets rate zero.
SetRateZero ==
    /\ op = "rate"
    /\ rate' = IF hub[victim] # NoBucket
               THEN [rate EXCEPT ![hub[victim]] = Determine(nodeRate, subRate[victim])]
               ELSE rate
    /\ op' = "idle"
    /\ UNCHANGED <<core, nodeRate, subs, subRate, hub, session, tracked, ending, victim, caught>>

\* ... and sets the rate of its bucket, if it has one.
SetRate ==
    /\ op = "rate"
    /\ LET r == Determine(nodeRate, subRate[victim])
       IN  IF r = 0
           THEN hub' = [hub EXCEPT ![victim] = NoBucket] /\ UNCHANGED rate
           ELSE /\ rate' = IF hub[victim] # NoBucket
                           THEN [rate EXCEPT ![hub[victim]] = r] ELSE rate
                /\ UNCHANGED hub
    /\ op' = "idle"
    /\ UNCHANGED <<core, nodeRate, subs, subRate, session, tracked, ending, victim, caught>>

\* UpdateNodeInfo, when the panel changes the node's speed limit.
UpdateNodeInfo ==
    /\ op = "idle"
    /\ nodeRate' \in Rates \ {nodeRate}
    /\ UNCHANGED <<core, subs, subRate, hub, rate, session, tracked, ending, control>>

\* GetOnlineIPs drops the bucket of a user whose hash was empty.
DropBucket(u) ==
    /\ u \in subs
    /\ hub[u] # NoBucket
    /\ hub' = [hub EXCEPT ![u] = NoBucket]
    /\ UNCHANGED <<core, nodeRate, subs, subRate, rate, session, tracked, ending, control>>

-----------------------------------------------------------------------------
Resolve(s) == \/ LoadLimit(s) \/ ReadRate(s) \/ Refuse(s) \/ TakeBucket(s)
              \/ TrackConn(s) \/ TrackLink(s)

Untrack(s) == UntrackConn(s) \/ UntrackLink(s)

Cut == ForgetUser \/ CollectConns \/ CollectLinks \/ CloseCaught

Store == StoreLimit \/ SetRate

Next ==
    \/ \E s \in Ids : Authenticate(s) \/ Resolve(s) \/ EndContext(s) \/ Untrack(s)
    \/ \E u \in Users : RemoveUser(u) \/ AddUser(u) \/ DropBucket(u)
    \/ Cut \/ Store \/ UpdateNodeInfo

Spec == Init /\ [][Next]_vars

-----------------------------------------------------------------------------
(* Types: the maps hold users and sessions of this inbound, and a bucket    *)
(* that is used has a positive rate (a bucket of rate zero would block its  *)
(* sessions for ever).                                                      *)
TypeOK ==
    /\ core \subseteq Users /\ subs \subseteq Users
    /\ nodeRate \in Rates
    /\ subRate \in [Users -> Rates]
    /\ hub \in [Users -> Ids \cup {NoBucket}]
    /\ rate \in [Ids -> Nat]
    /\ pc \in [Ids -> {"new", "limit", "refused", "rate", "bucket", "conn", "link", "open"}]
    /\ who \in [Ids -> Users] /\ via \in [Ids -> Conns]
    /\ seen \in [Ids -> Nat]
    /\ bucket \in [Ids -> Ids \cup {NoBucket}]
    /\ \A s \in Ids : bucket[s] # NoBucket => rate[bucket[s]] > 0
    /\ done \subseteq Ids /\ shut \subseteq Ids
    /\ conns \subseteq Users \X Conns /\ links \subseteq Users \X Ids
    /\ untrackC \subseteq Ids /\ untrackL \subseteq Ids
    /\ op \in {"idle", "forget", "conns", "links", "close", "store", "rate"}
    /\ victim \in Users /\ caught \subseteq Ids

Running(s) == pc[s] = "open" /\ s \notin done

(* A running session can always be found: whoever else of its user comes    *)
(* and goes, and although connections are shared, its link is tracked under *)
(* its user, or a deletion has it in hand, or has already shut it.          *)
Reachable ==
    \A s \in Ids : Running(s) => <<who[s], s>> \in links \/ s \in caught \cup shut

(* The tracking maps do not grow: whatever is tracked has an untrack to     *)
(* come, however ends of contexts fall between the steps of resolveSession. *)
NothingLeaks ==
    /\ \A l \in links : l[2] \in untrackL
    /\ \A t \in conns : \E s \in untrackC : t = <<who[s], via[s]>>

(* UpdateNodeInfo refreshes the node's speed limit in place: once nobody is *)
(* in the middle of an update or of resolveSession, the bucket that new     *)
(* sessions get has the rate that determineRate gives.                      *)
RateRefreshed ==
    op = "idle" /\ (\A s \in Ids : pc[s] \in {"new", "refused", "open"})
        => \A u \in subs : hub[u] # NoBucket => rate[hub[u]] = Determine(nodeRate, subRate[u])
=============================================================================
