------------------------------- MODULE IPLimit -------------------------------
(***************************************************************************)
(* The global IP limit of one subscription: a Redis hash shared by several *)
(* nodes, whose fields are "address|tag".  A connection runs ipLimitScript *)
(* (check and record in one step); every node sweeps the hash once per     *)
(* period: GetOnlineIPs reads it, deletes the node's own fields, and then  *)
(* reportOnlineIPs sends them to the panel.  The hash expires as a whole.  *)
(*                                                                         *)
(* A node's limiter goes when its tag changes or the node is closed, and a *)
(* node may get the tag again: Leave and Join.  Nobody sweeps the fields   *)
(* of a tag without a limiter; they go with the whole hash.                *)
(*                                                                         *)
(* Hashes of different subscriptions share nothing, so one is modelled.    *)
(* Time is discrete: Tick lets one unit pass for the key's TTL, for the    *)
(* timers of the sweeps, and for the sweeps under way.  Timers fire on     *)
(* time; a sweep, from reportTraffic to the end, may last MaxBusy.         *)
(***************************************************************************)
EXTENDS Naturals, FiniteSets

CONSTANTS Nodes,        \* inbound tags that serve the subscription
          Ips,          \* addresses it connects from
          Ignored,      \* IgnoreIPs: addresses that are not limited
          NoIp,
          Period,       \* node -> interval of its "subscriptions" task
          Expiry,       \* node -> GlobalIPLimit.expiry: UpdateTime, as the
                        \* period, when the limiter was added; the period
                        \* may have changed since
          MaxBusy,      \* bound on how long a sweep lasts
          Settings      \* limits, each with the clients, what may fail and
                        \* whose tags come and go

ASSUME IPLimitAssumption ==
    /\ IsFiniteSet(Ips)
    /\ Ignored \subseteq Ips
    /\ NoIp \notin Ips
    /\ Period \in [Nodes -> Nat \ {0}]
    /\ Expiry \in [Nodes -> Nat \ {0}]
    /\ MaxBusy \in Nat
    /\ Settings \subseteq [limit : Nat \ {0}, clients : SUBSET (Ips \X Nodes),
                            outage : SUBSET {"redis", "report"},
                            movers : SUBSET Nodes]

VARIABLES hash,         \* fields of the subscription's hash
          ttl,          \* time the hash has to live
          answer,       \* the address the last connection was refused for
          pc,           \* where each node's sweep is
          due,          \* time until the node's timer fires
          busy,         \* time the node's present sweep has lasted
          claimed,      \* fields the sweep has read and will report
          serving,      \* nodes whose limiter exists
          unreported,   \* history: recorded and not reported since
          between,      \* history: recorded between its node's last read
                        \* and the delete that followed
          late,         \* history: the last EXPIRE of the hash gave the field
                        \* less time than its node may need to come and read
          expired,      \* history: went with the whole hash, not recorded since
          setting       \* chosen once, at the start: IPLimit of the
                        \* subscription, not 0, the addresses that connect
                        \* and where, whether Redis calls may time out and
                        \* reports of addresses be lost, and the nodes whose
                        \* limiter may go and come back

Limit == setting.limit
outage == setting.outage

redis == <<hash, ttl>>
sweep == <<pc, due, busy, claimed>>
history == <<unreported, between, late, expired>>
vars == <<redis, answer, sweep, serving, history, setting>>

Fields == Ips \X Nodes

Own(n, fields) == {f \in fields : f[2] = n}

Addresses(fields) == {f[1] : f \in fields}

\* Nothing is promised of a tag without a limiter, or when calls fail: the
\* history is not kept for it.
Promised(fields) == {f \in fields : f[2] \in serving /\ outage = {}}

\* The longest it may take until the node reads the hash (again).
ReadIn(n) ==
    CASE pc[n] = "wait" -> due[n] + MaxBusy
      [] pc[n] = "read" -> MaxBusy - busy[n]
      [] OTHER          -> (MaxBusy - busy[n]) + Period[n] + MaxBusy

Init ==
    /\ hash = {}
    /\ ttl = 0
    /\ answer = NoIp
    /\ pc = [n \in Nodes |-> "wait"]
    /\ due = Period
    /\ busy = [n \in Nodes |-> 0]
    /\ claimed = [n \in Nodes |-> {}]
    /\ serving = Nodes
    /\ unreported = {}
    /\ between = {}
    /\ late = {}
    /\ expired = {}
    /\ setting \in Settings

-----------------------------------------------------------------------------
\* Faulty variant: off by one.
RejectsLate(n, ip) ==
    /\ <<ip, n>> \notin hash
    /\ Cardinality(Addresses(hash)) > Limit
    /\ ip \notin Addresses(hash)

\* ipLimitScript returns 1.
Rejects(n, ip) ==
    /\ <<ip, n>> \notin hash
    /\ Cardinality(Addresses(hash)) >= Limit
    /\ ip \notin Addresses(hash)

\* A connection that the script admits: HSET and EXPIRE.  One that found the
\* limiter may still run the script after the limiter is deleted.
Admit(n, ip) ==
    /\ ip \notin Ignored
    /\ ~Rejects(n, ip)
    /\ hash' = hash \cup {<<ip, n>>}
    /\ ttl' = Expiry[n]
    /\ answer' = NoIp
    /\ unreported' = unreported \cup Promised({<<ip, n>>})
    /\ between' = IF pc[n] = "delete" /\ <<ip, n>> \notin claimed[n]
                  THEN between \cup Promised({<<ip, n>>}) ELSE between
    /\ late' = (late \ hash') \cup {f \in Promised(hash') : ReadIn(f[2]) > Expiry[n]}
    /\ expired' = expired \ {<<ip, n>>}
    /\ UNCHANGED <<sweep, serving>>

Refuse(n, ip) ==
    /\ ip \notin Ignored
    /\ Rejects(n, ip)
    /\ answer' = ip
    /\ UNCHANGED <<redis, sweep, serving, history>>

\* An ignored address, a tag without a limiter, or a check that failed and
\* fails open.
AdmitUnchecked(n, ip) ==
    /\ ip \in Ignored \/ n \notin serving \/ "redis" \in outage
    /\ answer' = NoIp
    /\ UNCHANGED <<redis, sweep, serving, history>>

-----------------------------------------------------------------------------
\* The timer fires; SubscriptionMonitor first reports traffic.
SweepBegin(n) ==
    /\ n \in serving
    /\ pc[n] = "wait"
    /\ due[n] = 0
    /\ pc' = [pc EXCEPT ![n] = "read"]
    /\ UNCHANGED <<redis, answer, due, busy, claimed, serving, history>>

\* Faulty variant: the sweep claims every field of the hash.
SweepReadsAll(n) ==
    /\ pc[n] = "read"
    /\ claimed' = [claimed EXCEPT ![n] = hash]
    /\ between' = between \ hash
    /\ pc' = [pc EXCEPT ![n] = IF hash = {} THEN "end" ELSE "delete"]
    /\ UNCHANGED <<redis, answer, due, busy, serving, unreported, late, expired>>

\* HGETALL; the node's own fields are claimed.  A sweep that finds no limiter
\* for its tag is over.
SweepRead(n) ==
    /\ pc[n] = "read"
    /\ \/ /\ n \in serving
          /\ claimed' = [claimed EXCEPT ![n] = Own(n, hash)]
          /\ between' = between \ Own(n, hash)
          /\ pc' = [pc EXCEPT ![n] = IF Own(n, hash) = {} THEN "end" ELSE "delete"]
       \/ /\ n \notin serving \/ "redis" \in outage
          /\ pc' = [pc EXCEPT ![n] = "end"]
          /\ UNCHANGED <<claimed, between>>
    /\ UNCHANGED <<redis, answer, due, busy, serving, unreported, late, expired>>

\* Faulty variant: whatever the node owns by now is deleted.
SweepDeletesOwn(n) ==
    /\ pc[n] = "delete"
    /\ hash' = hash \ Own(n, hash)
    /\ ttl' = IF hash' = {} THEN 0 ELSE ttl
    /\ pc' = [pc EXCEPT ![n] = "report"]
    /\ UNCHANGED <<answer, due, busy, claimed, serving, history>>

\* Faulty variant: the sweep leaves the fields to their TTL.
SweepDeletesNothing(n) ==
    /\ pc[n] = "delete"
    /\ pc' = [pc EXCEPT ![n] = "report"]
    /\ UNCHANGED <<redis, answer, due, busy, claimed, serving, history>>

\* HDEL of the fields just read.  A hash without fields is no key at all.
SweepDelete(n) ==
    /\ pc[n] = "delete"
    /\ \/ /\ hash' = hash \ claimed[n]
          /\ ttl' = IF hash' = {} THEN 0 ELSE ttl
       \/ "redis" \in outage /\ UNCHANGED redis
    /\ pc' = [pc EXCEPT ![n] = "report"]
    /\ UNCHANGED <<answer, due, busy, claimed, serving, history>>

\* reportOnlineIPs: pushed, or posted, or lost with a line in the log.
SweepReport(n) ==
    /\ pc[n] = "report"
    /\ \/ unreported' = unreported \ claimed[n]
       \/ "report" \in outage /\ UNCHANGED unreported
    /\ pc' = [pc EXCEPT ![n] = "end"]
    /\ UNCHANGED <<redis, answer, due, busy, claimed, serving, between, late, expired>>

\* Execute returns and run() re-arms the timer.
SweepEnd(n) ==
    /\ pc[n] = "end"
    /\ pc' = [pc EXCEPT ![n] = "wait"]
    /\ due' = [due EXCEPT ![n] = Period[n]]
    /\ busy' = [busy EXCEPT ![n] = 0]
    /\ claimed' = [claimed EXCEPT ![n] = {}]
    /\ UNCHANGED <<redis, answer, serving, history>>

\* One unit of time.  Redis drops a key once more than its TTL has passed.
Tick ==
    /\ \A n \in Nodes : IF pc[n] = "wait" THEN due[n] > 0 \/ n \notin serving
                       ELSE busy[n] < MaxBusy
    /\ due' = [n \in Nodes |-> IF pc[n] = "wait" /\ due[n] > 0
                              THEN due[n] - 1 ELSE due[n]]
    /\ busy' = [n \in Nodes |-> IF pc[n] = "wait" THEN busy[n] ELSE busy[n] + 1]
    /\ IF ttl = 0
       THEN hash' = {} /\ ttl' = 0
       ELSE hash' = hash /\ ttl' = IF hash = {} THEN 0 ELSE ttl - 1
    /\ expired' = expired \cup Promised(hash \ hash')
    /\ UNCHANGED <<answer, pc, claimed, serving, unreported, between, late>>

-----------------------------------------------------------------------------
Others(n, fields) == fields \ Own(n, fields)

\* DeleteInboundLimiter: the tag changed, or the node was closed.  Nothing is
\* promised of the tag's fields any more.
Leave(n) ==
    /\ n \in setting.movers
    /\ n \in serving
    /\ serving' = serving \ {n}
    /\ unreported' = Others(n, unreported)
    /\ between' = Others(n, between)
    /\ late' = Others(n, late)
    /\ expired' = Others(n, expired)
    /\ UNCHANGED <<redis, answer, sweep>>

\* AddInboundLimiter for a tag that is not served; the task that sweeps may
\* be a new one or the one that swept under another tag.  A first sweep takes
\* at least a unit of time to come.
Join(n) ==
    /\ n \notin serving
    /\ pc[n] = "wait"
    /\ serving' = serving \cup {n}
    /\ \E d \in 1 .. Period[n] : due' = [due EXCEPT ![n] = d]
    /\ UNCHANGED <<redis, answer, pc, busy, claimed, history>>

-----------------------------------------------------------------------------
Connect(n, ip) ==
    /\ <<ip, n>> \in setting.clients
    /\ Admit(n, ip) \/ Refuse(n, ip) \/ AdmitUnchecked(n, ip)

Sweep(n) == \/ SweepBegin(n) \/ SweepRead(n) \/ SweepDelete(n)
            \/ SweepReport(n) \/ SweepEnd(n)

Next ==
    /\ \/ \E n \in Nodes, ip \in Ips : Connect(n, ip)
       \/ \E n \in Nodes : Sweep(n) \/ Leave(n) \/ Join(n)
       \/ Tick
    /\ UNCHANGED setting

\* Time passes, a sweep that began goes on, and a node that has a limiter
\* sweeps when its timer fires.  Connections, and nodes that leave or join,
\* come as they may.
Fairness ==
    /\ WF_vars(Tick /\ UNCHANGED setting)
    /\ \A n \in Nodes : WF_vars(Sweep(n) /\ UNCHANGED setting)

Spec == Init /\ [][Next]_vars /\ Fairness

-----------------------------------------------------------------------------
(* The state only ever holds values of the code's types, and a sweep claims *)
(* fields of its own node only.                                            *)
TypeOK ==
    /\ hash \subseteq Fields
    /\ ttl \in Nat
    /\ answer \in Ips \cup {NoIp}
    /\ pc \in [Nodes -> {"wait", "read", "delete", "report", "end"}]
    /\ due \in [Nodes -> Nat]
    /\ busy \in [Nodes -> Nat]
    /\ claimed \in [Nodes -> SUBSET Fields]
    /\ \A n \in Nodes : claimed[n] \subseteq Own(n, Fields)
    /\ serving \subseteq Nodes
    /\ late \subseteq Fields /\ expired \subseteq Fields
    /\ unreported \subseteq Fields
    /\ between \subseteq Fields
    /\ setting \in Settings

(* However connections to several nodes race with each other and with the  *)
(* sweeps, the hash never counts more distinct addresses than the limit.   *)
LimitHolds == Cardinality(Addresses(hash)) <= Limit

(* A sweep takes its own node's entries and leaves the other nodes'; they  *)
(* go by their own sweep or with the whole hash.                           *)
SweepTakesOwn ==
    [][\A n \in Nodes : pc[n] = "delete" /\ pc'[n] = "report"
                            => hash \ hash' \subseteq Own(n, hash)]_vars

(* Unless Redis or the panel fails, an address that a node with a limiter   *)
(* recorded and has not reported is in Redis, or in a sweep that will       *)
(* report it; or it was recorded, or last had its hash's life set, too soon *)
(* before its node's pause to survive it, and went with the whole hash.     *)
(* With the expiry the code sets, the period itself, the latter happens to  *)
(* what is recorded from a sweep's read on until the pause has lasted as    *)
(* long as sweeps may vary: LateOnlyAroundSweeps of IPLimitProofs.          *)
NothingDroppedUnreported ==
    outage = {} => \A f \in unreported : \/ f \in hash
                                         \/ \E n \in Nodes : f \in claimed[n]
                                         \/ f \in late /\ f \in expired

(* An address recorded between a sweep's read and its delete stays to be   *)
(* reported by the next sweep.                                             *)
RecordedBetweenStays == between \subseteq hash

(* No address holds its slot for good: as long as its node keeps its        *)
(* limiter, and unless it connects again, the slot of every address becomes *)
(* free for another.  The fields of a tag that changed or was closed are    *)
(* nobody's to sweep: they go with the hash, which connections to other     *)
(* nodes keep alive.  While Redis fails a sweep may never delete.           *)
SlotsReleased ==
    outage = {} => \A f \in Fields :
        <>[](f[2] \in serving) => []<>(f \notin hash)
=============================================================================
