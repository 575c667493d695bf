---------------------------- MODULE IPLimitProofs ----------------------------
(***************************************************************************)
(* Proofs about IPLimit, for any nodes, addresses, limit and timing, and   *)
(* with Redis and the panel failing as they may.                           *)
(***************************************************************************)
EXTENDS IPLimit, FiniteSetTheorems, TLAPS

IInv == TypeOK /\ LimitHolds

LEMMA LimitNat == TypeOK => Limit \in Nat /\ Limit > 0
BY IPLimitAssumption DEF TypeOK, Limit

LEMMA LimitFixed == [Next]_vars => Limit' = Limit
BY DEF Next, vars, Limit

LEMMA AddressesFinite ==
    ASSUME NEW S \in SUBSET Fields
    PROVE  Addresses(S) \subseteq Ips /\ IsFiniteSet(Addresses(S))
<1>1. Addresses(S) \subseteq Ips
  BY DEF Addresses, Fields
<1> QED
  BY <1>1, FS_Subset, IPLimitAssumption

(* Removing fields never adds an address to the count. *)
LEMMA FewerFields ==
    ASSUME TypeOK, NEW S \in SUBSET Fields, NEW T \in SUBSET S,
           Cardinality(Addresses(S)) <= Limit
    PROVE  Cardinality(Addresses(T)) <= Limit
<1>1. Addresses(T) \subseteq Addresses(S)
  BY DEF Addresses
<1>2. IsFiniteSet(Addresses(S)) /\ IsFiniteSet(Addresses(T))
  BY <1>1, AddressesFinite, FS_Subset
<1>3. Cardinality(Addresses(T)) <= Cardinality(Addresses(S))
  BY <1>1, <1>2, FS_Subset
<1>4. Cardinality(Addresses(S)) \in Nat /\ Cardinality(Addresses(T)) \in Nat
  BY <1>2, FS_CardinalityType
<1> QED
  BY <1>3, <1>4, LimitNat

(* The script's two ways to admit: the address is counted already, or there *)
(* is room for one more.                                                    *)
LEMMA AdmitWithinLimit ==
    ASSUME IInv, NEW n \in Nodes, NEW ip \in Ips, ~Rejects(n, ip)
    PROVE  Cardinality(Addresses(hash \cup {<<ip, n>>})) <= Limit
<1> DEFINE A == Addresses(hash)
<1>1. Addresses(hash \cup {<<ip, n>>}) = A \cup {ip}
  <2>1. <<ip, n>>[1] = ip
    OBVIOUS
  <2> QED
    BY <2>1, Zenon DEF Addresses
<1>2. IsFiniteSet(A) /\ Cardinality(A) \in Nat
  BY AddressesFinite, FS_CardinalityType DEF IInv, TypeOK
<1>3. CASE ip \in A
  BY <1>1, <1>3 DEF IInv, LimitHolds
<1>4. CASE ip \notin A
  <2>1. <<ip, n>> \notin hash
    BY <1>4 DEF Addresses
  <2>2. Cardinality(A) < Limit
    BY <1>2, <1>4, <2>1, LimitNat DEF Rejects, IInv
  <2>3. Cardinality(A \cup {ip}) = Cardinality(A) + 1
    BY <1>2, <1>4, FS_AddElement
  <2>4. Cardinality(A) + 1 <= Limit
    BY <1>2, <2>2, LimitNat DEF IInv
  <2> QED
    BY <1>1, <2>3, <2>4
<1> QED
  BY <1>3, <1>4

-----------------------------------------------------------------------------
LEMMA InitInv == Init => IInv
<1> SUFFICES ASSUME Init PROVE IInv
  OBVIOUS
<1>1. TypeOK
  BY IPLimitAssumption DEF Init, TypeOK
<1>2. Addresses(hash) = {}
  BY DEF Init, Addresses
<1> QED
  BY <1>1, <1>2, FS_EmptySet, LimitNat DEF IInv, LimitHolds

LEMMA TypeStep == TypeOK /\ [Next]_vars => TypeOK'
<1> SUFFICES ASSUME TypeOK, [Next]_vars PROVE TypeOK'
  OBVIOUS
<1>0. setting' = setting
  BY DEF Next, vars
<1>1. ASSUME NEW n \in Nodes, NEW ip \in Ips, Connect(n, ip) PROVE TypeOK'
  <2>1. <<ip, n>> \in Fields /\ Expiry[n] \in Nat
    BY IPLimitAssumption DEF Fields
  <2>2. CASE Admit(n, ip)
    <3>1. hash' \subseteq Fields /\ ttl' \in Nat
      BY <2>1, <2>2 DEF Admit, TypeOK
    <3>2. /\ unreported' \subseteq Fields /\ between' \subseteq Fields
          /\ late' \subseteq Fields /\ expired' \subseteq Fields
      BY <2>1, <2>2, <3>1 DEF Admit, Promised, TypeOK
    <3> QED
      BY <1>0, <2>2, <3>1, <3>2 DEF Admit, sweep, TypeOK
  <2>3. CASE Refuse(n, ip)
    BY <1>0, <2>3 DEF Refuse, redis, sweep, history, TypeOK
  <2>4. CASE AdmitUnchecked(n, ip)
    BY <1>0, <2>1, <2>4 DEF AdmitUnchecked, redis, sweep, history, TypeOK
  <2> QED
    BY <1>1, <2>2, <2>3, <2>4 DEF Connect
<1>2. ASSUME NEW n \in Nodes, SweepBegin(n) PROVE TypeOK'
  BY <1>0, <1>2 DEF SweepBegin, redis, history, TypeOK
<1>3. ASSUME NEW n \in Nodes, SweepRead(n) PROVE TypeOK'
  <2>1. Own(n, hash) \subseteq Own(n, Fields) /\ Own(n, hash) \subseteq Fields
    BY DEF Own, TypeOK
  <2> QED
    BY <1>0, <1>3, <2>1 DEF SweepRead, redis, TypeOK
<1>4. ASSUME NEW n \in Nodes, SweepDelete(n) PROVE TypeOK'
  BY <1>0, <1>4 DEF SweepDelete, redis, history, TypeOK
<1>5. ASSUME NEW n \in Nodes, SweepReport(n) PROVE TypeOK'
  BY <1>0, <1>5 DEF SweepReport, redis, TypeOK
<1>6. ASSUME NEW n \in Nodes, SweepEnd(n) PROVE TypeOK'
  BY <1>0, <1>6, IPLimitAssumption DEF SweepEnd, redis, history, TypeOK
<1>7. CASE Tick
  <2>1. due' \in [Nodes -> Nat] /\ busy' \in [Nodes -> Nat] /\ ttl' \in Nat
    BY <1>7 DEF Tick, TypeOK
  <2>2. hash' \subseteq Fields /\ expired' \subseteq Fields
    BY <1>7 DEF Tick, Promised, TypeOK
  <2> QED
    BY <1>0, <1>7, <2>1, <2>2 DEF Tick, TypeOK
<1>9. ASSUME NEW n \in Nodes, Leave(n) PROVE TypeOK'
  <2>1. \A S \in SUBSET Fields : Others(n, S) \subseteq Fields
    BY DEF Others
  <2> QED
    BY <1>0, <1>9, <2>1 DEF Leave, redis, sweep, TypeOK
<1>10. ASSUME NEW n \in Nodes, Join(n) PROVE TypeOK'
  <2>1. due' \in [Nodes -> Nat]
    BY <1>10, IPLimitAssumption DEF Join, TypeOK
  <2> QED
    BY <1>0, <1>10, <2>1 DEF Join, redis, history, TypeOK
<1>8. CASE UNCHANGED vars
  BY <1>0, <1>8 DEF vars, redis, sweep, history, TypeOK
<1> QED
  BY <1>1, <1>2, <1>3, <1>4, <1>5, <1>6, <1>7, <1>8, <1>9, <1>10 DEF Next, Sweep

(* Every step adds one admitted field to the hash or adds none. *)
LEMMA HashStep ==
    ASSUME TypeOK, [Next]_vars
    PROVE  \/ hash' \subseteq hash
           \/ \E n \in Nodes, ip \in Ips :
                 ~Rejects(n, ip) /\ hash' = hash \cup {<<ip, n>>}
BY DEF Next, Connect, Admit, Refuse, AdmitUnchecked, Sweep,
       SweepBegin, SweepRead, SweepDelete, SweepReport, SweepEnd, Tick,
       Leave, Join, vars, redis

LEMMA LimitStep == IInv /\ [Next]_vars => IInv'
<1> SUFFICES ASSUME IInv, [Next]_vars PROVE IInv'
  OBVIOUS
<1>1. TypeOK'
  BY TypeStep DEF IInv
<1>2. CASE hash' \subseteq hash
  BY <1>1, <1>2, FewerFields, LimitFixed DEF IInv, TypeOK, LimitHolds
<1>3. ASSUME NEW n \in Nodes, NEW ip \in Ips,
             ~Rejects(n, ip), hash' = hash \cup {<<ip, n>>}
      PROVE  IInv'
  BY <1>1, <1>3, AdmitWithinLimit, LimitFixed DEF IInv, LimitHolds
<1> QED
  BY <1>2, <1>3, HashStep DEF IInv

LEMMA Invariance == Spec => []IInv
BY InitInv, LimitStep, PTL DEF Spec

(* Every variable keeps its type, and a sweep claims its own fields only.   *)
THEOREM TypeCorrect == Spec => []TypeOK
<1>1. IInv => TypeOK
  BY DEF IInv
<1> QED
  BY <1>1, Invariance, PTL

(* No interleaving of connections and sweeps on any number of nodes takes   *)
(* the hash past the subscription's limit of distinct addresses.            *)
THEOREM LimitIsKept == Spec => []LimitHolds
<1>1. IInv => LimitHolds
  BY DEF IInv
<1> QED
  BY <1>1, Invariance, PTL

(* A sweep deletes its own node's entries and no other's.                   *)
THEOREM SweepTakesOwnHolds == Spec => SweepTakesOwn
<1>1. TypeOK /\ [Next]_vars
        => [\A n \in Nodes : pc[n] = "delete" /\ pc'[n] = "report"
                                => hash \ hash' \subseteq Own(n, hash)]_vars
  <2> SUFFICES ASSUME TypeOK, [Next]_vars, NEW n \in Nodes,
                      pc[n] = "delete", pc'[n] = "report"
               PROVE  hash \ hash' \subseteq Own(n, hash)
    OBVIOUS
  <2>1. SweepDelete(n)
    BY DEF Next, Connect, Admit, Refuse, AdmitUnchecked, Sweep,
           SweepBegin, SweepRead, SweepDelete, SweepReport, SweepEnd, Tick,
           Leave, Join, sweep, vars, TypeOK
  <2>2. claimed[n] \subseteq Own(n, Fields)
    BY DEF TypeOK
  <2> QED
    BY <2>1, <2>2 DEF SweepDelete, redis, Own
<1> QED
  BY <1>1, TypeCorrect, PTL DEF Spec, SweepTakesOwn
-----------------------------------------------------------------------------
(* What is recorded in time is read before the hash expires: the time until *)
(* the next read by the field's node never exceeds the hash's time to live. *)

\* The node's sweep has read the field and will report it.
Held(f) == pc[f[2]] \in {"delete", "report"} /\ f \in claimed[f[2]]

InTime(f) == f \in hash /\ ttl >= ReadIn(f[2])

Late(f) == f \in late /\ (f \in hash \/ f \in expired)

Kept(f) == Held(f) \/ InTime(f) \/ Late(f)

Clocks == \A n \in Nodes : due[n] <= Period[n] /\ busy[n] <= MaxBusy

KInv ==
    /\ TypeOK
    /\ Clocks
    /\ outage = {} => \A f \in unreported : f[2] \in serving /\ Kept(f)

LEMMA KeptInit == Init => KInv
<1> SUFFICES ASSUME Init PROVE KInv
  OBVIOUS
<1>1. TypeOK
  BY InitInv DEF IInv
<1>2. Clocks
  BY IPLimitAssumption DEF Init, Clocks
<1> QED
  BY <1>1, <1>2 DEF Init, KInv

LEMMA ClocksStep == TypeOK /\ Clocks /\ [Next]_vars => Clocks'
<1> SUFFICES ASSUME TypeOK, Clocks, [Next]_vars, NEW m \in Nodes
             PROVE  due'[m] <= Period[m] /\ busy'[m] <= MaxBusy
  BY DEF Clocks
<1>1. /\ due[m] \in Nat /\ busy[m] \in Nat /\ Period[m] \in Nat
      /\ MaxBusy \in Nat /\ due[m] <= Period[m] /\ busy[m] <= MaxBusy
  BY IPLimitAssumption DEF TypeOK, Clocks
<1>2. CASE due' = due /\ busy' = busy
  BY <1>1, <1>2
<1>3. ASSUME NEW n \in Nodes, SweepEnd(n)
      PROVE  due'[m] <= Period[m] /\ busy'[m] <= MaxBusy
  <2>1. /\ due'[m] = IF m = n THEN Period[n] ELSE due[m]
        /\ busy'[m] = IF m = n THEN 0 ELSE busy[m]
    BY <1>3 DEF SweepEnd, TypeOK
  <2> QED
    BY <1>1, <2>1
<1>4. CASE Tick
  <2>1. /\ pc[m] # "wait" => busy[m] < MaxBusy
        /\ due'[m] = IF pc[m] = "wait" /\ due[m] > 0 THEN due[m] - 1 ELSE due[m]
        /\ busy'[m] = IF pc[m] = "wait" THEN busy[m] ELSE busy[m] + 1
    BY <1>4 DEF Tick
  <2> QED
    BY <1>1, <2>1
<1>5. ASSUME NEW n \in Nodes, Join(n)
      PROVE  due'[m] <= Period[m] /\ busy'[m] <= MaxBusy
  <2>1. PICK d \in 1 .. Period[n] : due' = [due EXCEPT ![n] = d]
    BY <1>5 DEF Join
  <2>2. Period[n] \in Nat /\ d <= Period[n]
    BY IPLimitAssumption
  <2>3. due'[m] = IF m = n THEN d ELSE due[m]
    BY <2>1 DEF TypeOK
  <2> QED
    BY <1>1, <1>5, <2>2, <2>3 DEF Join
<1> QED
  BY <1>2, <1>3, <1>4, <1>5 DEF Next, Connect, Admit, Refuse, AdmitUnchecked, Sweep,
     SweepBegin, SweepRead, SweepDelete, SweepReport, Leave, vars, sweep

(* The script's EXPIRE either leaves a field the time its node needs, or the *)
(* field is late from then on; a field that went with the hash stays so.     *)
LEMMA KeptAdmit ==
    ASSUME KInv, outage = {}, NEW n \in Nodes, NEW ip \in Ips, Admit(n, ip),
           NEW f, f \in unreported'
    PROVE  f[2] \in serving /\ Kept(f)'
<1>1. f \in unreported \/ f = <<ip, n>>
  BY DEF Admit, Promised
<1>2. f[2] \in serving
  <2>1. CASE f \in unreported
    BY <2>1 DEF KInv
  <2>2. CASE f \notin unreported
    BY <2>2 DEF Admit, Promised
  <2> QED
    BY <2>1, <2>2
<1>3. ReadIn(f[2])' = ReadIn(f[2]) /\ ReadIn(f[2]) \in Int /\ Expiry[n] \in Int
  <2>1. f[2] \in Nodes
    BY <1>2 DEF KInv, TypeOK
  <2>2. /\ due[f[2]] \in Int /\ busy[f[2]] \in Int /\ MaxBusy \in Int
        /\ Period[f[2]] \in Int /\ Expiry[n] \in Int
    BY <2>1, IPLimitAssumption DEF KInv, TypeOK
  <2> QED
    BY <2>2 DEF Admit, sweep, ReadIn
<1>4. CASE f \in hash'
  <2>1. CASE ReadIn(f[2]) <= Expiry[n]
    BY <1>2, <1>3, <1>4, <2>1 DEF Admit, Kept, InTime
  <2>2. CASE ReadIn(f[2]) > Expiry[n]
    <3>1. f \in Promised(hash')
      BY <1>2, <1>4 DEF Promised
    <3>2. f \in late'
      BY <2>2, <3>1 DEF Admit
    <3> QED
      BY <1>2, <1>4, <3>2 DEF Kept, Late
  <2> QED
    BY <1>3, <2>1, <2>2
<1>5. CASE f \notin hash'
  <2>1. f # <<ip, n>> /\ f \notin hash /\ f \in unreported
    BY <1>1, <1>5 DEF Admit
  <2>2. CASE Held(f)
    BY <1>2, <2>2 DEF Admit, sweep, Kept, Held
  <2>3. CASE ~Held(f)
    <3>1. f \in late /\ f \in expired
      BY <2>1, <2>3 DEF KInv, Kept, InTime, Late
    <3> QED
      BY <1>2, <1>5, <2>1, <3>1 DEF Admit, Kept, Late
  <2> QED
    BY <2>2, <2>3
<1> QED
  BY <1>2, <1>4, <1>5

\* What the next lemmas assume: a step of a behaviour without failures, and a
\* field that is not reported before or after it.
Steady(f) ==
    /\ KInv /\ [Next]_vars /\ outage = {}
    /\ f \in unreported /\ f \in unreported'

LEMMA SteadyFacts ==
    ASSUME NEW f, Steady(f)
    PROVE  /\ f[2] \in Nodes /\ f[2] \in serving /\ Kept(f)
           /\ \A n \in Nodes : Leave(n) => n # f[2]
           /\ Period[f[2]] \in Nat /\ MaxBusy \in Nat /\ ttl \in Nat
           /\ due[f[2]] \in Nat /\ busy[f[2]] \in Nat
           /\ due[f[2]] <= Period[f[2]] /\ busy[f[2]] <= MaxBusy
<1>1. f[2] \in Nodes /\ f[2] \in serving /\ Kept(f)
  BY DEF Steady, KInv, TypeOK
<1>2. \A n \in Nodes : Leave(n) => n # f[2]
  BY DEF Steady, Leave, Others, Own
<1> QED
  BY <1>1, <1>2, IPLimitAssumption DEF Steady, KInv, TypeOK, Clocks

(* What a sweep holds it goes on to report.                                 *)
LEMMA HeldStep ==
    ASSUME NEW f, Steady(f), Held(f)
    PROVE  Kept(f)'
<1> DEFINE m == f[2]
<1>0. m \in Nodes /\ TypeOK /\ outage = {} /\ f \in unreported'
  BY SteadyFacts DEF Steady, KInv
<1>1. ASSUME NEW n \in Nodes, Sweep(n) PROVE Held(f)'
  <2>1. CASE n # m
    BY <1>0, <1>1, <2>1 DEF Sweep, SweepBegin, SweepRead, SweepDelete,
       SweepReport, SweepEnd, Held, TypeOK
  <2>2. CASE n = m
    <3>1. ~SweepBegin(m) /\ ~SweepRead(m) /\ ~SweepEnd(m)
      BY DEF Held, SweepBegin, SweepRead, SweepEnd
    <3>2. ~SweepReport(m)
      BY <1>0 DEF Held, SweepReport
    <3>3. SweepDelete(m)
      BY <1>1, <2>2, <3>1, <3>2 DEF Sweep
    <3> QED
      BY <1>0, <3>3 DEF Held, SweepDelete, TypeOK
  <2> QED
    BY <2>1, <2>2
<1>2. CASE UNCHANGED <<pc, claimed>>
  BY <1>2 DEF Held, Kept
<1> QED
  BY <1>1, <1>2 DEF Steady, Next, Connect, Admit, Refuse, AdmitUnchecked, Tick,
     Leave, Join, Kept, vars, sweep

(* What is late stays in the hash until it is read or goes with all of it.  *)
LEMMA LateStep ==
    ASSUME NEW f, Steady(f), ~Held(f), Late(f)
    PROVE  Kept(f)'
<1> DEFINE m == f[2]
<1>0. /\ m \in Nodes /\ m \in serving /\ TypeOK /\ KInv /\ outage = {}
      /\ f \in unreported'
  BY SteadyFacts DEF Steady, KInv
<1>1. CASE UNCHANGED <<hash, late, expired>>
  BY <1>1 DEF Kept, Late
<1>2. ASSUME NEW n \in Nodes, NEW ip \in Ips, Admit(n, ip) PROVE Kept(f)'
  BY <1>0, <1>2, KeptAdmit
<1>3. ASSUME NEW n \in Nodes, SweepDelete(n) PROVE Kept(f)'
  <2>1. hash' = hash \ claimed[n] /\ UNCHANGED <<late, expired>>
    BY <1>0, <1>3 DEF SweepDelete, history
  <2>2. f \notin claimed[n]
    <3>1. CASE n = m
      BY <1>3, <3>1 DEF SweepDelete, Held
    <3>2. CASE n # m
      BY <1>0, <3>2 DEF TypeOK, Own
    <3> QED
      BY <3>1, <3>2
  <2> QED
    BY <2>1, <2>2 DEF Kept, Late
<1>4. CASE Tick
  <2>1. /\ late' = late
        /\ expired' = expired \cup Promised(hash \ hash')
    BY <1>4 DEF Tick
  <2>2. f \in hash /\ f \notin hash' => f \in Promised(hash \ hash')
    BY <1>0 DEF Promised
  <2> QED
    BY <2>1, <2>2 DEF Kept, Late
<1>5. ASSUME NEW n \in Nodes, Leave(n) PROVE Kept(f)'
  <2>1. n # m
    BY <1>5, SteadyFacts
  <2> QED
    BY <1>5, <2>1 DEF Leave, Others, Own, redis, Kept, Late
<1> QED
  BY <1>1, <1>2, <1>3, <1>4, <1>5
     DEF Steady, Next, Connect, Refuse, AdmitUnchecked, Sweep, SweepBegin,
         SweepRead, SweepReport, SweepEnd, Join, vars, redis, history

(* A field in time stays so until its node reads it, and then it is held.   *)
LEMMA InTimeStep ==
    ASSUME NEW f, Steady(f), ~Held(f), InTime(f)
    PROVE  Kept(f)'
<1> DEFINE m == f[2]
<1>0. /\ m \in Nodes /\ m \in serving /\ TypeOK /\ KInv /\ outage = {}
      /\ f \in unreported' /\ f \in hash /\ ttl >= ReadIn(m)
  BY SteadyFacts DEF Steady, KInv, InTime
<1>1. /\ Period[m] \in Nat /\ MaxBusy \in Nat /\ ttl \in Nat
      /\ due[m] \in Nat /\ busy[m] \in Nat
      /\ due[m] <= Period[m] /\ busy[m] <= MaxBusy
  BY SteadyFacts
<1>2. CASE UNCHANGED <<hash, ttl>> /\ ReadIn(m)' = ReadIn(m)
  BY <1>0, <1>2 DEF Kept, InTime
<1>3. ASSUME NEW n \in Nodes, NEW ip \in Ips, Connect(n, ip) PROVE Kept(f)'
  <2>1. CASE Admit(n, ip)
    BY <1>0, <2>1, KeptAdmit
  <2>2. CASE UNCHANGED <<redis, sweep>>
    BY <1>2, <2>2 DEF redis, sweep, ReadIn
  <2> QED
    BY <1>3, <2>1, <2>2 DEF Connect, Refuse, AdmitUnchecked
<1>12. CASE UNCHANGED <<redis, sweep>>
  BY <1>2, <1>12 DEF redis, sweep, ReadIn
<1>4. ASSUME NEW n \in Nodes, Sweep(n), n # m PROVE Kept(f)'
  <2>1. ReadIn(m)' = ReadIn(m)
    BY <1>0, <1>4 DEF Sweep, SweepBegin, SweepRead, SweepDelete, SweepReport,
       SweepEnd, ReadIn, TypeOK
  <2>2. CASE SweepDelete(n)
    <3>1. f \notin claimed[n]
      BY <1>0, <1>4 DEF TypeOK, Own
    <3>2. f \in hash' /\ ttl' = ttl
      BY <1>0, <2>2, <3>1 DEF SweepDelete
    <3> QED
      BY <1>0, <2>1, <3>2 DEF Kept, InTime
  <2>3. CASE UNCHANGED redis
    BY <1>2, <2>1, <2>3 DEF redis
  <2> QED
    BY <1>4, <2>2, <2>3 DEF Sweep, SweepBegin, SweepRead, SweepReport, SweepEnd
<1>5. CASE SweepBegin(m)
  <2>1. ttl >= due[m] + MaxBusy
    BY <1>0, <1>5 DEF SweepBegin, ReadIn
  <2>2. ReadIn(m)' = MaxBusy - busy[m]
    BY <1>0, <1>5 DEF SweepBegin, ReadIn, TypeOK
  <2> QED
    BY <1>0, <1>1, <1>5, <2>1, <2>2 DEF SweepBegin, redis, Kept, InTime
<1>6. CASE SweepRead(m)
  <2>1. f \in Own(m, hash)
    BY <1>0 DEF Own
  <2>2. claimed'[m] = Own(m, hash) /\ pc'[m] = "delete"
    BY <1>0, <1>6, <2>1 DEF SweepRead, TypeOK
  <2> QED
    BY <2>1, <2>2 DEF Kept, Held
<1>7. CASE SweepDelete(m)
  <2>1. f \notin claimed[m]
    BY <1>7 DEF SweepDelete, Held
  <2>2. f \in hash' /\ ttl' = ttl
    BY <1>0, <1>7, <2>1 DEF SweepDelete
  <2>3. ReadIn(m)' = ReadIn(m)
    BY <1>0, <1>7 DEF SweepDelete, ReadIn, TypeOK
  <2> QED
    BY <1>0, <2>2, <2>3 DEF Kept, InTime
<1>8. CASE SweepReport(m)
  <2>1. ReadIn(m)' = ReadIn(m)
    BY <1>0, <1>8 DEF SweepReport, ReadIn, TypeOK
  <2> QED
    BY <1>2, <1>8, <2>1 DEF SweepReport, redis
<1>9. CASE SweepEnd(m)
  <2>1. ttl >= (MaxBusy - busy[m]) + Period[m] + MaxBusy
    BY <1>0, <1>9 DEF SweepEnd, ReadIn
  <2>2. ReadIn(m)' = Period[m] + MaxBusy
    BY <1>0, <1>9 DEF SweepEnd, ReadIn, TypeOK
  <2> QED
    BY <1>0, <1>1, <1>9, <2>1, <2>2 DEF SweepEnd, redis, Kept, InTime
<1>10. CASE Tick
  <2>1. ReadIn(m) > 0 /\ ReadIn(m)' = ReadIn(m) - 1 /\ ReadIn(m) \in Nat
    <3>1. /\ IF pc[m] = "wait" THEN due[m] > 0 ELSE busy[m] < MaxBusy
          /\ due'[m] = IF pc[m] = "wait" /\ due[m] > 0 THEN due[m] - 1 ELSE due[m]
          /\ busy'[m] = IF pc[m] = "wait" THEN busy[m] ELSE busy[m] + 1
          /\ pc' = pc
      BY <1>0, <1>10 DEF Tick
    <3>2. CASE pc[m] = "wait"
      <4>1. ReadIn(m) = due[m] + MaxBusy /\ ReadIn(m)' = due'[m] + MaxBusy
        BY <3>1, <3>2 DEF ReadIn
      <4> QED
        BY <1>1, <3>1, <3>2, <4>1
    <3>3. CASE pc[m] = "read"
      <4>1. ReadIn(m) = MaxBusy - busy[m] /\ ReadIn(m)' = MaxBusy - busy'[m]
        BY <3>1, <3>3 DEF ReadIn
      <4> QED
        BY <1>1, <3>1, <3>3, <4>1
    <3>4. CASE pc[m] \notin {"wait", "read"}
      <4>1. /\ ReadIn(m) = (MaxBusy - busy[m]) + Period[m] + MaxBusy
            /\ ReadIn(m)' = (MaxBusy - busy'[m]) + Period[m] + MaxBusy
        BY <3>1, <3>4 DEF ReadIn
      <4> QED
        BY <1>1, <3>1, <3>4, <4>1
    <3> QED
      BY <3>2, <3>3, <3>4
  <2>2. ttl > 0 /\ hash # {}
    BY <1>0, <1>1, <2>1
  <2>3. hash' = hash /\ ttl' = ttl - 1
    BY <1>10, <2>2 DEF Tick
  <2> QED
    BY <1>0, <1>1, <2>1, <2>3 DEF Kept, InTime
<1>11. ASSUME NEW n \in Nodes, Join(n) PROVE Kept(f)'
  <2>1. n # m
    BY <1>0, <1>11 DEF Join
  <2>2. ReadIn(m)' = ReadIn(m)
    BY <1>0, <1>11, <2>1 DEF Join, ReadIn, TypeOK
  <2> QED
    BY <1>2, <1>11, <2>2 DEF Join, redis
<1> QED
  BY <1>3, <1>4, <1>5, <1>6, <1>7, <1>8, <1>9, <1>10, <1>11, <1>12
     DEF Steady, Next, Sweep, Leave, vars

LEMMA KeptInductive == KInv /\ [Next]_vars => KInv'
<1> SUFFICES ASSUME KInv, [Next]_vars PROVE KInv'
  OBVIOUS
<1>1. TypeOK' /\ Clocks'
  BY TypeStep, ClocksStep DEF KInv
<1>2. ASSUME outage' = {}, NEW f \in unreported' PROVE f[2] \in serving' /\ Kept(f)'
  <2>1. outage = {}
    BY <1>2 DEF Next, vars, outage
  <2>2. CASE f \in unreported
    <3>1. Steady(f)
      BY <1>2, <2>1, <2>2 DEF Steady
    <3>2. Kept(f)
      BY <3>1, SteadyFacts
    <3>3. Kept(f)'
      BY <3>1, <3>2, HeldStep, LateStep, InTimeStep DEF Kept
    <3>4. f[2] \in serving'
      BY <1>2, <3>1, SteadyFacts DEF Next, Connect, Admit, Refuse, AdmitUnchecked,
         Sweep, SweepBegin, SweepRead, SweepDelete, SweepReport, SweepEnd, Tick,
         Leave, Join, vars
    <3> QED
      BY <3>3, <3>4
  <2>3. CASE f \notin unreported
    <3>1. PICK n \in Nodes, ip \in Ips : Admit(n, ip)
      BY <1>2, <2>3 DEF Next, Connect, Refuse, AdmitUnchecked, Sweep,
         SweepBegin, SweepRead, SweepDelete, SweepReport, SweepEnd, Tick, Leave,
         Join, Others, vars, history
    <3>2. f[2] \in serving /\ Kept(f)'
      BY <1>2, <2>1, <3>1, KeptAdmit
    <3> QED
      BY <3>1, <3>2 DEF Admit
  <2> QED
    BY <2>2, <2>3
<1> QED
  BY <1>1, <1>2 DEF KInv

(* If neither Redis nor the panel fails, then for any number of nodes, any   *)
(* periods and expiries, and tags that come and go, what a node with a       *)
(* limiter recorded stays in the hash or in a sweep until it is reported,    *)
(* unless the hash's life was set too short for it and ran out.              *)
THEOREM NothingIsDropped == Spec => []NothingDroppedUnreported
<1>1. KInv => NothingDroppedUnreported
  <2> SUFFICES ASSUME KInv, outage = {}, NEW f \in unreported
               PROVE  \/ f \in hash \/ \E n \in Nodes : f \in claimed[n]
                      \/ f \in late /\ f \in expired
    BY DEF NothingDroppedUnreported
  <2>1. Kept(f) /\ f[2] \in Nodes
    BY DEF KInv, TypeOK, Fields
  <2> QED
    BY <2>1 DEF Kept, Held, InTime, Late
<1> QED
  BY <1>1, KeptInit, KeptInductive, PTL DEF Spec

-----------------------------------------------------------------------------
\* As the code sets it, for nodes with one UpdateTime: every expiry is the
\* period, and a sweep lasts no longer than that.
OneUpdateTime ==
    \A n, m \in Nodes : Expiry[n] = Period[m] /\ MaxBusy <= Period[n]

\* From a sweep's read until its pause has lasted MaxBusy.
AroundSweep(n) ==
    \/ pc[n] \in {"delete", "report", "end"}
    \/ pc[n] = "wait" /\ due[n] + MaxBusy > Period[n]

\* A connection sets the hash's life, with the field in it.
Renewed(f) == f \in hash' /\ \E n \in Nodes, ip \in Ips : Admit(n, ip)

(* With the expiry the code sets, an address can only be lost that is        *)
(* recorded, or is in the hash when another is, from its node's read until   *)
(* shortly after the sweep's end: what is recorded in the rest of the period *)
(* is reported (NothingIsDropped).                                           *)
THEOREM LateOnlyAroundSweeps ==
    OneUpdateTime =>
        (Spec => [][\A f \in late' : f \notin late \/ Renewed(f) => AroundSweep(f[2])]_vars)
<1> SUFFICES ASSUME OneUpdateTime
             PROVE  Spec => [][\A f \in late' : f \notin late \/ Renewed(f) => AroundSweep(f[2])]_vars
  OBVIOUS
<1>1. KInv /\ [Next]_vars => [\A f \in late' : f \notin late \/ Renewed(f) => AroundSweep(f[2])]_vars
  <2> SUFFICES ASSUME KInv, [Next]_vars, NEW f \in late', f \notin late \/ Renewed(f)
               PROVE  AroundSweep(f[2])
    OBVIOUS
  <2>0. ~Renewed(f) => \E n \in Nodes, ip \in Ips : Admit(n, ip)
    BY DEF Next, Connect, Refuse, AdmitUnchecked, Sweep, SweepBegin, SweepRead,
       SweepDelete, SweepReport, SweepEnd, Tick, Leave, Join, Others, vars, history
  <2>1. PICK n \in Nodes, ip \in Ips : Admit(n, ip)
    BY <2>0 DEF Renewed
  <2>2. f \in Promised(hash') /\ ReadIn(f[2]) > Expiry[n]
    BY <2>1 DEF Admit, Renewed
  <2>3. f[2] \in Nodes
    BY <2>2 DEF Promised, KInv, TypeOK, Next, vars, Admit, Fields
  <2>4. /\ Period[f[2]] \in Nat /\ MaxBusy \in Nat /\ due[f[2]] \in Nat
        /\ busy[f[2]] \in Nat /\ Expiry[n] = Period[f[2]]
        /\ MaxBusy <= Period[f[2]]
        /\ pc[f[2]] \in {"wait", "read", "delete", "report", "end"}
    BY <2>3, IPLimitAssumption DEF OneUpdateTime, KInv, TypeOK
  <2>5. CASE pc[f[2]] = "wait"
    BY <2>2, <2>4, <2>5 DEF ReadIn, AroundSweep
  <2>6. CASE pc[f[2]] = "read"
    <3>1. ReadIn(f[2]) = MaxBusy - busy[f[2]]
      BY <2>6 DEF ReadIn
    <3> QED
      BY <2>2, <2>4, <3>1
  <2>7. CASE pc[f[2]] \in {"delete", "report", "end"}
    BY <2>7 DEF AroundSweep
  <2> QED
    BY <2>4, <2>5, <2>6, <2>7
<1> QED
  BY <1>1, KeptInit, KeptInductive, PTL DEF Spec

=============================================================================
