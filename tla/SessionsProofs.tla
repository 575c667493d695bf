--------------------------- MODULE SessionsProofs ---------------------------
(***************************************************************************)
(* Proofs about Sessions, for any users, sessions, connections and rates.  *)
(*                                                                         *)
(* NothingLeaks needs to know that a link is tracked under its own user    *)
(* (LinksOwn), or UntrackLink would miss it.  Reachable needs to know that *)
(* a deletion starts with nothing in hand (HandsEmpty: CollectConns        *)
(* overwrites what was caught), and TypeOK that a bucket which is still in *)
(* the hub has a positive rate as well (HubPositive).                      *)
(***************************************************************************)
EXTENDS Sessions, TLAPS

HandsEmpty == op \notin {"links", "close"} => caught = {}

HubPositive == \A u \in Users : hub[u] # NoBucket => rate[hub[u]] > 0

TInv == TypeOK /\ HubPositive

RInv == TypeOK /\ HandsEmpty /\ Reachable

LEMMA DetermineNat == \A a, b \in Nat : Determine(a, b) \in Nat
BY DEF Determine

-----------------------------------------------------------------------------
LEMMA InitTInv == Init => TInv
BY SessionsAssumption DEF Init, TInv, TypeOK, HubPositive

LEMMA SessionTypes ==
    ASSUME TInv, NEW s \in Ids,
           Authenticate(s) \/ Resolve(s) \/ EndContext(s) \/ Untrack(s)
    PROVE  TInv'
<1>1. CASE Authenticate(s)
  BY <1>1 DEF Authenticate, Goto, TInv, TypeOK, HubPositive, limiter, tracked, ending, control
<1>2. CASE LoadLimit(s)
  BY <1>2, SessionsAssumption
     DEF LoadLimit, Goto, TInv, TypeOK, HubPositive, limiter, tracked, ending, control
<1>9. CASE ReadRate(s)
  <2>1. Determine(nodeRate, seen[s]) \in Nat
    BY DetermineNat, SessionsAssumption DEF TInv, TypeOK
  <2> QED
    BY <1>9, <2>1 DEF ReadRate, Goto, TInv, TypeOK, HubPositive, limiter, tracked, ending, control
<1>3. CASE Refuse(s)
  BY <1>3 DEF Refuse, Goto, TInv, TypeOK, HubPositive, limiter, tracked, ending, control
<1>4. CASE TakeBucket(s)
  BY <1>4, SessionsAssumption
     DEF TakeBucket, Goto, TInv, TypeOK, HubPositive, tracked, ending, control
<1>5. CASE TrackConn(s)
  BY <1>5 DEF TrackConn, Goto, TInv, TypeOK, HubPositive, limiter, ending, control
<1>6. CASE TrackLink(s)
  BY <1>6 DEF TrackLink, Goto, TInv, TypeOK, HubPositive, limiter, ending, control
<1>7. CASE EndContext(s)
  BY <1>7 DEF EndContext, TInv, TypeOK, HubPositive, limiter, session, tracked, control
<1>8. CASE Untrack(s)
  BY <1>8 DEF Untrack, UntrackConn, UntrackLink, TInv, TypeOK, HubPositive,
              limiter, session, ending, control
<1> QED
  BY <1>1, <1>2, <1>3, <1>4, <1>5, <1>6, <1>7, <1>8, <1>9 DEF Resolve

LEMMA ControlTypes ==
    ASSUME TInv,
           \/ \E u \in Users : RemoveUser(u) \/ AddUser(u) \/ DropBucket(u)
           \/ Cut \/ Store \/ UpdateNodeInfo
    PROVE  TInv'
<1>1. ASSUME NEW u \in Users, RemoveUser(u) PROVE TInv'
  BY <1>1 DEF RemoveUser, TInv, TypeOK, HubPositive, limiter, session, tracked, ending
<1>2. ASSUME NEW u \in Users, AddUser(u) PROVE TInv'
  BY <1>2 DEF AddUser, TInv, TypeOK, HubPositive, limiter, session, tracked, ending
<1>3. ASSUME NEW u \in Users, DropBucket(u) PROVE TInv'
  BY <1>3 DEF DropBucket, TInv, TypeOK, HubPositive, session, tracked, ending, control
<1>4. CASE ForgetUser
  BY <1>4 DEF ForgetUser, TInv, TypeOK, HubPositive, session, tracked, ending
<1>5. CASE CollectConns
  BY <1>5 DEF CollectConns, TInv, TypeOK, HubPositive, limiter, session, ending
<1>6. CASE CollectLinks
  BY <1>6 DEF CollectLinks, TInv, TypeOK, HubPositive, limiter, session, ending
<1>7. CASE CloseCaught
  BY <1>7 DEF CloseCaught, TInv, TypeOK, HubPositive, limiter, session, tracked
<1>8. CASE StoreLimit
  BY <1>8 DEF StoreLimit, TInv, TypeOK, HubPositive, session, tracked, ending
<1>9. CASE SetRate
  <2>1. Determine(nodeRate, subRate[victim]) \in Nat
    BY DetermineNat, SessionsAssumption DEF TInv, TypeOK
  <2> QED
    BY <1>9, <2>1 DEF SetRate, TInv, TypeOK, HubPositive, session, tracked, ending
<1>10. CASE UpdateNodeInfo
  BY <1>10 DEF UpdateNodeInfo, TInv, TypeOK, HubPositive, session, tracked, ending, control
<1> QED
  BY <1>1, <1>2, <1>3, <1>4, <1>5, <1>6, <1>7, <1>8, <1>9, <1>10 DEF Cut, Store

LEMMA TypeInvariance == Spec => []TInv
<1>1. TInv /\ [Next]_vars => TInv'
  <2> SUFFICES ASSUME TInv, [Next]_vars PROVE TInv'
    OBVIOUS
  <2>1. CASE Next
    BY <2>1, SessionTypes, ControlTypes DEF Next
  <2>2. CASE UNCHANGED vars
    BY <2>2 DEF vars, limiter, session, tracked, ending, control, TInv, TypeOK, HubPositive
  <2> QED
    BY <2>1, <2>2
<1> QED
  BY InitTInv, <1>1, PTL DEF Spec

(* Every reachable state is well typed and no bucket in use has rate zero:  *)
(* GetLimiter and UpdateInboundLimiter never leave a session blocked.       *)
THEOREM TypeCorrect == Spec => []TypeOK
BY TypeInvariance, PTL DEF TInv

-----------------------------------------------------------------------------
LEMMA ReachableStep == TypeOK /\ RInv /\ [Next]_vars => (HandsEmpty /\ Reachable)'
<1> SUFFICES ASSUME TypeOK, RInv, [Next]_vars PROVE (HandsEmpty /\ Reachable)'
  OBVIOUS
<1> USE DEF RInv, HandsEmpty, Reachable, Running
<1>1. ASSUME NEW s \in Ids,
             Authenticate(s) \/ Resolve(s) \/ EndContext(s) \/ Untrack(s)
      PROVE  (HandsEmpty /\ Reachable)'
  <2>1. CASE Authenticate(s) \/ LoadLimit(s) \/ ReadRate(s) \/ Refuse(s) \/ TakeBucket(s) \/ TrackConn(s)
    BY <2>1 DEF Authenticate, LoadLimit, ReadRate, Refuse, TakeBucket, TrackConn, Goto, TypeOK,
                tracked, ending, control
  <2>2. CASE TrackLink(s)
    BY <2>2 DEF TrackLink, Goto, TypeOK, ending, control
  <2>3. CASE EndContext(s)
    BY <2>3 DEF EndContext, session, tracked, control
  <2>4. CASE Untrack(s)
    BY <2>4 DEF Untrack, UntrackConn, UntrackLink, session, ending, control
  <2> QED
    BY <1>1, <2>1, <2>2, <2>3, <2>4 DEF Resolve
<1>2. ASSUME NEW u \in Users, RemoveUser(u) \/ AddUser(u) \/ DropBucket(u)
      PROVE  (HandsEmpty /\ Reachable)'
  BY <1>2 DEF RemoveUser, AddUser, DropBucket, session, tracked, ending, control
<1>3. CASE ForgetUser \/ CollectConns
  BY <1>3 DEF ForgetUser, CollectConns, session, tracked, ending
<1>4. CASE CollectLinks
  BY <1>4 DEF CollectLinks, session, ending
<1>5. CASE CloseCaught
  BY <1>5 DEF CloseCaught, session, tracked
<1>6. CASE Store \/ UpdateNodeInfo
  BY <1>6 DEF Store, StoreLimit, SetRate, UpdateNodeInfo, session, tracked, ending, control
<1>7. CASE UNCHANGED vars
  BY <1>7 DEF vars, session, tracked, ending, control
<1> QED
  BY <1>1, <1>2, <1>3, <1>4, <1>5, <1>6, <1>7 DEF Next, Cut

(* A deletion misses no running session of its user: each one is tracked,   *)
(* in the deletion's hands, or shut already.                                *)
THEOREM ReachableHolds == Spec => []Reachable
<1>1. Init => RInv
  BY InitTInv DEF Init, TInv, RInv, HandsEmpty, Reachable, Running
<1>2. TypeOK /\ TypeOK' /\ RInv /\ [Next]_vars => RInv'
  BY ReachableStep DEF RInv
<1> QED
  BY <1>1, <1>2, TypeCorrect, PTL DEF Spec, RInv

-----------------------------------------------------------------------------
(* A link is tracked under its own user, or untracking it would miss it.    *)
LinksOwn == \A l \in links : l[1] = who[l[2]]

LInv == LinksOwn /\ NothingLeaks

LEMMA LInvStep == TypeOK /\ LInv /\ [Next]_vars => LInv'
<1> SUFFICES ASSUME TypeOK, LInv, [Next]_vars PROVE LInv'
  OBVIOUS
<1> USE DEF LInv, LinksOwn, NothingLeaks
<1>1. ASSUME NEW s \in Ids, TrackConn(s) \/ TrackLink(s) PROVE LInv'
  BY <1>1 DEF TrackConn, TrackLink, TypeOK
<1>2. ASSUME NEW s \in Ids, UntrackConn(s) PROVE LInv'
  <2>1. ASSUME NEW t \in conns' PROVE \E r \in untrackC' : t = <<who[r], via[r]>>
    <3>1. t \in conns /\ t # <<who[s], via[s]>>
      BY <1>2, <2>1 DEF UntrackConn
    <3>2. PICK r \in untrackC : t = <<who[r], via[r]>>
      BY <3>1
    <3>3. r # s
      BY <3>1, <3>2
    <3> QED
      BY <1>2, <3>2, <3>3 DEF UntrackConn
  <2> QED
    BY <1>2, <2>1 DEF UntrackConn, session
<1>3. ASSUME NEW s \in Ids, UntrackLink(s) PROVE LInv'
  <2>1. ASSUME NEW l \in links' PROVE l[1] = who[l[2]] /\ l[2] \in untrackL'
    <3>1. l \in links /\ l # <<who[s], s>>
      BY <1>3, <2>1 DEF UntrackLink
    <3>2. l = <<l[1], l[2]>>
      BY <3>1 DEF TypeOK
    <3>3. l[2] # s
      BY <3>1, <3>2
    <3> QED
      BY <1>3, <3>1, <3>3 DEF UntrackLink
  <2> QED
    BY <1>3, <2>1 DEF UntrackLink, session
<1>4. CASE CollectConns \/ CollectLinks
  BY <1>4 DEF CollectConns, CollectLinks, session
<1>5. CASE UNCHANGED <<tracked, who, via>>
  BY <1>5 DEF tracked
<1> QED
  BY <1>1, <1>2, <1>3, <1>4, <1>5
     DEF Next, Resolve, Untrack, Cut, Store, Authenticate, LoadLimit, ReadRate, Refuse,
         TakeBucket, EndContext, RemoveUser, AddUser, DropBucket, ForgetUser, CloseCaught,
         StoreLimit, SetRate, UpdateNodeInfo, vars, session, tracked

(* Whatever trackConn and trackLink put into the maps is taken out again.   *)
THEOREM NothingLeaksHolds == Spec => []NothingLeaks
<1>1. Init => LInv
  BY DEF Init, LInv, LinksOwn, NothingLeaks
<1> QED
  BY <1>1, LInvStep, TypeCorrect, PTL DEF Spec, LInv
=============================================================================
