----------------------------- MODULE ReverbProofs -----------------------------
(***************************************************************************)
(* Proofs about Reverb, for any listeners, sessions, callers and queue     *)
(* sizes.                                                                  *)
(*                                                                         *)
(* That currentPusher is never closed needs two facts about the code's     *)
(* order: a session is open until its listener closes it (InHand), and     *)
(* when a listener has withdrawn, its session is not the pusher            *)
(* (Withdrawn) -- which in turn needs that no two listeners share one      *)
(* (Apart).                                                                *)
(***************************************************************************)
EXTENDS Reverb, TLAPS

InHand ==
    /\ \A l \in Listeners : sess[l] # NoSession => sess[l] \in open
    /\ pusher # NoSession => \E l \in Listeners : sess[l] = pusher

Apart ==
    \A l, m \in Listeners : l # m /\ sess[l] # NoSession => sess[l] # sess[m]

Withdrawn == \A l \in Listeners : pc[l] = "close" => pusher # sess[l]

\* Listeners that are not enabled never run.
Idle == \A l \in Listeners \ enabled : pc[l] = "done"

IInv == TypeOK /\ InHand /\ Apart /\ Withdrawn /\ Idle /\ SoleListenerPushes

parts == <<enabled, listening, open>>

-----------------------------------------------------------------------------
LEMMA InitIInv == Init => IInv
<1> SUFFICES ASSUME Init PROVE IInv
  OBVIOUS
<1>1. TypeOK
  <2>1. out \in Seq(Callers) /\ Len(out) <= OutCap
    BY ReverbAssumption DEF Init
  <2>2. /\ queue \in [Ids -> 0..MsgCap]
        /\ reader \in [Ids -> {"none", "reading", "blocked"}]
        /\ caller \in [Callers -> {"asking", "waiting", "ok", "error"}]
    BY ReverbAssumption DEF Init
  <2>3. /\ pc \in [Listeners -> {"dial", "await", "serve", "end", "close", "done"}]
        /\ sess \in [Listeners -> Ids \cup {NoSession}]
        /\ \A l \in Listeners : pc[l] \in {"serve", "end", "close"} <=> sess[l] # NoSession
    BY DEF Init
  <2> QED
    BY <2>1, <2>2, <2>3 DEF Init, TypeOK
<1>2. InHand /\ Apart /\ Withdrawn /\ Idle /\ SoleListenerPushes
  BY DEF Init, InHand, Apart, Withdrawn, Idle, SoleListenerPushes
<1> QED
  BY <1>1, <1>2 DEF IInv

\* What all but the typing say is about parts only.
LEMMA PartsOnly == ASSUME IInv, UNCHANGED parts, TypeOK' PROVE IInv'
BY DEF IInv, parts, listening, InHand, Apart, Withdrawn, Idle, SoleListenerPushes

LEMMA DialIInv ==
    ASSUME IInv, NEW l \in Listeners, Dial(l) \/ Leave(l) \/ NotConnected(l)
    PROVE  IInv'
<1>1. TypeOK'
  BY DEF Dial, Leave, NotConnected, Goto, IInv, TypeOK, sockets, pushing
<1>2. (InHand /\ Apart /\ Withdrawn)'
  BY DEF Dial, Leave, NotConnected, Goto, IInv, TypeOK, InHand, Apart, Withdrawn, sockets
<1>3. Idle'
  BY DEF Dial, Leave, NotConnected, Goto, IInv, TypeOK, Idle
<1>4. SoleListenerPushes'
  BY DEF Dial, Leave, NotConnected, Goto, IInv, TypeOK, SoleListenerPushes
<1> QED
  BY <1>1, <1>2, <1>3, <1>4 DEF IInv

LEMMA InstallIInv == ASSUME IInv, NEW l \in Listeners, Install(l) PROVE IInv'
<1> DEFINE i == CHOOSE x \in Ids : Free(x)
<1>1. i \in Ids /\ Free(i)
  BY DEF Install
<1>2. /\ sess' = [sess EXCEPT ![l] = i] /\ pusher' = i /\ open' = open \cup {i}
      /\ up' = up \cup {i} /\ reader' = [reader EXCEPT ![i] = "reading"]
      /\ pc' = [pc EXCEPT ![l] = "serve"] /\ pc[l] = "await"
      /\ UNCHANGED <<enabled, cancelled, queue, pushing>>
  BY DEF Install, Goto
<1> HIDE DEF i
<1>3. TypeOK'
  BY <1>1, <1>2, ReverbAssumption DEF IInv, TypeOK, pushing
<1>4. InHand'
  BY <1>1, <1>2, ReverbAssumption DEF IInv, TypeOK, InHand
<1>5. Apart'
  BY <1>1, <1>2, ReverbAssumption DEF IInv, TypeOK, Apart, Free
<1>6. Withdrawn'
  BY <1>1, <1>2, ReverbAssumption DEF IInv, TypeOK, Withdrawn, Free
<1>7. Idle' /\ SoleListenerPushes'
  BY <1>1, <1>2 DEF IInv, TypeOK, Idle, SoleListenerPushes
<1> QED
  BY <1>3, <1>4, <1>5, <1>6, <1>7 DEF IInv

LEMMA EndIInv ==
    ASSUME IInv, NEW l \in Listeners, PingFails(l) \/ Stop(l) \/ Withdraw(l) \/ Close(l)
    PROVE  IInv'
<1>1. CASE PingFails(l) \/ Stop(l)
  <2>1. pc' = [pc EXCEPT ![l] = "end"] /\ pc[l] = "serve"
        /\ UNCHANGED <<enabled, cancelled, sess, pusher, sockets, pushing>>
    BY <1>1 DEF PingFails, Stop, Goto
  <2> QED
    BY <2>1 DEF IInv, TypeOK, InHand, Apart, Withdrawn, Idle, SoleListenerPushes,
                sockets, pushing
<1>2. CASE Withdraw(l)
  <2>1. TypeOK'
    BY <1>2 DEF Withdraw, Goto, IInv, TypeOK, sockets, pushing
  <2>2. InHand' /\ Apart' /\ Withdrawn'
    BY <1>2 DEF Withdraw, Goto, IInv, TypeOK, InHand, Apart, Withdrawn, sockets
  <2>3. Idle' /\ SoleListenerPushes'
    BY <1>2 DEF Withdraw, Goto, IInv, TypeOK, Idle, SoleListenerPushes
  <2> QED
    BY <2>1, <2>2, <2>3 DEF IInv
<1>3. CASE Close(l)
  <2>1. TypeOK'
    BY <1>3, ReverbAssumption DEF Close, Goto, IInv, TypeOK, pushing
  <2>2. InHand'
    BY <1>3, ReverbAssumption DEF Close, Goto, IInv, TypeOK, InHand, Apart, Withdrawn
  <2>3. Apart' /\ Withdrawn'
    BY <1>3, ReverbAssumption DEF Close, Goto, IInv, TypeOK, Apart, Withdrawn
  <2>4. Idle' /\ SoleListenerPushes'
    BY <1>3 DEF Close, Goto, IInv, TypeOK, Idle, SoleListenerPushes
  <2> QED
    BY <2>1, <2>2, <2>3, <2>4 DEF IInv
<1> QED
  BY <1>1, <1>2, <1>3

LEMMA OtherIInv ==
    ASSUME IInv,
           \/ \E l \in Listeners : Handle(l)
           \/ \E i \in Ids : Read(i) \/ Break(i)
           \/ \E c \in Callers : PushEvent(c) \/ Enqueue(c)
           \/ Push \/ Cancel \/ UNCHANGED vars
    PROVE  IInv'
<1>1. UNCHANGED parts
  BY DEF Handle, Read, Receive, Unblock, ReadFails, Break, PushEvent, Enqueue, Push, Take,
         Answer, Cancel, vars, parts, listening, sockets
<1>2. TypeOK'
  <2>1. ASSUME NEW l \in Listeners, Handle(l) PROVE TypeOK'
    <3>1. sess[l] \in Ids
      BY <2>1 DEF Handle, IInv, TypeOK
    <3>2. queue' \in [Ids -> 0..MsgCap]
      BY <2>1, <3>1, ReverbAssumption DEF Handle, IInv, TypeOK
    <3> QED
      BY <2>1, <3>2 DEF Handle, IInv, TypeOK, listening, pushing
  <2>2. ASSUME NEW i \in Ids, Read(i) PROVE TypeOK'
    <3>1. queue' \in [Ids -> 0..MsgCap]
      BY <2>2, ReverbAssumption DEF Read, Receive, Unblock, ReadFails, IInv, TypeOK
    <3>2. reader' \in [Ids -> {"none", "reading", "blocked"}]
      BY <2>2 DEF Read, Receive, Unblock, ReadFails, IInv, TypeOK
    <3> QED
      BY <2>2, <3>1, <3>2 DEF Read, Receive, Unblock, ReadFails, IInv, TypeOK, listening, pushing
  <2>3. ASSUME NEW i \in Ids, Break(i) PROVE TypeOK'
    BY <2>3 DEF Break, IInv, TypeOK, listening, pushing
  <2>4. ASSUME NEW c \in Callers, PushEvent(c) PROVE TypeOK'
    BY <2>4 DEF PushEvent, IInv, TypeOK, listening, sockets
  <2>5. ASSUME NEW c \in Callers, Enqueue(c) PROVE TypeOK'
    BY <2>5, ReverbAssumption DEF Enqueue, IInv, TypeOK, listening, sockets
  <2>6. CASE Take
    BY <2>6, ReverbAssumption DEF Take, IInv, TypeOK, listening, sockets, Away, Nobody
  <2>7. CASE Answer
    BY <2>7 DEF Answer, IInv, TypeOK, listening, sockets
  <2>8. CASE Cancel
    BY <2>8 DEF Cancel, IInv, TypeOK, listening, sockets, pushing
  <2>9. CASE UNCHANGED vars
    BY <2>9 DEF vars, IInv, TypeOK, listening, sockets, pushing
  <2> QED
    BY <2>1, <2>2, <2>3, <2>4, <2>5, <2>6, <2>7, <2>8, <2>9 DEF Push
<1> QED
  BY <1>1, <1>2, PartsOnly

LEMMA StepIInv == IInv /\ [Next]_vars => IInv'
BY DialIInv, InstallIInv, EndIInv, OtherIInv DEF Next, Listen

THEOREM Invariant == Spec => []IInv
BY InitIInv, StepIInv, PTL DEF Spec

(* Every reachable state is well typed: in particular msgs and              *)
(* reverbOutbound never pass their capacity and no answer is without a      *)
(* caller.                                                                  *)
THEOREM TypeCorrect == Spec => []TypeOK
<1>1. IInv => TypeOK
  BY DEF IInv
<1> QED
  BY <1>1, Invariant, PTL

(* Whatever sessions of however many listeners begin and end, currentPusher *)
(* is nil or an open session.                                               *)
THEOREM PusherOpenHolds == Spec => []PusherOpen
<1>1. IInv => PusherOpen
  BY DEF IInv, InHand, PusherOpen
<1> QED
  BY <1>1, Invariant, PTL

(* With one listener a serving session is the pusher.                       *)
THEOREM SoleListenerPushesHolds == Spec => []SoleListenerPushes
<1>1. IInv => SoleListenerPushes
  BY DEF IInv
<1> QED
  BY <1>1, Invariant, PTL
=============================================================================
