------------------------ MODULE TrafficReportProofs ------------------------
(***************************************************************************)
(* Proofs about TrafficReport, for any subscriptions, batch size and       *)
(* amount of traffic: NoLoss, NoOverbilling and CounterNonNegative when    *)
(* reports do not overlap, OverlapBalances when any number of them does,   *)
(* TypeOK always.                                                          *)
(*                                                                         *)
(* None of the ledger's properties is inductive alone.  What they rest on  *)
(* is Backed: the counter of a record that is not reset yet still holds at *)
(* least the amount that was read.  Then the two halves of the balance,    *)
(* Over and Under, need only account for the records that are delivered    *)
(* and not reset.                                                          *)
(***************************************************************************)
EXTENDS TrafficReport, FiniteSetTheorems, TLAPS

Overlap == "overlap" \in trouble

\* Where the records of a report can be, step by step.
Places ==
    \A m \in Monitors :
        /\ pc[m] \notin {"pushed", "posted"} => cur[m] = {}
        /\ pc[m] = "drain" => undelivered[m] = {} /\ left[m] \cap todo[m] = {}
        /\ pc[m] \in {"post", "posted"} => todo[m] = {}

\* Records whose counters this report has still to reset, or to give up.
Owed(m) == IF pc[m] = "idle" THEN {}
           ELSE IF pc[m] = "posted" THEN cur[m]
           ELSE todo[m] \cup undelivered[m] \cup cur[m]

Backed == ~Overlap => /\ \A s \in Subs : counter[s] >= 0
                      /\ \A s \in Owed(Task) : /\ 0 <= snap[Task][s]
                                                /\ snap[Task][s] <= counter[s]

Base == TypeOK /\ Places

\* Delivered and not reset.
InFlight(s) == IF s \in cur[Task] THEN snap[Task][s] ELSE 0

Over == \A s \in Subs : billed[s] + counter[s] <= total[s] + InFlight(s)

Under == \A s \in Subs : total[s] + InFlight(s) <= billed[s] + counter[s]

-----------------------------------------------------------------------------
LEMMA TroubleFixed == [Next]_vars => trouble' = trouble /\ Expected' = Expected
BY DEF Next, Environment, Report, vars, Expected

LEMMA Numbers ==
    ASSUME TypeOK
    PROVE  /\ \A s \in Subs : /\ counter[s] \in Int /\ total[s] \in Int
                              /\ billed[s] \in Int
           /\ \A m \in Monitors, s \in Subs : snap[m][s] \in Int
BY DEF TypeOK

LEMMA TaskIn == Task \in Monitors
BY TrafficAssumption

LEMMA InitBase == Init => Base /\ Backed /\ Over /\ Under
<1> SUFFICES ASSUME Init PROVE Base /\ Backed /\ Over /\ Under
  OBVIOUS
<1>1. Zero \in [Subs -> Nat] /\ \A s \in Subs : Zero[s] = 0
  BY DEF Zero
<1>2. TypeOK
  BY <1>1 DEF Init, TypeOK, Expected
<1>3. Places
  BY DEF Init, Places
<1>4. Backed
  BY <1>1, TaskIn DEF Init, Backed, Owed
<1>5. Over /\ Under
  BY <1>1, TaskIn DEF Init, Over, Under, InFlight
<1> QED
  BY <1>2, <1>3, <1>4, <1>5 DEF Base

(* What booking a batch does to the panel's ledger. *)
LEMMA Booking ==
    ASSUME TypeOK, NEW m \in Monitors, NEW c \in SUBSET Subs, Book(m, c)
    PROVE  /\ billed' \in [Subs -> Int]
           /\ \A s \in c : billed'[s] = billed[s] + snap[m][s]
           /\ \A s \in Subs \ c : billed'[s] = billed[s]
BY DEF Book, TypeOK

LEMMA NextBase == ASSUME Base, [Next]_vars PROVE Base'
<1> USE DEF Base
<1>0. Zero \in [Subs -> Int] /\ Expected' = Expected
  BY TroubleFixed DEF Zero
<1>1. ASSUME NEW s \in Subs, Carry(s) PROVE Base'
  BY <1>0, <1>1 DEF Carry, monitor, TypeOK, Places
<1>2. ASSUME NEW s \in Subs, Register(s) \/ Unregister(s)
      PROVE  Base'
  BY <1>0, <1>2 DEF Register, Unregister, monitor, TypeOK, Places
<1>3. ASSUME NEW m \in Monitors, MonitorStart(m) PROVE Base'
  <2>1. cur[m] = {}
    BY <1>3 DEF MonitorStart, Places
  <2> QED
    BY <1>0, <1>3, <2>1 DEF MonitorStart, limiter, TypeOK, Places
<1>4. ASSUME NEW m \in Monitors, NEW s \in Subs, DrainOne(m, s)
      PROVE  Base'
  <2>1. todo'[m] \cap (undelivered[m] \cup cur[m]) = {}
    BY <1>4 DEF DrainOne, TypeOK, Places
  <2>9. \/ /\ snap' = [snap EXCEPT ![m][s] = counter[s]]
           /\ todo' = [todo EXCEPT ![m] = @ \cup {s}]
        \/ UNCHANGED <<snap, todo>>
    BY <1>4 DEF DrainOne
  <2>10. todo' \in [Monitors -> SUBSET Subs]
    <3>1. todo \in [Monitors -> SUBSET Subs]
      BY DEF TypeOK
    <3>2. todo[m] \cup {s} \in SUBSET Subs
      BY <3>1
    <3> QED
      BY <2>9, <3>1, <3>2
  <2>11. [snap[m] EXCEPT ![s] = counter[s]] \in [Subs -> Int]
    BY DEF TypeOK
  <2>4. todo' \in [Monitors -> SUBSET Subs] /\ snap' \in [Monitors -> [Subs -> Int]]
    BY <2>9, <2>10, <2>11 DEF TypeOK
  <2>5. \A n \in Monitors : n # m => todo'[n] = todo[n]
    BY <2>9 DEF TypeOK
  <2>6. pc[m] = "drain" /\ left' = [left EXCEPT ![m] = @ \ {s}]
    BY <1>4 DEF DrainOne
  <2>8. left' \in [Monitors -> SUBSET Subs]
    BY <2>6 DEF TypeOK
  <2>7. UNCHANGED <<limiter, pc, undelivered, cur>>
    BY <1>4 DEF DrainOne
  <2>2. TypeOK'
    BY <1>0, <2>1, <2>4, <2>5, <2>6, <2>7, <2>8 DEF limiter, TypeOK
  <2>3. Places'
    BY <1>4 DEF DrainOne, TypeOK, Places
  <2> QED
    BY <2>2, <2>3
<1>5. ASSUME NEW m \in Monitors, DrainDone(m) PROVE Base'
  <2>1. TypeOK'
    BY <1>0, <1>5 DEF DrainDone, Return, Go, limiter, TypeOK
  <2>2. Places'
    BY <1>5 DEF DrainDone, Return, Go, TypeOK, Places
  <2> QED
    BY <2>1, <2>2
<1>12. ASSUME NEW m \in Monitors, PushDone(m) PROVE Base'
  <2>1. TypeOK'
    BY <1>0, <1>12 DEF PushDone, Return, Go, limiter, TypeOK
  <2>2. Places'
    BY <1>12 DEF PushDone, Return, Go, TypeOK, Places
  <2> QED
    BY <2>1, <2>2
<1>13. ASSUME NEW m \in Monitors, ResetDone(m) PROVE Base'
  <2>1. TypeOK'
    BY <1>0, <1>13 DEF ResetDone, Return, Go, limiter, TypeOK
  <2>2. Places'
    BY <1>13 DEF ResetDone, Return, Go, TypeOK, Places
  <2> QED
    BY <2>1, <2>2
<1>6. ASSUME NEW m \in Monitors, PushFailed(m) PROVE Base'
  <2>1. PICK c \in SUBSET todo[m] :
          /\ todo' = [todo EXCEPT ![m] = @ \ c]
          /\ undelivered' = [undelivered EXCEPT ![m] = @ \cup c]
    BY <1>6 DEF PushFailed, Batches
  <2> QED
    BY <1>0, <1>6, <2>1 DEF PushFailed, limiter, TypeOK, Places
<1>7. ASSUME NEW m \in Monitors, Push(m) PROVE Base'
  <2>1. PICK c \in SUBSET todo[m] :
          /\ todo' = [todo EXCEPT ![m] = @ \ c]
          /\ cur' = [cur EXCEPT ![m] = c]
          /\ Book(m, c) \/ UNCHANGED billed
    BY <1>7 DEF Push, Batches
  <2>2. billed' \in [Subs -> Int]
    BY <2>1, Booking DEF TypeOK
  <2> QED
    BY <1>0, <1>7, <2>1, <2>2 DEF Push, TypeOK, Places
<1>8. ASSUME NEW m \in Monitors, PostAccepted(m) \/ PostFailed(m)
      PROVE  Base'
  <2>1. billed' \in [Subs -> Int]
    BY <1>8, Booking DEF PostAccepted, PostFailed, TypeOK
  <2> QED
    <3>1. CASE PostAccepted(m)
      BY <1>0, <3>1, <2>1 DEF PostAccepted, TypeOK, Places
    <3>2. CASE PostFailed(m)
      BY <1>0, <3>2, <2>1 DEF PostFailed, Return, TypeOK, Places
    <3> QED
      BY <1>8, <3>1, <3>2
<1>9. ASSUME NEW m \in Monitors, NEW s \in Subs, ResetOne(m, s)
      PROVE  Base'
  BY <1>0, <1>9 DEF ResetOne, TypeOK, Places
<1>10. CASE Crash
  BY <1>0, <1>10 DEF Crash, TypeOK, Places
<1>11. CASE UNCHANGED vars
  BY <1>0, <1>11 DEF vars, limiter, monitor, TypeOK, Places
<1> QED
  BY <1>1, <1>2, <1>3, <1>4, <1>5, <1>6, <1>7, <1>8, <1>9, <1>10, <1>11,
     <1>12, <1>13, TaskIn DEF Next, Environment, Running, Report

LEMMA NextBacked ==
    ASSUME Base, Base', Backed, [Next]_vars PROVE Backed'
<1> SUFFICES ASSUME ~Overlap'
             PROVE  /\ \A s \in Subs : counter'[s] >= 0
                    /\ \A s \in Owed(Task)' : /\ 0 <= snap'[Task][s]
                                                /\ snap'[Task][s] <= counter'[s]
  BY DEF Backed
<1> USE TaskIn DEF Base, Backed
<1>0. ~Overlap /\ (\A m \in Running : m = Task)
  BY DEF Next, Environment, Report, vars, Overlap, Running
<1>1. ASSUME NEW s \in Subs, Carry(s) \/ Register(s) \/ Unregister(s)
      PROVE  Backed'
  <2>1. Owed(Task)' = Owed(Task) /\ snap' = snap
    BY <1>1 DEF Carry, Register, Unregister, monitor, Owed
  <2>2. \A t \in Subs : counter'[t] >= counter[t] /\ counter'[t] \in Int
    BY <1>1 DEF Carry, Register, Unregister, TypeOK
  <2>3. Owed(Task) \subseteq Subs /\ snap[Task] \in [Subs -> Int]
    BY DEF TypeOK, Owed
  <2> QED
    BY <1>0, <2>1, <2>2, <2>3, Numbers
<1>2. CASE MonitorStart(Task)
  BY <1>0, <1>2 DEF MonitorStart, limiter, TypeOK, Places, Owed
<1>3. ASSUME NEW s \in Subs, DrainOne(Task, s) PROVE Backed'
  BY <1>0, <1>3 DEF DrainOne, limiter, TypeOK, Places, Owed
<1>4. CASE DrainDone(Task) \/ PushDone(Task) \/ ResetDone(Task)
  BY <1>0, <1>4 DEF DrainDone, PushDone, ResetDone, Return, Go, limiter, TypeOK,
                    Places, Owed
<1>5. CASE PushFailed(Task)
  <2>1. PICK c \in SUBSET todo[Task] :
          /\ todo' = [todo EXCEPT ![Task] = @ \ c]
          /\ undelivered' = [undelivered EXCEPT ![Task] = @ \cup c]
    BY <1>5 DEF PushFailed, Batches
  <2> QED
    BY <1>0, <1>5, <2>1 DEF PushFailed, limiter, TypeOK, Owed
<1>6. CASE Push(Task)
  <2>1. PICK c \in SUBSET todo[Task] :
          /\ todo' = [todo EXCEPT ![Task] = @ \ c]
          /\ cur' = [cur EXCEPT ![Task] = c]
    BY <1>6 DEF Push, Batches
  <2> QED
    BY <1>0, <1>6, <2>1 DEF Push, TypeOK, Owed
<1>7. CASE PostAccepted(Task) \/ PostFailed(Task)
  BY <1>0, <1>7 DEF PostAccepted, PostFailed, Return, TypeOK, Owed
<1>8. ASSUME NEW s \in Subs, ResetOne(Task, s) PROVE Backed'
  BY <1>0, <1>8 DEF ResetOne, TypeOK, Places, Owed
<1>9. CASE Crash
  BY <1>9 DEF Crash, Zero, Owed
<1>10. CASE UNCHANGED vars
  BY <1>0, <1>10 DEF vars, limiter, monitor, Owed
<1> QED
  BY <1>0, <1>1, <1>2, <1>3, <1>4, <1>5, <1>6, <1>7, <1>8, <1>9, <1>10
  DEF Next, Environment, Report

LEMMA InFlightBounds ==
    ASSUME Base, Backed, ~Overlap, NEW s \in Subs
    PROVE  /\ InFlight(s) \in Int
           /\ 0 <= InFlight(s)
           /\ InFlight(s) <= counter[s]
<1>1. CASE s \in cur[Task]
  <2>1. s \in Owed(Task)
    BY <1>1, TaskIn DEF Base, Places, TypeOK, Owed
  <2> QED
    BY <1>1, <2>1, TaskIn DEF Base, Backed, TypeOK, InFlight
<1>2. CASE s \notin cur[Task]
  BY <1>2 DEF Base, Backed, TypeOK, InFlight
<1> QED
  BY <1>1, <1>2

(* Steps that book, reset and count nothing leave the balance alone. *)
LEMMA QuietStep ==
    ASSUME UNCHANGED <<counter, total, billed>>,
           \A s \in Subs : InFlight(s)' = InFlight(s)
    PROVE  (Over => Over') /\ (Under => Under')
BY DEF Over, Under

LEMMA QuietActions ==
    ASSUME Base,
           \/ MonitorStart(Task) \/ DrainDone(Task) \/ PushFailed(Task)
           \/ PushDone(Task) \/ ResetDone(Task)
           \/ \E s \in Subs : DrainOne(Task, s)
    PROVE  (Over => Over') /\ (Under => Under')
<1> USE TaskIn
<1>1. UNCHANGED <<counter, total, billed, cur>>
  BY DEF MonitorStart, DrainDone, PushFailed, PushDone, ResetDone, DrainOne,
         limiter
<1>2. snap'[Task] = snap[Task] \/ cur[Task] = {}
  BY DEF MonitorStart, DrainDone, PushFailed, PushDone, ResetDone, DrainOne,
         Return, Go, Base, TypeOK, Places
<1>3. \A s \in Subs : InFlight(s)' = InFlight(s)
  BY <1>1, <1>2 DEF InFlight
<1> QED
  BY <1>1, <1>3, QuietStep

LEMMA CarryStep ==
    ASSUME Base, Backed, ~Overlap, NEW s \in Subs, Carry(s)
    PROVE  (Over => Over') /\ (Under => Under')
<1>1. /\ UNCHANGED <<billed, cur, snap>>
      /\ counter' = [counter EXCEPT ![s] = @ + 1]
      /\ total' = [total EXCEPT ![s] = @ + 1]
  BY DEF Carry, monitor
<1>2. \A t \in Subs : InFlight(t)' = InFlight(t) /\ InFlight(t) \in Int
  BY <1>1, InFlightBounds DEF InFlight
<1> QED
  BY <1>1, <1>2 DEF Over, Under, Base, TypeOK

LEMMA ResetStep ==
    ASSUME Base, NEW s \in Subs, ResetOne(Task, s)
    PROVE  (Over => Over') /\ (Under => Under')
BY TaskIn DEF ResetOne, Over, Under, InFlight, Base, TypeOK

LEMMA NextOver ==
    ASSUME Base, Backed, trouble \subseteq {"lost_push", "crash"}, Over, [Next]_vars
    PROVE  Over'
<1> USE TaskIn
<1>0. ~Overlap /\ (\A m \in Running : m = Task)
  BY DEF Running, Overlap
<1>1. ASSUME NEW s \in Subs, Carry(s) PROVE Over'
  BY <1>0, <1>1, CarryStep
<1>2. ASSUME NEW s \in Subs, Register(s) \/ Unregister(s) PROVE Over'
  BY <1>2, QuietStep DEF Register, Unregister, monitor, InFlight
<1>3. CASE \/ MonitorStart(Task) \/ DrainDone(Task) \/ PushFailed(Task)
           \/ PushDone(Task) \/ ResetDone(Task)
           \/ \E s \in Subs : DrainOne(Task, s)
  BY <1>3, QuietActions
<1>4. CASE Push(Task)
  <2>1. PICK c \in SUBSET Subs :
          /\ cur' = [cur EXCEPT ![Task] = c]
          /\ Book(Task, c) \/ UNCHANGED billed
          /\ c \subseteq todo[Task]
    BY <1>4 DEF Push, Batches, Base, TypeOK
  <2>2. UNCHANGED <<counter, total, snap>> /\ cur[Task] = {}
    BY <1>4 DEF Push, Base, Places
  <2>3. \A s \in c : 0 <= snap[Task][s] /\ snap[Task][s] \in Int
    <3>1. c \subseteq Owed(Task)
      BY <1>4, <2>1 DEF Push, Owed
    <3> QED
      BY <1>0, <2>1, <3>1, Numbers DEF Base, Backed
  <2>4. \A s \in Subs :
          /\ s \in c => billed'[s] \in {billed[s], billed[s] + snap[Task][s]}
          /\ s \notin c => billed'[s] = billed[s]
    BY <2>1, Booking DEF Base
  <2> QED
    BY <2>1, <2>2, <2>3, <2>4 DEF Over, InFlight, Base, TypeOK
<1>5. CASE PostAccepted(Task)
  <2>1. undelivered[Task] \in SUBSET Subs /\ cur[Task] = {}
    BY <1>5 DEF PostAccepted, Base, Places, TypeOK
  <2>2. \A s \in Subs :
          billed'[s] = IF s \in undelivered[Task] THEN billed[s] + snap[Task][s]
                       ELSE billed[s]
    BY <1>5, <2>1, Booking DEF PostAccepted, Base
  <2> QED
    BY <1>5, <2>1, <2>2 DEF PostAccepted, Over, InFlight, Base, TypeOK
<1>6. CASE PostFailed(Task)
  <2>1. cur[Task] = {} /\ UNCHANGED <<counter, total, billed, cur>>
    BY <1>6 DEF PostFailed, Base, Places
  <2> QED
    BY <2>1, QuietStep DEF InFlight
<1>7. ASSUME NEW s \in Subs, ResetOne(Task, s) PROVE Over'
  BY <1>7, ResetStep
<1>8. CASE Crash
  <2>1. \A s \in Subs : /\ InFlight(s)' = 0
                        /\ InFlight(s) <= counter[s] /\ InFlight(s) \in Int
    BY <1>0, <1>8, InFlightBounds DEF Crash, InFlight
  <2>2. \A s \in Subs : /\ counter'[s] = 0
                        /\ billed'[s] = billed[s] /\ total'[s] = total[s]
    BY <1>8 DEF Crash, Zero
  <2> QED
    BY <2>1, <2>2, Numbers DEF Over, Base
<1>9. CASE UNCHANGED vars
  BY <1>9 DEF vars, limiter, monitor, Over, InFlight
<1> QED
  BY <1>0, <1>1, <1>2, <1>3, <1>4, <1>5, <1>6, <1>7, <1>8, <1>9
  DEF Next, Environment, Report

LEMMA NextUnder ==
    ASSUME Base, Backed, trouble \subseteq {"lost_answer"}, Under, [Next]_vars
    PROVE  Under'
<1> USE TaskIn
<1>0. ~Overlap /\ (\A m \in Running : m = Task)
  BY DEF Running, Overlap
<1>1. ASSUME NEW s \in Subs, Carry(s) PROVE Under'
  BY <1>0, <1>1, CarryStep
<1>2. ASSUME NEW s \in Subs, Register(s) \/ Unregister(s) PROVE Under'
  BY <1>2, QuietStep DEF Register, Unregister, monitor, InFlight
<1>3. CASE \/ MonitorStart(Task) \/ DrainDone(Task) \/ PushFailed(Task)
           \/ PushDone(Task) \/ ResetDone(Task)
           \/ \E s \in Subs : DrainOne(Task, s)
  BY <1>3, QuietActions
<1>4. CASE Push(Task)
  <2>1. PICK c \in SUBSET Subs : cur' = [cur EXCEPT ![Task] = c] /\ Book(Task, c)
    BY <1>4 DEF Push, Batches, Base, TypeOK
  <2>2. UNCHANGED <<counter, total, snap>> /\ cur[Task] = {}
    BY <1>4 DEF Push, Base, Places
  <2>3. \A s \in Subs :
          billed'[s] = IF s \in c THEN billed[s] + snap[Task][s] ELSE billed[s]
    BY <2>1, Booking DEF Base
  <2> QED
    BY <2>1, <2>2, <2>3 DEF Under, InFlight, Base, TypeOK
<1>5. CASE PostAccepted(Task)
  <2>1. undelivered[Task] \in SUBSET Subs /\ cur[Task] = {}
    BY <1>5 DEF PostAccepted, Base, Places, TypeOK
  <2>2. \A s \in Subs :
          billed'[s] = IF s \in undelivered[Task] THEN billed[s] + snap[Task][s]
                       ELSE billed[s]
    BY <1>5, <2>1, Booking DEF PostAccepted, Base
  <2> QED
    BY <1>5, <2>1, <2>2 DEF PostAccepted, Under, InFlight, Base, TypeOK
<1>6. CASE PostFailed(Task)
  <2>1. undelivered[Task] \in SUBSET Subs /\ cur[Task] = {}
    BY <1>6 DEF PostFailed, Base, Places, TypeOK
  <2>2. \A s \in undelivered[Task] : 0 <= snap[Task][s] /\ snap[Task][s] \in Int
    BY <1>0, <1>6, <2>1, Numbers DEF PostFailed, Base, Backed, Owed
  <2>3. \A s \in Subs :
          \/ billed'[s] = billed[s]
          \/ s \in undelivered[Task] /\ billed'[s] = billed[s] + snap[Task][s]
    BY <1>6, <2>1, Booking DEF PostFailed, Base
  <2>4. UNCHANGED <<counter, total, cur>>
    BY <1>6 DEF PostFailed
  <2> QED
    BY <2>1, <2>2, <2>3, <2>4, Numbers DEF Under, InFlight, Base
<1>7. ASSUME NEW s \in Subs, ResetOne(Task, s) PROVE Under'
  BY <1>7, ResetStep
<1>8. CASE UNCHANGED vars
  BY <1>8 DEF vars, limiter, monitor, Under, InFlight
<1> QED
  BY <1>0, <1>1, <1>2, <1>3, <1>4, <1>5, <1>6, <1>7, <1>8
  DEF Next, Environment, Report, Crash

-----------------------------------------------------------------------------
LEMMA BaseInvariant == Spec => [](Base /\ Backed)
<1>1. Base /\ Backed /\ [Next]_vars => (Base /\ Backed)'
  BY NextBase, NextBacked
<1> QED
  BY <1>1, InitBase, PTL DEF Spec

(* Every variable keeps its type and no record is in two places, however    *)
(* many reports overlap and whatever goes wrong.                            *)
THEOREM TypeCorrect == Spec => []TypeOK
<1>1. Base => TypeOK
  BY DEF Base
<1> QED
  BY <1>1, BaseInvariant, PTL

(* Without overlap no reset takes more than was counted, even across        *)
(* crashes, lost pushes and lost answers.                                   *)
THEOREM CounterNonNegativeHolds == Spec => []CounterNonNegative
<1>1. Backed => CounterNonNegative
  BY DEF Backed, Overlap, CounterNonNegative
<1> QED
  BY <1>1, BaseInvariant, PTL

(* If an accepted post is never reported as failed, nothing is billed       *)
(* twice, even across crashes and lost pushes.                              *)
THEOREM NoOverbillingHolds == Spec => []NoOverbilling
<1> DEFINE I == trouble \subseteq {"lost_push", "crash"} => Over
<1>1. Base /\ Backed /\ I /\ [Next]_vars => I'
  BY NextOver, TroubleFixed
<1>2. Base /\ Backed /\ I => NoOverbilling
  <2> SUFFICES ASSUME Base, Backed, Over, NEW s \in Subs,
                      trouble \subseteq {"lost_push", "crash"}
               PROVE  billed[s] <= total[s]
    BY DEF NoOverbilling
  <2>1. InFlight(s) <= counter[s] /\ InFlight(s) \in Int
    BY InFlightBounds DEF Overlap
  <2> QED
    BY <2>1, Numbers DEF Over, Base
<1>3. Init => I
  BY InitBase
<1> QED
  BY <1>1, <1>2, <1>3, BaseInvariant, PTL DEF Spec

(* If every pushed message arrives, the process keeps running and reports   *)
(* do not overlap, no byte is lost, whatever fails and whichever answers    *)
(* are lost.                                                                *)
THEOREM NoLossHolds == Spec => []NoLoss
<1> DEFINE I == trouble \subseteq {"lost_answer"} => Under
<1>1. Base /\ Backed /\ I /\ [Next]_vars => I'
  BY NextUnder, TroubleFixed
<1>2. Base /\ Backed /\ I => NoLoss
  <2> SUFFICES ASSUME Base, Backed, Under, NEW s \in Subs,
                      trouble \subseteq {"lost_answer"}
               PROVE  total[s] <= billed[s] + counter[s]
    BY DEF NoLoss
  <2>1. 0 <= InFlight(s) /\ InFlight(s) \in Int
    BY InFlightBounds DEF Overlap
  <2> QED
    BY <2>1, Numbers DEF Under, Base
<1>3. Init => I
  BY InitBase
<1> QED
  BY <1>1, <1>2, <1>3, BaseInvariant, PTL DEF Spec
-----------------------------------------------------------------------------
(* Reports that overlap.  The amounts they have delivered and not yet reset *)
(* add up over any number of monitors: unit by unit, as the members of a    *)
(* set, for the sum of a function over a set is defined by recursion.       *)

\* The units of what the monitors have delivered of s and have still to
\* reset, and those of the credits among it: a counter may be below zero.
Due(s) == {x \in Monitors \X Nat : s \in cur[x[1]] /\ x[2] \in 1..snap[x[1]][s]}
Credit(s) == {x \in Monitors \X Nat : s \in cur[x[1]] /\ x[2] \in 1..(0 - snap[x[1]][s])}

Balance(s) ==
    /\ IsFiniteSet(Due(s)) /\ IsFiniteSet(Credit(s))
    /\ total[s] + Cardinality(Due(s)) - Cardinality(Credit(s))
          = billed[s] + counter[s]

Balanced == trouble \subseteq {"overlap"} => \A s \in Subs : Balance(s)

Units(m, v) == {m} \X (1..v)
Minus(m, v) == {m} \X (1..(0 - v))

LEMMA Interval ==
    ASSUME NEW m, NEW v \in Int
    PROVE  /\ IsFiniteSet({m} \X (1..v))
           /\ Cardinality({m} \X (1..v)) = IF v > 0 THEN v ELSE 0
<1>1. IsFiniteSet({m}) /\ Cardinality({m}) = 1
  BY FS_Singleton
<1>2. IsFiniteSet(1..v) /\ Cardinality(1..v) = IF v > 0 THEN v ELSE 0
  BY FS_Interval
<1>3. /\ IsFiniteSet({m} \X (1..v))
      /\ Cardinality({m} \X (1..v)) = Cardinality({m}) * Cardinality(1..v)
  BY <1>1, <1>2, FS_Product
<1>4. Cardinality(1..v) \in Nat
  BY <1>2
<1>5. 1 * Cardinality(1..v) = Cardinality(1..v)
  BY <1>4
<1> QED
  BY <1>1, <1>2, <1>3, <1>5

LEMMA UnitsCounted ==
    ASSUME NEW m, NEW v \in Int
    PROVE  /\ IsFiniteSet(Units(m, v)) /\ IsFiniteSet(Minus(m, v))
           /\ Cardinality(Units(m, v)) \in Nat /\ Cardinality(Minus(m, v)) \in Nat
           /\ Cardinality(Units(m, v)) = Cardinality(Minus(m, v)) + v
<1> DEFINE w == 0 - v
<1>1. w \in Int /\ (w > 0 <=> v < 0) /\ w + v = 0
  OBVIOUS
<1> HIDE DEF w
<1>2. /\ IsFiniteSet({m} \X (1..w))
      /\ Cardinality({m} \X (1..w)) = IF w > 0 THEN w ELSE 0
  BY <1>1, Interval
<1>3. Minus(m, v) = {m} \X (1..w)
  BY DEF w, Minus
<1>4. /\ IsFiniteSet(Units(m, v))
      /\ Cardinality(Units(m, v)) = IF v > 0 THEN v ELSE 0
  BY Interval DEF Units
<1>5. (IF v > 0 THEN v ELSE 0) = (IF w > 0 THEN w ELSE 0) + v
  BY <1>1
<1> QED
  BY <1>1, <1>2, <1>3, <1>4, <1>5

LEMMA Joined ==
    ASSUME NEW P, NEW U, IsFiniteSet(P), IsFiniteSet(U), P \cap U = {}
    PROVE  /\ IsFiniteSet(P \cup U)
           /\ Cardinality(P) \in Nat /\ Cardinality(U) \in Nat
           /\ Cardinality(P \cup U) \in Nat
           /\ Cardinality(P \cup U) = Cardinality(P) + Cardinality(U)
<1>1. /\ IsFiniteSet(P \cup U)
      /\ Cardinality(P \cup U) = Cardinality(P) + Cardinality(U) - Cardinality({})
  BY FS_Union
<1>2. Cardinality(P) \in Nat /\ Cardinality(U) \in Nat /\ Cardinality({}) = 0
  BY FS_CardinalityType, FS_EmptySet
<1> QED
  BY <1>1, <1>2

LEMMA SameDue ==
    ASSUME NEW s \in Subs,
           \A m \in Monitors : /\ s \in cur'[m] <=> s \in cur[m]
                               /\ s \in cur[m] => snap'[m][s] = snap[m][s]
    PROVE  Due(s)' = Due(s) /\ Credit(s)' = Credit(s)
<1>1. \A x \in Monitors \X Nat : x[1] \in Monitors
  OBVIOUS
<1> QED
  BY <1>1 DEF Due, Credit

\* What is delivered or reset: s enters or leaves cur[m], nothing else moves.
Moves(s, m) ==
    /\ snap' = snap
    /\ \A n \in Monitors : n # m => (s \in cur'[n] <=> s \in cur[n])

\* The balance with units that come, which is the one before units that go.
LEMMA MoreUnits ==
    ASSUME NEW t \in Int, NEW b \in Int, NEW c \in Int, NEW p \in Int, NEW n \in Int,
           NEW x \in Int, NEW y \in Int, NEW v \in Int,
           t + p - n = b + c, x = y + v
    PROVE  t + (p + x) - (n + y) = (b + v) + c
OBVIOUS

(* The arithmetic of a step that moves the units of v. *)
LEMMA Rebalanced ==
    ASSUME Base, Base', NEW s \in Subs, NEW m, NEW v \in Int, Balance(s),
           \/ /\ Due(s)' = Due(s) \cup Units(m, v)
              /\ Due(s) \cap Units(m, v) = {}
              /\ Credit(s)' = Credit(s) \cup Minus(m, v)
              /\ Credit(s) \cap Minus(m, v) = {}
              /\ total'[s] = total[s] /\ counter'[s] = counter[s]
              /\ billed'[s] = billed[s] + v
           \/ /\ Due(s) = Due(s)' \cup Units(m, v)
              /\ Due(s)' \cap Units(m, v) = {}
              /\ Credit(s) = Credit(s)' \cup Minus(m, v)
              /\ Credit(s)' \cap Minus(m, v) = {}
              /\ total'[s] = total[s] /\ billed'[s] = billed[s]
              /\ counter'[s] = counter[s] - v
    PROVE  Balance(s)'
<1> DEFINE P == Due(s)   N == Credit(s)
           Q == Due(s)'  R == Credit(s)'
           U == Units(m, v)  W == Minus(m, v)
<1>1. IsFiniteSet(P) /\ IsFiniteSet(N) /\ IsFiniteSet(Q) /\ IsFiniteSet(R)
  <2>1. IsFiniteSet(U) /\ IsFiniteSet(W) /\ IsFiniteSet(P) /\ IsFiniteSet(N)
    BY UnitsCounted DEF Balance
  <2>2. (Q = P \cup U /\ R = N \cup W) \/ (P = Q \cup U /\ N = R \cup W)
    OBVIOUS
  <2> HIDE DEF P, N, Q, R, U, W
  <2>3. CASE Q = P \cup U /\ R = N \cup W
    BY <2>1, <2>3, FS_Union
  <2>4. CASE Q \subseteq P /\ R \subseteq N
    BY <2>1, <2>4, FS_Subset
  <2> QED
    BY <2>2, <2>3, <2>4
<1> DEFINE t == total[s]  b == billed[s]  c == counter[s]
           p == Cardinality(P)  n == Cardinality(N)
           q == Cardinality(Q)  r == Cardinality(R)
           x == Cardinality(U)  y == Cardinality(W)
<1>2. /\ t \in Int /\ b \in Int /\ c \in Int
      /\ p \in Int /\ n \in Int /\ q \in Int /\ r \in Int
      /\ x \in Int /\ y \in Int /\ x = y + v
      /\ t + p - n = b + c
      /\ IsFiniteSet(U) /\ IsFiniteSet(W)
  BY <1>1, UnitsCounted, FS_CardinalityType DEF Balance, Base, TypeOK
<1>3. CASE /\ Q = P \cup U /\ P \cap U = {}
           /\ R = N \cup W /\ N \cap W = {}
           /\ total'[s] = t /\ counter'[s] = c /\ billed'[s] = b + v
  <2>1. q = p + x /\ r = n + y
    <3> HIDE DEF P, N, Q, R, U, W
    <3> QED
      BY <1>1, <1>2, <1>3, Joined
  <2>2. t + q - r = (b + v) + c
    <3> HIDE DEF t, b, c, p, n, q, r, x, y
    <3>1. t + (p + x) - (n + y) = (b + v) + c
      BY <1>2, MoreUnits
    <3> QED
      BY <2>1, <3>1
  <2> QED
    BY <1>1, <1>3, <2>2 DEF Balance
<1>4. CASE /\ P = Q \cup U /\ Q \cap U = {}
           /\ N = R \cup W /\ R \cap W = {}
           /\ total'[s] = t /\ billed'[s] = b /\ counter'[s] = c - v
  <2>1. p = q + x /\ n = r + y
    <3> HIDE DEF P, N, Q, R, U, W
    <3> QED
      BY <1>1, <1>2, <1>4, Joined
  <2>2. t + q - r = b + (c - v)
    <3> HIDE DEF t, b, c, p, n, q, r, x, y
    <3>1. t + (q + x) - (r + y) = b + c
      BY <1>2, <2>1
    <3>2. x - y = v
      BY <1>2
    <3>3. t + q - r + (x - y) = b + c
      BY <1>2, <3>1
    <3>4. t + q - r + v = b + c
      BY <3>2, <3>3
    <3> QED
      BY <1>2, <3>4
  <2> QED
    BY <1>1, <1>4, <2>2 DEF Balance
<1> QED
  BY <1>3, <1>4

LEMMA Delivered ==
    ASSUME Base, Base', NEW s \in Subs, NEW m \in Monitors, Balance(s), Moves(s, m),
           s \notin cur[m], s \in cur'[m], UNCHANGED <<total, counter>>,
           billed'[s] = billed[s] + snap[m][s]
    PROVE  Balance(s)'
<1> DEFINE v == snap[m][s]
<1>1. v \in Int
  BY DEF Base, TypeOK
<1>2. /\ Due(s)' = Due(s) \cup Units(m, v) /\ Due(s) \cap Units(m, v) = {}
      /\ Credit(s)' = Credit(s) \cup Minus(m, v) /\ Credit(s) \cap Minus(m, v) = {}
  BY <1>1 DEF Due, Credit, Units, Minus, Moves
<1>3. billed'[s] = billed[s] + v
  OBVIOUS
<1> HIDE DEF v
<1> QED
  BY <1>1, <1>2, <1>3, Rebalanced

LEMMA Reset ==
    ASSUME Base, Base', NEW s \in Subs, NEW m \in Monitors, Balance(s), Moves(s, m),
           s \in cur[m], s \notin cur'[m], UNCHANGED <<total, billed>>,
           counter'[s] = counter[s] - snap[m][s]
    PROVE  Balance(s)'
<1> DEFINE v == snap[m][s]
<1>1. v \in Int
  BY DEF Base, TypeOK
<1>2. /\ Due(s) = Due(s)' \cup Units(m, v) /\ Due(s)' \cap Units(m, v) = {}
      /\ Credit(s) = Credit(s)' \cup Minus(m, v) /\ Credit(s)' \cap Minus(m, v) = {}
  BY <1>1 DEF Due, Credit, Units, Minus, Moves
<1>3. counter'[s] = counter[s] - v
  OBVIOUS
<1> HIDE DEF v
<1> QED
  BY <1>1, <1>2, <1>3, Rebalanced

LEMMA InitBalanced == Init => Balanced
<1> SUFFICES ASSUME Init, NEW s \in Subs PROVE Balance(s)
  BY DEF Balanced
<1>1. Due(s) = {} /\ Credit(s) = {}
  BY DEF Init, Due, Credit
<1> QED
  BY <1>1, FS_EmptySet DEF Init, Zero, Balance

LEMMA NextBalanced ==
    ASSUME Base, Base', Balanced, [Next]_vars PROVE Balanced'
<1> SUFFICES ASSUME trouble \subseteq {"overlap"}, NEW s \in Subs PROVE Balance(s)'
  BY TroubleFixed DEF Balanced
<1>0. Balance(s) /\ Task \in Monitors /\ Running \subseteq Monitors
  BY TaskIn DEF Balanced, Running
<1>1. ASSUME UNCHANGED <<total, counter, billed, cur>>,
             \A m \in Monitors : snap'[m] = snap[m] \/ cur[m] = {}
      PROVE  Balance(s)'
  BY <1>0, <1>1, SameDue DEF Balance
<1>2. ASSUME NEW t \in Subs, Carry(t) PROVE Balance(s)'
  <2>1. Due(s)' = Due(s) /\ Credit(s)' = Credit(s)
    BY <1>2 DEF Carry, monitor, Due, Credit
  <2>2. /\ IsFiniteSet(Due(s)) /\ IsFiniteSet(Credit(s))
        /\ Cardinality(Due(s)) \in Nat /\ Cardinality(Credit(s)) \in Nat
    BY <1>0, FS_CardinalityType DEF Balance
  <2>3. CASE s # t
    BY <1>0, <1>2, <2>1, <2>3 DEF Carry, Balance, Base, TypeOK
  <2>4. CASE s = t
    <3> DEFINE a == total[s]  b == billed[s]  c == counter[s]
               p == Cardinality(Due(s))  q == Cardinality(Credit(s))
    <3>1. /\ a \in Int /\ b \in Int /\ c \in Int /\ p \in Int /\ q \in Int
          /\ a + p - q = b + c
      BY <1>0, <2>2 DEF Balance, Base, TypeOK
    <3>2. total'[s] = a + 1 /\ counter'[s] = c + 1 /\ billed'[s] = b
      BY <1>2, <2>4 DEF Carry, Base, TypeOK
    <3>3. (a + 1) + p - q = b + (c + 1)
      <4> HIDE DEF a, b, c, p, q
      <4> QED
        BY <3>1
    <3> QED
      BY <2>1, <2>2, <3>2, <3>3 DEF Balance
  <2> QED
    BY <2>3, <2>4
<1>3. ASSUME NEW t \in Subs, Register(t) \/ Unregister(t) PROVE Balance(s)'
  BY <1>1, <1>3 DEF Register, Unregister, monitor
<1>4. ASSUME NEW m \in Monitors,
             \/ MonitorStart(m) \/ DrainDone(m) \/ PushFailed(m)
             \/ PushDone(m) \/ ResetDone(m) \/ PostFailed(m)
             \/ \E t \in Subs : DrainOne(m, t)
      PROVE  Balance(s)'
  <2>1. UNCHANGED <<total, counter, billed, cur>>
    BY <1>4 DEF MonitorStart, DrainDone, PushFailed, PushDone, ResetDone,
                PostFailed, DrainOne, limiter
  <2>2. \A n \in Monitors : snap'[n] = snap[n] \/ cur[n] = {}
    BY <1>4 DEF MonitorStart, DrainDone, PushFailed, PushDone, ResetDone,
                PostFailed, DrainOne, Return, Go, Base, TypeOK, Places
  <2> QED
    BY <1>1, <2>1, <2>2
<1>5. ASSUME NEW m \in Monitors, NEW c \in SUBSET Subs, cur[m] = {}, Book(m, c),
             cur' = [cur EXCEPT ![m] = c], UNCHANGED <<total, counter, snap>>
      PROVE  Balance(s)'
  <2>1. cur'[m] = c /\ \A n \in Monitors : n # m => cur'[n] = cur[n]
    BY <1>5 DEF Base, TypeOK
  <2>2. CASE s \in c
    BY <1>0, <1>5, <2>1, <2>2, Booking, Delivered DEF Base, Moves
  <2>3. CASE s \notin c
    BY <1>0, <1>5, <2>1, <2>3, Booking, SameDue DEF Base, Balance
  <2> QED
    BY <2>2, <2>3
<1>6. ASSUME NEW m \in Monitors, Push(m) PROVE Balance(s)'
  BY <1>5, <1>6 DEF Push, Batches, Base, TypeOK, Places
<1>7. ASSUME NEW m \in Monitors, PostAccepted(m) PROVE Balance(s)'
  BY <1>5, <1>7 DEF PostAccepted, Base, TypeOK, Places
<1>8. ASSUME NEW m \in Monitors, NEW t \in Subs, ResetOne(m, t) PROVE Balance(s)'
  <2>1. /\ cur'[m] = cur[m] \ {t} /\ UNCHANGED <<total, billed, snap>>
        /\ \A n \in Monitors : n # m => cur'[n] = cur[n]
        /\ t \in cur[m] /\ counter' = [counter EXCEPT ![t] = @ - snap[m][t]]
    BY <1>8 DEF ResetOne, Base, TypeOK
  <2>2. CASE s = t
    BY <1>0, <2>1, <2>2, Reset DEF Moves, Base, TypeOK
  <2>3. CASE s # t
    BY <1>0, <2>1, <2>3, SameDue DEF Balance, Base, TypeOK
  <2> QED
    BY <2>2, <2>3
<1>9. CASE UNCHANGED vars
  BY <1>1, <1>9 DEF vars, limiter, monitor
<1> QED
  BY <1>0, <1>2, <1>3, <1>4, <1>6, <1>7, <1>8, <1>9
  DEF Next, Environment, Report, Crash

(* However many reports overlap, when all that was delivered has been reset *)
(* the panel's ledger and the counters add up to what was carried.          *)
THEOREM OverlapBalancesHolds == Spec => []OverlapBalances
<1>1. Base /\ Balanced => OverlapBalances
  <2> SUFFICES ASSUME Base, Balanced, NEW s \in Subs, trouble \subseteq {"overlap"},
                      \A m \in Monitors : cur[m] = {}
               PROVE  total[s] = billed[s] + counter[s]
    BY DEF OverlapBalances
  <2>1. Due(s) = {} /\ Credit(s) = {}
    BY DEF Due, Credit
  <2>2. total[s] + 0 - 0 = billed[s] + counter[s]
    BY <2>1, FS_EmptySet DEF Balanced, Balance
  <2> QED
    BY <2>2, Numbers DEF Base
<1>2. Base /\ Base' /\ Balanced /\ [Next]_vars => Balanced'
  BY NextBalanced
<1> QED
  BY <1>1, <1>2, InitBalanced, BaseInvariant, PTL DEF Spec

=============================================================================
