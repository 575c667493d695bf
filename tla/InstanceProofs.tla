---------------------------- MODULE InstanceProofs ----------------------------
(***************************************************************************)
(* Proofs about Instance, for any nodes and any number of pollers.         *)
(*                                                                         *)
(* Managed is inductive with TypeOK.  The other two rest on statusLock:    *)
(* a sync has chosen what it starts under the lock and nobody else adds    *)
(* controllers until it is done (Disjoint), and only Close makes the map   *)
(* nil, as the last thing main does (NilWhenClosed).                       *)
(***************************************************************************)
EXTENDS Instance, TLAPS

Disjoint == \A s \in Syncers : At(s, "start") => sync[s].list \cap mapped = {}

NilWhenClosed == nilMap => proc = "closed" /\ mapped = {}

\* No sync begins before main has started the poller.
AloneAtFirst ==
    /\ proc \in {"boot", "start"} => poller = "none"
    /\ poller = "none" => \A s \in Syncers : At(s, "idle")

IInv == TypeOK /\ Managed /\ Disjoint /\ NilWhenClosed /\ AloneAtFirst

-----------------------------------------------------------------------------
LEMMA InitIInv == Init => IInv
<1> SUFFICES ASSUME Init PROVE IInv
  OBVIOUS
<1>1. TypeOK
  <2>1. sync \in [Syncers -> [pc : {"idle", "fetch", "lock", "start", "restart"},
                              list : SUBSET Nodes]]
    BY DEF Init, Away
  <2>2. \A s \in Syncers : At(s, "start") <=> lock = s
    BY InstanceAssumption DEF Init, At, Away
  <2> QED
    BY <2>1, <2>2 DEF Init, TypeOK, None, Main
<1>2. Managed /\ Disjoint /\ NilWhenClosed /\ AloneAtFirst
  BY DEF Init, Managed, Disjoint, NilWhenClosed, AloneAtFirst, At, Away
<1> QED
  BY <1>1, <1>2 DEF IInv

\* A new process, and one that is gone, know nothing.
LEMMA BecomesIInv ==
    ASSUME IInv, NEW what \in {"boot", "exited", "crashed"}, Becomes(what),
           UNCHANGED <<panel, edits, trouble>>
    PROVE  IInv'
BY InstanceAssumption
   DEF Becomes, IInv, TypeOK, Managed, Disjoint, NilWhenClosed, AloneAtFirst, At, Away, None, Main, panel

LEMMA MainIInv == ASSUME IInv, RunMain PROVE IInv'
<1> USE InstanceAssumption
<1>1. CASE Boot
  <2>1. CASE Becomes("exited")
    BY <1>1, <2>1, BecomesIInv DEF Boot
  <2>2. CASE ~Becomes("exited")
    BY <1>1, <2>2 DEF Boot, IInv, TypeOK, Managed, Disjoint, NilWhenClosed, AloneAtFirst, At,
                      panel, books, world, tasks, None, Main
  <2> QED
    BY <2>1, <2>2
<1>2. CASE Started
  BY <1>2 DEF Started, IInv, TypeOK, Managed, Disjoint, NilWhenClosed, AloneAtFirst, At,
              panel, config, books, world, None, Main
<1>3. CASE Woken
  BY <1>3 DEF Woken, IInv, TypeOK, Managed, Disjoint, NilWhenClosed, AloneAtFirst, At,
              panel, books, world, tasks, None, Main
<1>4. CASE CloseBegin
  BY <1>4 DEF CloseBegin, IInv, TypeOK, Managed, Disjoint, NilWhenClosed, AloneAtFirst, At,
              panel, config, books, world, None, Main
<1>5. CASE CloseServices
  BY <1>5 DEF CloseServices, IInv, TypeOK, Managed, Disjoint, NilWhenClosed, AloneAtFirst, At,
              panel, config, tasks, None, Main
<1>6. CASE Leave
  BY <1>6, BecomesIInv DEF Leave
<1>7. ASSUME NEW n \in Nodes, StartService(n) PROVE IInv'
  <2>1. TypeOK'
    <3>1. /\ todo' \subseteq Nodes /\ running' \subseteq Nodes /\ inbound' \subseteq Nodes
          /\ services' \subseteq Nodes /\ mapped' \subseteq Nodes
      BY <1>7 DEF StartService, StartsWell, StartsIll, IInv, TypeOK
    <3> QED
      BY <1>7, <3>1 DEF StartService, At, panel, config, tasks, IInv, TypeOK
  <2>2. Managed'
    <3>1. CASE StartsWell(n) /\ services' = services \cup {n} /\ mapped' = mapped \cup {n}
      BY <1>7, <3>1 DEF StartService, StartsWell, IInv, Managed
    <3>2. CASE /\ StartsIll(n) /\ UNCHANGED mapped
               /\ services' = services \cup (inbound' \ inbound)
      BY <1>7, <3>2 DEF StartService, StartsIll, IInv, Managed
    <3> QED
      BY <1>7, <3>1, <3>2 DEF StartService
  <2>3. Disjoint'
    BY <1>7 DEF StartService, StartsWell, StartsIll, At, panel, config, tasks,
           None, Main, IInv, TypeOK, Disjoint
  <2>4. NilWhenClosed'
    BY <1>7 DEF StartService, StartsWell, StartsIll, At, panel, config, tasks,
           None, Main, IInv, TypeOK, NilWhenClosed
  <2>5. AloneAtFirst'
    BY <1>7, SMTT(60) DEF StartService, StartsWell, StartsIll, At, panel, config, tasks,
           None, Main, IInv, TypeOK, AloneAtFirst
  <2> QED
    BY <2>1, <2>2, <2>3, <2>4, <2>5 DEF IInv
<1>8. ASSUME NEW n \in Nodes, ServicePanics(n) PROVE IInv'
  BY <1>8, BecomesIInv DEF ServicePanics
<1> QED
  BY <1>1, <1>2, <1>3, <1>4, <1>5, <1>6, <1>7, <1>8 DEF RunMain

LEMMA SyncIInv == ASSUME IInv, NEW s \in Syncers, Sync(s) PROVE IInv'
<1> USE InstanceAssumption
<1>1. CASE Begin(s)
  <2>1. TypeOK'
    <3>1. sync' \in [Syncers -> [pc : {"idle", "fetch", "lock", "start", "restart"},
                                 list : SUBSET Nodes]]
      BY <1>1 DEF Begin, Goto, IInv, TypeOK
    <3>2. \A x \in Syncers : At(x, "start")' <=> lock' = x
      BY <1>1 DEF Begin, Goto, At, IInv, TypeOK
    <3>3. trigger' \in BOOLEAN
      BY <1>1 DEF Begin, IInv, TypeOK
    <3> QED
      BY <1>1, <3>1, <3>2, <3>3 DEF Begin, At, panel, config, books, world, main, IInv, TypeOK
  <2>2. Managed'
    BY <1>1 DEF Begin, Goto, At, Away, panel, config, books, world, main,
           IInv, TypeOK, Managed
  <2>3. Disjoint'
    BY <1>1 DEF Begin, Goto, At, Away, panel, config, books, world, main,
           IInv, TypeOK, Disjoint
  <2>4. NilWhenClosed'
    BY <1>1 DEF Begin, Goto, At, Away, panel, config, books, world, main,
           IInv, TypeOK, NilWhenClosed
  <2>5. AloneAtFirst'
    BY <1>1 DEF Begin, Goto, At, Away, panel, config, books, world, main,
           IInv, TypeOK, AloneAtFirst
  <2> QED
    BY <2>1, <2>2, <2>3, <2>4, <2>5 DEF IInv
<1>2. CASE Fetch(s)
  BY <1>2 DEF Fetch, At, Away, IInv, TypeOK, Managed, Disjoint, NilWhenClosed, AloneAtFirst,
              panel, config, books, world, tasks, main
<1>3. CASE FetchFails(s)
  BY <1>3 DEF FetchFails, Goto, At, Away, IInv, TypeOK, Managed, Disjoint, NilWhenClosed, AloneAtFirst,
              panel, config, books, world, tasks, main
<1>4. CASE Apply(s)
  BY <1>4 DEF Apply, At, Away, IInv, TypeOK, Managed, Disjoint, NilWhenClosed, AloneAtFirst,
              panel, config, tasks, main, None, Main
<1>5. CASE Unlock(s)
  BY <1>5 DEF Unlock, At, Away, IInv, TypeOK, Managed, Disjoint, NilWhenClosed, AloneAtFirst,
              panel, config, books, world, tasks, main, None, Main
<1>6. CASE Restart(s)
  BY <1>6 DEF Restart, At, Away, IInv, TypeOK, Managed, Disjoint, NilWhenClosed, AloneAtFirst,
              panel, config, books, world, main
<1>7. ASSUME NEW n \in Nodes, StartNode(s, n) PROVE IInv'
  <2>1. TypeOK'
    BY <1>7 DEF StartNode, StartsWell, StartsIll, At, Away, panel, config,
           tasks, main, None, Main, IInv, TypeOK, AloneAtFirst
  <2>2. Managed'
    BY <1>7 DEF StartNode, StartsWell, StartsIll, At, Away, panel, config,
           tasks, main, None, Main, IInv, TypeOK, Managed
  <2>3. Disjoint'
    BY <1>7 DEF StartNode, StartsWell, StartsIll, At, Away, panel, config,
           tasks, main, None, Main, IInv, TypeOK, Disjoint
  <2>4. NilWhenClosed'
    BY <1>7 DEF StartNode, StartsWell, StartsIll, At, Away, panel, config,
           tasks, main, None, Main, IInv, TypeOK, NilWhenClosed
  <2>5. AloneAtFirst'
    BY <1>7 DEF StartNode, StartsWell, StartsIll, At, Away, panel, config,
           tasks, main, None, Main, IInv, TypeOK, AloneAtFirst
  <2> QED
    BY <2>1, <2>2, <2>3, <2>4, <2>5 DEF IInv
<1>8. ASSUME NEW n \in Nodes, NodePanics(s, n) PROVE IInv'
  BY <1>8, BecomesIInv DEF NodePanics
<1> QED
  BY <1>1, <1>2, <1>3, <1>4, <1>5, <1>6, <1>7, <1>8 DEF Sync

LEMMA StepIInv == IInv /\ [Next]_vars => IInv'
<1> SUFFICES ASSUME IInv, [Next]_vars PROVE IInv'
  OBVIOUS
<1>1. CASE PanelChange \/ ServerUpdated \/ Edit
  <2>1. TypeOK'
    <3>1. CASE PanelChange
      BY <1>1, <3>1 DEF PanelChange, At, config, books, world, tasks, main, IInv, TypeOK
    <3>2. CASE ServerUpdated
      BY <1>1, <3>2 DEF ServerUpdated, At, panel, config, books, world, main, IInv, TypeOK
    <3>3. CASE Edit
      <4>1. edits' \in Nat
        BY <3>3 DEF Edit, IInv, TypeOK
      <4>2. restart' \in BOOLEAN
        BY <3>3, Zenon DEF Edit, IInv, TypeOK
      <4> QED
        BY <3>3, <4>1, <4>2 DEF Edit, At, panel, books, world, tasks, main, IInv, TypeOK
    <3> QED
      BY <1>1, <3>1, <3>2, <3>3
  <2>2. Managed'
    BY <1>1 DEF PanelChange, ServerUpdated, Edit, At, panel, config, books,
           world, tasks, main, IInv, TypeOK, Managed
  <2>3. Disjoint'
    BY <1>1 DEF PanelChange, ServerUpdated, Edit, At, panel, config, books,
           world, tasks, main, IInv, TypeOK, Disjoint
  <2>4. NilWhenClosed'
    BY <1>1 DEF PanelChange, ServerUpdated, Edit, At, panel, config, books,
           world, tasks, main, IInv, TypeOK, NilWhenClosed
  <2>5. AloneAtFirst'
    BY <1>1 DEF PanelChange, ServerUpdated, Edit, At, panel, config, books,
           world, tasks, main, IInv, TypeOK, AloneAtFirst
  <2> QED
    BY <2>1, <2>2, <2>3, <2>4, <2>5 DEF IInv
<1>2. CASE MapRace
  BY <1>2, BecomesIInv DEF MapRace
<1>3. CASE UNCHANGED vars
  BY <1>3 DEF vars, IInv, TypeOK, Managed, Disjoint, NilWhenClosed, AloneAtFirst,
              At, panel, config, books, world, tasks, main
<1> QED
  BY <1>1, <1>2, <1>3, MainIInv, SyncIInv DEF Next

THEOREM Invariant == Spec => []IInv
BY InitIInv, StepIInv, PTL DEF Spec

(* In every reachable state statusLock is held by one goroutine, and by it  *)
(* exactly while it starts or closes controllers.                           *)
THEOREM TypeCorrect == Spec => []TypeOK
<1>1. IInv => TypeOK
  BY DEF IInv
<1> QED
  BY <1>1, Invariant, PTL

(* Whatever the syncs fetch and however they interleave with main, the      *)
(* controllers that run are those that webhooks reach and Close will close. *)
THEOREM ManagedHolds == Spec => []Managed
<1>1. IInv => Managed
  BY DEF IInv
<1> QED
  BY <1>1, Invariant, PTL

(* Nothing serves users once the Instance is closed, however late a sync    *)
(* comes.                                                                   *)
THEOREM ClosedIsQuietHolds == Spec => []ClosedIsQuiet
<1>1. IInv => ClosedIsQuiet
  BY DEF IInv, Managed, NilWhenClosed, ClosedIsQuiet
<1> QED
  BY <1>1, Invariant, PTL

(* Without trouble no sync ends the process before the Instance is closed:  *)
(* a node that a sync starts has no inbound, because the lists were         *)
(* compared under the lock that the sync still holds.                       *)
THEOREM CrashOnlyClosedHolds == Spec => CrashOnlyClosed
<1>1. ASSUME IInv, Next, trouble = {}, proc' = "crashed"
      PROVE  nilMap
  <2>1. ASSUME NEW s \in Syncers, NEW n \in Nodes, NodePanics(s, n) PROVE nilMap
    BY <1>1, <2>1 DEF NodePanics, StartPanics, IInv, Managed, Disjoint
  <2>2. ASSUME NEW s \in Syncers, Sync(s), ~(\E n \in Nodes : NodePanics(s, n))
        PROVE  Alive /\ proc' = proc
    BY <2>2 DEF Sync, Begin, Fetch, FetchFails, Apply, Unlock, Restart, StartNode, main
  <2>3. ~RunMain
    BY <1>1 DEF RunMain, Boot, Started, Woken, CloseBegin, CloseServices, Leave,
                StartService, ServicePanics, Becomes
  <2>4. ~(PanelChange \/ ServerUpdated \/ MapRace \/ Edit)
    BY <1>1 DEF PanelChange, ServerUpdated, MapRace, Edit, main, Alive
  <2> QED
    BY <1>1, <2>1, <2>2, <2>3, <2>4 DEF Next, Alive
<1>2. IInv /\ [Next]_vars => [trouble = {} /\ proc' = "crashed" => nilMap]_vars
  BY <1>1
<1> QED
  BY <1>2, Invariant, PTL DEF Spec, CrashOnlyClosed
=============================================================================
