------------------------- MODULE PeriodicTaskProofs -------------------------
(***************************************************************************)
(* Proofs about PeriodicTask, for every number of timers, of callers and   *)
(* of generations.                                                         *)
(*                                                                         *)
(* SingleChain is not inductive: a run of an old generation must also be   *)
(* known not to carry the generation that Start is about to begin, and     *)
(* the wrapper's flag must agree with the flag it guards.  TypeOK is not   *)
(* either: a plain Restart must never reach SetInterval with its zero.     *)
(***************************************************************************)
EXTENDS PeriodicTask, TLAPS

GenerationsOrdered == \A t \in Timers : Live(t) => run[t].gen <= gen

WrapperAgrees == started = running

\* Only a RestartWithInterval that was given an interval goes on to set it.
SetsRealInterval ==
    \A c \in Threads : call[c].pc = "set" => call[c].arg \in Intervals

IInv == /\ TypeOK
        /\ SingleChain
        /\ GenerationsOrdered
        /\ WrapperAgrees
        /\ NoLeakedTimer
        /\ SetsRealInterval

LEMMA InitInv == Init => IInv
<1> SUFFICES ASSUME Init PROVE IInv
  OBVIOUS
<1>1. NoRun \in Run /\ NoCall \in Call
  BY DEF NoRun, NoCall, Run, Call, Durations
<1>2. TypeOK
  BY <1>1 DEF Init, TypeOK
<1>3. \A t \in Timers : run[t].pc = "idle"
  BY DEF Init, NoRun
<1>4. \A c \in Threads : call[c].pc = "idle"
  BY DEF Init, NoCall
<1> QED
  BY <1>2, <1>3, <1>4, PeriodicAssumption
  DEF Init, IInv, SingleChain, GenerationsOrdered, WrapperAgrees,
      NoLeakedTimer, SetsRealInterval, Current, Live

(* Start and Close keep the invariant, whoever calls them. *)
LEMMA StartInv ==
    ASSUME IInv, Start, UNCHANGED interval,
           call' \in [Threads -> Call], SetsRealInterval'
    PROVE  IInv'
<1>1. CASE started \/ running
  BY <1>1 DEF Start, IInv, TypeOK, SingleChain, GenerationsOrdered,
              WrapperAgrees, NoLeakedTimer, SetsRealInterval, Current, Live
<1>2. CASE ~(started \/ running)
  <2>1. PICK t \in IdleTimers :
          /\ started' = TRUE /\ running' = TRUE
          /\ gen' = gen + 1 /\ timer' = t
          /\ run' = [run EXCEPT ![t] =
                        [pc |-> "armed", gen |-> gen + 1,
                         wait |-> IF Delay THEN interval ELSE 0]]
    BY <1>2 DEF Start
  <2>2. t \in Timers /\ ~Live(t)
    BY DEF IdleTimers
  <2>3. TypeOK'
    BY <2>1, <2>2, PeriodicAssumption DEF IInv, TypeOK, Run, Durations
  <2>4. \A u \in Timers : u # t => run'[u] = run[u]
    BY <2>1 DEF IInv, TypeOK
  <2>5. run'[t].pc = "armed" /\ run'[t].gen = gen + 1
    BY <2>1, <2>2 DEF IInv, TypeOK
  <2>6. \A u \in Timers : u # t /\ Live(u) => run[u].gen <= gen
    BY DEF IInv, GenerationsOrdered
  <2>7. \A u \in Timers : run[u].gen \in Nat /\ gen \in Nat
    BY DEF IInv, TypeOK, Run
  <2>8. SingleChain' /\ GenerationsOrdered'
    BY <2>1, <2>2, <2>4, <2>5, <2>6, <2>7
    DEF SingleChain, GenerationsOrdered, Current, Live
  <2>9. \A u \in Timers : u # t => run[u].pc # "armed"
    BY <1>2 DEF IInv, NoLeakedTimer
  <2>10. NoLeakedTimer'
    BY <2>1, <2>4, <2>9 DEF NoLeakedTimer
  <2> QED
    BY <2>1, <2>3, <2>8, <2>10 DEF IInv, WrapperAgrees
<1> QED
  BY <1>1, <1>2

LEMMA CloseInv ==
    ASSUME IInv, Close, UNCHANGED interval,
           call' \in [Threads -> Call], SetsRealInterval'
    PROVE  IInv'
<1>1. CASE ~started
  BY <1>1 DEF Close, IInv, TypeOK, SingleChain, GenerationsOrdered,
              WrapperAgrees, NoLeakedTimer, SetsRealInterval, Current, Live
<1>2. CASE started
  <2>1. /\ started' = FALSE /\ running' = FALSE /\ gen' = gen + 1
        /\ run' = Stopped /\ timer' = NoTimer
    BY <1>2 DEF Close
  <2>2. TypeOK'
    <3>1. NoRun \in Run
      BY DEF NoRun, Run, Durations
    <3>2. Stopped \in [Timers -> Run]
      BY <3>1 DEF IInv, TypeOK, Stopped
    <3> QED
      BY <2>1, <3>2, gen + 1 \in Nat DEF IInv, TypeOK
  <2>3. \A u \in Timers : Live(u)' => Live(u) /\ run'[u] = run[u]
    BY <2>1 DEF Stopped, Live, NoRun
  <2>4. \A u \in Timers : run[u].gen \in Nat /\ gen \in Nat
    BY DEF IInv, TypeOK, Run
  <2>5. SingleChain' /\ GenerationsOrdered'
    BY <2>1, <2>3, <2>4, PeriodicAssumption
    DEF IInv, SingleChain, GenerationsOrdered, Current, Live
  <2>6. NoLeakedTimer'
    BY <2>1 DEF IInv, NoLeakedTimer, Stopped, NoRun
  <2> QED
    BY <2>1, <2>2, <2>5, <2>6 DEF IInv, WrapperAgrees
<1> QED
  BY <1>1, <1>2

LEMMA NextInv == IInv /\ [Next]_vars => IInv'
<1> SUFFICES ASSUME IInv, [Next]_vars PROVE IInv'
  OBVIOUS
<1>1. ASSUME NEW c \in Threads, TaskStart(c) PROVE IInv'
  BY <1>1, StartInv DEF TaskStart, IInv, TypeOK, SetsRealInterval
<1>2. ASSUME NEW c \in Threads, TaskClose(c) PROVE IInv'
  BY <1>2, CloseInv DEF TaskClose, IInv, TypeOK, SetsRealInterval
<1>3. ASSUME NEW c \in Threads, RestartClose(c) PROVE IInv'
  <2>1. call' \in [Threads -> Call]
    BY <1>3 DEF RestartClose, IInv, TypeOK, Call
  <2>2. SetsRealInterval'
    BY <1>3 DEF RestartClose, IInv, TypeOK, SetsRealInterval, Durations
  <2> QED
    BY <1>3, <2>1, <2>2, CloseInv DEF RestartClose
<1>4. ASSUME NEW c \in Threads, RestartSet(c) PROVE IInv'
  <2>1. interval' \in Intervals
    BY <1>4 DEF RestartSet, IInv, SetsRealInterval
  <2>2. TypeOK' /\ SetsRealInterval'
    BY <1>4, <2>1 DEF RestartSet, IInv, TypeOK, SetsRealInterval, Call
  <2> QED
    BY <1>4, <2>2 DEF RestartSet, IInv, SingleChain, GenerationsOrdered,
                      WrapperAgrees, NoLeakedTimer, SetsRealInterval, Current, Live
<1>5. ASSUME NEW c \in Threads, RestartStart(c) PROVE IInv'
  <2>1. call' \in [Threads -> Call]
    BY <1>5 DEF RestartStart, IInv, TypeOK, Call, NoCall, Durations
  <2>2. SetsRealInterval'
    BY <1>5 DEF RestartStart, IInv, TypeOK, SetsRealInterval, NoCall
  <2> QED
    BY <1>5, <2>1, <2>2, StartInv DEF RestartStart
<1>6. ASSUME NEW t \in Timers, Fire(t) PROVE IInv'
  BY <1>6 DEF Fire, IInv, TypeOK, Run, SingleChain, GenerationsOrdered,
              WrapperAgrees, NoLeakedTimer, SetsRealInterval,
              Current, Live
<1>7. ASSUME NEW t \in Timers, Check(t) PROVE IInv'
  BY <1>7 DEF Check, NoRun, IInv, TypeOK, Run, Durations, SingleChain,
              GenerationsOrdered, WrapperAgrees, NoLeakedTimer,
              SetsRealInterval, Current, Live
<1>8. ASSUME NEW t \in Timers, Finish(t) PROVE IInv'
  BY <1>8 DEF Finish, NoRun, IInv, TypeOK, Run, Durations, SingleChain,
              GenerationsOrdered, WrapperAgrees, NoLeakedTimer,
              SetsRealInterval, Current, Live
<1>9. CASE UNCHANGED vars
  BY <1>9 DEF vars, IInv, TypeOK, SingleChain, GenerationsOrdered,
              WrapperAgrees, NoLeakedTimer, SetsRealInterval, Current, Live
<1> QED
  BY <1>1, <1>2, <1>3, <1>4, <1>5, <1>6, <1>7, <1>8, <1>9
  DEF Next, ApiCall, Progress, Step

LEMMA Invariance == Spec => []IInv
BY InitInv, NextInv, PTL DEF Spec

(* TypeOK holds in every reachable state. *)
THEOREM TypeCorrect == Spec => []TypeOK
<1>1. IInv => TypeOK
  BY DEF IInv
<1> QED
  BY <1>1, Invariance, PTL

(* A started task has exactly one run of its generation and a closed one    *)
(* has none, for any number of racing restarts.                             *)
THEOREM SingleChainHolds == Spec => []SingleChain
<1>1. IInv => SingleChain
  BY DEF IInv
<1> QED
  BY <1>1, Invariance, PTL

(* An armed timer is always the one that Close would stop.                  *)
THEOREM NoLeakedTimerHolds == Spec => []NoLeakedTimer
<1>1. IInv => NoLeakedTimer
  BY DEF IInv
<1> QED
  BY <1>1, Invariance, PTL
-----------------------------------------------------------------------------
(* Under the refinement mapping of PeriodicTask, Start and Close switch the *)
(* ticker on and off, or do nothing.                                        *)
LEMMA StartRefines ==
    ASSUME IInv, Start PROVE [Promise!Next]_(Promise!tickVars)
<1>1. CASE started \/ running
  BY <1>1 DEF Start, Promise!tickVars, Job, Late
<1>2. CASE ~(started \/ running)
  <2>1. PICK t \in IdleTimers :
          /\ running' = TRUE
          /\ timer' = t
          /\ run' = [run EXCEPT ![t] =
                        [pc |-> "armed", gen |-> gen + 1,
                         wait |-> IF Delay THEN interval ELSE 0]]
    BY <1>2 DEF Start
  <2>2. t \in Timers /\ run[t].pc = "idle"
    BY DEF IdleTimers, Live
  <2>3. timer = NoTimer /\ ~running
    BY <1>2 DEF IInv, SingleChain, TypeOK
  <2>4. run'[t].pc = "armed" /\ \A u \in Timers \ {t} : run'[u] = run[u]
    BY <2>1, <2>2 DEF IInv, TypeOK
  <2>5. Job = NoTimer /\ Job' = NoTimer
    BY <2>1, <2>3, <2>4 DEF Job
  <2>6. Late' = Late
    BY <2>1, <2>2, <2>3, <2>4, PeriodicAssumption DEF Late
  <2>7. Promise!SwitchOn
    BY <2>1, <2>3, <2>5, <2>6 DEF Promise!SwitchOn
  <2> QED
    BY <2>7 DEF Promise!Next
<1> QED
  BY <1>1, <1>2

LEMMA CloseRefines ==
    ASSUME IInv, Close PROVE [Promise!Next]_(Promise!tickVars)
<1>1. CASE ~started
  BY <1>1 DEF Close, Promise!tickVars, Job, Late
<1>2. CASE started
  <2>1. running' = FALSE /\ timer' = NoTimer /\ run' = Stopped
    BY <1>2 DEF Close
  <2>2. running /\ timer \in Timers
    BY <1>2 DEF IInv, WrapperAgrees, SingleChain
  <2>3. Job' = NoTimer
    BY <2>1 DEF Job
  <2>4. \A u \in Timers : run'[u].pc = "exec" <=> run[u].pc = "exec"
    BY <2>1 DEF Stopped, NoRun
  <2>5. Late' = Late \cup (({Job}) \ {NoTimer})
    BY <2>1, <2>2, <2>4, PeriodicAssumption DEF Late, Job
  <2>6. Promise!SwitchOff
    BY <2>1, <2>2, <2>3, <2>5 DEF Promise!SwitchOff
  <2> QED
    BY <2>6 DEF Promise!Next
<1> QED
  BY <1>1, <1>2

LEMMA StepRefines == IInv /\ [Next]_vars => [Promise!Next]_(Promise!tickVars)
<1> SUFFICES ASSUME IInv, [Next]_vars PROVE [Promise!Next]_(Promise!tickVars)
  OBVIOUS
<1>1. ASSUME NEW c \in Threads, ApiCall(c) \/ RestartStart(c)
      PROVE  [Promise!Next]_(Promise!tickVars)
  BY <1>1, StartRefines, CloseRefines
  DEF ApiCall, TaskStart, TaskClose, RestartClose, RestartStart
<1>2. ASSUME NEW c \in Threads, RestartSet(c)
      PROVE  [Promise!Next]_(Promise!tickVars)
  BY <1>2 DEF RestartSet, Promise!tickVars, Job, Late
<1>3. ASSUME NEW t \in Timers, Fire(t)
      PROVE  [Promise!Next]_(Promise!tickVars)
  BY <1>3, PeriodicAssumption
  DEF Fire, Promise!tickVars, Job, Late, IInv, TypeOK
<1>4. ASSUME NEW t \in Timers, Check(t)
      PROVE  [Promise!Next]_(Promise!tickVars)
  <2>1. CASE running /\ run[t].gen = gen
    <3>1. t = timer
      BY <1>4, <2>1 DEF Check, IInv, SingleChain, Current, Live
    <3>2. /\ run'[t].pc = "exec"
          /\ \A u \in Timers \ {t} : run'[u] = run[u]
          /\ timer' = timer /\ running' = running
      BY <1>4, <2>1 DEF Check, IInv, TypeOK, Run
    <3>3. Job = NoTimer /\ Job' = t
      BY <1>4, <3>1, <3>2, PeriodicAssumption DEF Check, Job
    <3>4. Late' = Late /\ t \notin Late
      BY <3>1, <3>2 DEF Late
    <3>5. Promise!Begin(t)
      BY <2>1, <3>2, <3>3, <3>4 DEF Promise!Begin
    <3> QED
      BY <3>5 DEF Promise!Next
  <2>2. CASE ~(running /\ run[t].gen = gen)
    <3>1. /\ run[t].pc = "fired" /\ run'[t].pc = "idle"
          /\ \A u \in Timers \ {t} : run'[u] = run[u]
          /\ timer' = timer /\ running' = running
      BY <1>4, <2>2 DEF Check, NoRun, IInv, TypeOK
    <3>2. Job' = Job /\ Late' = Late
      BY <3>1 DEF Job, Late, IInv, TypeOK
    <3> QED
      BY <3>1, <3>2 DEF Promise!tickVars
  <2> QED
    BY <2>1, <2>2
<1>5. ASSUME NEW t \in Timers, Finish(t)
      PROVE  [Promise!Next]_(Promise!tickVars)
  <2>1. run[t].pc = "exec" /\ Live(t)
    BY <1>5 DEF Finish, Live
  <2>2. CASE running /\ run[t].gen = gen
    <3>1. t = timer
      BY <2>1, <2>2 DEF IInv, SingleChain, Current
    <3>2. /\ run'[t].pc = "armed"
          /\ \A u \in Timers \ {t} : run'[u] = run[u]
          /\ timer' = timer /\ running' = running
      BY <1>5, <2>2, <3>1 DEF Finish, IInv, TypeOK, Run
    <3>3. Job = t /\ Job' = NoTimer /\ Late' = Late
      BY <2>1, <3>1, <3>2, PeriodicAssumption DEF Job, Late
    <3>4. Promise!Done
      BY <3>2, <3>3, PeriodicAssumption DEF Promise!Done
    <3> QED
      BY <3>4 DEF Promise!Next
  <2>3. CASE ~(running /\ run[t].gen = gen)
    <3>1. t # timer
      BY <2>1, <2>3 DEF IInv, SingleChain, Current
    <3>2. /\ run'[t].pc = "idle"
          /\ \A u \in Timers \ {t} : run'[u] = run[u]
          /\ timer' = timer /\ running' = running
      BY <1>5, <2>3 DEF Finish, NoRun, IInv, TypeOK
    <3>3. Job' = Job
      BY <3>1, <3>2 DEF Job, IInv, TypeOK
    <3>4. t \in Late /\ Late' = Late \ {t}
      BY <2>1, <3>1, <3>2 DEF Late
    <3>5. Promise!LateDone(t)
      BY <3>2, <3>3, <3>4 DEF Promise!LateDone
    <3> QED
      BY <3>5 DEF Promise!Next
  <2> QED
    BY <2>2, <2>3
<1>6. CASE UNCHANGED vars
  BY <1>6 DEF vars, Promise!tickVars, Job, Late
<1> QED
  BY <1>1, <1>2, <1>3, <1>4, <1>5, <1>6 DEF Next, Progress, Step

(* The task never executes twice for one start: every step of it is a step  *)
(* of Ticker or leaves the ticker alone.                                    *)
THEOREM RefinesTicker ==
    Spec => Promise!Init /\ [][Promise!Next]_(Promise!tickVars)
<1>1. Init => Promise!Init
  BY DEF Init, Promise!Init, Job, Late, NoRun
<1> QED
  BY <1>1, Invariance, StepRefines, PTL DEF Spec
=============================================================================
