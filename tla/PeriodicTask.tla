---------------------------- MODULE PeriodicTask ----------------------------
(***************************************************************************)
(* The periodic tasks of src/helper/scheduler: a PeriodicTask wrapping one *)
(* Periodic, whose run() re-arms a time.AfterFunc timer after each call of *)
(* Execute.  Every critical section (t.access, with pt.mu around it) is    *)
(* one action; Close, SetInterval and Start inside RestartWithInterval are *)
(* three, because no lock is held between them.                            *)
(*                                                                         *)
(* A member of Timers is an AfterFunc timer together with the goroutine it *)
(* starts.  The callers are goroutines outside the task and the task's own *)
(* Execute: apiMonitor restarts the very task that runs it.                *)
(***************************************************************************)
EXTENDS Naturals, FiniteSets

CONSTANTS Timers,      \* AfterFunc timers; a bound on live runs
          Callers,     \* goroutines outside the task that call its API
          Intervals,   \* the intervals the panel may ask for
          Delay,       \* t.delay: wait one interval before the first run
          NoTimer,     \* a nil t.timer
          MaxGen       \* bound: no API call begins that would pass it

ASSUME PeriodicAssumption ==
    /\ Timers # {}
    /\ Timers \cap Callers = {}
    /\ Intervals \subseteq Nat \ {0}
    /\ Intervals # {}
    /\ Delay \in BOOLEAN
    /\ NoTimer \notin Timers
    /\ MaxGen \in Nat

VARIABLES started,     \* pt.running, the wrapper's flag
          running,     \* t.running
          gen,         \* t.gen
          interval,    \* t.Interval
          timer,       \* t.timer
          run,         \* per timer: what it or its goroutine is doing
          call         \* per thread: a Restart(WithInterval) in progress

vars == <<started, running, gen, interval, timer, run, call>>

Threads == Callers \cup Timers

Durations == Intervals \cup {0}

\* A timer is idle, armed, fired and about to take the lock, or executing.
Run == [pc : {"idle", "armed", "fired", "exec"}, gen : Nat, wait : Durations]

\* arg = 0 stands for a plain Restart, which sets no interval.
Call == [pc : {"idle", "set", "start"}, arg : Durations]

NoRun  == [pc |-> "idle", gen |-> 0, wait |-> 0]
NoCall == [pc |-> "idle", arg |-> 0]

Live(t) == run[t].pc # "idle"

IdleTimers == {t \in Timers : ~Live(t)}

Pending == {c \in Threads : call[c].pc # "idle"}

\* A thread may call the API when it is outside the task or runs Execute,
\* and is not already inside a Restart.
MayCall(c) ==
    /\ call[c].pc = "idle"
    /\ c \in Timers => run[c].pc = "exec"

\* Bounds: a free timer, and generations, for every Restart under way.
Room ==
    /\ Cardinality(Pending) < Cardinality(IdleTimers)
    /\ gen + Cardinality(Pending) + 2 <= MaxGen

Init ==
    /\ started = FALSE
    /\ running = FALSE
    /\ gen = 0
    /\ interval \in Intervals
    /\ timer = NoTimer
    /\ run = [t \in Timers |-> NoRun]
    /\ call = [c \in Threads |-> NoCall]

-----------------------------------------------------------------------------
\* Start: a no-op on a started task, else a new generation and its timer.
Start ==
    IF started \/ running
    THEN /\ started' = TRUE
         /\ UNCHANGED <<running, gen, timer, run>>
    ELSE \E t \in IdleTimers :
            /\ started' = TRUE
            /\ running' = TRUE
            /\ gen' = gen + 1
            /\ timer' = t
            /\ run' = [run EXCEPT ![t] =
                          [pc |-> "armed", gen |-> gen + 1,
                           wait |-> IF Delay THEN interval ELSE 0]]

\* Faulty variant: Close clears t.timer and does not Stop() it.
StopForgotten == run

\* Stop() only cancels a timer that has not fired yet.
Stopped == [t \in Timers |->
              IF t = timer /\ run[t].pc = "armed" THEN NoRun ELSE run[t]]

\* Faulty variant: Close does not end the generation.
CloseForgetsGen ==
    IF ~started
    THEN UNCHANGED <<started, running, gen, timer, run>>
    ELSE /\ started' = FALSE
         /\ running' = FALSE
         /\ gen' = gen
         /\ run' = Stopped
         /\ timer' = NoTimer

\* Close: a no-op on a closed task, else the generation ends.
Close ==
    IF ~started
    THEN UNCHANGED <<started, running, gen, timer, run>>
    ELSE /\ started' = FALSE
         /\ running' = FALSE
         /\ gen' = gen + 1
         /\ run' = Stopped
         /\ timer' = NoTimer

TaskStart(c) ==
    /\ MayCall(c)
    /\ Room
    /\ Start
    /\ UNCHANGED <<interval, call>>

TaskClose(c) ==
    /\ MayCall(c)
    /\ Room
    /\ Close
    /\ UNCHANGED <<interval, call>>

\* Faulty variant: Restart goes through SetInterval with a zero interval.
RestartSetsZero(c) ==
    /\ MayCall(c)
    /\ Room
    /\ \E d \in Durations : call' = [call EXCEPT ![c] = [pc |-> "set", arg |-> d]]
    /\ Close
    /\ UNCHANGED interval

\* RestartWithInterval(d), or Restart when d = 0: first Close ...
RestartClose(c) ==
    /\ MayCall(c)
    /\ Room
    /\ \E d \in Durations :
          call' = [call EXCEPT ![c] =
                     [pc |-> IF d = 0 THEN "start" ELSE "set", arg |-> d]]
    /\ Close
    /\ UNCHANGED interval

\* ... then SetInterval, which is under t.access alone ...
RestartSet(c) ==
    /\ call[c].pc = "set"
    /\ interval' = call[c].arg
    /\ call' = [call EXCEPT ![c].pc = "start"]
    /\ UNCHANGED <<started, running, gen, timer, run>>

\* ... then Start.
RestartStart(c) ==
    /\ call[c].pc = "start"
    /\ Start
    /\ call' = [call EXCEPT ![c] = NoCall]
    /\ UNCHANGED interval

-----------------------------------------------------------------------------
\* The duration elapses and the runtime starts the goroutine.
Fire(t) ==
    /\ run[t].pc = "armed"
    /\ run' = [run EXCEPT ![t].pc = "fired"]
    /\ UNCHANGED <<started, running, gen, interval, timer, call>>

\* Faulty variant: run() checks t.running alone before Execute.
CheckIgnoresGen(t) ==
    /\ run[t].pc = "fired"
    /\ run' = [run EXCEPT ![t] =
                 IF running THEN [@ EXCEPT !.pc = "exec"] ELSE NoRun]
    /\ UNCHANGED <<started, running, gen, interval, timer, call>>

\* run() up to Execute: a run whose generation ended returns.
Check(t) ==
    /\ run[t].pc = "fired"
    /\ run' = [run EXCEPT ![t] =
                 IF running /\ run[t].gen = gen
                 THEN [@ EXCEPT !.pc = "exec"]
                 ELSE NoRun]
    /\ UNCHANGED <<started, running, gen, interval, timer, call>>

\* Faulty variant: run() re-arms with the duration it was armed with.
FinishKeepsWait(t) ==
    /\ run[t].pc = "exec"
    /\ call[t].pc = "idle"
    /\ IF running /\ run[t].gen = gen
       THEN /\ timer' = t
            /\ run' = [run EXCEPT ![t].pc = "armed"]
       ELSE /\ run' = [run EXCEPT ![t] = NoRun]
            /\ UNCHANGED timer
    /\ UNCHANGED <<started, running, gen, interval, call>>

\* Execute has returned: re-arm if the generation is still this run's.
\* The finished goroutine's timer stands for the new one.
Finish(t) ==
    /\ run[t].pc = "exec"
    /\ call[t].pc = "idle"
    /\ IF running /\ run[t].gen = gen
       THEN /\ timer' = t
            /\ run' = [run EXCEPT ![t].pc = "armed", ![t].wait = interval]
       ELSE /\ run' = [run EXCEPT ![t] = NoRun]
            /\ UNCHANGED timer
    /\ UNCHANGED <<started, running, gen, interval, call>>

-----------------------------------------------------------------------------
ApiCall(c) == \/ TaskStart(c)
              \/ TaskClose(c)
              \/ RestartClose(c)

Progress(c) == RestartSet(c) \/ RestartStart(c)

Step(t) == Fire(t) \/ Check(t) \/ Finish(t)

Next == \/ \E c \in Threads : ApiCall(c) \/ Progress(c)
        \/ \E t \in Timers : Step(t)

\* The runtime fires timers, goroutines are scheduled, and Execute returns
\* (every HTTP call has a timeout).  Nobody is obliged to call the API.
Fairness == /\ \A c \in Threads : WF_vars(Progress(c))
            /\ \A t \in Timers : WF_vars(Step(t))

Spec == Init /\ [][Next]_vars /\ Fairness

-----------------------------------------------------------------------------
(* The state only ever holds values of the code's types. *)
TypeOK ==
    /\ started \in BOOLEAN
    /\ running \in BOOLEAN
    /\ gen \in Nat
    /\ interval \in Intervals
    /\ timer \in Timers \cup {NoTimer}
    /\ run \in [Timers -> Run]
    /\ call \in [Threads -> Call]

(* A live run that carries the present generation: the one that may re-arm. *)
Current(t) == Live(t) /\ run[t].gen = gen

(* However starts, closes and restarts interleave with timers and with     *)
(* Execute, a running task has exactly one run of its generation (two      *)
(* would double every report for ever, none would stop the task silently)  *)
(* and t.timer is that run's timer, so that Close can stop it.  A closed   *)
(* task has none.                                                          *)
SingleChain ==
    /\ running <=> timer \in Timers
    /\ \A t \in Timers : Current(t) <=> running /\ timer = t

(* A timer waiting in the runtime is always the one Close would stop: no   *)
(* timer is lost, and none stays armed once the task is closed.            *)
NoLeakedTimer ==
    \A t \in Timers : run[t].pc = "armed" => running /\ timer = t

(* Once nobody restarts the task, its timer waits for the interval that    *)
(* was set last, even when the last of two racing RestartWithInterval      *)
(* calls found the task already started and armed with the other interval. *)
AdoptsInterval ==
    \A d \in Intervals :
        <>[](running /\ interval = d /\ Pending = {})
            => <>[](timer \in Timers /\ run[timer].wait = d)

-----------------------------------------------------------------------------
(* The promise to a task's owner, Ticker: the run that executes for the    *)
(* present start, and the runs of earlier starts that have yet to return.  *)
Job == IF timer # NoTimer /\ run[timer].pc = "exec" THEN timer ELSE NoTimer

Late == {t \in Timers : run[t].pc = "exec" /\ t # timer}

Promise == INSTANCE Ticker WITH Jobs <- Timers, NoJob <- NoTimer,
                                on <- running, job <- Job, late <- Late

(* The task implements Ticker, its liveness included: however restarts race *)
(* with timers, Execute is never run twice for one start of the task.      *)
ImplementsTicker == Promise!Spec
=============================================================================
