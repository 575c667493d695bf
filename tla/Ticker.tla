------------------------------- MODULE Ticker -------------------------------
(***************************************************************************)
(* What a periodic task promises its owner.  Between a start and the next  *)
(* close at most one job is executing for that start, and job follows job  *)
(* for ever.  A close does not wait for the job it interrupts: it becomes  *)
(* late, and a late job can only finish.                                   *)
(***************************************************************************)
CONSTANTS Jobs, NoJob

VARIABLES on,     \* the task is started
          job,    \* the job executing for the present start, or NoJob
          late    \* jobs of earlier starts that are still executing

tickVars == <<on, job, late>>

Init == on = FALSE /\ job = NoJob /\ late = {}

SwitchOn == ~on /\ on' = TRUE /\ UNCHANGED <<job, late>>

SwitchOff ==
    /\ on
    /\ on' = FALSE
    /\ job' = NoJob
    /\ late' = late \cup ({job} \ {NoJob})

Begin(j) ==
    /\ on
    /\ job = NoJob
    /\ j \notin late
    /\ job' = j
    /\ UNCHANGED <<on, late>>

Done == job # NoJob /\ job' = NoJob /\ UNCHANGED <<on, late>>

LateDone(j) == j \in late /\ late' = late \ {j} /\ UNCHANGED <<on, job>>

Next == \/ SwitchOn \/ SwitchOff \/ Done
        \/ \E j \in Jobs : Begin(j) \/ LateDone(j)

Fairness == /\ WF_tickVars(\E j \in Jobs : Begin(j))
            /\ WF_tickVars(Done)
            /\ \A j \in Jobs : WF_tickVars(LateDone(j))

Spec == Init /\ [][Next]_tickVars /\ Fairness
=============================================================================
