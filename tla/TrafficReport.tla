---------------------------- MODULE TrafficReport ----------------------------
(***************************************************************************)
(* How one node's traffic reaches the panel.  Every link of a subscription *)
(* adds to a counter of the core's stats manager; SubscriptionMonitor      *)
(* reads the counters (DrainDeltas), pushes them in batches over Reverb,   *)
(* posts what could not be pushed, and takes from each counter the amount  *)
(* it read, batch by batch, once that batch was sent.  Links keep counting *)
(* and apiMonitor keeps adding and deleting subscriptions between any two  *)
(* of these steps.                                                         *)
(*                                                                         *)
(* Upload and download are read, sent and taken together and never mixed,  *)
(* so one counter stands for both.  A nil pusher (no Reverb configured) is *)
(* a push that fails.  The panel and the network are the environment.      *)
(***************************************************************************)
EXTENDS Integers, FiniteSets

CONSTANTS Subs,        \* subscriptions, by tagged email
          Monitors,    \* SubscriptionMonitor executions that can overlap
          Task,        \* the one that runs when none overlap
          BatchSize,   \* reverbBatchSize
          Troubles,    \* what may go wrong together, one set per behaviour
          MaxTraffic,  \* bound on what each subscription carries
          MaxBilled    \* bound: no answer is lost that would book past it

ASSUME TrafficAssumption ==
    /\ IsFiniteSet(Subs)
    /\ Task \in Monitors
    /\ BatchSize \in Nat \ {0}
    /\ Troubles \subseteq SUBSET {"lost_push", "lost_answer", "crash", "overlap"}
    /\ MaxTraffic \in [Subs -> Nat] /\ MaxBilled \in Nat

VARIABLES registered,   \* keys of the limiter's SubscriptionInfo map
          counter,      \* the stats counters
          total,        \* history: what each subscription has carried
          billed,       \* history: what the panel has booked for it
          pc,           \* where each SubscriptionMonitor is
          left,         \* keys DrainDeltas has still to visit
          snap,         \* the values DrainDeltas read: upVal and downVal
          todo,         \* records that no batch has been cut from yet
          undelivered,  \* records of the batches that were not pushed
          cur,          \* delivered records whose counters are not reset yet
          trouble       \* chosen once, at the start: a message written to the
                        \* websocket may be lost, a post be booked and its
                        \* answer lost, the process restarted, a report begin
                        \* while another runs (RestartWithInterval)

limiter == <<registered, counter, total, billed>>
monitor == <<pc, left, snap, todo, undelivered, cur>>
vars == <<limiter, monitor, trouble>>

Zero == [s \in Subs |-> 0]

Init ==
    /\ registered \in SUBSET Subs
    /\ counter = Zero
    /\ total = Zero
    /\ billed = Zero
    /\ pc = [m \in Monitors |-> "idle"]
    /\ left = [m \in Monitors |-> {}]
    /\ snap = [m \in Monitors |-> Zero]
    /\ todo = [m \in Monitors |-> {}]
    /\ undelivered = [m \in Monitors |-> {}]
    /\ cur = [m \in Monitors |-> {}]
    /\ trouble \in Troubles

-----------------------------------------------------------------------------
\* A link writes or reads a buffer.
Carry(s) ==
    /\ total[s] < MaxTraffic[s]
    /\ counter' = [counter EXCEPT ![s] = @ + 1]
    /\ total' = [total EXCEPT ![s] = @ + 1]
    /\ UNCHANGED <<registered, billed, monitor>>

\* UpdateInboundLimiter and AddInboundLimiter store a subscription ...
Register(s) ==
    /\ s \notin registered
    /\ registered' = registered \cup {s}
    /\ UNCHANGED <<counter, total, billed, monitor>>

\* ... DeleteSubscriptionBuckets and DeleteInboundLimiter forget it.  The
\* stats counter stays.
Unregister(s) ==
    /\ s \in registered
    /\ registered' = registered \ {s}
    /\ UNCHANGED <<counter, total, billed, monitor>>

-----------------------------------------------------------------------------
\* The task (or a late run of it) enters SubscriptionMonitor.
MonitorStart(m) ==
    /\ pc[m] = "idle"
    /\ pc' = [pc EXCEPT ![m] = "drain"]
    /\ left' = [left EXCEPT ![m] = registered]
    /\ snap' = [snap EXCEPT ![m] = Zero]
    /\ todo' = [todo EXCEPT ![m] = {}]
    /\ undelivered' = [undelivered EXCEPT ![m] = {}]
    /\ UNCHANGED <<limiter, cur>>

\* DrainDeltas visits one key of the map.  A key deleted since Range began is
\* visited or not; one whose counters are zero gets no record.
DrainOne(m, s) ==
    /\ pc[m] = "drain"
    /\ s \in left[m]
    /\ left' = [left EXCEPT ![m] = @ \ {s}]
    /\ \/ /\ counter[s] # 0
          /\ snap' = [snap EXCEPT ![m][s] = counter[s]]
          /\ todo' = [todo EXCEPT ![m] = @ \cup {s}]
       \/ /\ counter[s] = 0 \/ s \notin registered
          /\ UNCHANGED <<snap, todo>>
    /\ UNCHANGED <<limiter, pc, undelivered, cur>>

\* SubscriptionMonitor's part returns, and with it go its locals.
Return(m) ==
    /\ pc' = [pc EXCEPT ![m] = "idle"]
    /\ snap' = [snap EXCEPT ![m] = Zero]
    /\ undelivered' = [undelivered EXCEPT ![m] = {}]

Go(m, to) == pc' = [pc EXCEPT ![m] = to] /\ UNCHANGED <<snap, undelivered>>

\* DrainDeltas returns: nil when nothing was counted.
DrainDone(m) ==
    /\ pc[m] = "drain"
    /\ left[m] = {}
    /\ IF todo[m] = {} THEN Return(m) ELSE Go(m, "push")
    /\ UNCHANGED <<limiter, left, todo, cur>>

Batches(S) == {c \in SUBSET S :
                 Cardinality(c) = IF Cardinality(S) <= BatchSize
                                  THEN Cardinality(S) ELSE BatchSize}

\* The panel books the records of the batch c.
Book(m, c) ==
    billed' = [s \in Subs |-> IF s \in c THEN billed[s] + snap[m][s] ELSE billed[s]]

\* pusher is nil or returns an error: the batch waits for the API.
PushFailed(m) ==
    /\ pc[m] = "push"
    /\ todo[m] # {}
    /\ \E c \in Batches(todo[m]) :
          /\ todo' = [todo EXCEPT ![m] = @ \ c]
          /\ undelivered' = [undelivered EXCEPT ![m] = @ \cup c]
    /\ UNCHANGED <<limiter, pc, left, snap, cur>>

\* Faulty variant: a pushed batch is also kept for the API.
PushKeepsBatch(m) ==
    /\ pc[m] = "push"
    /\ todo[m] # {}
    /\ \E c \in Batches(todo[m]) :
          /\ todo' = [todo EXCEPT ![m] = @ \ c]
          /\ undelivered' = [undelivered EXCEPT ![m] = @ \cup c]
          /\ cur' = [cur EXCEPT ![m] = c]
          /\ Book(m, c)
    /\ pc' = [pc EXCEPT ![m] = "pushed"]
    /\ UNCHANGED <<registered, counter, total, left, snap>>

\* Faulty variant: every batch resets all that was drained.
PushResetsAll(m) ==
    /\ pc[m] = "push"
    /\ todo[m] # {}
    /\ \E c \in Batches(todo[m]) :
          /\ todo' = [todo EXCEPT ![m] = @ \ c]
          /\ cur' = [cur EXCEPT ![m] = todo[m] \cup undelivered[m]]
          /\ Book(m, c)
    /\ pc' = [pc EXCEPT ![m] = "pushed"]
    /\ UNCHANGED <<registered, counter, total, left, snap, undelivered>>

\* pusher returns nil: the message was written, which is not yet arrived.
Push(m) ==
    /\ pc[m] = "push"
    /\ todo[m] # {}
    /\ \E c \in Batches(todo[m]) :
          /\ todo' = [todo EXCEPT ![m] = @ \ c]
          /\ cur' = [cur EXCEPT ![m] = c]
          /\ Book(m, c) \/ ("lost_push" \in trouble /\ UNCHANGED billed)
    /\ pc' = [pc EXCEPT ![m] = "pushed"]
    /\ UNCHANGED <<registered, counter, total, left, snap, undelivered>>

PushDone(m) ==
    /\ pc[m] = "push"
    /\ todo[m] = {}
    /\ IF undelivered[m] = {} THEN Return(m) ELSE Go(m, "post")
    /\ UNCHANGED <<limiter, left, todo, cur>>

\* ReportTraffic succeeds for all the batches together.
PostAccepted(m) ==
    /\ pc[m] = "post"
    /\ Book(m, undelivered[m])
    /\ cur' = [cur EXCEPT ![m] = undelivered[m]]
    /\ pc' = [pc EXCEPT ![m] = "posted"]
    /\ UNCHANGED <<registered, counter, total, left, snap, todo, undelivered>>

\* Faulty variant: the counters are reset although the report failed.
PostFailedResets(m) ==
    /\ pc[m] = "post"
    /\ cur' = [cur EXCEPT ![m] = undelivered[m]]
    /\ pc' = [pc EXCEPT ![m] = "posted"]
    /\ UNCHANGED <<limiter, left, snap, todo, undelivered>>

\* ReportTraffic returns an error, its retries included.
PostFailed(m) ==
    /\ pc[m] = "post"
    /\ \/ UNCHANGED billed
       \/ /\ "lost_answer" \in trouble
          /\ Book(m, undelivered[m])
          /\ \A s \in Subs : billed'[s] <= MaxBilled
    /\ Return(m)
    /\ UNCHANGED <<registered, counter, total, left, todo, cur>>

\* Faulty variant: the counter is set to zero.
ResetToZero(m, s) ==
    /\ pc[m] \in {"pushed", "posted"}
    /\ s \in cur[m]
    /\ counter' = [counter EXCEPT ![s] = 0]
    /\ cur' = [cur EXCEPT ![m] = @ \ {s}]
    /\ UNCHANGED <<registered, total, billed, pc, left, snap, todo, undelivered>>

\* ResetTraffic, one counter of the batch: Add(-upVal).
ResetOne(m, s) ==
    /\ pc[m] \in {"pushed", "posted"}
    /\ s \in cur[m]
    /\ counter' = [counter EXCEPT ![s] = @ - snap[m][s]]
    /\ cur' = [cur EXCEPT ![m] = @ \ {s}]
    /\ UNCHANGED <<registered, total, billed, pc, left, snap, todo, undelivered>>

\* On to the next batch, or out of reportTraffic after the post.
ResetDone(m) ==
    /\ pc[m] \in {"pushed", "posted"}
    /\ cur[m] = {}
    /\ IF pc[m] = "posted" THEN Return(m) ELSE Go(m, "push")
    /\ UNCHANGED <<limiter, left, todo, cur>>

\* The counters live in memory: a restart begins again from zero.
Crash ==
    /\ "crash" \in trouble
    /\ counter' = Zero
    /\ pc' = [m \in Monitors |-> "idle"]
    /\ snap' = [m \in Monitors |-> Zero]
    /\ left' = [m \in Monitors |-> {}]
    /\ todo' = left' /\ undelivered' = left' /\ cur' = left'
    /\ UNCHANGED <<registered, total, billed>>

-----------------------------------------------------------------------------
Report(m) ==
    /\ \/ MonitorStart(m) \/ DrainDone(m)
       \/ PushFailed(m) \/ Push(m) \/ PushDone(m)
       \/ PostAccepted(m) \/ PostFailed(m) \/ ResetDone(m)
       \/ \E s \in Subs : DrainOne(m, s) \/ ResetOne(m, s)
    /\ UNCHANGED trouble

Environment ==
    /\ \/ \E s \in Subs : Carry(s) \/ Register(s) \/ Unregister(s)
       \/ Crash
    /\ UNCHANGED trouble

Running == IF "overlap" \in trouble THEN Monitors ELSE {Task}

Next == Environment \/ \E m \in Running : Report(m)

\* The task runs for ever (Ticker!Fairness), each call returns,
\* and a panel that is asked for ever answers now and then.
Fairness == /\ WF_vars(Report(Task))
            /\ SF_vars(PostAccepted(Task) /\ UNCHANGED trouble)

Spec == Init /\ [][Next]_vars /\ Fairness

-----------------------------------------------------------------------------
Expected == trouble \in Troubles

(* The state only ever holds values of the code's types, and each drained   *)
(* record is in one place: to be cut, undelivered, or awaiting its reset.   *)
TypeOK ==
    /\ registered \subseteq Subs
    /\ counter \in [Subs -> Int]
    /\ total \in [Subs -> Nat]
    /\ billed \in [Subs -> Int]
    /\ pc \in [Monitors -> {"idle", "drain", "push", "pushed", "post", "posted"}]
    /\ left \in [Monitors -> SUBSET Subs]
    /\ snap \in [Monitors -> [Subs -> Int]]
    /\ todo \in [Monitors -> SUBSET Subs]
    /\ undelivered \in [Monitors -> SUBSET Subs]
    /\ cur \in [Monitors -> SUBSET Subs]
    /\ Expected
    /\ \A m \in Monitors :
          /\ todo[m] \cap (undelivered[m] \cup cur[m]) = {}
          /\ pc[m] # "posted" => undelivered[m] \cap cur[m] = {}

(* When pushes arrive and the process stays up, no byte is forgotten: what  *)
(* a subscription carried is booked by the panel or still in its counter,   *)
(* whichever batches fail, whichever answers are lost, and in whatever      *)
(* order the counters are read, sent and reset.                             *)
NoLoss ==
    trouble \subseteq {"lost_answer"}
        => \A s \in Subs : total[s] <= billed[s] + counter[s]

(* Two reports that overlap bill the same bytes twice, but the resets take  *)
(* them twice as well: the counter, below zero, is the credit that the next *)
(* report pays back.                                                        *)
OverlapBalances ==
    /\ trouble \subseteq {"overlap"}
    /\ \A m \in Monitors : cur[m] = {}
    => \A s \in Subs : total[s] = billed[s] + counter[s]

(* When no answer is lost and reports do not overlap, no byte is billed     *)
(* twice, whichever batches fail and fall back to the API, and although a   *)
(* restart may come between a delivery and its reset.                       *)
NoOverbilling ==
    trouble \subseteq {"lost_push", "crash"}
        => \A s \in Subs : billed[s] <= total[s]

(* Unless reports overlap, a counter is never driven below zero, where it   *)
(* would swallow traffic to come: a reset never takes more than the links   *)
(* have added.                                                              *)
CounterNonNegative ==
    "overlap" \notin trouble => \A s \in Subs : counter[s] >= 0

(* When links fall idle, everything a subscription that stays registered    *)
(* carried is booked in the end, although any push or post may fail.        *)
EventuallyBilled ==
    trouble \subseteq {"lost_answer"}
        => \A s \in Subs : <>[](s \in registered) => <>[](billed[s] >= total[s])
=============================================================================
