------------------------------ MODULE Instance ------------------------------
(***************************************************************************)
(* One XMRay process: main starts the Instance, waits for a signal or for  *)
(* a change of the configuration file, closes the Instance and exits or    *)
(* executes itself again.  Meanwhile the server poller and the goroutine   *)
(* behind serverPollTrigger each run syncServerNodes: the list of nodes is *)
(* fetched first, statusLock taken next, controllers of nodes that are no  *)
(* longer listed are closed, those of new ones started, and the poller is  *)
(* restarted once the lock is released.                                    *)
(*                                                                         *)
(* A controller is here what its Start and Close leave behind: an inbound  *)
(* under the node's tag, and running tasks.  What it does in between is    *)
(* module NodeSync, what drives the poller module PeriodicTask.  The panel *)
(* and whoever edits the file are the environment.                         *)
(***************************************************************************)
EXTENDS Naturals, FiniteSets

CONSTANTS Nodes,       \* nodes the panel may list for this server
          Pollers,     \* executions of the poller: a restart may begin one
                       \* beside another
          Hook,        \* the goroutine behind serverPollTrigger
          Troubles,    \* what may go wrong together, one set per behaviour
          MaxChanges,  \* bound on changes of the panel's list
          MaxEdits     \* bound on edits of the configuration file

Syncers == Pollers \cup {Hook}

None == "nobody"
Main == "main"

ASSUME InstanceAssumption ==
    /\ Hook \notin Pollers
    /\ None \notin Syncers /\ Main \notin Syncers
    /\ Troubles \subseteq SUBSET {"late", "panic", "race"}
    /\ MaxChanges \in Nat /\ MaxEdits \in Nat

VARIABLES listed,    \* the nodes the panel lists
          changes,   \* how often that has changed
          edits,     \* how often the configuration file has changed
          trouble,   \* chosen once: a controller's Start fails after AddTag,
                     \* or panics; a webhook reads controllerMap unlocked
          proc,      \* main: boot, start, up, stop, clear, closed, ...
          reload,    \* main was woken by restartChan and will execute itself
          restart,   \* restartChan holds a value
          lock,      \* statusLock: nobody, main or a syncer
          mapped,    \* controllerMap
          nilMap,    \* Close has set controllerMap to nil
          services,  \* Service: nodes with a controller that did not end its
                     \* Start with nothing to show for it
          running,   \* nodes with a controller whose tasks run
          inbound,   \* nodes with an inbound in the core
          poller,    \* the poller's PeriodicTask: none, on or off; with it
                     \* the goroutine behind serverPollTrigger is started
          trigger,   \* serverPollTrigger holds a value
          todo,      \* main: controllers to start
          sync       \* per syncer: its place in syncServerNodes, and locals

panel == <<listed, changes>>
config == <<edits, restart>>
books == <<mapped, nilMap, services>>
world == <<running, inbound>>
tasks == <<poller, trigger>>
main == <<proc, reload, todo>>
vars == <<panel, config, trouble, lock, books, world, tasks, main, sync>>

Away == [pc |-> "idle", list |-> {}]

\* The process starts again, or ends, and has lost its memory.
Becomes(what) ==
    /\ proc' = what /\ reload' = FALSE
    /\ restart' = FALSE
    /\ lock' = None
    /\ mapped' = {} /\ nilMap' = FALSE /\ services' = {}
    /\ running' = {} /\ inbound' = {}
    /\ poller' = "none" /\ trigger' = FALSE
    /\ todo' = {}
    /\ sync' = [s \in Syncers |-> Away]

Init ==
    /\ listed \in SUBSET Nodes /\ changes = 0
    /\ trouble \in Troubles
    /\ proc = "boot" /\ reload = FALSE
    /\ edits = 0
    /\ restart = FALSE
    /\ lock = None
    /\ mapped = {} /\ nilMap = FALSE /\ services = {}
    /\ running = {} /\ inbound = {}
    /\ poller = "none" /\ trigger = FALSE
    /\ todo = {}
    /\ sync = [s \in Syncers |-> Away]

Alive == proc \notin {"exited", "crashed"}

-----------------------------------------------------------------------------
(* What a controller's Start does.                                         *)

\* It succeeds: inbound, users, limiter and tasks are there.
StartsWell(n) ==
    /\ n \notin inbound
    /\ inbound' = inbound \cup {n}
    /\ running' = running \cup {n}

\* GetNodeInfo or GetSubscriptionList fails, or, in trouble,
\* AddNewSubscription does, with the inbound in place.
StartsIll(n) ==
    /\ running' = running
    /\ \/ inbound' = inbound
       \/ /\ "late" \in trouble
          /\ n \notin inbound
          /\ inbound' = inbound \cup {n}

\* log.Panic: the tag is taken, or, in trouble, the inbound cannot listen or
\* the relay cannot be built.
StartPanics(n) == n \in inbound \/ "panic" \in trouble

-----------------------------------------------------------------------------
(* Main: run, runManager, Instance.Start and Instance.Close.               *)

\* Start takes statusLock, loads and starts the core, starts the listeners and
\* asks for the nodes.  An error, or an old panel, ends the process.
Boot ==
    /\ proc = "boot"
    /\ \/ /\ proc' = "start" /\ lock' = Main /\ todo' = listed
          /\ UNCHANGED <<restart, books, world, tasks, reload, sync>>
       \/ Becomes("exited")
    /\ UNCHANGED <<panel, edits, trouble>>

\* One of the services is started; a failure is logged.
StartService(n) ==
    /\ proc = "start"
    /\ n \in todo
    /\ todo' = todo \ {n}
    /\ \/ /\ StartsWell(n)
          /\ services' = services \cup {n}
          /\ mapped' = mapped \cup {n}
       \/ /\ StartsIll(n)
          /\ services' = services \cup (inbound' \ inbound)
          /\ UNCHANGED mapped
    /\ UNCHANGED <<panel, config, trouble, lock, nilMap, tasks, proc, reload, sync>>

\* A panic is recovered by startInstanceSafely and ends the process.
ServicePanics(n) ==
    /\ proc = "start"
    /\ n \in todo
    /\ StartPanics(n)
    /\ Becomes("exited")
    /\ UNCHANGED <<panel, edits, trouble>>

\* startServerNodePoller, startServerStatusTask, and Start returns.
Started ==
    /\ proc = "start"
    /\ todo = {}
    /\ proc' = "up"
    /\ poller' = "on"
    /\ lock' = None
    /\ UNCHANGED <<panel, config, trouble, books, world, trigger, reload, todo, sync>>

\* Main leaves its select: a signal, or restartChan.
Woken ==
    /\ proc = "up"
    /\ proc' = "stop"
    /\ \/ reload' = FALSE /\ UNCHANGED restart
       \/ restart /\ restart' = FALSE /\ reload' = TRUE
    /\ UNCHANGED <<panel, edits, trouble, lock, books, world,
                   tasks, todo, sync>>

\* Faulty variant: Close does not take statusLock.
CloseBeginUnlocked ==
    /\ proc = "stop"
    /\ proc' = "clear"
    /\ UNCHANGED lock
    /\ poller' = "off"
    /\ UNCHANGED <<panel, config, trouble, books, world, trigger, reload, todo, sync>>

\* Close: with the lock, the contexts are cancelled and the tasks closed ...
CloseBegin ==
    /\ proc = "stop"
    /\ lock = None
    /\ lock' = Main
    /\ proc' = "clear"
    /\ poller' = "off"
    /\ UNCHANGED <<panel, config, trouble, books, world, trigger, reload, todo, sync>>

\* ... every service is closed and forgotten, and the core is closed.
CloseServices ==
    /\ proc = "clear"
    /\ running' = running \ services /\ inbound' = inbound \ services
    /\ services' = {} /\ mapped' = {} /\ nilMap' = TRUE
    /\ lock' = None
    /\ proc' = "closed"
    /\ UNCHANGED <<panel, config, trouble, tasks, reload, todo, sync>>

\* runManager returns: the process executes itself again, or ends.
Leave ==
    /\ proc = "closed"
    /\ Becomes(IF reload THEN "boot" ELSE "exited")
    /\ UNCHANGED <<panel, edits, trouble>>

-----------------------------------------------------------------------------
(* syncServerNodes and its two callers.                                    *)

At(s, where) == sync[s].pc = where

Goto(s, where) == sync' = [sync EXCEPT ![s].pc = where]

\* The poller's timer fires, or the goroutine takes the trigger, which it may
\* still do when its context is cancelled.
Begin(s) ==
    /\ Alive
    /\ At(s, "idle")
    /\ \/ s \in Pollers /\ poller = "on" /\ UNCHANGED trigger
       \/ s = Hook /\ poller # "none" /\ trigger /\ trigger' = FALSE
    /\ Goto(s, "fetch")
    /\ UNCHANGED <<panel, config, trouble, lock, books, world, poller, main>>

\* GetServerNodes, before the lock; on error only the interval is returned.
Fetch(s) ==
    /\ Alive
    /\ At(s, "fetch")
    /\ sync' = [sync EXCEPT ![s] = [pc |-> "lock", list |-> listed]]
    /\ UNCHANGED <<panel, config, trouble, lock, books, world, tasks, main>>

FetchFails(s) ==
    /\ Alive
    /\ At(s, "fetch")
    /\ Goto(s, "restart")
    /\ UNCHANGED <<panel, config, trouble, lock, books, world, tasks, main>>

\* Faulty variant: a controller is forgotten and not closed.
ApplyForgets(s) ==
    /\ Alive
    /\ At(s, "lock") /\ lock = None
    /\ lock' = s
    /\ mapped' = mapped \cap sync[s].list
    /\ services' = services
    /\ sync' = [sync EXCEPT ![s] = [pc |-> "start", list |-> sync[s].list \ mapped]]
    /\ UNCHANGED <<panel, config, trouble, nilMap, world, tasks, main>>

\* Faulty variant: a node that has a controller is not skipped.
ApplyStartsAll(s) ==
    /\ Alive
    /\ At(s, "lock") /\ lock = None
    /\ lock' = s
    /\ LET gone == mapped \ sync[s].list
       IN  /\ running' = running \ gone
           /\ inbound' = inbound \ gone
           /\ mapped' = mapped \ gone
           /\ services' = services \ gone
    /\ sync' = [sync EXCEPT ![s] = [pc |-> "start", list |-> sync[s].list]]
    /\ UNCHANGED <<panel, config, trouble, nilMap, tasks, main>>

\* Under the lock: controllers that are not listed are closed and forgotten.
Apply(s) ==
    /\ Alive
    /\ At(s, "lock") /\ lock = None
    /\ lock' = s
    /\ LET gone == mapped \ sync[s].list
       IN  /\ running' = running \ gone
           /\ inbound' = inbound \ gone
           /\ mapped' = mapped \ gone
           /\ services' = services \ gone
    /\ sync' = [sync EXCEPT ![s] = [pc |-> "start", list |-> sync[s].list \ mapped]]
    /\ UNCHANGED <<panel, config, trouble, nilMap, tasks, main>>

\* Faulty variant: the map of a closed Instance is made anew.
StartNodeRemakesMap(s, n) ==
    /\ Alive
    /\ At(s, "start")
    /\ n \in sync[s].list
    /\ sync' = [sync EXCEPT ![s].list = @ \ {n}]
    /\ \/ /\ StartsWell(n)
          /\ services' = services \cup {n}
          /\ mapped' = mapped \cup {n}
       \/ StartsIll(n) /\ UNCHANGED <<mapped, services>>
    /\ UNCHANGED <<panel, config, trouble, lock, nilMap, tasks, main>>

\* One node of the list without a controller.  One that fails is dropped and
\* tried again by the next sync.
StartNode(s, n) ==
    /\ Alive
    /\ At(s, "start")
    /\ n \in sync[s].list
    /\ sync' = [sync EXCEPT ![s].list = @ \ {n}]
    /\ \/ /\ ~nilMap
          /\ StartsWell(n)
          /\ services' = services \cup {n}
          /\ mapped' = mapped \cup {n}
       \/ StartsIll(n) /\ UNCHANGED <<mapped, services>>
    /\ UNCHANGED <<panel, config, trouble, lock, nilMap, tasks, main>>

\* Nothing recovers a panic of this goroutine; the closed server, the missing
\* dispatcher or the nil map of a closed Instance may cause one as well.
NodePanics(s, n) ==
    /\ Alive
    /\ At(s, "start")
    /\ n \in sync[s].list
    /\ StartPanics(n) \/ nilMap
    /\ Becomes("crashed")
    /\ UNCHANGED <<panel, edits, trouble>>

\* Faulty variant: a return that forgets the lock.
UnlockForgets(s) ==
    /\ Alive
    /\ At(s, "start")
    /\ sync[s].list = {}
    /\ UNCHANGED lock
    /\ sync' = [sync EXCEPT ![s] = [pc |-> "restart", list |-> {}]]
    /\ UNCHANGED <<panel, config, trouble, books, world, tasks, main>>

\* syncServerNodes returns and the deferred unlock runs.
Unlock(s) ==
    /\ Alive
    /\ At(s, "start")
    /\ sync[s].list = {}
    /\ lock' = None
    /\ sync' = [sync EXCEPT ![s] = [pc |-> "restart", list |-> {}]]
    /\ UNCHANGED <<panel, config, trouble, books, world, tasks, main>>

\* Faulty variant: the restart closes the poller only.
RestartCloses(s) ==
    /\ Alive
    /\ At(s, "restart")
    /\ poller' = "off" \/ (s # Hook /\ UNCHANGED poller)
    /\ sync' = [sync EXCEPT ![s] = Away]
    /\ UNCHANGED <<panel, config, trouble, lock, books, world, trigger, main>>

\* RestartWithInterval: always after a webhook; after a poll only when the
\* interval is another.  It starts a task that was closed meanwhile.
Restart(s) ==
    /\ Alive
    /\ At(s, "restart")
    /\ poller' = "on" \/ (s # Hook /\ UNCHANGED poller)
    /\ sync' = [sync EXCEPT ![s] = Away]
    /\ UNCHANGED <<panel, config, trouble, lock, books, world, trigger, main>>

-----------------------------------------------------------------------------
(* The environment.                                                        *)

PanelChange ==
    /\ Alive
    /\ changes < MaxChanges
    /\ changes' = changes + 1
    /\ listed' \in (SUBSET Nodes) \ {listed}
    /\ UNCHANGED <<config, trouble, lock, books, world, tasks, main, sync>>

\* A server_updated event of a listener: at most one is queued.
ServerUpdated ==
    /\ Alive /\ proc # "boot"
    /\ ~trigger
    /\ trigger' = TRUE
    /\ UNCHANGED <<panel, config, trouble, lock, books, world, poller, main, sync>>

\* Another event reads controllerMap while it is being written: the runtime
\* ends the process.
MapRace ==
    /\ Alive
    /\ "race" \in trouble
    /\ lock # None
    /\ Becomes("crashed")
    /\ UNCHANGED <<panel, edits, trouble>>

\* The file changes; an event within three seconds of the last one, or of the
\* start of the process, is dropped.
Edit ==
    /\ Alive
    /\ edits < MaxEdits
    /\ edits' = edits + 1
    /\ restart' \in {TRUE, restart}
    /\ UNCHANGED <<panel, trouble, lock, books, world, tasks, main, sync>>

-----------------------------------------------------------------------------
RunMain ==
    \/ Boot \/ Started \/ Woken \/ CloseBegin \/ CloseServices \/ Leave
    \/ \E n \in Nodes : StartService(n) \/ ServicePanics(n)

Sync(s) ==
    \/ Begin(s) \/ Fetch(s) \/ FetchFails(s) \/ Apply(s) \/ Unlock(s) \/ Restart(s)
    \/ \E n \in Nodes : StartNode(s, n) \/ NodePanics(s, n)

Next == \/ RunMain \/ (\E s \in Syncers : Sync(s))
        \/ PanelChange \/ ServerUpdated \/ MapRace \/ Edit

\* Main goes on once something wakes it, and nobody has to send a signal; a
\* sync.Mutex is given to every goroutine that waits for it; and a panel that
\* is asked for ever answers now and then.
Fairness ==
    /\ WF_vars(RunMain /\ (proc = "up" => restart))
    /\ SF_vars(CloseBegin)
    /\ \A s \in Syncers : WF_vars(Sync(s))
    /\ \A s \in Pollers :
           /\ SF_vars(Fetch(s)) /\ SF_vars(Apply(s))
           /\ SF_vars(\E n \in Nodes : StartNode(s, n) /\ n \in mapped')

Spec == Init /\ [][Next]_vars /\ Fairness

-----------------------------------------------------------------------------
(* The state only ever holds values of the code's types; statusLock is held *)
(* by one goroutine, and by it exactly while it starts or closes            *)
(* controllers.                                                            *)
TypeOK ==
    /\ listed \subseteq Nodes /\ changes \in Nat
    /\ edits \in Nat
    /\ trouble \in Troubles
    /\ proc \in {"boot", "start", "up", "stop", "clear", "closed",
                 "exited", "crashed"}
    /\ reload \in BOOLEAN /\ restart \in BOOLEAN
    /\ lock \in {None, Main} \cup Syncers
    /\ mapped \subseteq Nodes /\ nilMap \in BOOLEAN
    /\ services \subseteq Nodes
    /\ running \subseteq Nodes /\ inbound \subseteq Nodes
    /\ poller \in {"none", "on", "off"}
    /\ trigger \in BOOLEAN
    /\ todo \subseteq Nodes
    /\ sync \in [Syncers -> [pc : {"idle", "fetch", "lock", "start", "restart"},
                             list : SUBSET Nodes]]
    /\ \A s \in Syncers : At(s, "start") <=> lock = s
    /\ lock = Main <=> proc \in {"start", "clear"}

(* Whichever lists the syncs fetched and in whatever order they apply them, *)
(* the controllers that run are those that webhooks reach and that Close    *)
(* will close; none runs unknown, and none is known and does not run.       *)
Managed ==
    /\ running = mapped
    /\ mapped \subseteq services
    /\ "late" \notin trouble => services = mapped /\ inbound = mapped

(* Once the Instance is closed nothing of it serves users, however late a   *)
(* sync comes, until the process is gone; only an inbound whose controller  *)
(* was dropped after it had been added is left.                             *)
ClosedIsQuiet ==
    nilMap => /\ running = {}
              /\ "late" \notin trouble => inbound = {}

(* Unless a controller's Start fails with its inbound in place or webhooks  *)
(* race with a sync, no sync ends the process before the Instance is        *)
(* closed: syncs with lists of different age never start a node twice.      *)
CrashOnlyClosed ==
    [][trouble = {} /\ proc' = "crashed" => nilMap]_vars

(* If the process stays up and its controllers can start, the nodes it      *)
(* serves become those the panel lists, and stay so, although syncs may     *)
(* apply an older list after a newer one.                                   *)
ServesListed ==
    trouble = {} /\ <>[](proc = "up") => <>[](running = listed)

(* A reload that was requested is carried out: no sync holds main up for    *)
(* ever.                                                                    *)
Reloads == restart ~> (~restart \/ ~Alive)
=============================================================================
