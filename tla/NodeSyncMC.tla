----------------------------- MODULE NodeSyncMC -----------------------------
(* Small instances of NodeSync for TLC.                                    *)
EXTENDS NodeSync, TLC

Plain == [port |-> 1, form |-> 1, relay |-> FALSE, speed |-> 1, interval |-> 1]

\* The administrator may move the port, turn the node into a relay, or change
\* what is applied in place.
Configurations ==
    {Plain,
     [Plain EXCEPT !.port = 2],
     [Plain EXCEPT !.form = 2, !.interval = 2],
     [Plain EXCEPT !.relay = TRUE],
     [Plain EXCEPT !.speed = 2, !.interval = 2]}

\* A relaying node whose speed or port changes, or that stops to relay.
Relaying ==
    {Plain, [Plain EXCEPT !.relay = TRUE],
     [Plain EXCEPT !.relay = TRUE, !.speed = 2],
     [Plain EXCEPT !.relay = TRUE, !.port = 2]}

AllConfigurations == Configurations \cup Relaying

User(id, email, plan, uuid) ==
    id :> [email |-> email, plan |-> plan, uuid |-> uuid]

\* One subscription stays, changes its plan or is joined or replaced by another.
StableEmails ==
    {User(1, 1, 1, 1), User(1, 1, 2, 1), User(1, 1, 1, 1) @@ User(2, 2, 1, 1),
     User(2, 2, 1, 1)}

\* Its UUID or its email changes, by itself or with another subscription; the
\* email it leaves is free for others.
Everything ==
    StableEmails \cup
    {User(1, 1, 1, 2), User(1, 2, 1, 1), User(1, 1, 2, 1) @@ User(2, 2, 1, 1), User(1, 3, 2, 1) @@ User(2, 2, 2, 1),
     User(1, 1, 2, 2) @@ User(2, 3, 1, 1)}

\* One execution at a time, and two whose every call may fail.
AloneAndFailing ==
    {[syncers |-> {"s1"}, fail |-> FALSE, infos |-> Configurations,
      lists |-> StableEmails, changes |-> 3],
     [syncers |-> {"s1"}, fail |-> FALSE,
      infos |-> {Plain, [Plain EXCEPT !.port = 2],
                [Plain EXCEPT !.form = 2, !.interval = 2]},
      lists |-> Everything, changes |-> 3],
     [syncers |-> {"s1"}, fail |-> FALSE,
      infos |-> Relaying,
      lists |-> {User(1, 1, 1, 1), User(1, 1, 2, 1)}, changes |-> 3],
     [syncers |-> {"s1", "s2"}, fail |-> TRUE,
      infos |-> {Plain, [Plain EXCEPT !.port = 2], [Plain EXCEPT !.relay = TRUE]},
      lists |-> {User(1, 1, 1, 1), User(1, 1, 2, 1) @@ User(2, 2, 1, 1)},
      changes |-> 2]}

\* The node task and the webhook loop execute apiMonitor together.
Together ==
    {[syncers |-> {"s1", "s2"}, fail |-> FALSE, infos |-> {Plain},
      lists |-> StableEmails, changes |-> 2]}
=============================================================================
