------------------------------- MODULE Reverb -------------------------------
(***************************************************************************)
(* The websocket side of an Instance.  One reverbListener per enabled      *)
(* entry of the configuration dials, runs a session and dials again.  A    *)
(* session waits for the server's greeting, subscribes, makes itself       *)
(* currentPusher, and then selects among cancellation, its reader          *)
(* goroutine's error, a ping and the messages the reader has queued.       *)
(*                                                                         *)
(* On the other side PushEvent queues what the controllers report and      *)
(* waits; drainReverbOutbound answers one after the other with the pusher  *)
(* of the moment.  Reading currentPusher and calling it are two steps: the *)
(* session may end in between.  The server and the network are the         *)
(* environment; how long a listener waits before it dials again is left    *)
(* out.                                                                    *)
(***************************************************************************)
EXTENDS Naturals, Sequences, FiniteSets

CONSTANTS Listeners,    \* entries of ReverbConfig
          Ids,          \* names for sessions, used again when nobody holds one
          NoSession,    \* nil
          Callers,      \* goroutines that call PushEvent
          OutCap,       \* capacity of reverbOutbound
          MsgCap        \* capacity of msgs

Nobody == "nobody"
Away == "away"

ASSUME ReverbAssumption ==
    /\ NoSession \notin Ids /\ Away \notin Ids \cup {NoSession} /\ Nobody \notin Callers
    /\ OutCap \in Nat \ {0} /\ MsgCap \in Nat

VARIABLES enabled,    \* the listeners whose entry is enabled
          cancelled,  \* Instance.Close has cancelled their contexts
          pc,         \* per listener: dial, await, serve, end, close or done
          sess,       \* per listener: its session
          pusher,     \* currentPusher: a session, or nil
          open,       \* sessions that have not been closed
          up,         \* sessions whose connection works
          reader,     \* per session: its reader is none, reading or blocked
          queue,      \* per session: messages in msgs
          caller,     \* per caller: asking, waiting, or with its last
                      \* result, ok or error
          out,        \* reverbOutbound
          serving,    \* the caller whose event drainReverbOutbound has taken
          using       \* the pusher the drain has read, or away

sockets == <<open, up, reader, queue>>
listening == <<pc, sess, pusher>>
pushing == <<caller, out, serving, using>>
vars == <<enabled, cancelled, listening, sockets, pushing>>

Init ==
    /\ enabled \in (SUBSET Listeners) \ {{}}
    /\ cancelled = FALSE
    /\ pc = [l \in Listeners |-> IF l \in enabled THEN "dial" ELSE "done"]
    /\ sess = [l \in Listeners |-> NoSession]
    /\ pusher = NoSession
    /\ open = {} /\ up = {}
    /\ reader = [i \in Ids |-> "none"]
    /\ queue = [i \in Ids |-> 0]
    /\ caller = [c \in Callers |-> "ok"]
    /\ out = <<>>
    /\ serving = Nobody
    /\ using = Away

Goto(l, where) == pc' = [pc EXCEPT ![l] = where]

\* Nobody refers to the session any more.
Free(i) ==
    /\ reader[i] = "none"
    /\ pusher # i
    /\ \A l \in Listeners : sess[l] # i
    /\ using # i

-----------------------------------------------------------------------------
(* reverbListener and reverbSession.                                       *)

\* Between two sessions, or after a dial that failed, the listener backs off;
\* then DialContext succeeds.
Dial(l) ==
    /\ pc[l] = "dial"
    /\ ~cancelled
    /\ Goto(l, "await")
    /\ UNCHANGED <<enabled, cancelled, sess, pusher, sockets, pushing>>

\* Faulty variant: a listener does not look at its context between sessions.
LeaveNever(l) ==
    /\ pc[l] = "dial"
    /\ cancelled
    /\ Goto(l, "await")
    /\ UNCHANGED <<enabled, cancelled, sess, pusher, sockets, pushing>>

\* ctx.Done() at the head of the loop, or during the backoff.
Leave(l) ==
    /\ pc[l] = "dial"
    /\ cancelled
    /\ Goto(l, "done")
    /\ UNCHANGED <<enabled, cancelled, sess, pusher, sockets, pushing>>

\* awaitConnected gets the greeting and the subscription is sent; the session
\* becomes currentPusher, and its reader starts.
Install(l) ==
    /\ pc[l] = "await"
    /\ \E i \in Ids : Free(i)
    /\ LET i == CHOOSE i \in Ids : Free(i)
       IN  /\ sess' = [sess EXCEPT ![l] = i]
           /\ pusher' = i
           /\ open' = open \cup {i} /\ up' = up \cup {i}
           /\ reader' = [reader EXCEPT ![i] = "reading"]
    /\ Goto(l, "serve")
    /\ UNCHANGED <<enabled, cancelled, queue, pushing>>

\* No greeting within ten seconds, or the subscription cannot be sent.
NotConnected(l) ==
    /\ pc[l] = "await"
    /\ Goto(l, "dial")
    /\ UNCHANGED <<enabled, cancelled, sess, pusher, sockets, pushing>>

\* handleReverbMessage: triggers of controllers and of the poller, none blocks.
Handle(l) ==
    /\ pc[l] = "serve"
    /\ queue[sess[l]] > 0
    /\ queue' = [queue EXCEPT ![sess[l]] = @ - 1]
    /\ UNCHANGED <<enabled, cancelled, listening, open, up, reader, pushing>>

\* Faulty variant: a ping that fails gives up the pusher and not the session.
PingForgets(l) ==
    /\ pc[l] = "serve"
    /\ sess[l] \notin up
    /\ pusher' = NoSession
    /\ UNCHANGED <<enabled, cancelled, pc, sess, sockets, pushing>>

\* A ping that cannot be written ends the session.
PingFails(l) ==
    /\ pc[l] = "serve"
    /\ sess[l] \notin up
    /\ Goto(l, "end")
    /\ UNCHANGED <<enabled, cancelled, sess, pusher, sockets, pushing>>

\* So do a value in readErr and the context, after a close message.
Stop(l) ==
    /\ pc[l] = "serve"
    /\ cancelled \/ reader[sess[l]] = "none"
    /\ Goto(l, "end")
    /\ UNCHANGED <<enabled, cancelled, sess, pusher, sockets, pushing>>

\* Faulty variant: the session is closed before it is withdrawn.
WithdrawLate(l) ==
    /\ pc[l] = "end"
    /\ open' = open \ {sess[l]}
    /\ Goto(l, "close")
    /\ UNCHANGED <<enabled, cancelled, sess, pusher, up, reader, queue, pushing>>

\* The deferred function: currentPusher is nil, whoever's it was ...
Withdraw(l) ==
    /\ pc[l] = "end"
    /\ pusher' = NoSession
    /\ Goto(l, "close")
    /\ UNCHANGED <<enabled, cancelled, sess, sockets, pushing>>

\* Faulty variant: the connection is not closed.
CloseHalf(l) ==
    /\ pc[l] = "close"
    /\ open' = open \ {sess[l]}
    /\ queue' = [queue EXCEPT ![sess[l]] = IF reader[sess[l]] = "none" THEN 0 ELSE @]
    /\ sess' = [sess EXCEPT ![l] = NoSession]
    /\ Goto(l, "dial")
    /\ UNCHANGED <<enabled, cancelled, pusher, up, reader, pushing>>

\* ... the session is closed, and by the listener its connection.  Its channels
\* go with the last goroutine that uses them.
Close(l) ==
    /\ pc[l] = "close"
    /\ open' = open \ {sess[l]}
    /\ up' = up \ {sess[l]}
    /\ queue' = [queue EXCEPT ![sess[l]] = IF reader[sess[l]] = "none" THEN 0 ELSE @]
    /\ sess' = [sess EXCEPT ![l] = NoSession]
    /\ Goto(l, "dial")
    /\ UNCHANGED <<enabled, cancelled, pusher, reader, pushing>>

-----------------------------------------------------------------------------
(* The reader goroutine of a session.                                      *)

\* Faulty variant: msgs takes any number.
ReceiveAll(i) ==
    /\ reader[i] = "reading" /\ i \in up
    /\ queue' = [queue EXCEPT ![i] = @ + 1]
    /\ UNCHANGED <<enabled, cancelled, listening, open, up, reader, pushing>>

\* A message is read; it is queued, or the reader waits for room.
Receive(i) ==
    /\ reader[i] = "reading" /\ i \in up
    /\ IF queue[i] < MsgCap
       THEN /\ queue' = [queue EXCEPT ![i] = @ + 1]
            /\ UNCHANGED reader
       ELSE /\ reader' = [reader EXCEPT ![i] = "blocked"]
            /\ UNCHANGED queue
    /\ UNCHANGED <<enabled, cancelled, listening, open, up, pushing>>

Unblock(i) ==
    /\ reader[i] = "blocked"
    /\ queue[i] < MsgCap
    /\ queue' = [queue EXCEPT ![i] = @ + 1]
    /\ reader' = [reader EXCEPT ![i] = "reading"]
    /\ UNCHANGED <<enabled, cancelled, listening, open, up, pushing>>

\* ReadMessage fails: the goroutine leaves the error in readErr and ends.
ReadFails(i) ==
    /\ reader[i] = "reading" /\ i \notin up
    /\ reader' = [reader EXCEPT ![i] = "none"]
    /\ queue' = [queue EXCEPT ![i] = IF i \in open THEN @ ELSE 0]
    /\ UNCHANGED <<enabled, cancelled, listening, open, up, pushing>>

-----------------------------------------------------------------------------
(* PushEvent and drainReverbOutbound.                                      *)

PushEvent(c) ==
    /\ caller[c] \in {"ok", "error"}
    /\ caller' = [caller EXCEPT ![c] = "asking"]
    /\ UNCHANGED <<enabled, cancelled, listening, sockets, out, serving, using>>

Enqueue(c) ==
    /\ caller[c] = "asking"
    /\ Len(out) < OutCap
    /\ out' = Append(out, c)
    /\ caller' = [caller EXCEPT ![c] = "waiting"]
    /\ UNCHANGED <<enabled, cancelled, listening, sockets, serving, using>>

\* The drain takes the next event and reads currentPusher under reverbMu.
Take ==
    /\ using = Away
    /\ out # <<>>
    /\ serving' = Head(out)
    /\ out' = Tail(out)
    /\ using' = pusher
    /\ UNCHANGED <<enabled, cancelled, listening, sockets, caller>>

\* send succeeds in a session that is not closed, unless the connection
\* fails: a broken one may fail at once or later.
Write(i) == i \in open

\* Faulty variant: an event that finds no pusher is queued again.
AnswerLater ==
    /\ using # Away
    /\ \/ using = NoSession /\ out' = Append(out, serving) /\ UNCHANGED caller
       \/ Write(using) /\ caller' = [caller EXCEPT ![serving] = "ok"] /\ UNCHANGED out
       \/ /\ using # NoSession /\ using \notin up \cap open
          /\ caller' = [caller EXCEPT ![serving] = "error"] /\ UNCHANGED out
    /\ serving' = Nobody
    /\ using' = Away
    /\ UNCHANGED <<enabled, cancelled, listening, sockets>>

Answer ==
    /\ using # Away
    /\ \/ Write(using) /\ caller' = [caller EXCEPT ![serving] = "ok"]
       \/ /\ using \notin up \cap open
          /\ caller' = [caller EXCEPT ![serving] = "error"]
    /\ serving' = Nobody
    /\ using' = Away
    /\ UNCHANGED <<enabled, cancelled, listening, sockets, out>>

-----------------------------------------------------------------------------
\* The connection breaks.
Break(i) ==
    /\ i \in up
    /\ up' = up \ {i}
    /\ UNCHANGED <<enabled, cancelled, listening, open, reader, queue, pushing>>

\* Instance.Close.
Cancel ==
    /\ ~cancelled
    /\ cancelled' = TRUE
    /\ UNCHANGED <<enabled, listening, sockets, pushing>>

Listen(l) ==
    \/ Dial(l) \/ Leave(l) \/ Install(l) \/ NotConnected(l)
    \/ PingFails(l) \/ Stop(l) \/ Withdraw(l) \/ Close(l)

Read(i) == Receive(i) \/ Unblock(i) \/ ReadFails(i)

Push == Take \/ Answer

Next ==
    \/ \E l \in Listeners : Listen(l) \/ Handle(l)
    \/ \E i \in Ids : Read(i) \/ Break(i)
    \/ \E c \in Callers : PushEvent(c) \/ Enqueue(c)
    \/ Push  \/ Cancel

\* Deadlines end what blocks, and select chooses among what is ready.  Nobody
\* has to dial, to greet or to send.
Fairness ==
    /\ \A l \in Listeners : WF_vars(Leave(l) \/ NotConnected(l) \/ Stop(l) \/ Withdraw(l) \/ Close(l))
    /\ \A i \in Ids : WF_vars(Unblock(i) \/ ReadFails(i))
    /\ \A c \in Callers : SF_vars(Enqueue(c))
    /\ WF_vars(Push)

Spec == Init /\ [][Next]_vars /\ Fairness

-----------------------------------------------------------------------------
(* The state only ever holds values of the code's types; a listener that    *)
(* serves has a session, msgs and reverbOutbound keep within their          *)
(* capacities, and the drain has a caller to answer while it has a pusher.  *)
TypeOK ==
    /\ enabled \subseteq Listeners /\ cancelled \in BOOLEAN
    /\ pc \in [Listeners -> {"dial", "await", "serve", "end", "close", "done"}]
    /\ sess \in [Listeners -> Ids \cup {NoSession}]
    /\ \A l \in Listeners : pc[l] \in {"serve", "end", "close"} <=> sess[l] # NoSession
    /\ pusher \in Ids \cup {NoSession}
    /\ open \subseteq Ids /\ up \subseteq Ids
    /\ reader \in [Ids -> {"none", "reading", "blocked"}]
    /\ queue \in [Ids -> 0..MsgCap]
    /\ caller \in [Callers -> {"asking", "waiting", "ok", "error"}]
    /\ out \in Seq(Callers) /\ Len(out) <= OutCap
    /\ using \in Ids \cup {NoSession, Away}
    /\ serving \in Callers \cup {Nobody}
    /\ using # Away <=> serving # Nobody

(* currentPusher never is a session that has been closed, however the ends  *)
(* of some sessions and the beginnings of others interleave.                *)
PusherOpen == pusher # NoSession => pusher \in open

(* With one listener events go over the websocket whenever its session      *)
(* serves: the end of an earlier session cannot withdraw the pusher of a    *)
(* later one.  (With two listeners it does: Withdraw.)                      *)
SoleListenerPushes ==
    \A l \in Listeners : enabled = {l} /\ pc[l] = "serve" => pusher = sess[l]

(* Every PushEvent returns, whatever becomes of the sessions: its callers   *)
(* are tasks that would otherwise stand still.                              *)
Answered == \A c \in Callers : caller[c] \in {"asking", "waiting"} ~> caller[c] \in {"ok", "error"}

(* Close ends what it started: every listener ends, wherever it was, and    *)
(* with its session the reader goroutine, unless that one is blocked on a   *)
(* full msgs, which nobody reads any more.                                  *)
ListenersEnd ==
    cancelled ~> /\ \A l \in Listeners : pc[l] = "done"
                 /\ \A i \in Ids : reader[i] # "reading"
=============================================================================
