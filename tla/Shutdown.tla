------------------------------ MODULE Shutdown ------------------------------
(***************************************************************************)
(* system::shutdown() and wait_for_shutdown() against everything that may  *)
(* be under way: tell() and stop_actor() from other threads and from       *)
(* handlers, turns of the workers, stops that nobody serviced.             *)
(*                                                                         *)
(* What module Scheduler shows is taken for granted here: an actor that    *)
(* has a message or a requested stop gets a turn of its worker, and only   *)
(* of that one.  Pooled actors only; a turn may end after any message      *)
(* (max_messages_per_turn), and deadlines may pass at any time.            *)
(***************************************************************************)
EXTENDS Integers, Sequences, FiniteSets, SequencesExt

CONSTANTS
    Actors,
    Workers,
    Pin,            \* actor -> the worker it is assigned to
    Clients,        \* threads of the application
    Main,           \* the thread that calls shutdown() and wait_for_shutdown()
    NoThread,
    MaxSend,        \* bound: messages each client sends
    MaxStops,       \* bound: stop_actor() calls that claim an actor
    HandlerWaits    \* TRUE: a handler may call stop_actor() with wait_for_stop

ASSUME ActorAssumption  == Actors # {}
ASSUME PinAssumption    == Pin \in [Actors -> Workers]
ASSUME BoundAssumption  == MaxSend \in Nat /\ MaxStops \in Nat
ASSUME FlagAssumption   == HandlerWaits \in BOOLEAN
ASSUME ThreadAssumption == /\ Clients \cap Workers = {}
                           /\ Main \notin Clients \cup Workers
                           /\ NoThread \notin Clients \cup Workers \cup {Main}

Threads == Clients \cup Workers \cup {Main}

Message        == [from : Clients, seq : 1..MaxSend]
system_shutdown == [from |-> "system", seq |-> 0]

VARIABLES
    m_state,    \* actor -> "running", "stopping" or "stopped"
    m_phase,    \* actor -> m_stop_phase
    m_executor, \* actor -> m_stop_executor
    m_queue,    \* actor -> its mailbox, oldest first
    m_closed,   \* actors whose mailbox is closed
    m_listed,   \* actors in m_actors_per_thread
    m_shutdown_requested,
    m_workers_active,
    m_log,      \* actors named in m_shutdown_log
    step,       \* thread -> its step
    on,         \* thread -> the actor of the call it is in
    wait,       \* threads whose stop_actor() has wait_for_stop
    cur,        \* worker -> the actor it runs
    worked,     \* workers that have handled a message in this turn
    todo,       \* the snapshot shutdown() or wait_for_shutdown() works on
    sent,       \* client -> messages sent
    calls,      \* stop_actor() calls that claimed an actor
    early,      \* history: messages in a mailbox when shutdown() was called
    done,       \* history: actor -> messages its handlers got
    dead,       \* history: dead letters
    on_shutdown, on_stop    \* history: actor -> how often the hook ran

control == <<m_state, m_phase, m_executor>>
mbox    == <<m_queue, m_closed>>
flags   == <<m_shutdown_requested, m_workers_active>>
turn    == <<cur, worked>>
thread  == <<step, on, wait, turn>>
hooks   == <<on_shutdown, on_stop>>
hist    == <<early, done, dead, hooks>>
vars    == <<control, mbox, m_listed, flags, m_log, thread, todo, sent, calls, hist>>

has_messages(a) == m_queue[a] # <<>>

Msg(c)     == [from |-> c, seq |-> sent[c]]
SomeActor  == CHOOSE a \in Actors : TRUE
Go(t, s)   == step' = [step EXCEPT ![t] = s]
\* The end of a call: a worker is back in its handler, shutdown() goes on, a
\* client is idle.
Home(t)    == IF t \in Workers THEN "handler" ELSE IF t = Main THEN "inject" ELSE "ready"
Return(t)  == /\ step' = [step EXCEPT ![t] = Home(t)]
              /\ on' = [on EXCEPT ![t] = SomeActor]
              /\ wait' = wait \ {t}

Init ==
    /\ m_state = [a \in Actors |-> "running"]
    /\ m_phase = [a \in Actors |-> "none"]
    /\ m_executor = [a \in Actors |-> NoThread]
    /\ m_queue = [a \in Actors |-> <<>>]
    /\ m_closed = {}
    /\ m_listed = Actors
    /\ m_shutdown_requested = FALSE
    /\ m_workers_active = TRUE
    /\ m_log = {}
    /\ step = [t \in Threads |-> IF t \in Workers THEN "loop" ELSE "ready"]
    /\ on = [t \in Threads |-> SomeActor]
    /\ wait = {}
    /\ cur = [w \in Workers |-> SomeActor]
    /\ worked = {}
    /\ todo = {}
    /\ sent = [c \in Clients |-> 0]
    /\ calls = 0
    /\ early = {}
    /\ done = [a \in Actors |-> {}]
    /\ dead = {}
    /\ on_shutdown = [a \in Actors |-> 0]
    /\ on_stop = [a \in Actors |-> 0]

-----------------------------------------------------------------------------
(* tell()                                                                  *)

\* The state check of enqueue_message().
Send(c, a) ==
    /\ step[c] = "ready"
    /\ sent[c] < MaxSend
    /\ sent' = [sent EXCEPT ![c] = @ + 1]
    /\ \/ /\ m_state[a] = "running"
          /\ Go(c, "push")
          /\ on' = [on EXCEPT ![c] = a]
          /\ UNCHANGED dead
       \/ /\ m_state[a] # "running"
          /\ dead' = dead \cup {Msg(c)'}
          /\ UNCHANGED <<step, on>>
    /\ UNCHANGED <<control, mbox, m_listed, flags, m_log, wait, turn, todo, calls,
                   early, done, hooks>>

\* What t sends: system_shutdown is sent by shutdown() only.
Payload(t) == IF t = Main THEN system_shutdown ELSE Msg(t)

Push(t) ==
    LET a == on[t] IN
    /\ step[t] = "push"
    /\ \/ /\ a \in m_closed
          /\ dead' = dead \cup {Payload(t)}
          /\ UNCHANGED m_queue
       \/ /\ a \notin m_closed
          /\ m_queue' = [m_queue EXCEPT ![a] = Append(@, Payload(t))]
          /\ UNCHANGED dead
    /\ Return(t)
    /\ UNCHANGED <<control, m_closed, m_listed, flags, m_log, turn, todo, sent, calls,
                   early, done, hooks>>

-----------------------------------------------------------------------------
(* stop_actor(), called by a client or by the handler a worker is running  *)

\* The state check and the CAS none -> claiming.
Claim(t, a, waits) ==
    /\ m_state[a] = "running"
    /\ m_phase[a] = "none"
    /\ calls < MaxStops
    /\ calls' = calls + 1
    /\ m_phase' = [m_phase EXCEPT ![a] = "claiming"]
    /\ Go(t, "claimed")
    /\ on' = [on EXCEPT ![t] = a]
    /\ wait' = IF waits THEN wait \cup {t} ELSE wait
    /\ UNCHANGED <<m_state, m_executor, mbox, m_listed, flags, m_log, turn, todo, sent, hist>>

\* The application may call stop_actor() at any time, also during and after
\* wait_for_shutdown().
ClientStops(c, a, waits) ==
    /\ step[c] = "ready"
    /\ Claim(c, a, waits)

HandlerStops(w, a, waits) ==
    /\ step[w] = "handler"
    /\ waits => HandlerWaits
    /\ Claim(w, a, waits)

\* The CAS running -> stopping; if it fails the claim is released.
StopIntake(t) ==
    LET a == on[t] IN
    /\ step[t] = "claimed"
    /\ IF m_state[a] = "running"
       THEN /\ m_state' = [m_state EXCEPT ![a] = "stopping"]
            /\ Go(t, "request")
            /\ UNCHANGED <<m_phase, on, wait>>
       ELSE /\ m_phase' = [m_phase EXCEPT ![a] = "none"]
            /\ Return(t)
            /\ UNCHANGED m_state
    /\ UNCHANGED <<m_executor, mbox, m_listed, flags, m_log, turn, todo, sent, calls, hist>>

StopRequest(t) ==
    /\ step[t] = "request"
    /\ m_phase' = [m_phase EXCEPT ![on[t]] = "requested"]
    /\ Go(t, "who")
    /\ UNCHANGED <<m_state, m_executor, mbox, m_listed, flags, m_log, on, wait, turn, todo,
                   sent, calls, hist>>

\* Without workers the caller carries out the stop (run_stop_to_completion);
\* otherwise the actor is unblocked and scheduled.
StopWho(t) ==
    /\ step[t] = "who"
    /\ Go(t, IF m_workers_active THEN "may_wait" ELSE "enter")
    /\ UNCHANGED <<control, mbox, m_listed, flags, m_log, on, wait, turn, todo, sent, calls,
                   hist>>

\* is_executor_of().
IsExecutor(t, a) == t \in Workers /\ Pin[a] = t

CanWait(t) == t \in wait /\ ~m_shutdown_requested /\ ~IsExecutor(t, on[t])

StopMayWait(t) ==
    /\ step[t] = "may_wait"
    /\ IF CanWait(t)
       THEN Go(t, "wait") /\ UNCHANGED <<on, wait>>
       ELSE Return(t)
    /\ UNCHANGED <<control, mbox, m_listed, flags, m_log, turn, todo, sent, calls, hist>>

StopReturn(t) ==
    /\ step[t] = "wait"
    /\ m_state[on[t]] = "stopped"
    /\ Return(t)
    /\ UNCHANGED <<control, mbox, m_listed, flags, m_log, turn, todo, sent, calls, hist>>

-----------------------------------------------------------------------------
(* service_stop(), on a worker or, without workers, on any other thread    *)

\* Where a thread goes on after run_actor() or run_stop_to_completion().
Served(t) == IF t = Main THEN "pending" ELSE IF t \in Workers THEN "loop" ELSE "ready"

Leave(t) ==
    /\ step' = [step EXCEPT ![t] = Served(t)]
    /\ on' = [on EXCEPT ![t] = SomeActor]
    /\ wait' = wait \ {t}
    /\ worked' = worked \ {t}
    /\ cur' = [w \in Workers |-> IF w = t THEN SomeActor ELSE cur[w]]

\* The executor claim.  A thread that finds another one at it is served.
ServiceEnter(t) ==
    LET a == on[t] IN
    /\ step[t] = "enter"
    /\ \/ /\ m_executor[a] \in {t, NoThread}
          /\ m_executor' = [m_executor EXCEPT ![a] = t]
          /\ Go(t, "service")
          /\ UNCHANGED <<on, wait, turn>>
       \/ /\ m_executor[a] \notin {t, NoThread}
          /\ Leave(t)
          /\ UNCHANGED m_executor
    /\ UNCHANGED <<m_state, m_phase, mbox, m_listed, flags, m_log, todo, sent, calls,
                   hist>>

\* Already stopped, by wait_for_shutdown(): nothing left to do.  Draining: the
\* caller handles one message and comes back, unless the worker's turn is over.
ServiceDrain(t) ==
    /\ step[t] = "service"
    /\ \/ m_state[on[t]] = "stopped" /\ Leave(t)
       \/ /\ m_state[on[t]] # "stopped" /\ has_messages(on[t])
          /\ \/ Go(t, "handle") /\ UNCHANGED <<on, wait, turn>>
             \/ t \in worked /\ Leave(t)
    /\ UNCHANGED <<control, mbox, m_listed, flags, m_log, todo, sent, calls,
                   hist>>

\* Drained, discarding or past the deadline: on_shutdown() ...
ServiceShutdownHook(t) ==
    /\ step[t] = "service"
    /\ m_state[on[t]] # "stopped"
    /\ on_shutdown' = [on_shutdown EXCEPT ![on[t]] = @ + 1]
    /\ Go(t, "hooks")
    /\ UNCHANGED <<control, mbox, m_listed, flags, m_log, on, wait, turn, todo, sent, calls,
                   early, done, dead, on_stop>>

\* ... and on_stop().
ServiceStopHook(t) ==
    /\ step[t] = "hooks"
    /\ on_stop' = [on_stop EXCEPT ![on[t]] = @ + 1]
    /\ Go(t, "close")
    /\ UNCHANGED <<control, mbox, m_listed, flags, m_log, on, wait, turn, todo, sent, calls,
                   early, done, dead, on_shutdown>>

\* The mailbox is closed, and what is left in it is reported; a pending
\* system_shutdown is control traffic, not a dead letter.
ServiceClose(t) ==
    LET a == on[t] IN
    /\ step[t] = "close"
    /\ m_closed' = m_closed \cup {a}
    /\ m_queue' = [m_queue EXCEPT ![a] = <<>>]
    /\ dead' = dead \cup (ToSet(m_queue[a]) \ {system_shutdown})
    /\ Go(t, "finish")
    /\ UNCHANGED <<control, m_listed, flags, m_log, on, wait, turn, todo, sent, calls,
                   early, done, hooks>>

\* The actors gone leave their worker's list.
Unlist(t, gone) ==
    /\ step[t] = "finish"
    /\ m_listed' = m_listed \ gone
    /\ Go(t, "set")
    /\ UNCHANGED <<control, mbox, flags, m_log, on, wait, turn, todo, sent, calls, hist>>

\* Slip: the actor stays in its worker's list.
ServiceUnlistForgets(t) == Unlist(t, {})

ServiceUnlist(t) == Unlist(t, {on[t]})

\* The end of a stop: the state is set and waiting callers wake up.
Finish(t, state) ==
    /\ step[t] = "set"
    /\ m_state' = [m_state EXCEPT ![on[t]] = state]
    /\ Leave(t)
    /\ UNCHANGED <<m_phase, m_executor, mbox, m_listed, flags, m_log, todo, sent, calls, hist>>

\* Slip: the state is not set.
ServiceFinishForgets(t) == Finish(t, "stopping")

ServiceFinish(t) == Finish(t, "stopped")

-----------------------------------------------------------------------------
(* worker_thread(), run_actor() and dispatch_message()                     *)

WorkerExit(w) ==
    /\ step[w] = "loop"
    /\ m_shutdown_requested
    /\ Go(w, "exited")
    /\ UNCHANGED <<control, mbox, m_listed, flags, m_log, on, wait, turn, todo, sent, calls,
                   hist>>

\* An actor with something to do is on the ready queue.
WorkerPop(w, a) ==
    /\ step[w] = "loop"
    /\ ~m_shutdown_requested
    /\ Pin[a] = w
    /\ m_state[a] # "stopped"
    /\ has_messages(a) \/ m_phase[a] = "requested"
    /\ cur' = [cur EXCEPT ![w] = a]
    /\ Go(w, "turn")
    /\ UNCHANGED <<control, mbox, m_listed, flags, m_log, on, wait, worked, todo, sent, calls,
                   hist>>

\* The turn loop: a requested stop first, then one message, else idle.
TurnTop(w) ==
    LET a == cur[w] IN
    /\ step[w] = "turn"
    /\ IF m_phase[a] = "requested" \/ has_messages(a)
       THEN /\ Go(w, IF m_phase[a] = "requested" THEN "enter" ELSE "handle")
            /\ on' = [on EXCEPT ![w] = a]
            /\ UNCHANGED <<wait, turn>>
       ELSE Leave(w)
    /\ UNCHANGED <<control, mbox, m_listed, flags, m_log, todo, sent, calls, hist>>

\* The budget is used up: back to the ready queue.
TurnOver(w) ==
    /\ step[w] = "turn"
    /\ w \in worked
    /\ m_phase[cur[w]] # "requested"
    /\ Leave(w)
    /\ UNCHANGED <<control, mbox, m_listed, flags, m_log, todo, sent, calls,
                   hist>>

\* Where a thread goes on after a message: a worker to its turn, the others are
\* in run_stop_to_completion().
Again(t) == IF t \in Workers THEN "turn" ELSE "enter"

\* pop(): the head m is for a handler.
RunHandler(t, m) ==
    LET a == on[t] IN
    /\ step[t] = "handle"
    /\ done' = [done EXCEPT ![a] = @ \cup {m}]
    /\ m_queue' = [m_queue EXCEPT ![a] = Tail(@)]
    /\ worked' = worked \cup ({t} \cap Workers)
    /\ Go(t, IF t \in Workers THEN "handler" ELSE "enter")
    /\ UNCHANGED <<control, m_closed, m_listed, flags, m_log, on, wait, cur, todo, sent, calls,
                   early, dead, hooks>>

\* process_next_message(), a user message; on a worker its handler may go on to
\* call stop_actor().
Handle(t) ==
    /\ has_messages(on[t])
    /\ Head(m_queue[on[t]]) # system_shutdown
    /\ RunHandler(t, Head(m_queue[on[t]]))

HandlerReturns(w) ==
    /\ step[w] = "handler"
    /\ Go(w, "turn")
    /\ on' = [on EXCEPT ![w] = SomeActor]
    /\ UNCHANGED <<control, mbox, m_listed, flags, m_log, wait, turn, todo, sent, calls,
                   hist>>

\* The CAS none -> system_shutdown: if it succeeds on_shutdown() runs, else a
\* stop_actor() owns the hooks and the message is simply consumed.
DispatchShutdown(t) ==
    LET a == on[t] IN
    /\ step[t] = "handle"
    /\ has_messages(a)
    /\ Head(m_queue[a]) = system_shutdown
    /\ m_queue' = [m_queue EXCEPT ![a] = Tail(@)]
    /\ IF m_phase[a] = "none"
       THEN /\ m_phase' = [m_phase EXCEPT ![a] = "system_shutdown"]
            /\ on_shutdown' = [on_shutdown EXCEPT ![a] = @ + 1]
            /\ Go(t, "hook")
       ELSE Go(t, Again(t)) /\ UNCHANGED <<m_phase, on_shutdown>>
    /\ worked' = worked \cup ({t} \cap Workers)
    /\ UNCHANGED <<m_state, m_executor, m_closed, m_listed, flags, m_log, on, wait, cur, todo,
                   sent, calls, early, done, dead, on_stop>>

\* on_shutdown() has returned: no more messages are accepted.
ShutdownHookDone(t) ==
    /\ step[t] = "hook"
    /\ m_state' = [m_state EXCEPT ![on[t]] = "stopping"]
    /\ Go(t, Again(t))
    /\ on' = IF t \in Workers THEN [on EXCEPT ![t] = SomeActor] ELSE on
    /\ UNCHANGED <<m_phase, m_executor, mbox, m_listed, flags, m_log, wait, turn, todo, sent,
                   calls, hist>>

-----------------------------------------------------------------------------
(* shutdown()                                                              *)

Goto(s) == Go(Main, s)

ShutdownBegin ==
    /\ step[Main] = "ready"
    /\ todo' = m_listed
    /\ early' = UNION {ToSet(m_queue[a]) : a \in Actors}
    /\ Goto("inject")
    /\ UNCHANGED <<control, mbox, m_listed, flags, m_log, on, wait, turn, sent, calls,
                   done, dead, hooks>>

\* Phase 1: system_shutdown to every actor that is running; the push is a step
\* of its own.
Inject(a) ==
    /\ step[Main] = "inject"
    /\ a \in todo
    /\ todo' = todo \ {a}
    /\ IF m_state[a] = "running"
       THEN Goto("push") /\ on' = [on EXCEPT ![Main] = a]
       ELSE UNCHANGED <<step, on>>
    /\ UNCHANGED <<control, mbox, m_listed, flags, m_log, wait, turn, sent, calls, hist>>

InjectDone ==
    /\ step[Main] = "inject"
    /\ todo = {}
    /\ todo' = m_listed
    /\ Goto("poll")
    /\ UNCHANGED <<control, mbox, m_listed, flags, m_log, on, wait, turn, sent, calls, hist>>

\* Phase 2: one queue after the other, from the start if one is not empty.
Poll(a) ==
    /\ step[Main] = "poll"
    /\ a \in todo
    /\ todo' = IF has_messages(a) THEN m_listed ELSE todo \ {a}
    /\ UNCHANGED <<control, mbox, m_listed, flags, m_log, thread, sent, calls, hist>>

\* All were empty, or the deadline has passed.
PollDone ==
    /\ step[Main] = "poll"
    /\ todo' = m_listed
    /\ Goto("log")
    /\ UNCHANGED <<control, mbox, m_listed, flags, m_log, on, wait, turn, sent, calls, hist>>

\* Phase 3: undrained says whether the actor is worth a warning.
LogIf(a, undrained) ==
    /\ step[Main] = "log"
    /\ a \in todo
    /\ todo' = todo \ {a}
    /\ m_log' = IF undrained THEN m_log \cup {a} ELSE m_log
    /\ UNCHANGED <<control, mbox, m_listed, flags, thread, sent, calls, hist>>

\* Slip: only actors that have got as far as stopping are looked at.
LogUndrainedStopping(a) == LogIf(a, has_messages(a) /\ m_state[a] # "running")

LogUndrained(a) == LogIf(a, has_messages(a))

\* Phase 4: m_shutdown_requested (parked workers are woken up).
Request(flag) ==
    /\ step[Main] = "log"
    /\ todo = {}
    /\ m_shutdown_requested' = flag
    /\ Goto("join")
    /\ UNCHANGED <<control, mbox, m_listed, m_workers_active, m_log, on, wait, turn, todo, sent,
                   calls, hist>>

\* Slip: the workers are woken up but the flag is not set.
SignalOnlyWakes == Request(m_shutdown_requested)

Signal == Request(TRUE)

-----------------------------------------------------------------------------
(* wait_for_shutdown()                                                     *)

\* The workers are joined.
Join ==
    /\ step[Main] = "join"
    /\ \A w \in Workers : step[w] = "exited"
    /\ m_workers_active' = FALSE
    /\ todo' = m_listed
    /\ Goto("pending")
    /\ UNCHANGED <<control, mbox, m_listed, m_shutdown_requested, m_log, on, wait, turn, sent,
                   calls, hist>>

\* complete_pending_stops().
CompletePending(a) ==
    /\ step[Main] = "pending"
    /\ a \in todo
    /\ todo' = todo \ {a}
    /\ IF m_phase[a] = "requested" /\ m_state[a] # "stopped"
       THEN Goto("enter") /\ on' = [on EXCEPT ![Main] = a]
       ELSE UNCHANGED <<step, on>>
    /\ UNCHANGED <<control, mbox, m_listed, flags, m_log, wait, turn, sent, calls, hist>>

PendingDone ==
    /\ step[Main] = "pending"
    /\ todo = {}
    /\ todo' = m_listed
    /\ Goto("stop_all")
    /\ UNCHANGED <<control, mbox, m_listed, flags, m_log, on, wait, turn, sent, calls, hist>>

\* One actor of the last snapshot: on_stop() if it is called for ...
LastCall(a, stop) ==
    /\ step[Main] = "stop_all"
    /\ a \in todo
    /\ todo' = todo \ {a}
    /\ on_stop' = [on_stop EXCEPT ![a] = IF stop THEN @ + 1 ELSE @]
    /\ Goto("last")
    /\ on' = [on EXCEPT ![Main] = a]
    /\ UNCHANGED <<control, mbox, m_listed, flags, m_log, wait, turn, sent, calls,
                   early, done, dead, on_shutdown>>

\* Slip: an actor that has handled system_shutdown is taken for stopped.
StopListedRunning(a) == LastCall(a, m_state[a] = "running")

\* on_stop() of every actor that is still listed ...
StopListed(a) == LastCall(a, TRUE)

\* ... which is then marked as stopped.
MarkStopped ==
    /\ step[Main] = "last"
    /\ m_state' = [m_state EXCEPT ![on[Main]] = "stopped"]
    /\ Goto("stop_all")
    /\ UNCHANGED <<m_phase, m_executor, mbox, m_listed, flags, m_log, on, wait, turn, todo, sent,
                   calls, hist>>

ShutdownDone ==
    /\ step[Main] = "stop_all"
    /\ todo = {}
    /\ Goto("done")
    /\ UNCHANGED <<control, mbox, m_listed, flags, m_log, on, wait, turn, todo, sent, calls, hist>>

-----------------------------------------------------------------------------
StopActor(t) ==
    StopIntake(t) \/ StopRequest(t) \/ StopWho(t) \/ StopMayWait(t) \/ StopReturn(t)

ServiceStop(t) ==
    \/ ServiceEnter(t) \/ ServiceDrain(t) \/ ServiceShutdownHook(t) \/ ServiceStopHook(t)
    \/ ServiceClose(t) \/ ServiceUnlist(t) \/ ServiceFinish(t)

Dispatch(t) == Handle(t) \/ DispatchShutdown(t) \/ ShutdownHookDone(t)

RunActor(w) ==
    \/ WorkerExit(w)
    \/ \E a \in Actors : WorkerPop(w, a)
    \/ TurnTop(w) \/ TurnOver(w) \/ HandlerReturns(w)

ShutdownSteps ==
    \/ InjectDone \/ PollDone \/ Signal
    \/ \E a \in Actors : Inject(a) \/ Poll(a) \/ LogUndrained(a)

WaitSteps ==
    \/ Join \/ PendingDone \/ MarkStopped \/ ShutdownDone
    \/ \E a \in Actors : CompletePending(a) \/ StopListed(a)

Client(c) ==
    \/ \E a \in Actors : Send(c, a)
    \/ \E a \in Actors, waits \in BOOLEAN : ClientStops(c, a, waits)

Next ==
    \/ \E c \in Clients : Client(c)
    \/ \E t \in Clients \cup {Main} : Push(t)
    \/ \E t \in Threads : StopActor(t) \/ ServiceStop(t) \/ Dispatch(t)
    \/ \E w \in Workers : RunActor(w)
    \/ \E w \in Workers, a \in Actors, waits \in BOOLEAN : HandlerStops(w, a, waits)
    \/ ShutdownBegin \/ ShutdownSteps \/ WaitSteps

\* Threads in the framework keep running, and the deadline of phase 2 passes;
\* nobody has to send, to stop an actor or to begin the shutdown.
Fairness ==
    /\ \A t \in Clients \cup {Main} : WF_vars(Push(t))
    /\ \A t \in Threads : WF_vars(StopActor(t) \/ ServiceStop(t) \/ Dispatch(t))
    /\ \A w \in Workers : WF_vars(RunActor(w))
    /\ WF_vars(ShutdownSteps) /\ WF_vars(PollDone)
    /\ WF_vars(WaitSteps)

Spec == Init /\ [][Next]_vars /\ Fairness

-----------------------------------------------------------------------------
(* Properties                                                              *)

\* Every variable has its type.
StopType ==
    /\ m_state \in [Actors -> {"running", "stopping", "stopped"}]
    /\ m_phase \in [Actors -> {"none", "claiming", "requested", "system_shutdown"}]
    /\ m_executor \in [Actors -> Threads \cup {NoThread}]
    /\ m_closed \subseteq Actors /\ m_listed \subseteq Actors /\ m_log \subseteq Actors
    /\ on_shutdown \in [Actors -> Nat] /\ on_stop \in [Actors -> Nat]

MailType ==
    /\ m_queue \in [Actors -> Seq(Message \cup {system_shutdown})]
    /\ sent \in [Clients -> 0..MaxSend]
    /\ early \subseteq Message
    /\ dead \subseteq Message \cup {system_shutdown}
    /\ done \in [Actors -> SUBSET Message]

CallType ==
    /\ step \in [Threads -> {"ready", "push", "claimed", "request", "who", "may_wait", "wait",
                             "enter", "service", "hooks", "close", "finish", "set", "loop",
                             "turn", "handle", "handler", "hook", "exited", "inject", "poll",
                             "log", "join", "pending", "stop_all", "last", "done"}]
    /\ on \in [Threads -> Actors] /\ cur \in [Workers -> Actors]
    /\ wait \subseteq Threads /\ todo \subseteq Actors
    /\ calls \in 0..MaxStops
    /\ worked \subseteq Workers
    /\ m_shutdown_requested \in BOOLEAN /\ m_workers_active \in BOOLEAN

TypeOK == StopType /\ MailType /\ CallType

\* stop_actor() found no workers and its caller carries out the stop itself, on
\* its own thread, beside wait_for_shutdown() or after it.
ByCaller(a) == m_executor[a] \in Clients

\* on_stop() is the last thing an actor runs, whoever runs it: no handler and no
\* hook after it, unless a caller of stop_actor() runs the actor itself (that
\* case is StopCarriedOut).
StopIsLast ==
    [][\A a \in Actors : on_stop[a] > 0 /\ ~ByCaller(a) =>
          /\ on_stop'[a] = on_stop[a]
          /\ on_shutdown'[a] = on_shutdown[a]
          /\ done'[a] = done[a]]_vars

\* When wait_for_shutdown() returns, on_stop() of every actor has run, whether
\* stop_actor() or the shutdown claimed it; and but for the actors that a caller
\* of stop_actor() runs itself, it has run once and the actor is stopped.
AllStopped ==
    step[Main] = "done" =>
        \A a \in Actors :
            /\ on_stop[a] >= 1
            /\ ~ByCaller(a) => m_state[a] = "stopped" /\ on_stop[a] = 1

\* A message that was in a mailbox when shutdown() was called leaves a trace: it
\* is handled, a dead letter, or its actor is named in the shutdown log.
EarlyTraced ==
    step[Main] = "done" =>
        \A m \in early : \/ m \in dead \cup UNION {done[a] : a \in Actors}
                         \/ \E a \in m_log : m \in ToSet(m_queue[a])

\* A stop that stop_actor() requested is carried out in full and once: on_stop()
\* never runs twice, and at the latest when wait_for_shutdown() has returned, and
\* no stop_actor() call is under way any more, both hooks have run and the
\* mailbox is closed behind them.
StopCarriedOut ==
    /\ \A a \in Actors : on_stop[a] <= 1
    /\ step[Main] = "done" /\ (\A c \in Clients : step[c] \in {"ready", "push"}) =>
          \A a \in Actors : m_phase[a] = "requested" =>
              on_shutdown[a] = 1 /\ on_stop[a] = 1 /\ a \in m_closed

\* shutdown() followed by wait_for_shutdown() comes to an end.
ShutdownCompletes == step[Main] # "ready" ~> step[Main] = "done"

\* A stop_actor() call of the application returns, also when a shutdown takes
\* the workers away.
StopReturns == \A c \in Clients : step[c] = "wait" ~> step[c] = "ready"
=============================================================================
