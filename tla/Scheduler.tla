----------------------------- MODULE Scheduler -----------------------------
(***************************************************************************)
(* How pooled actors get to run: tell() from any thread, the per-worker    *)
(* ready queues, the parking handshake, the turn loop of run_actor(), the  *)
(* start of an actor created while the system runs, and stop_actor().      *)
(*                                                                         *)
(* Each mailbox and ready-queue operation is one step, as MailboxAbs and   *)
(* ReadyQueue justify; push() keeps its two steps, because has_messages()  *)
(* can see a message that is counted and not yet there.  The 100 ms        *)
(* backstop of park_worker() may fire or not: nothing relies on it.        *)
(* System shutdown is the subject of module Shutdown.                      *)
(***************************************************************************)
EXTENDS Integers, Sequences, FiniteSets, SequencesExt

CONSTANTS
    Actors,
    Workers,
    Pin,        \* actor -> the worker it is assigned to
    Clients,    \* threads that call tell() and stop_actor()
    Creators,   \* threads inside create(), about to run on_start()
    NewActor,   \* creator -> the actor it starts
    Busy,       \* actors whose handler may tell() themselves again, for ever
    Budget,     \* max_messages_per_turn (0: unlimited)
    MaxSend,    \* bound: messages each sender sends
    Senders,    \* clients that call tell()
    Stoppers    \* clients that call stop_actor()

ASSUME PinAssumption      == Pin \in [Actors -> Workers]
ASSUME NewActorAssumption == /\ NewActor \in [Creators -> Actors]
                             /\ \A k, l \in Creators : NewActor[k] = NewActor[l] => k = l
                             /\ Busy \cap {NewActor[k] : k \in Creators} = {}
ASSUME BoundAssumption    == Budget \in Nat /\ MaxSend \in Nat
ASSUME ThreadAssumption   == Clients \cap Creators = {}
ASSUME RoleAssumption     == Senders \cup Stoppers \subseteq Clients
ASSUME ActorAssumption    == Actors # {} /\ Busy \subseteq Actors /\ IsFiniteSet(Busy)

Threads == Clients \cup Creators

\* A message is identified by its sender and the sender's message number; a busy
\* actor's message to itself is Echo.
Message == [from : Clients, seq : 1..MaxSend]
Echo    == [from |-> "self", seq |-> 0]

VARIABLES
    m_tag,      \* actor -> "open", "blocked" or "closed"
    m_queue,    \* actor -> messages in its mailbox, oldest first
    m_state,    \* actor -> "running", "stopping" or "stopped"
    m_phase,    \* actor -> m_stop_phase
    m_discard,  \* actors whose stop discards (m_stop_discard)
    ready,      \* worker -> its ready queue, oldest first
    sleeping,   \* workers that set the flag of the parking handshake
    wpc,        \* worker -> its step
    cur,        \* worker -> the actor it runs
    handled,    \* worker -> messages handled in this turn
    call,       \* thread -> the call it is in: its step, its target, its kind
    sent,       \* client -> messages sent
    done,       \* history: actor -> messages its handlers got
    dead,       \* history: messages reported as dead letters
    stops       \* history: actor -> how often its stop hooks ran

mbox    == <<m_tag, m_queue>>
control == <<m_state, m_phase, m_discard>>
worker  == <<sleeping, wpc, cur, handled>>
hist    == <<done, dead, stops>>
vars    == <<mbox, control, ready, worker, call, sent, hist>>

Msg(c) == [from |-> c, seq |-> sent[c]]

SomeActor == CHOOSE a \in Actors : TRUE

\* A thread that is in no call; the steps of a call, and its return.
Idle       == [step |-> "ready", on |-> SomeActor, op |-> "none"]
At(t, s)   == call[t].step = s
On(t)      == call[t].on
Go(t, s)   == call' = [call EXCEPT ![t] = [step |-> s, on |-> On(t), op |-> call[t].op]]
Return(t)  == call' = [call EXCEPT ![t] = Idle]

\* on_start() of the actor is running on its creator's thread.
Starting(a) == \E k \in Creators : NewActor[k] = a /\ At(k, "on_start")

\* The worker returns from run_actor().
Leave(w) ==
    /\ wpc' = [wpc EXCEPT ![w] = "pop"]
    /\ cur' = [cur EXCEPT ![w] = SomeActor]
    /\ handled' = [handled EXCEPT ![w] = 0]

\* mailbox::size() > 0: pushes count before they publish.
HasMessages(a) ==
    m_queue[a] # <<>> \/ \E c \in Clients : At(c, "push") /\ On(c) = a

\* The system runs: actors are idle, except the busy ones and the ones whose
\* on_start() is running, with their mailbox unblocked.
Init ==
    LET new == {NewActor[k] : k \in Creators} IN
    /\ m_tag = [a \in Actors |-> IF a \in new \cup Busy THEN "open" ELSE "blocked"]
    /\ m_queue = [a \in Actors |-> IF a \in Busy THEN <<Echo>> ELSE <<>>]
    /\ m_state = [a \in Actors |-> "running"]
    /\ m_phase = [a \in Actors |-> "none"]
    /\ m_discard = {}
    /\ ready = [w \in Workers |-> SetToSeq({a \in Busy : Pin[a] = w})]
    /\ sleeping = {}
    /\ wpc = [w \in Workers |-> "pop"]
    /\ cur = [w \in Workers |-> SomeActor]
    /\ handled = [w \in Workers |-> 0]
    /\ call = [t \in Threads |->
                 IF t \in Creators
                 THEN [step |-> "on_start", on |-> NewActor[t], op |-> "create"]
                 ELSE Idle]
    /\ sent = [c \in Clients |-> 0]
    /\ done = [a \in Actors |-> <<>>]
    /\ dead = {}
    /\ stops = [a \in Actors |-> 0]

-----------------------------------------------------------------------------
(* tell(): actor::enqueue_message()                                        *)

\* The state check: an actor that is not running gets no message.
Send(c, a) ==
    /\ c \in Senders /\ At(c, "ready")
    /\ sent[c] < MaxSend
    /\ sent' = [sent EXCEPT ![c] = @ + 1]
    /\ \/ /\ m_state[a] = "running"
          /\ call' = [call EXCEPT ![c] = [step |-> "count", on |-> a, op |-> "send"]]
          /\ UNCHANGED dead
       \/ /\ m_state[a] # "running"
          /\ dead' = dead \cup {Msg(c)'}
          /\ UNCHANGED call
    /\ UNCHANGED <<mbox, control, ready, worker, done, stops>>

\* mailbox::push(), the count.
PushCount(c) ==
    /\ At(c, "count")
    /\ Go(c, "push")
    /\ UNCHANGED <<mbox, control, ready, worker, sent, hist>>

\* Pushed last, popped last.
Enqueue(q, m) == Append(q, m)

\* mailbox::push(), the CAS: dead letter if closed; schedule() if the mailbox
\* was in one of the states wakes.
Land(c, wakes) ==
    LET a == On(c) IN
    /\ At(c, "push")
    /\ \/ /\ m_tag[a] = "closed"
          /\ dead' = dead \cup {Msg(c)}
          /\ UNCHANGED mbox
       \/ /\ m_tag[a] # "closed"
          /\ m_tag' = [m_tag EXCEPT ![a] = "open"]
          /\ m_queue' = [m_queue EXCEPT ![a] = Enqueue(@, Msg(c))]
          /\ UNCHANGED dead
    /\ IF m_tag[a] \in wakes THEN Go(c, "schedule") ELSE Return(c)
    /\ UNCHANGED <<control, ready, worker, sent, done, stops>>

\* Slip: every push that is accepted schedules.
PushLandAlwaysWakes(c) == Land(c, {"open", "blocked"})

\* Only the push that found the mailbox blocked schedules.
PushLand(c) == Land(c, {"blocked"})

-----------------------------------------------------------------------------
(* system::schedule() and wake_worker()                                    *)

Home(t) == Pin[On(t)]

\* What a thread does after schedule(): stop_actor() goes on to wait.
AfterSchedule(t) == IF call[t].op = "stop" THEN Go(t, "wait") ELSE Return(t)

\* ready_queue::push().
Schedule(t) ==
    /\ At(t, "schedule")
    /\ ready' = [ready EXCEPT ![Home(t)] = Append(@, On(t))]
    /\ Go(t, "wake")
    /\ UNCHANGED <<mbox, control, worker, sent, hist>>

\* The fence and the load of sleeping.
WakeLook(t) ==
    /\ At(t, "wake")
    /\ IF Home(t) \in sleeping THEN Go(t, "notify") ELSE AfterSchedule(t)
    /\ UNCHANGED <<mbox, control, ready, worker, sent, hist>>

\* Slip: the notifier does not take the mutex.
LockedNever(w) == FALSE

\* The worker holds its mutex while it evaluates the predicate and until it is
\* in the wait.
Locked(w) == wpc[w] \in {"check", "enter"}

\* notify_one() under the mutex: a waiting worker evaluates its predicate again.
Notify(t) ==
    /\ At(t, "notify")
    /\ ~Locked(Home(t))
    /\ wpc' = [wpc EXCEPT ![Home(t)] = IF @ = "waiting" THEN "check" ELSE @]
    /\ AfterSchedule(t)
    /\ UNCHANGED <<mbox, control, ready, sleeping, cur, handled, sent, hist>>

-----------------------------------------------------------------------------
(* create() while the system runs: run_on_start(), activate_after_start()  *)

\* on_start() has returned: go idle, or get scheduled if messages arrived.
ActivateAfterStart(k) ==
    LET a == On(k) IN
    /\ At(k, "on_start")
    /\ \/ /\ m_tag[a] = "open" /\ m_queue[a] = <<>>
          /\ m_tag' = [m_tag EXCEPT ![a] = "blocked"]
          /\ Return(k)
       \/ /\ m_queue[a] # <<>>
          /\ Go(k, "schedule")
          /\ UNCHANGED m_tag
    /\ UNCHANGED <<m_queue, control, ready, worker, sent, hist>>

\* Slip: close() without a report for each dropped message.
CloseMailboxSilently(a) ==
    /\ m_tag' = [m_tag EXCEPT ![a] = "closed"]
    /\ m_queue' = [m_queue EXCEPT ![a] = <<>>]
    /\ UNCHANGED dead

\* mailbox::close(): what is left in it is dead letters.
CloseMailbox(a) ==
    /\ m_tag' = [m_tag EXCEPT ![a] = "closed"]
    /\ m_queue' = [m_queue EXCEPT ![a] = <<>>]
    /\ dead' = dead \cup ToSet(m_queue[a])

\* on_start() has thrown: discard_unstarted_actor().
DiscardUnstarted(k) ==
    LET a == On(k) IN
    /\ At(k, "on_start")
    /\ m_state' = [m_state EXCEPT ![a] = "stopped"]
    /\ CloseMailbox(a)
    /\ Return(k)
    /\ UNCHANGED <<m_phase, m_discard, ready, worker, sent, done, stops>>

-----------------------------------------------------------------------------
(* stop_actor()                                                            *)

\* The state check and the CAS none -> claiming.
StopClaim(c, a, how) ==
    /\ c \in Stoppers /\ At(c, "ready")
    /\ m_state[a] = "running"
    /\ m_phase[a] = "none"
    /\ m_phase' = [m_phase EXCEPT ![a] = "claiming"]
    /\ call' = [call EXCEPT ![c] = [step |-> "claimed", on |-> a, op |-> how]]
    /\ UNCHANGED <<mbox, m_state, m_discard, ready, worker, sent, hist>>

\* The mode is recorded and the CAS running -> stopping ends message intake.
StopIntake(c, discard) ==
    LET a == On(c) IN
    /\ At(c, "claimed")
    /\ m_discard' = IF discard THEN m_discard \cup {a} ELSE m_discard
    /\ IF m_state[a] = "running"
       THEN /\ m_state' = [m_state EXCEPT ![a] = "stopping"]
            /\ Go(c, "request")
            /\ UNCHANGED m_phase
       ELSE /\ m_phase' = [m_phase EXCEPT ![a] = "none"]
            /\ Return(c)
            /\ UNCHANGED m_state
    /\ UNCHANGED <<mbox, ready, worker, sent, hist>>

StopRequest(c) ==
    /\ At(c, "request")
    /\ m_phase' = [m_phase EXCEPT ![On(c)] = "requested"]
    /\ Go(c, "unblock")
    /\ UNCHANGED <<mbox, m_state, m_discard, ready, worker, sent, hist>>

\* An idle actor is unblocked and scheduled; otherwise its worker will see the
\* request by itself.
StopUnblock(c) ==
    LET a == On(c) IN
    /\ At(c, "unblock")
    /\ m_tag' = [m_tag EXCEPT ![a] = IF @ = "blocked" THEN "open" ELSE @]
    /\ IF m_tag[a] = "blocked" THEN Go(c, "schedule") ELSE AfterSchedule(c)
    /\ UNCHANGED <<m_queue, control, ready, worker, sent, hist>>

\* m_state.wait() returns once the actor is stopped.
StopReturn(c) ==
    /\ At(c, "wait")
    /\ m_state[On(c)] = "stopped"
    /\ Return(c)
    /\ UNCHANGED <<mbox, control, ready, worker, sent, hist>>

-----------------------------------------------------------------------------
(* worker_thread() and park_worker()                                       *)

WorkerPop(w) ==
    /\ wpc[w] = "pop"
    /\ ready[w] # <<>>
    /\ ready' = [ready EXCEPT ![w] = Tail(@)]
    /\ IF m_state[Head(ready[w])] = "stopped"
       THEN UNCHANGED <<wpc, cur>>
       ELSE /\ wpc' = [wpc EXCEPT ![w] = "turn"]
            /\ cur' = [cur EXCEPT ![w] = Head(ready[w])]
    /\ UNCHANGED <<mbox, control, sleeping, handled, call, sent, hist>>

\* Nothing to do: spin_for_work() changes nothing, then the worker parks.
WorkerIdle(w) ==
    /\ wpc[w] = "pop"
    /\ ready[w] = <<>>
    /\ wpc' = [wpc EXCEPT ![w] = "park"]
    /\ UNCHANGED <<mbox, control, ready, sleeping, cur, handled, call, sent, hist>>

ParkFlag(w) ==
    /\ wpc[w] = "park"
    /\ sleeping' = sleeping \cup {w}
    /\ wpc' = [wpc EXCEPT ![w] = "lock"]
    /\ UNCHANGED <<mbox, control, ready, cur, handled, call, sent, hist>>

ParkLock(w) ==
    /\ wpc[w] = "lock"
    /\ wpc' = [wpc EXCEPT ![w] = "check"]
    /\ UNCHANGED <<mbox, control, ready, sleeping, cur, handled, call, sent, hist>>

\* The predicate of the wait.
ParkCheck(w) ==
    /\ wpc[w] = "check"
    /\ wpc' = [wpc EXCEPT ![w] = IF ready[w] # <<>> THEN "unpark" ELSE "enter"]
    /\ UNCHANGED <<mbox, control, ready, sleeping, cur, handled, call, sent, hist>>

ParkEnter(w) ==
    /\ wpc[w] = "enter"
    /\ wpc' = [wpc EXCEPT ![w] = "waiting"]
    /\ UNCHANGED <<mbox, control, ready, sleeping, cur, handled, call, sent, hist>>

\* The 100 ms backstop.
ParkTimeout(w) ==
    /\ wpc[w] = "waiting"
    /\ wpc' = [wpc EXCEPT ![w] = "unpark"]
    /\ UNCHANGED <<mbox, control, ready, sleeping, cur, handled, call, sent, hist>>

Unpark(w) ==
    /\ wpc[w] = "unpark"
    /\ sleeping' = sleeping \ {w}
    /\ wpc' = [wpc EXCEPT ![w] = "pop"]
    /\ UNCHANGED <<mbox, control, ready, cur, handled, call, sent, hist>>

-----------------------------------------------------------------------------
(* run_actor() and service_stop()                                          *)

\* The top of the loop: is a stop requested?
TurnTop(w) ==
    /\ wpc[w] = "turn"
    /\ wpc' = [wpc EXCEPT ![w] = IF m_phase[cur[w]] = "requested" THEN "service"
                                 ELSE "budget"]
    /\ UNCHANGED <<mbox, control, ready, sleeping, cur, handled, call, sent, hist>>

MayHandle(w) == Budget = 0 \/ handled[w] < Budget

\* Slip: the turn goes on with a new budget.
TurnOverStays(w) ==
    /\ wpc[w] = "budget"
    /\ ~MayHandle(w)
    /\ handled' = [handled EXCEPT ![w] = 0]
    /\ wpc' = [wpc EXCEPT ![w] = "turn"]
    /\ UNCHANGED <<mbox, control, ready, sleeping, cur, call, sent, hist>>

\* The turn is over: to the back of the queue, mailbox still unblocked.
TurnOver(w) ==
    /\ wpc[w] = "budget"
    /\ ~MayHandle(w)
    /\ ready' = [ready EXCEPT ![w] = Append(@, cur[w])]
    /\ Leave(w)
    /\ UNCHANGED <<mbox, control, sleeping, call, sent, hist>>

\* has_messages(), process_next_message(): one message is handled, or none if
\* the only one is counted and not yet there.  A busy actor's handler may send
\* the next message to itself, which counts only while it is running.
TurnHandle(w) ==
    LET a == cur[w] IN
    /\ wpc[w] = "budget"
    /\ MayHandle(w)
    /\ HasMessages(a)
    /\ handled' = [handled EXCEPT ![w] = IF Budget = 0 THEN 0 ELSE @ + 1]
    /\ wpc' = [wpc EXCEPT ![w] = "turn"]
    /\ \/ /\ m_queue[a] = <<>>
          /\ UNCHANGED <<m_queue, done>>
       \/ /\ m_queue[a] # <<>>
          /\ Head(m_queue[a]) # Echo
          /\ m_queue' = [m_queue EXCEPT ![a] = Tail(@)]
          /\ done' = [done EXCEPT ![a] = Append(@, Head(m_queue[a]))]
       \/ /\ m_queue[a] # <<>>
          /\ Head(m_queue[a]) = Echo
          /\ \/ m_queue' = [m_queue EXCEPT ![a] = Tail(@)]
             \/ /\ m_state[a] = "running"
                /\ m_queue' = [m_queue EXCEPT ![a] = Append(Tail(@), Echo)]
          /\ UNCHANGED done
    /\ UNCHANGED <<m_tag, control, ready, sleeping, cur, call, sent, dead, stops>>

TurnEmpty(w) ==
    /\ wpc[w] = "budget"
    /\ MayHandle(w)
    /\ ~HasMessages(cur[w])
    /\ wpc' = [wpc EXCEPT ![w] = "block"]
    /\ UNCHANGED <<mbox, control, ready, sleeping, cur, handled, call, sent, hist>>

\* try_block(): it fails if a push landed meanwhile.
TryBlock(w) ==
    LET a == cur[w] IN
    /\ wpc[w] = "block"
    /\ IF m_queue[a] = <<>>
       THEN /\ m_tag' = [m_tag EXCEPT ![a] = "blocked"]
            /\ wpc' = [wpc EXCEPT ![w] = "recheck"]
       ELSE /\ wpc' = [wpc EXCEPT ![w] = "turn"]
            /\ UNCHANGED m_tag
    /\ UNCHANGED <<m_queue, control, ready, sleeping, cur, handled, call, sent, hist>>

\* Slip: no second look at the stop phase.
RecheckSkipped(w) ==
    /\ wpc[w] = "recheck"
    /\ Leave(w)
    /\ UNCHANGED <<mbox, control, ready, sleeping, call, sent, hist>>

\* A stop requested before the mailbox was blocked is seen here.
Recheck(w) ==
    LET a == cur[w]
        back == m_phase[a] = "requested" /\ m_tag[a] = "blocked" IN
    /\ wpc[w] = "recheck"
    /\ m_tag' = [m_tag EXCEPT ![a] = IF back THEN "open" ELSE @]
    /\ IF back THEN wpc' = [wpc EXCEPT ![w] = "turn"] /\ UNCHANGED <<cur, handled>>
               ELSE Leave(w)
    /\ UNCHANGED <<m_queue, control, ready, sleeping, call, sent, hist>>

\* service_stop() returns false: it drains, the deadline has not passed.
ServiceDrain(w) ==
    LET a == cur[w] IN
    /\ wpc[w] = "service"
    /\ a \notin m_discard
    /\ HasMessages(a)
    /\ wpc' = [wpc EXCEPT ![w] = "budget"]
    /\ UNCHANGED <<mbox, control, ready, sleeping, cur, handled, call, sent, hist>>

\* Discarding, drained or past the deadline (which may be any time): the hooks
\* on_shutdown() and on_stop() run.
RunHooks(w, next) ==
    LET a == cur[w] IN
    /\ wpc[w] = "service"
    /\ IF a \in m_discard
       THEN /\ m_queue' = [m_queue EXCEPT ![a] = <<>>]
            /\ dead' = dead \cup ToSet(m_queue[a])
       ELSE UNCHANGED <<m_queue, dead>>
    /\ stops' = [stops EXCEPT ![a] = @ + 1]
    /\ wpc' = [wpc EXCEPT ![w] = next]
    /\ UNCHANGED <<m_tag, control, ready, sleeping, cur, handled, call, sent, done>>

ServiceHooks(w) == RunHooks(w, "close")

ServiceClose(w) ==
    /\ wpc[w] = "close"
    /\ CloseMailbox(cur[w])
    /\ wpc' = [wpc EXCEPT ![w] = "stopped"]
    /\ UNCHANGED <<control, ready, sleeping, cur, handled, call, sent, done, stops>>

ServiceStopped(w) ==
    /\ wpc[w] = "stopped"
    /\ m_state' = [m_state EXCEPT ![cur[w]] = "stopped"]
    /\ Leave(w)
    /\ UNCHANGED <<mbox, m_phase, m_discard, ready, sleeping, call, sent, hist>>

-----------------------------------------------------------------------------
Tell(c) == (\E a \in Actors : Send(c, a)) \/ PushCount(c) \/ PushLand(c)

StopActor(c) ==
    \/ \E a \in Actors, how \in {"stop", "stop_async"} : StopClaim(c, a, how)
    \/ \E discard \in BOOLEAN : StopIntake(c, discard)
    \/ StopRequest(c)
    \/ StopUnblock(c)
    \/ StopReturn(c)

ScheduleActor(t) == Schedule(t) \/ WakeLook(t) \/ Notify(t)

Create(k) == ActivateAfterStart(k) \/ DiscardUnstarted(k)

Park(w) ==
    ParkFlag(w) \/ ParkLock(w) \/ ParkCheck(w) \/ ParkEnter(w) \/ Unpark(w)

RunActor(w) ==
    \/ TurnTop(w) \/ TurnOver(w) \/ TurnHandle(w) \/ TurnEmpty(w)
    \/ TryBlock(w) \/ Recheck(w)
    \/ ServiceDrain(w) \/ ServiceHooks(w) \/ ServiceClose(w) \/ ServiceStopped(w)

Work(w) == WorkerPop(w) \/ WorkerIdle(w) \/ Park(w) \/ RunActor(w)

Next ==
    \/ \E c \in Clients : Tell(c) \/ StopActor(c)
    \/ \E t \in Threads : ScheduleActor(t)
    \/ \E k \in Creators : Create(k)
    \/ \E w \in Workers : Work(w) \/ ParkTimeout(w)

\* Threads inside a call keep running, and so do workers; nobody has to begin a
\* call, and the backstop timer does not have to fire.
Fairness ==
    /\ \A c \in Clients :
          /\ WF_vars(PushCount(c) \/ PushLand(c))
          /\ WF_vars(\E discard \in BOOLEAN : StopIntake(c, discard))
          /\ WF_vars(StopRequest(c) \/ StopUnblock(c))
    /\ \A t \in Threads : WF_vars(ScheduleActor(t))
    /\ \A k \in Creators : WF_vars(Create(k))
    /\ \A w \in Workers : WF_vars(Work(w))

Spec == Init /\ [][Next]_vars /\ Fairness

-----------------------------------------------------------------------------
(* Properties                                                              *)

MailType ==
    /\ m_tag \in [Actors -> {"open", "blocked", "closed"}]
    /\ m_queue \in [Actors -> Seq(Message \cup {Echo})]

StateType ==
    /\ m_state \in [Actors -> {"running", "stopping", "stopped"}]
    /\ m_phase \in [Actors -> {"none", "claiming", "requested"}]
    /\ m_discard \subseteq Actors

WorkerType ==
    /\ ready \in [Workers -> Seq(Actors)]
    /\ sleeping \subseteq Workers
    /\ wpc \in [Workers -> {"pop", "park", "lock", "check", "enter", "waiting", "unpark",
                            "turn", "budget", "block", "recheck", "service", "close",
                            "stopped"}]
    /\ cur \in [Workers -> Actors]
    /\ handled \in [Workers -> 0..Budget]

CallType ==
    /\ call \in [Threads -> [step : {"ready", "count", "push", "schedule", "wake", "notify",
                                     "on_start", "claimed", "request", "unblock", "wait"},
                             on   : Actors,
                             op   : {"none", "send", "stop", "stop_async", "create"}]]
    /\ sent \in [Clients -> 0..MaxSend]

HistType ==
    /\ done \in [Actors -> Seq(Message)]
    /\ dead \subseteq Message \cup {Echo}
    /\ stops \in [Actors -> Nat]

\* Every variable has its type.
TypeOK == MailType /\ StateType /\ WorkerType /\ CallType /\ HistType

\* The steps of run_actor() in which the worker may touch the actor; in
\* "recheck" it has given the actor up unless try_unblock() succeeds.
Turn == {"turn", "budget", "block", "service", "close", "stopped"}

RunBy(a) == {w \in Workers : cur[w] = a /\ wpc[w] \in Turn}

\* How often the actor is on a ready queue, or about to be put on one.
Entries(a) ==
    Cardinality({i \in 1..Len(ready[Pin[a]]) : ready[Pin[a]][i] = a})
    + Cardinality({t \in Threads : At(t, "schedule") /\ On(t) = a})

\* INVARIANT 1 and the precondition of the intrusive ready queue: an open
\* mailbox means that the actor is in exactly one place - being started by its
\* creator, on its own worker's ready queue (or on its way there), or in a turn
\* of that worker; a blocked or closed one, that it is in none.
OnePlace ==
    \A a \in Actors :
        /\ \A w \in Workers : a \in ToSet(ready[w]) \/ w \in RunBy(a) => w = Pin[a]
        /\ LET places == Entries(a) + Cardinality(RunBy(a)) + (IF Starting(a) THEN 1 ELSE 0)
           IN  /\ m_tag[a] = "open" => places = 1
               /\ m_tag[a] = "blocked" => places = 0
               /\ m_tag[a] = "closed" => places = Cardinality({w \in RunBy(a) : wpc[w] = "stopped"})

\* No wake-up is lost: a worker that waits, or is certain to, with an actor on
\* its queue has a thread on its way to notify it (the handshake of
\* system.cpp:522-568); the backstop timeout is never what saves it.
NoLostWakeup ==
    \A w \in Workers :
        wpc[w] \in {"enter", "waiting"} /\ ready[w] # <<>> =>
            \E t \in Threads : call[t].step \in {"wake", "notify"} /\ Home(t) = w

\* Where a message is, once it has been sent.
InFlight(c)  == IF call[c].step \in {"count", "push"} THEN {Msg(c)} ELSE {}
Waiting      == (UNION {ToSet(m_queue[a]) : a \in Actors}) \ {Echo}
Handled      == UNION {ToSet(done[a]) : a \in Actors}

\* Every message is in one place: in its sender's hands, in a mailbox, handled
\* once, or reported as a dead letter; and the stop hooks of an actor run once,
\* so that a stop that drains over several turns is not begun again.
Accounted ==
    /\ \A c \in Clients :
           LET mine == {m \in Message : m.from = c /\ m.seq <= sent[c]}
               at   == <<InFlight(c), Waiting \cap mine, Handled \cap mine, dead \cap mine>>
           IN  /\ mine = UNION {at[i] : i \in 1..4}
               /\ \A i, j \in 1..4 : i # j => at[i] \cap at[j] = {}
    /\ \A a \in Actors : IsInjective(done[a]) /\ stops[a] <= 1

\* Every message sent is eventually handled or reported as a dead letter, also
\* when a busy actor shares the worker (max_messages_per_turn).
AllSettled == []<>(\A c \in Clients : InFlight(c) = {} /\ Waiting = {})

\* A stop that is requested of an actor whose on_start() is over is carried out:
\* the request races the actor going idle (system.cpp:607-609), the budget and a
\* busy neighbour on the same worker.
StopServiced ==
    \A c \in Clients, a \in Actors :
        At(c, "unblock") /\ On(c) = a /\ ~Starting(a) ~> m_state[a] = "stopped"

\* A stop that was requested is carried out, and stop_actor() returns, whenever
\* it was requested (system.h:394-398).
StopCompletes ==
    \A a \in Actors : m_phase[a] = "requested" ~> m_state[a] = "stopped"
=============================================================================
