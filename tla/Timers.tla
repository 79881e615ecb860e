------------------------------- MODULE Timers -------------------------------
(***************************************************************************)
(* timer_manager and the timer calls of one actor: schedule_once() and     *)
(* schedule_periodic(), cancel_timer(), the timer thread that fires        *)
(* outside its lock, the cancellation of all timers by a stop or by the    *)
(* system's shutdown, and stopping and restarting the timer thread.        *)
(*                                                                         *)
(* Everything done under m_mutex is one step.  A notification is a step    *)
(* of its own, because it is sent after the lock is released.  What the    *)
(* fired message meets in the mailbox is the business of Scheduler.        *)
(***************************************************************************)
EXTENDS Integers, FiniteSets

CONSTANTS
    MaxTimers,      \* bound: timers scheduled in all
    MaxTime,        \* bound: the clock's last value
    Delays,         \* delays and intervals in use
    PruneAt,        \* 64 in the code: m_active_timers is pruned at this size
    MaxStarts       \* bound: how often the system is started

ASSUME BoundAssumption == /\ MaxTimers \in Nat /\ MaxTime \in Nat /\ MaxStarts \in Nat
                          /\ PruneAt \in Nat /\ Delays \subseteq Nat

INVALID_TIMER_ID == 0
TimerIds         == 1..MaxTimers

VARIABLES
    now,
    m_next_timer_id,
    m_timer_queue,      \* the timers in the priority queue
    m_timer_lookup,
    m_callbacks,        \* the timers that have a callback
    cancelled,          \* the timers with this flag
    next_fire_time, interval,
    thread,             \* the timer thread's step
    deadline,           \* until when it waits
    notified,           \* it has been notified since it began to wait
    stop_requested,     \* its stop token
    main,               \* what start() and wait_for_shutdown() are at
    starts,
    m_state, m_stop_phase,
    claimed,            \* m_stop_executor is set: service_stop() has begun
    ending,             \* which cancel_actor_timers() the actor's thread is in
    pc,                 \* the timer call the actor's thread is in
    id,                 \* the timer of that call
    m_active_timers, m_timer_prune_at,
    first,              \* history: when each timer was to fire first
    fired,              \* history: how often each timer was taken to be fired
    revoked             \* history: timers that cancel() has been through

store  == <<m_timer_queue, m_timer_lookup, m_callbacks, cancelled>>
times  == <<m_next_timer_id, next_fire_time, interval, first>>
waiter == <<thread, deadline, notified>>
system == <<stop_requested, main, starts>>
phase  == <<m_state, m_stop_phase, claimed, ending>>
call   == <<pc, id>>
track  == <<m_active_timers, m_timer_prune_at>>
vars   == <<now, store, times, waiter, system, phase, call, track, fired, revoked>>

Init ==
    /\ now = 0
    /\ m_next_timer_id = 1
    /\ m_timer_queue = {} /\ m_timer_lookup = {} /\ m_callbacks = {} /\ cancelled = {}
    /\ next_fire_time = [t \in TimerIds |-> 0]
    /\ interval = [t \in TimerIds |-> 0]
    /\ thread = "none" /\ deadline = 0 /\ notified = FALSE
    /\ stop_requested = FALSE /\ main = "idle" /\ starts = 0
    /\ m_state = "running" /\ m_stop_phase = "none" /\ claimed = FALSE /\ ending = "no"
    /\ pc = "code" /\ id = INVALID_TIMER_ID
    /\ m_active_timers = {} /\ m_timer_prune_at = PruneAt
    /\ first = [t \in TimerIds |-> 0]
    /\ fired = [t \in TimerIds |-> 0]
    /\ revoked = {}

Tick ==
    /\ now < MaxTime
    /\ now' = now + 1
    /\ UNCHANGED <<store, times, waiter, system, phase, call, track, fired, revoked>>

-----------------------------------------------------------------------------
(* The actor's thread: user code and its timer calls                       *)

\* User code of the actor runs, or may be called: on_start(), a handler, or
\* on_shutdown() of a system shutdown.
Free == pc = "code" /\ ending = "no" /\ m_state # "stopped" /\ main # "joined"

InHook == m_stop_phase = "system_shutdown" /\ m_state = "running"

\* schedule_timer() up to the lock.  A stopping actor gets no timer.
ScheduleTimer(delay, repeat) ==
    /\ Free
    /\ m_next_timer_id <= MaxTimers
    /\ IF m_state = "running"
       THEN /\ id' = m_next_timer_id
            /\ m_next_timer_id' = m_next_timer_id + 1
            /\ next_fire_time' = [next_fire_time EXCEPT ![id'] = now + delay]
            /\ first' = [first EXCEPT ![id'] = now + delay]
            /\ interval' = [interval EXCEPT ![id'] = repeat]
            /\ pc' = "insert"
       ELSE /\ id' = INVALID_TIMER_ID
            /\ pc' = "track"
            /\ UNCHANGED times
    /\ UNCHANGED <<now, store, waiter, system, phase, track, fired, revoked>>

ScheduleOnce     == \E d \in Delays : ScheduleTimer(d, 0)
SchedulePeriodic == \E d \in Delays : ScheduleTimer(d, d)

Insert ==
    /\ pc = "insert"
    /\ m_timer_queue' = m_timer_queue \cup {id}
    /\ m_timer_lookup' = m_timer_lookup \cup {id}
    /\ m_callbacks' = m_callbacks \cup {id}
    /\ pc' = "notify"
    /\ UNCHANGED <<now, cancelled, times, waiter, system, phase, id, track, fired, revoked>>

\* notify_one(), which has an effect on a thread that waits.
NotifyOne == notified' = (notified \/ thread \in {"wait", "wait_until"})

\* Slip: schedule() does not notify.
NotifyNobody ==
    /\ pc = "notify"
    /\ pc' = "track"
    /\ UNCHANGED <<now, store, times, waiter, system, phase, id, track, fired, revoked>>

Notify ==
    /\ pc = "notify"
    /\ NotifyOne
    /\ pc' = "track"
    /\ UNCHANGED <<now, store, times, thread, deadline, system, phase, id, track, fired, revoked>>

\* retain_active().
Retained(ids) == ids \cap m_callbacks

Larger(m, n) == IF m > n THEN m ELSE n

\* track_timer() of a timer, where keep is what pruning leaves.
TrackTimer(keep) ==
    /\ pc = "track"
    /\ IF Cardinality(m_active_timers) >= m_timer_prune_at
       THEN /\ m_active_timers' = keep \cup {id}
            /\ m_timer_prune_at' = Larger(PruneAt, 2 * Cardinality(keep))
       ELSE /\ m_active_timers' = m_active_timers \cup {id}
            /\ UNCHANGED m_timer_prune_at
    /\ pc' = "code"
    /\ id' = INVALID_TIMER_ID
    /\ UNCHANGED <<now, store, times, waiter, system, phase, fired, revoked>>

\* Slip: a timer that has fired is taken for finished.
TrackForgetsPeriodic ==
    /\ id # INVALID_TIMER_ID
    /\ TrackTimer({t \in m_active_timers : fired[t] = 0})

Track ==
    \/ id # INVALID_TIMER_ID /\ TrackTimer(Retained(m_active_timers))
    \/ /\ pc = "track"
       /\ id = INVALID_TIMER_ID
       /\ pc' = "code"
       /\ UNCHANGED <<now, store, times, waiter, system, phase, id, track, fired, revoked>>

\* cancel_timer() from user code, or the next timer of cancel_actor_timers().
CancelTimer(t) ==
    /\ \/ Free /\ t < m_next_timer_id
       \/ pc = "code" /\ ending # "no" /\ t \in m_active_timers
    /\ m_active_timers' = m_active_timers \ {t}
    /\ id' = t
    /\ pc' = "cancel"
    /\ UNCHANGED <<now, store, times, waiter, system, phase, m_timer_prune_at, fired, revoked>>

\* cancel(): the timer stays in the queue, with its flag set.
Cancel ==
    /\ pc = "cancel"
    /\ cancelled' = cancelled \cup ({id} \cap m_timer_lookup)
    /\ m_timer_lookup' = m_timer_lookup \ {id}
    /\ m_callbacks' = m_callbacks \ {id}
    /\ revoked' = revoked \cup {id}
    /\ pc' = "cancelled"
    /\ UNCHANGED <<now, m_timer_queue, times, waiter, system, phase, id, track, fired>>

CancelNotify ==
    /\ pc = "cancelled"
    /\ NotifyOne
    /\ pc' = "code"
    /\ id' = INVALID_TIMER_ID
    /\ UNCHANGED <<now, store, times, thread, deadline, system, phase, track, fired, revoked>>

-----------------------------------------------------------------------------
(* The end of the actor                                                    *)

\* stop_actor(): the claim and the end of intake.
StopActor ==
    /\ m_state = "running" /\ m_stop_phase = "none"
    /\ m_state' = "stopping"
    /\ m_stop_phase' = "requested"
    /\ UNCHANGED <<now, store, times, waiter, system, claimed, ending, call, track, fired, revoked>>

\* service_stop(): all timers are cancelled at the first entry, and once more
\* after draining and the hooks.
ServiceStop ==
    /\ Free
    /\ m_stop_phase = "requested"
    /\ claimed' = TRUE
    /\ ending' = IF claimed THEN "last" ELSE "drain"
    /\ UNCHANGED <<now, store, times, waiter, system, m_state, m_stop_phase, call, track, fired,
                   revoked>>

\* dispatch_message() of system_shutdown: on_shutdown() begins, unless a stop has
\* claimed the actor.
OnShutdown ==
    /\ Free
    /\ main # "idle"
    /\ m_stop_phase = "none"
    /\ m_stop_phase' = "system_shutdown"
    /\ UNCHANGED <<now, store, times, waiter, system, m_state, claimed, ending, call, track,
                   fired, revoked>>

\* on_shutdown() has returned.
AfterHook(next, state) ==
    /\ Free
    /\ InHook
    /\ ending' = next
    /\ m_state' = state
    /\ UNCHANGED <<now, store, times, waiter, system, m_stop_phase, claimed, call, track, fired,
                   revoked>>

HookDone == AfterHook("hook", m_state)

\* The end of cancel_actor_timers(), and what follows it.
AllCancelled ==
    /\ ending # "no"
    /\ pc = "code"
    /\ m_active_timers = {}
    /\ \/ ending = "drain" /\ UNCHANGED m_state
       \/ ending = "hook"  /\ m_state' = "stopping"
       \/ ending = "last"  /\ m_state' = "stopped"
    /\ ending' = "no"
    /\ UNCHANGED <<now, store, times, waiter, system, m_stop_phase, claimed, call, track, fired,
                   revoked>>

-----------------------------------------------------------------------------
(* timer_thread_func()                                                     *)

\* top() of the queue; which one of several with the same time is open.
IsHead(t) == /\ t \in m_timer_queue
             /\ \A u \in m_timer_queue : next_fire_time[t] <= next_fire_time[u]

\* The wait for a timer: woken up, it goes on if there is one, with no further
\* look at the stop token.
Woken == thread = "wait" /\ (notified \/ stop_requested)
AtHead(t) == /\ IsHead(t)
             /\ (thread = "top" /\ ~stop_requested) \/ Woken

ThreadExit ==
    /\ stop_requested
    /\ thread = "top" \/ (thread = "wait" /\ m_timer_queue = {})
    /\ thread' = "exited"
    /\ notified' = FALSE
    /\ UNCHANGED <<now, store, times, deadline, system, phase, call, track, fired, revoked>>

WaitForTimer ==
    /\ m_timer_queue = {}
    /\ ~stop_requested
    /\ thread = "top" \/ (thread = "wait" /\ notified)
    /\ thread' = "wait"
    /\ notified' = FALSE
    /\ UNCHANGED <<now, store, times, deadline, system, phase, call, track, fired, revoked>>

DropCancelled(t) ==
    /\ AtHead(t)
    /\ t \in cancelled
    /\ m_timer_queue' = m_timer_queue \ {t}
    /\ thread' = "top"
    /\ notified' = FALSE
    /\ UNCHANGED <<now, m_timer_lookup, m_callbacks, cancelled, times, deadline, system, phase,
                   call, track, fired, revoked>>

WaitUntil(t) ==
    /\ AtHead(t)
    /\ t \notin cancelled
    /\ now < next_fire_time[t]
    /\ deadline' = next_fire_time[t]
    /\ thread' = "wait_until"
    /\ notified' = FALSE
    /\ UNCHANGED <<now, store, times, system, phase, call, track, fired, revoked>>

\* The wait ends at the deadline, with the stop token, or when it is woken up
\* and the condition holds; else it goes on.
EndWait(condition) ==
    /\ thread = "wait_until"
    /\ notified \/ stop_requested \/ now >= deadline
    /\ IF stop_requested \/ now >= deadline \/ condition
       THEN thread' = "top" /\ deadline' = 0
       ELSE UNCHANGED <<thread, deadline>>
    /\ notified' = FALSE
    /\ UNCHANGED <<now, store, times, system, phase, call, track, fired, revoked>>

\* Slip: a timer scheduled meanwhile with an earlier time is not noticed.
WakeUntilBlind == EndWait(\E t \in m_timer_queue : IsHead(t) /\ t \in cancelled)

\* Slip: the wait does not know the stop token.
WakeUntilDeaf ==
    /\ notified \/ now >= deadline
    /\ \E t \in m_timer_queue :
          IsHead(t) /\ EndWait(t \in cancelled \/ next_fire_time[t] < deadline)

WakeUntil ==
    \E t \in TimerIds :
        /\ m_timer_queue = {} \/ IsHead(t)
        /\ EndWait(m_timer_queue = {} \/ t \in cancelled \/ next_fire_time[t] < deadline)

\* The timer is taken; a periodic one goes back with its next time, a one-shot is
\* forgotten.  The lock is released.
Take(t, next) ==
    /\ AtHead(t)
    /\ now >= next_fire_time[t]
    /\ IF interval[t] > 0
       THEN /\ next_fire_time' = [next_fire_time EXCEPT ![t] = next]
            /\ UNCHANGED store
       ELSE /\ m_timer_queue' = m_timer_queue \ {t}
            /\ m_timer_lookup' = m_timer_lookup \ {t}
            /\ m_callbacks' = m_callbacks \ {t}
            /\ UNCHANGED <<next_fire_time, cancelled>>
    /\ fired' = [fired EXCEPT ![t] = @ + 1]
    /\ thread' = "callback"
    /\ notified' = FALSE
    /\ UNCHANGED <<now, m_next_timer_id, interval, first, deadline, system, phase, call, track,
                   revoked>>

\* Slip: neither the flag nor the callback is looked at.
FireUnchecked(t) == Take(t, next_fire_time[t] + interval[t])

\* Slip: the next time is counted from now.
FireDrifts(t) ==
    /\ t \in m_callbacks \ cancelled
    /\ Take(t, now + interval[t])

Fire(t) ==
    /\ t \in m_callbacks \ cancelled
    /\ Take(t, next_fire_time[t] + interval[t])

\* The callback has sent the message (or found the actor gone).
CallbackDone ==
    /\ thread = "callback"
    /\ thread' = "top"
    /\ UNCHANGED <<now, store, times, deadline, notified, system, phase, call, track, fired,
                   revoked>>

-----------------------------------------------------------------------------
(* start(), wait_for_shutdown() and reset()                                *)

Start ==
    /\ main = "idle"
    /\ starts < MaxStarts
    /\ starts' = starts + 1
    /\ main' = "running"
    /\ thread' = "top"
    /\ stop_requested' = FALSE
    /\ UNCHANGED <<now, store, times, deadline, notified, phase, call, track, fired, revoked>>

\* stop(), up to the join.
RequestStop ==
    /\ main = "running"
    /\ stop_requested' = TRUE
    /\ main' = "join"
    /\ UNCHANGED <<now, store, times, waiter, starts, phase, call, track, fired, revoked>>

\* The timer thread is joined and all timers are cleared.
JoinTimerThread ==
    /\ main = "join"
    /\ thread = "exited"
    /\ thread' = "none"
    /\ m_timer_queue' = {} /\ m_timer_lookup' = {} /\ m_callbacks' = {}
    /\ main' = "workers"
    /\ UNCHANGED <<now, cancelled, times, deadline, notified, stop_requested, starts, phase, call,
                   track, fired, revoked>>

\* The workers are joined: no user code of the actor runs any more.
JoinWorkers ==
    /\ main = "workers"
    /\ pc = "code" /\ ending = "no" /\ ~InHook
    /\ main' = "joined"
    /\ UNCHANGED <<now, store, times, waiter, stop_requested, starts, phase, call, track, fired,
                   revoked>>

\* The last loop of wait_for_shutdown().
FinalStop ==
    /\ main = "joined"
    /\ ending = "no" /\ m_state # "stopped"
    /\ ending' = "last"
    /\ UNCHANGED <<now, store, times, waiter, system, m_state, m_stop_phase, claimed, call, track,
                   fired, revoked>>

Reset ==
    /\ main = "joined"
    /\ m_state = "stopped"
    /\ main' = "idle"
    /\ UNCHANGED <<now, store, times, waiter, stop_requested, starts, phase, call, track, fired,
                   revoked>>

-----------------------------------------------------------------------------
UserCode == ScheduleOnce \/ SchedulePeriodic \/ \E t \in TimerIds : Free /\ CancelTimer(t)

TimerCall ==
    \/ Insert \/ Notify \/ Track \/ Cancel \/ CancelNotify
    \/ \E t \in m_active_timers : ending # "no" /\ CancelTimer(t)

ActorEnd == ServiceStop \/ HookDone \/ AllCancelled

TimerThread ==
    \/ ThreadExit \/ WaitForTimer \/ WakeUntil \/ CallbackDone
    \/ \E t \in TimerIds : DropCancelled(t) \/ WaitUntil(t) \/ Fire(t)

WaitForShutdown == JoinTimerThread \/ JoinWorkers \/ FinalStop \/ Reset

Next ==
    \/ UserCode \/ TimerCall \/ StopActor \/ OnShutdown \/ ActorEnd
    \/ TimerThread \/ Start \/ RequestStop \/ WaitForShutdown \/ Tick

\* Threads keep running.  Nobody has to schedule, stop or start anything, and
\* time need not pass.
Fairness ==
    /\ WF_vars(TimerThread)
    /\ WF_vars(TimerCall) /\ WF_vars(ActorEnd)
    /\ WF_vars(WaitForShutdown)

Spec == Init /\ [][Next]_vars /\ Fairness

-----------------------------------------------------------------------------
(* Properties                                                              *)

StoreType ==
    /\ m_timer_queue \subseteq TimerIds /\ m_timer_lookup \subseteq TimerIds
    /\ m_callbacks \subseteq TimerIds /\ cancelled \subseteq TimerIds
    /\ m_active_timers \subseteq TimerIds /\ revoked \subseteq TimerIds
    /\ m_timer_prune_at \in Nat

TimeType ==
    /\ now \in 0..MaxTime
    /\ m_next_timer_id \in 1..(MaxTimers + 1)
    /\ next_fire_time \in [TimerIds -> Nat] /\ first \in [TimerIds -> Nat]
    /\ interval \in [TimerIds -> Nat] /\ fired \in [TimerIds -> Nat]

ThreadType ==
    /\ thread \in {"none", "top", "wait", "wait_until", "callback", "exited"}
    /\ deadline \in Nat /\ notified \in BOOLEAN /\ stop_requested \in BOOLEAN
    /\ main \in {"idle", "running", "join", "workers", "joined"}
    /\ starts \in 0..MaxStarts

ActorType ==
    /\ m_state \in {"running", "stopping", "stopped"}
    /\ m_stop_phase \in {"none", "requested", "system_shutdown"}
    /\ claimed \in BOOLEAN /\ ending \in {"no", "drain", "hook", "last"}
    /\ pc \in {"code", "insert", "notify", "track", "cancel", "cancelled"}
    /\ id \in TimerIds \cup {INVALID_TIMER_ID}

\* Every variable has its type; only timers that were scheduled are tracked.
TypeOK == StoreType /\ TimeType /\ ThreadType /\ ActorType

\* A timer that can still fire is known to its actor (or is being entered or
\* cancelled right now), however often the set was pruned: cancel_actor_timers()
\* finds it.
StopFindsAll ==
    m_callbacks \subseteq m_active_timers \cup (IF pc = "code" THEN {} ELSE {id})

\* An actor that is past its last on_shutdown() or whose stop is being serviced
\* has no timer that could fire: also none scheduled by the hook, none by a
\* handler that raced with stop_actor(), none after a restart of the system.
NoTimerLeft ==
    (\/ m_state = "stopped"
     \/ m_state = "stopping" /\ m_stop_phase = "system_shutdown"
     \/ claimed /\ ending # "drain")
        => m_callbacks = {} /\ m_timer_lookup = {} /\ m_timer_queue \subseteq cancelled

\* The timer thread does not sleep past a timer: while it waits nothing in the
\* queue is due earlier than its deadline and what it waits for is not cancelled,
\* unless a notification has been sent or is about to be.
NoOversleep ==
    notified \/ pc \in {"notify", "cancelled"} \/
        /\ thread = "wait" => m_timer_queue = {}
        /\ thread = "wait_until" =>
             /\ \A t \in m_timer_queue : next_fire_time[t] >= deadline
             /\ \E t \in m_timer_queue \ cancelled : next_fire_time[t] = deadline

\* The n-th firing of a timer is due n - 1 intervals after the first, however late
\* the earlier ones were taken: never sooner, without drift, and once for a one-shot.
OnSchedule ==
    \A t \in TimerIds :
        /\ next_fire_time[t] = first[t] + fired[t] * interval[t]
        /\ fired[t] > 0 => now >= first[t] + (fired[t] - 1) * interval[t]
        /\ interval[t] = 0 => fired[t] <= 1

\* A timer that cancel() has been through is never taken again; the one firing that
\* may still be under way was taken before.
CancelIsFinal == [][\A t \in revoked : fired'[t] = fired[t]]_vars

\* A timer that is due is fired, or cancelled, unless the timer thread stops.
DueFires ==
    \A t \in TimerIds :
        (t \in m_callbacks /\ next_fire_time[t] <= now)
            ~> \/ t \notin m_callbacks \/ next_fire_time[t] > now
               \/ stop_requested \/ thread = "none"

\* stop() returns, however far off the next timer is.
StopEnds == main = "join" ~> main = "workers"
=============================================================================
