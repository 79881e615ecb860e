---------------------------- MODULE TimersProofs ----------------------------
(***************************************************************************)
(* What holds of the timers for any number of them, any delays, any        *)
(* pruning threshold and any number of restarts.                           *)
(***************************************************************************)
EXTENDS Timers, FiniteSetTheorems, TLAPS

\* The lookup table and the callbacks are about the same timers, which are not
\* cancelled; everything else in the queue is.
Tables ==
    /\ m_timer_lookup = m_callbacks
    /\ m_timer_queue \subseteq m_callbacks \cup cancelled
    /\ revoked \cap m_callbacks = {}

\* A timer id is used once.
Fresh ==
    /\ \A t \in m_timer_queue \cup m_callbacks \cup revoked \cup m_active_timers :
          t < m_next_timer_id
    /\ \A t \in TimerIds : t >= m_next_timer_id => fired[t] = 0
    /\ \A t \in m_callbacks : interval[t] = 0 => fired[t] = 0
    /\ pc \in {"insert", "notify", "cancel", "cancelled"} => id \in TimerIds
    /\ pc # "code" => id < m_next_timer_id
    /\ pc = "cancelled" => id \in revoked
    /\ pc = "insert" => /\ id \notin m_timer_queue \cup m_callbacks \cup revoked
                        /\ fired[id] = 0

\* How far the end of the actor is.
Phases ==
    /\ m_stop_phase = "none" => m_state # "stopping"
    /\ m_state = "running" => m_stop_phase # "requested"
    /\ claimed => m_stop_phase = "requested" /\ m_state # "running"
    /\ ending = "hook" => m_stop_phase = "system_shutdown"

\* The actor can have no timer any more.
Ended ==
    \/ m_state = "stopped"
    \/ m_state = "stopping" /\ m_stop_phase = "system_shutdown"
    \/ claimed /\ ending # "drain"

Finished == Ended => m_callbacks = {} /\ pc # "insert"

\* The timer the thread waits for is still in the queue, cancelled or not.
Waited == thread = "wait_until" => \E t \in m_timer_queue : next_fire_time[t] = deadline

-----------------------------------------------------------------------------
\* The timers are finitely many.
LEMMA FiniteTimers ==
    ASSUME NEW S, S \subseteq TimerIds
    PROVE  Cardinality(S) \in Nat
<1>1. IsFiniteSet(TimerIds)
  BY FS_Interval, BoundAssumption DEF TimerIds
<1>2. QED
  BY <1>1, FS_Subset, FS_CardinalityType

\* Every step keeps the types, one part of the state after the other.
LEMMA StoreStep ==
    ASSUME TypeOK, Fresh, [Next]_vars
    PROVE  StoreType'
<1> USE DEF TypeOK
<1>1. CASE UserCode
  BY <1>1 DEF StoreType, UserCode, ScheduleOnce, SchedulePeriodic, ScheduleTimer, CancelTimer,
     store, track
<1>2. CASE Insert \/ Notify \/ Cancel \/ CancelNotify
  BY <1>2 DEF StoreType, Fresh, Insert, Notify, Cancel, CancelNotify, store, track
<1>3. CASE Track
  <2> DEFINE keep == Retained(m_active_timers)
  <2>1. keep \subseteq TimerIds
    BY DEF StoreType, Retained
  <2>2. Larger(PruneAt, 2 * Cardinality(keep)) \in Nat
    <3>1. Cardinality(keep) \in Nat
      BY <2>1, FiniteTimers
    <3>2. QED
      BY <3>1, BoundAssumption DEF Larger
  <2>3. m_timer_prune_at' = m_timer_prune_at \/ m_timer_prune_at' = Larger(PruneAt, 2 * Cardinality(keep))
    BY <1>3 DEF Track, TrackTimer, track
  <2>4. m_active_timers' \subseteq m_active_timers \cup TimerIds
    BY <1>3, <2>1 DEF Track, TrackTimer, track, ActorType
  <2>5. UNCHANGED <<store, revoked>>
    BY <1>3 DEF Track, TrackTimer
  <2>6. QED
    BY <2>2, <2>3, <2>4, <2>5 DEF StoreType, store
<1>4. CASE \E t \in m_active_timers : ending # "no" /\ CancelTimer(t)
  BY <1>4 DEF StoreType, CancelTimer, store
<1>5. CASE StopActor \/ OnShutdown \/ ActorEnd
  BY <1>5 DEF StoreType, StopActor, OnShutdown, ActorEnd, ServiceStop, HookDone, AfterHook,
     AllCancelled, store, track
<1>6. CASE TimerThread
  BY <1>6 DEF StoreType, TimerThread, ThreadExit, WaitForTimer, WakeUntil, EndWait, CallbackDone,
     DropCancelled, WaitUntil, Fire, Take, store, track
<1>7. CASE Start \/ RequestStop \/ WaitForShutdown \/ Tick
  BY <1>7 DEF StoreType, Start, RequestStop, WaitForShutdown, JoinTimerThread, JoinWorkers,
     FinalStop, Reset, Tick, store, track
<1>8. CASE UNCHANGED vars
  BY <1>8 DEF StoreType, vars, store, track
<1>9. QED
  BY <1>1, <1>2, <1>3, <1>4, <1>5, <1>6, <1>7, <1>8 DEF Next, TimerCall

\* The types of the clock, of the timers' times and of the next identifier.
LEMMA TimeStep ==
    ASSUME TypeOK, [Next]_vars
    PROVE  TimeType'
<1> USE DEF TypeOK
<1>1. ASSUME NEW d \in Delays, NEW r \in Nat, ScheduleTimer(d, r) PROVE TimeType'
  <2>1. CASE m_state = "running"
    <3>1. m_next_timer_id \in TimerIds /\ now + d \in Nat
      BY <1>1, <2>1, BoundAssumption DEF TimeType, ScheduleTimer, TimerIds
    <3>2. /\ now' = now /\ m_next_timer_id' = m_next_timer_id + 1 /\ fired' = fired
          /\ next_fire_time' = [next_fire_time EXCEPT ![m_next_timer_id] = now + d]
          /\ first' = [first EXCEPT ![m_next_timer_id] = now + d]
          /\ interval' = [interval EXCEPT ![m_next_timer_id] = r]
      BY <1>1, <2>1 DEF ScheduleTimer
    <3>3. m_next_timer_id + 1 \in 1..(MaxTimers + 1)
      BY <3>1, BoundAssumption DEF TimerIds
    <3>4. QED
      BY <3>1, <3>2, <3>3 DEF TimeType
  <2>2. CASE m_state # "running"
    BY <1>1, <2>2 DEF TimeType, ScheduleTimer, times
  <2>3. QED
    BY <2>1, <2>2
<1>2. CASE ScheduleOnce \/ SchedulePeriodic
  BY <1>1, <1>2, BoundAssumption DEF ScheduleOnce, SchedulePeriodic
<1>3. CASE TimerCall \/ \E t \in TimerIds : CancelTimer(t)
  BY <1>3 DEF TimeType, TimerCall, CancelTimer, Insert, Notify, Cancel, CancelNotify, Track,
     TrackTimer, times
<1>4. CASE StopActor \/ OnShutdown \/ ActorEnd
  BY <1>4 DEF TimeType, StopActor, OnShutdown, ActorEnd, ServiceStop, HookDone, AfterHook,
     AllCancelled, times
<1>5. ASSUME NEW t \in TimerIds, Fire(t) PROVE TimeType'
  BY <1>5 DEF TimeType, Fire, Take
<1>6. CASE TimerThread /\ ~\E t \in TimerIds : Fire(t)
  BY <1>6 DEF TimeType, TimerThread, ThreadExit, WaitForTimer, WakeUntil, EndWait, CallbackDone,
     DropCancelled, WaitUntil, times
<1>7. CASE Start \/ RequestStop \/ WaitForShutdown \/ Tick
  BY <1>7, BoundAssumption DEF TimeType, Start, RequestStop, WaitForShutdown, JoinTimerThread,
     JoinWorkers, FinalStop, Reset, Tick, times
<1>8. CASE UNCHANGED vars
  BY <1>8 DEF TimeType, vars, times
<1>9. QED
  BY <1>2, <1>3, <1>4, <1>5, <1>6, <1>7, <1>8 DEF Next, UserCode

\* The types of where the timer thread is.
LEMMA ThreadStep ==
    ASSUME TypeOK, [Next]_vars
    PROVE  ThreadType'
<1> USE DEF TypeOK
<1>1. CASE UserCode \/ TimerCall
  <2>1. UNCHANGED <<thread, deadline, system>>
    BY <1>1 DEF UserCode, ScheduleOnce, SchedulePeriodic, ScheduleTimer, CancelTimer,
       TimerCall, Insert, Notify, Cancel, CancelNotify, Track, TrackTimer, waiter
  <2>2. notified' = notified \/ notified' = (notified \/ thread \in {"wait", "wait_until"})
    BY <1>1 DEF UserCode, ScheduleOnce, SchedulePeriodic, ScheduleTimer, CancelTimer,
       TimerCall, Insert, Notify, Cancel, CancelNotify, Track, TrackTimer, NotifyOne, waiter
  <2>3. notified' \in BOOLEAN
    BY <2>2 DEF ThreadType
  <2>4. QED
    BY <2>1, <2>3 DEF ThreadType, system
<1>2. CASE StopActor \/ OnShutdown \/ ActorEnd
  <2>1. UNCHANGED <<waiter, system>>
    BY <1>2 DEF StopActor, OnShutdown, ActorEnd, ServiceStop, HookDone, AfterHook, AllCancelled
  <2>2. QED
    BY <2>1 DEF ThreadType, waiter, system
<1>3. CASE TimerThread
  <2>1. UNCHANGED system /\ (notified' = FALSE \/ notified' = notified)
    BY <1>3 DEF TimerThread, ThreadExit, WaitForTimer, WakeUntil, EndWait,
       CallbackDone, DropCancelled, WaitUntil, Fire, Take
  <2>2. /\ deadline' \in Nat
        /\ thread' \in {"none", "top", "wait", "wait_until", "callback", "exited"}
    BY <1>3 DEF ThreadType, TimeType, TimerThread, ThreadExit, WaitForTimer, WakeUntil, EndWait,
       CallbackDone, DropCancelled, WaitUntil, Fire, Take
  <2>3. notified' \in BOOLEAN
    BY <2>1 DEF ThreadType
  <2>4. QED
    BY <2>1, <2>2, <2>3 DEF ThreadType, system
<1>4. CASE Start \/ RequestStop \/ WaitForShutdown \/ Tick
  <2>1. /\ UNCHANGED <<deadline, notified>>
        /\ stop_requested' = FALSE \/ stop_requested' = TRUE \/ stop_requested' = stop_requested
    BY <1>4 DEF Start, RequestStop, WaitForShutdown, JoinTimerThread,
       JoinWorkers, FinalStop, Reset, Tick, waiter, system
  <2>2. /\ thread' \in {"none", "top", "wait", "wait_until", "callback", "exited"}
        /\ main' \in {"idle", "running", "join", "workers", "joined"}
        /\ starts' \in 0..MaxStarts
    BY <1>4, BoundAssumption DEF ThreadType, Start, RequestStop, WaitForShutdown, JoinTimerThread,
       JoinWorkers, FinalStop, Reset, Tick, waiter, system
  <2>3. stop_requested' \in BOOLEAN
    BY <2>1 DEF ThreadType
  <2>4. QED
    BY <2>1, <2>2, <2>3 DEF ThreadType
<1>5. CASE UNCHANGED vars
  BY <1>5 DEF ThreadType, vars, waiter, system
<1>6. QED
  BY <1>1, <1>2, <1>3, <1>4, <1>5 DEF Next

\* The types of the actor's state and calls.
LEMMA ActorStep ==
    ASSUME TypeOK, [Next]_vars
    PROVE  ActorType'
<1> USE DEF TypeOK
<1>1. CASE UserCode \/ TimerCall
  <2>1. UNCHANGED phase
    BY <1>1 DEF UserCode, ScheduleOnce, SchedulePeriodic, ScheduleTimer, CancelTimer,
       TimerCall, Insert, Notify, Cancel, CancelNotify, Track, TrackTimer
  <2>2. m_next_timer_id <= MaxTimers => m_next_timer_id \in TimerIds
    BY BoundAssumption DEF TimerIds, TimeType
  <2>3. id' \in TimerIds \cup {INVALID_TIMER_ID}
    BY <1>1, <2>2 DEF ActorType, UserCode, ScheduleOnce, SchedulePeriodic, ScheduleTimer,
       CancelTimer, TimerCall, Insert, Notify, Cancel, CancelNotify, Track, TrackTimer, StoreType
  <2>4. pc' \in {"code", "insert", "notify", "track", "cancel", "cancelled"}
    BY <1>1 DEF UserCode, ScheduleOnce, SchedulePeriodic, ScheduleTimer,
       CancelTimer, TimerCall, Insert, Notify, Cancel, CancelNotify, Track, TrackTimer
  <2>5. QED
    BY <2>1, <2>3, <2>4 DEF ActorType, phase
<1>2. CASE StopActor \/ OnShutdown \/ ActorEnd
  BY <1>2 DEF ActorType, StopActor, OnShutdown, ActorEnd, ServiceStop, HookDone, AfterHook,
     AllCancelled, call
<1>3. CASE TimerThread
  BY <1>3 DEF ActorType, TimerThread, ThreadExit, WaitForTimer, WakeUntil, EndWait,
     CallbackDone, DropCancelled, WaitUntil, Fire, Take, phase, call
<1>4. CASE Start \/ RequestStop \/ WaitForShutdown \/ Tick
  BY <1>4 DEF ActorType, Start, RequestStop, WaitForShutdown, JoinTimerThread, JoinWorkers,
     FinalStop, Reset, Tick, phase, call
<1>5. CASE UNCHANGED vars
  BY <1>5 DEF ActorType, vars, phase, call
<1>6. QED
  BY <1>1, <1>2, <1>3, <1>4, <1>5 DEF Next

\* Every step keeps the tables consistent, and uses an id once.
LEMMA TableStep ==
    ASSUME TypeOK, Tables, Fresh, [Next]_vars
    PROVE  Tables'
<1>1. CASE UserCode \/ Notify \/ Track \/ CancelNotify
           \/ \E t \in m_active_timers : ending # "no" /\ CancelTimer(t)
  BY <1>1 DEF Tables, UserCode, ScheduleOnce, SchedulePeriodic, ScheduleTimer, CancelTimer,
     Notify, Track, TrackTimer, CancelNotify, store
<1>2. CASE Insert \/ Cancel
  BY <1>2 DEF Tables, Fresh, Insert, Cancel
<1>3. CASE StopActor \/ OnShutdown \/ ActorEnd
  BY <1>3 DEF Tables, StopActor, OnShutdown, ActorEnd, ServiceStop, HookDone, AfterHook,
     AllCancelled, store
<1>4. CASE TimerThread
  BY <1>4 DEF Tables, TimerThread, ThreadExit, WaitForTimer, WakeUntil, EndWait, CallbackDone,
     DropCancelled, WaitUntil, Fire, Take, store
<1>5. CASE Start \/ RequestStop \/ WaitForShutdown \/ Tick
  BY <1>5 DEF Tables, Start, RequestStop, WaitForShutdown, JoinTimerThread, JoinWorkers,
     FinalStop, Reset, Tick, store
<1>6. CASE UNCHANGED vars
  BY <1>6 DEF Tables, vars, store
<1>7. QED
  BY <1>1, <1>2, <1>3, <1>4, <1>5, <1>6 DEF Next, TimerCall

\* Identifiers are handed out once.
LEMMA FreshStep ==
    ASSUME TypeOK, Tables, Fresh, [Next]_vars
    PROVE  Fresh'
<1> USE DEF TypeOK
<1> m_next_timer_id \in Nat /\ 0 < m_next_timer_id /\ \A t \in TimerIds : t \in Nat
  BY BoundAssumption DEF TimeType, TimerIds
<1>1. ASSUME NEW d, NEW r, ScheduleTimer(d, r) PROVE Fresh'
  <2>1. CASE m_state = "running"
    <3> DEFINE n == m_next_timer_id
    <3>1. n \in TimerIds
      BY <1>1, <2>1, BoundAssumption DEF TimeType, ScheduleTimer, TimerIds
    <3>2. /\ n' = n + 1 /\ fired' = fired /\ pc' = "insert" /\ id' = n
          /\ UNCHANGED <<store, revoked, m_active_timers>>
          /\ interval' = [interval EXCEPT ![n] = r]
      BY <1>1, <2>1 DEF ScheduleTimer, track
    <3>3. n \notin m_timer_queue \cup m_callbacks \cup revoked /\ fired[n] = 0
      BY <3>1 DEF Fresh
    <3>4. \A t \in m_callbacks : interval'[t] = interval[t]
      BY <3>2, <3>3 DEF TimeType, StoreType
    <3>5. \A t \in m_timer_queue \cup m_callbacks \cup revoked \cup m_active_timers : t \in TimerIds
      BY DEF StoreType
    <3>6. \A t \in TimerIds : t < n => t < n + 1
      OBVIOUS
    <3>7. \A t \in TimerIds : t >= n + 1 => t >= n
      OBVIOUS
    <3>8. n < n + 1
      OBVIOUS
    <3>9. QED
      BY <3>1, <3>2, <3>3, <3>4, <3>5, <3>6, <3>7, <3>8 DEF Fresh, store
  <2>2. CASE m_state # "running"
    BY <1>1, <2>2 DEF Fresh, ScheduleTimer, times, store, track, INVALID_TIMER_ID
  <2>3. QED
    BY <2>1, <2>2
<1>2. CASE ScheduleOnce \/ SchedulePeriodic
  BY <1>1, <1>2 DEF ScheduleOnce, SchedulePeriodic
<1>3. ASSUME NEW t \in TimerIds, CancelTimer(t) PROVE Fresh'
  <2>1. t < m_next_timer_id
    BY <1>3 DEF Fresh, CancelTimer
  <2>2. QED
    BY <1>3, <2>1 DEF Fresh, CancelTimer, times, store
<1>4. CASE Insert \/ Notify
  BY <1>4 DEF Fresh, Insert, Notify, times, store, track
<1>5. CASE Track
  <2>1. /\ pc' = "code" /\ UNCHANGED <<store, times, fired, revoked>>
        /\ \A t \in m_active_timers' : t \in m_active_timers \/ (t = id /\ pc = "track")
    BY <1>5 DEF Track, TrackTimer, Retained, track
  <2>2. QED
    BY <2>1 DEF Fresh, times, store
<1>6. CASE Cancel \/ CancelNotify
  BY <1>6 DEF Fresh, Cancel, CancelNotify, times, store, track
<1>7. CASE StopActor \/ OnShutdown \/ ActorEnd
  BY <1>7 DEF Fresh, StopActor, OnShutdown, ActorEnd, ServiceStop, HookDone, AfterHook,
     AllCancelled, store, times, track, call
<1>8. ASSUME NEW t \in TimerIds, Fire(t) PROVE Fresh'
  <2>1. /\ t \in m_callbacks
        /\ UNCHANGED <<interval, m_next_timer_id, call, revoked, m_active_timers>>
        /\ fired' = [fired EXCEPT ![t] = @ + 1]
        /\ m_timer_queue' \subseteq m_timer_queue /\ m_callbacks' \subseteq m_callbacks
        /\ interval[t] = 0 => t \notin m_callbacks'
    BY <1>8 DEF Fire, Take, store, track, TimeType
  <2>2. \A u \in TimerIds : u # t => fired'[u] = fired[u]
    BY <2>1 DEF TimeType
  <2>3. t < m_next_timer_id /\ (pc = "insert" => id # t)
    BY <2>1 DEF Fresh
  <2>4. QED
    BY <2>1, <2>2, <2>3 DEF Fresh, call, StoreType
<1>9. CASE TimerThread /\ ~\E t \in TimerIds : Fire(t)
  BY <1>9 DEF Fresh, TimerThread, ThreadExit, WaitForTimer, WakeUntil, EndWait, CallbackDone,
     DropCancelled, WaitUntil, times, store, track, call
<1>10. CASE Start \/ RequestStop \/ WaitForShutdown \/ Tick
  BY <1>10 DEF Fresh, Start, RequestStop, WaitForShutdown, JoinTimerThread, JoinWorkers,
     FinalStop, Reset, Tick, times, store, track, call
<1>11. CASE UNCHANGED vars
  BY <1>11 DEF Fresh, vars, times, store, track, call
<1>12. QED
  BY <1>2, <1>3, <1>4, <1>5, <1>6, <1>7, <1>8, <1>9, <1>10, <1>11
     DEF Next, UserCode, TimerCall, StoreType

\* A timer that can fire is known to the actor.
LEMMA FindStep ==
    ASSUME TypeOK, Tables, Fresh, StopFindsAll, [Next]_vars
    PROVE  StopFindsAll'
<1>1. CASE UserCode \/ TimerCall
  <2>1. CASE UserCode \/ \E t \in m_active_timers : ending # "no" /\ CancelTimer(t)
    <3>1. /\ UNCHANGED m_callbacks /\ pc = "code" /\ pc' # "code"
          /\ m_active_timers \subseteq m_active_timers' \cup {id'}
      BY <2>1 DEF UserCode, ScheduleOnce, SchedulePeriodic, ScheduleTimer, CancelTimer, Free,
         store, track
    <3>2. QED
      BY <3>1 DEF StopFindsAll
  <2>2. CASE Insert \/ Notify \/ Cancel \/ CancelNotify
    BY <2>2 DEF StopFindsAll, Tables, Fresh, Insert, Notify, Cancel, CancelNotify, store, track
  <2>3. CASE Track
    <3>1. 0 \notin m_callbacks
      BY DEF TypeOK, StoreType, TimerIds
    <3>2. /\ pc = "track" /\ pc' = "code" /\ UNCHANGED store
          /\ \A t \in m_callbacks : t \in m_active_timers \/ (t = id /\ id # INVALID_TIMER_ID) =>
                t \in m_active_timers'
      BY <2>3 DEF Track, TrackTimer, Retained, track
    <3>3. QED
      BY <3>1, <3>2 DEF StopFindsAll, store, INVALID_TIMER_ID
  <2>4. QED
    BY <1>1, <2>1, <2>2, <2>3 DEF TimerCall
<1>2. CASE StopActor \/ OnShutdown \/ ActorEnd
  BY <1>2 DEF StopFindsAll, StopActor, OnShutdown, ActorEnd, ServiceStop, HookDone, AfterHook,
     AllCancelled, store, track, call
<1>3. CASE TimerThread
  BY <1>3 DEF StopFindsAll, TimerThread, ThreadExit, WaitForTimer, WakeUntil, EndWait,
     CallbackDone, DropCancelled, WaitUntil, Fire, Take, store, track, call
<1>4. CASE Start \/ RequestStop \/ WaitForShutdown \/ Tick
  BY <1>4 DEF StopFindsAll, Start, RequestStop, WaitForShutdown, JoinTimerThread, JoinWorkers,
     FinalStop, Reset, Tick, store, track, call
<1>5. CASE UNCHANGED vars
  BY <1>5 DEF StopFindsAll, vars, store, track, call
<1>6. QED
  BY <1>1, <1>2, <1>3, <1>4, <1>5 DEF Next

\* The end of the actor goes one way.
LEMMA PhaseStep ==
    ASSUME TypeOK, Phases, [Next]_vars
    PROVE  Phases'
<1>1. CASE UserCode \/ TimerCall \/ TimerThread
  BY <1>1 DEF Phases, UserCode, ScheduleOnce, SchedulePeriodic, ScheduleTimer, CancelTimer,
     TimerCall, Insert, Notify, Cancel, CancelNotify, Track, TrackTimer,
     TimerThread, ThreadExit, WaitForTimer, WakeUntil, EndWait,
     CallbackDone, DropCancelled, WaitUntil, Fire, Take, phase
<1>2. CASE StopActor \/ OnShutdown \/ ActorEnd
  BY <1>2 DEF TypeOK, ActorType, Phases, StopActor, OnShutdown, ActorEnd, ServiceStop, HookDone,
     AfterHook, AllCancelled, Free, InHook
<1>3. CASE Start \/ RequestStop \/ WaitForShutdown \/ Tick
  BY <1>3 DEF Phases, Start, RequestStop, WaitForShutdown, JoinTimerThread, JoinWorkers,
     FinalStop, Reset, Tick, phase
<1>4. CASE UNCHANGED vars
  BY <1>4 DEF Phases, vars, phase
<1>5. QED
  BY <1>1, <1>2, <1>3, <1>4 DEF Next

\* Once the actor has ended, no timer is entered.
LEMMA EndStep ==
    ASSUME TypeOK, StopFindsAll, Phases, Finished, [Next]_vars
    PROVE  Finished'
<1>1. CASE UserCode \/ TimerCall
  <2>1. UNCHANGED phase
    BY <1>1 DEF UserCode, ScheduleOnce, SchedulePeriodic, ScheduleTimer, CancelTimer,
       TimerCall, Insert, Notify, Cancel, CancelNotify, Track, TrackTimer
  <2>2. Ended' => Ended /\ m_state # "running"
    BY <2>1 DEF Ended, phase, Phases
  <2>3. Ended => m_callbacks' = {} /\ (m_state # "running" => pc' # "insert")
    BY <1>1 DEF Finished, UserCode, ScheduleOnce, SchedulePeriodic, ScheduleTimer, CancelTimer,
       TimerCall, Insert, Notify, Cancel, CancelNotify, Track, TrackTimer, store
  <2>4. QED
    BY <2>2, <2>3 DEF Finished
<1>2. CASE AllCancelled
  <2>1. m_callbacks' = {} /\ pc' # "insert"
    BY <1>2 DEF AllCancelled, StopFindsAll, store, call
  <2>2. QED
    BY <2>1 DEF Finished
<1>3. CASE StopActor \/ OnShutdown \/ ServiceStop \/ HookDone
  <2>1. UNCHANGED <<m_callbacks, pc>>
    BY <1>3 DEF StopActor, OnShutdown, ServiceStop, HookDone, AfterHook, store, call
  <2>2. Ended' => Ended
    BY <1>3 DEF StopActor, OnShutdown, ServiceStop, HookDone, AfterHook, Ended, Phases, Free,
       TypeOK, ActorType
  <2>3. QED
    BY <2>1, <2>2 DEF Finished
<1>4. CASE TimerThread
  BY <1>4 DEF Finished, Ended, TimerThread, ThreadExit, WaitForTimer, WakeUntil, EndWait,
     CallbackDone, DropCancelled, WaitUntil, Fire, Take, store, phase, call
<1>5. CASE Start \/ RequestStop \/ WaitForShutdown \/ Tick
  BY <1>5 DEF Finished, Ended, Start, RequestStop, WaitForShutdown, JoinTimerThread, JoinWorkers,
     FinalStop, Reset, Tick, store, phase, call
<1>6. CASE UNCHANGED vars
  BY <1>6 DEF Finished, Ended, vars, store, phase, call
<1>7. QED
  BY <1>1, <1>2, <1>3, <1>4, <1>5, <1>6 DEF Next, ActorEnd

\* The timer thread does not lose the timer it waits for, and sleeps past none.
LEMMA WaitStep ==
    ASSUME TypeOK, Fresh, Waited, NoOversleep, [Next]_vars
    PROVE  Waited' /\ NoOversleep'
<1> USE DEF TypeOK
<1>1. ASSUME NEW d, NEW r, ScheduleTimer(d, r) PROVE Waited' /\ NoOversleep'
  <2>1. /\ UNCHANGED <<store, waiter>>
        /\ pc = "code" /\ pc' \notin {"notify", "cancelled"}
        /\ \A t \in TimerIds : t # m_next_timer_id => next_fire_time'[t] = next_fire_time[t]
    BY <1>1 DEF ScheduleTimer, Free, times, TimeType
  <2>2. m_next_timer_id \notin m_timer_queue
    BY BoundAssumption DEF Fresh, TimeType
  <2>3. \A t \in m_timer_queue : next_fire_time'[t] = next_fire_time[t]
    BY <2>1, <2>2 DEF StoreType
  <2>4. QED
    BY <2>1, <2>3 DEF Waited, NoOversleep, store, waiter
<1>2. CASE Insert \/ Cancel
  BY <1>2 DEF Waited, NoOversleep, Insert, Cancel, waiter, times
<1>3. CASE Notify \/ CancelNotify
  <2>1. /\ UNCHANGED <<store, times, thread, deadline>>
        /\ notified' = (notified \/ thread \in {"wait", "wait_until"})
    BY <1>3 DEF Notify, CancelNotify, NotifyOne
  <2>2. Waited'
    BY <2>1 DEF Waited, store, times
  <2>3. thread \in {"wait", "wait_until"} => notified'
    BY <2>1
  <2>4. QED
    BY <2>1, <2>2, <2>3 DEF NoOversleep
<1>4. CASE Track \/ \E t : CancelTimer(t)
  BY <1>4 DEF Waited, NoOversleep, Track, TrackTimer, CancelTimer, Free, store, times, waiter
<1>5. CASE StopActor \/ OnShutdown \/ ActorEnd
  BY <1>5 DEF Waited, NoOversleep, StopActor, OnShutdown, ActorEnd, ServiceStop, HookDone, AfterHook,
     AllCancelled, store, times, waiter, call
<1>6. CASE ThreadExit \/ WaitForTimer \/ CallbackDone
  BY <1>6 DEF Waited, NoOversleep, ThreadExit, WaitForTimer, CallbackDone, store, times, call
<1>7. ASSUME NEW t \in TimerIds, DropCancelled(t) \/ WaitUntil(t) \/ Fire(t)
      PROVE  Waited' /\ NoOversleep'
  BY <1>7 DEF Waited, NoOversleep, DropCancelled, WaitUntil, Fire, Take, AtHead, IsHead, store,
     times, call
<1>8. CASE WakeUntil
  <2>1. /\ UNCHANGED <<store, times, call>> /\ thread = "wait_until"
        /\ \/ thread' = "top"
           \/ /\ UNCHANGED <<thread, deadline>> /\ m_timer_queue # {}
              /\ \E t \in TimerIds : IsHead(t) /\ t \notin cancelled /\ ~(next_fire_time[t] < deadline)
    BY <1>8 DEF WakeUntil, EndWait
  <2>2. CASE thread' = "top"
    BY <2>2 DEF Waited, NoOversleep
  <2>3. CASE UNCHANGED <<thread, deadline>> /\
             \E t \in TimerIds : IsHead(t) /\ t \notin cancelled /\ ~(next_fire_time[t] < deadline)
    <3>1. PICK t \in TimerIds : IsHead(t) /\ t \notin cancelled /\ ~(next_fire_time[t] < deadline)
      BY <2>3
    <3>2. PICK u \in m_timer_queue : next_fire_time[u] = deadline
      BY <2>1 DEF Waited
    <3>3. next_fire_time[t] = deadline /\ \A v \in m_timer_queue : next_fire_time[v] >= deadline
      BY <3>1, <3>2 DEF IsHead, TimeType, ThreadType, StoreType
    <3>4. QED
      BY <2>1, <2>3, <3>1, <3>2, <3>3 DEF Waited, NoOversleep, IsHead, store, times
  <2>4. QED
    BY <2>1, <2>2, <2>3
<1>9. CASE Start \/ RequestStop \/ WaitForShutdown \/ Tick
  BY <1>9 DEF Waited, NoOversleep, Start, RequestStop, WaitForShutdown, JoinTimerThread, JoinWorkers,
     FinalStop, Reset, Tick, store, times, waiter, call
<1>10. CASE UNCHANGED vars
  BY <1>10 DEF Waited, NoOversleep, vars, store, times, waiter, call
<1>11. QED
  BY <1>1, <1>2, <1>3, <1>4, <1>5, <1>6, <1>7, <1>8, <1>9, <1>10
     DEF Next, UserCode, ScheduleOnce, SchedulePeriodic, TimerCall, TimerThread

\* A firing more.
LEMMA Times == \A n, i \in Nat : (n + 1) * i = n * i + i
OBVIOUS

\* Every firing is on schedule.
LEMMA ScheduleStep ==
    ASSUME TypeOK, Fresh, OnSchedule, [Next]_vars
    PROVE  OnSchedule'
<1> USE DEF TypeOK
<1>1. ASSUME UNCHANGED <<times, fired>>, now' >= now, now' \in Nat PROVE OnSchedule'
  <2> SUFFICES ASSUME NEW t \in TimerIds
      PROVE  /\ next_fire_time[t] = first[t] + fired[t] * interval[t]
             /\ fired[t] > 0 => now' >= first[t] + (fired[t] - 1) * interval[t]
             /\ interval[t] = 0 => fired[t] <= 1
    BY <1>1 DEF OnSchedule, times
  <2> DEFINE x == first[t] + (fired[t] - 1) * interval[t]
  <2>1. fired[t] > 0 => x \in Nat
    BY DEF TimeType
  <2>2. fired[t] > 0 => now >= x
    BY DEF OnSchedule
  <2>3. now \in Nat
    BY DEF TimeType
  <2> HIDE DEF x
  <2>4. fired[t] > 0 => now' >= x
    BY <1>1, <2>1, <2>2, <2>3
  <2>5. QED
    BY <2>4 DEF OnSchedule, x
<1>2. ASSUME NEW d \in Delays, NEW r \in Nat, ScheduleTimer(d, r) PROVE OnSchedule'
  <2>1. CASE m_state = "running"
    <3> DEFINE n == m_next_timer_id
    <3>1. n \in TimerIds /\ now + d \in Nat
      BY <1>2, <2>1, BoundAssumption DEF TimeType, ScheduleTimer, TimerIds
    <3>2. /\ fired' = fired /\ now' = now
          /\ next_fire_time' = [next_fire_time EXCEPT ![n] = now + d]
          /\ first' = [first EXCEPT ![n] = now + d]
          /\ interval' = [interval EXCEPT ![n] = r]
      BY <1>2, <2>1 DEF ScheduleTimer
    <3>3. fired[n] = 0
      BY <3>1, BoundAssumption DEF Fresh, TimeType
    <3>4. next_fire_time'[n] = first'[n] + 0 * interval'[n]
      BY <3>1, <3>2 DEF TimeType
    <3>5. \A t \in TimerIds : t # n => /\ next_fire_time'[t] = next_fire_time[t]
                                       /\ first'[t] = first[t] /\ interval'[t] = interval[t]
      BY <3>2 DEF TimeType
    <3>6. QED
      BY <3>2, <3>3, <3>4, <3>5 DEF OnSchedule
  <2>2. CASE m_state # "running"
    BY <1>1, <1>2, <2>2 DEF ScheduleTimer, TimeType
  <2>3. QED
    BY <2>1, <2>2
<1>3. CASE TimerCall \/ \E t \in TimerIds : CancelTimer(t)
  <2>1. UNCHANGED <<times, fired, now>>
    BY <1>3 DEF TimerCall, CancelTimer, Insert, Notify, Cancel, CancelNotify, Track, TrackTimer
  <2>2. QED
    BY <1>1, <2>1 DEF TimeType
<1>4. CASE StopActor \/ OnShutdown \/ ActorEnd
  <2>1. UNCHANGED <<times, fired, now>>
    BY <1>4 DEF StopActor, OnShutdown, ActorEnd, ServiceStop, HookDone, AfterHook, AllCancelled
  <2>2. QED
    BY <1>1, <2>1 DEF TimeType
<1>5. ASSUME NEW t \in TimerIds, Fire(t) PROVE OnSchedule'
  <2> DEFINE f == fired[t]
             i == interval[t]
             s == first[t]
  <2>1. f \in Nat /\ i \in Nat /\ s \in Nat /\ now \in Nat
    BY DEF TimeType
  <2>2. /\ UNCHANGED <<now, first, interval>>
        /\ fired' = [fired EXCEPT ![t] = f + 1]
        /\ now >= next_fire_time[t]
        /\ t \in m_callbacks
    BY <1>5 DEF Fire, Take
  <2>3. /\ i > 0 => next_fire_time' = [next_fire_time EXCEPT ![t] = next_fire_time[t] + i]
        /\ i = 0 => next_fire_time' = next_fire_time
    BY <1>5, <2>1 DEF Fire, Take
  <2>4. \A u \in TimerIds : u # t => fired'[u] = fired[u] /\ next_fire_time'[u] = next_fire_time[u]
    BY <2>1, <2>2, <2>3 DEF TimeType
  <2>5. fired'[t] = f + 1 /\ next_fire_time'[t] = next_fire_time[t] + i
    BY <2>1, <2>2, <2>3 DEF TimeType
  <2>6. next_fire_time[t] = s + f * i
    BY DEF OnSchedule
  <2>7. i = 0 => f = 0
    BY <2>2 DEF Fresh
  <2> HIDE DEF f, i, s
  <2>8. f * i \in Nat /\ (f + 1) * i = f * i + i /\ (f + 1) - 1 = f
    BY <2>1, Times
  <2>9. next_fire_time'[t] = s + (f + 1) * i /\ now >= s + ((f + 1) - 1) * i /\ (i = 0 => f + 1 <= 1)
    BY <2>1, <2>2, <2>5, <2>6, <2>7, <2>8
  <2>10. QED
    BY <2>2, <2>4, <2>5, <2>9 DEF OnSchedule, f, i, s
<1>6. CASE TimerThread /\ ~\E t \in TimerIds : Fire(t)
  <2>1. UNCHANGED <<times, fired, now>>
    BY <1>6 DEF TimerThread, ThreadExit, WaitForTimer, WakeUntil, EndWait, CallbackDone,
       DropCancelled, WaitUntil
  <2>2. QED
    BY <1>1, <2>1 DEF TimeType
<1>7. CASE Start \/ RequestStop \/ WaitForShutdown \/ Tick
  <2>1. UNCHANGED <<times, fired>> /\ now' \in {now, now + 1}
    BY <1>7 DEF Start, RequestStop, WaitForShutdown, JoinTimerThread, JoinWorkers, FinalStop,
       Reset, Tick
  <2>2. now \in Nat
    BY DEF TimeType
  <2>3. QED
    BY <1>1, <2>1, <2>2
<1>8. CASE UNCHANGED vars
  BY <1>1, <1>8 DEF vars, TimeType
<1>9. QED
  BY <1>2, <1>3, <1>4, <1>5, <1>6, <1>7, <1>8, BoundAssumption
     DEF Next, UserCode, ScheduleOnce, SchedulePeriodic

-----------------------------------------------------------------------------
TimerInv ==
    /\ TypeOK /\ Tables /\ Fresh /\ StopFindsAll /\ Phases /\ Finished /\ Waited
    /\ NoOversleep /\ OnSchedule

\* The inductive invariant of the timers.
LEMMA TimerInvariant == Spec => []TimerInv
<1>1. Init => TimerInv
  <2> SUFFICES ASSUME Init PROVE TimerInv
    OBVIOUS
  <2> USE DEF Init
  <2>1. StoreType /\ TimeType /\ ThreadType /\ ActorType
    <3>1. StoreType /\ TimeType
      BY BoundAssumption DEF StoreType, TimeType
    <3>2. /\ deadline \in Nat /\ thread = "none" /\ main = "idle" /\ starts \in 0..MaxStarts
          /\ m_state = "running" /\ m_stop_phase = "none" /\ ending = "no" /\ pc = "code"
          /\ id \in {INVALID_TIMER_ID}
      BY BoundAssumption
    <3>3. notified \in BOOLEAN /\ stop_requested \in BOOLEAN /\ claimed \in BOOLEAN
      OBVIOUS
    <3>4. QED
      BY <3>1, <3>2, <3>3 DEF ThreadType, ActorType
  <2>2. Tables /\ Fresh /\ StopFindsAll /\ Phases /\ Finished /\ Waited /\ NoOversleep
    BY DEF Tables, Fresh, StopFindsAll, Phases, Finished, Ended, Waited, NoOversleep
  <2>3. OnSchedule
    BY DEF OnSchedule
  <2>4. QED
    BY <2>1, <2>2, <2>3 DEF TimerInv, TypeOK
<1>2. TimerInv /\ [Next]_vars => TimerInv'
  <2> SUFFICES ASSUME TimerInv, [Next]_vars PROVE TimerInv'
    OBVIOUS
  <2> USE DEF TimerInv
  <2>1. StoreType' /\ TimeType' /\ ThreadType' /\ ActorType'
    BY StoreStep, TimeStep, ThreadStep, ActorStep
  <2>2. Tables' /\ Fresh' /\ StopFindsAll' /\ Phases' /\ Finished'
    BY TableStep, FreshStep, FindStep, PhaseStep, EndStep
  <2>3. Waited' /\ NoOversleep' /\ OnSchedule'
    BY WaitStep, ScheduleStep
  <2>4. QED
    BY <2>1, <2>2, <2>3 DEF TypeOK
<1>3. QED
  BY <1>1, <1>2, PTL DEF Spec

\* Type correctness, for any bounds and delays.
THEOREM TypeCorrect == Spec => []TypeOK
<1>1. TimerInv => TypeOK
  BY DEF TimerInv
<1>2. QED
  BY <1>1, TimerInvariant, PTL

\* cancel_actor_timers() finds every timer that can fire, however often
\* m_active_timers was pruned; an actor that has ended therefore has none left.
THEOREM TimersEnd == Spec => []NoTimerLeft
<1>1. TimerInv => NoTimerLeft
  BY DEF TimerInv, Finished, Ended, Tables, NoTimerLeft
<1>2. QED
  BY <1>1, TimerInvariant, PTL

\* The timer thread never sleeps past a timer: with any number of timers, in any
\* order of scheduling, cancelling and notifying.
THEOREM SleepsInTime == Spec => []NoOversleep
<1>1. TimerInv => NoOversleep
  BY DEF TimerInv
<1>2. QED
  BY <1>1, TimerInvariant, PTL

\* A periodic timer neither drifts nor runs ahead, and a one-shot fires once.
THEOREM FiresOnSchedule == Spec => []OnSchedule
<1>1. TimerInv => OnSchedule
  BY DEF TimerInv
<1>2. QED
  BY <1>1, TimerInvariant, PTL

\* A timer is not taken again after cancel() has been through it, although the
\* cancelled timer stays in the queue.
THEOREM CancelledForGood == Spec => CancelIsFinal
<1>1. TimerInv /\ [Next]_vars => [\A t \in revoked : fired'[t] = fired[t]]_vars
  <2> SUFFICES ASSUME TimerInv, Next, NEW t \in revoked PROVE fired'[t] = fired[t]
    OBVIOUS
  <2>1. ASSUME NEW u \in TimerIds, Fire(u) PROVE fired'[t] = fired[t]
    <3>1. u # t
      BY <2>1 DEF TimerInv, Tables, Fire
    <3>2. QED
      BY <2>1, <3>1 DEF Fire, Take, TimerInv, TypeOK, TimeType, StoreType
  <2>2. CASE ~\E u \in TimerIds : Fire(u)
    <3>1. fired' = fired
      BY <2>2 DEF Next, UserCode, ScheduleOnce, SchedulePeriodic, ScheduleTimer, CancelTimer,
         TimerCall, Insert, Notify, Track, TrackTimer, Cancel, CancelNotify, StopActor, OnShutdown,
         ActorEnd, ServiceStop, HookDone, AfterHook, AllCancelled, TimerThread, ThreadExit,
         WaitForTimer, WakeUntil, EndWait, CallbackDone, DropCancelled, WaitUntil, Start,
         RequestStop, WaitForShutdown, JoinTimerThread, JoinWorkers, FinalStop, Reset, Tick
    <3>2. QED
      BY <3>1
  <2>3. QED
    BY <2>1, <2>2
<1>2. QED
  BY <1>1, TimerInvariant, PTL DEF Spec, CancelIsFinal
=============================================================================
