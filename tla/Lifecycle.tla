----------------------------- MODULE Lifecycle -----------------------------
(***************************************************************************)
(* An actor from create() to the end of its thread: start(), create() at   *)
(* any time, the dedicated threads of fast actors and who joins them, the  *)
(* stop of an actor with its name and its watches, shutdown() with         *)
(* wait_for_shutdown(), and reset().                                       *)
(*                                                                         *)
(* Messages are left to the other modules: an actor's thread or worker     *)
(* handles system_shutdown and stop requests at any later time.  One step  *)
(* stands for one critical section or one hook.                            *)
(***************************************************************************)
EXTENDS Naturals, FiniteSets, TLC

CONSTANTS
    Actors,
    Fast,        \* actors with a thread of their own; the others are pooled
    Pre,         \* actors created before anything else
    Names,
    OwnName,     \* the name an actor takes in on_start(), or Default
    Default, NoActor,
    Pairs,       \* <<watched, watcher>>: watches the application may ask for
    Reapers,     \* threads that call actor_count() or wait for a fast actor's stop
    Renamers,    \* fast actors that change their name later, once
    MaxStops     \* bound: stop_actor() calls that claim an actor

ASSUME LifecycleAssumption ==
    /\ Fast \subseteq Actors /\ Pre \subseteq Actors
    /\ Default \notin Names /\ NoActor \notin Actors
    /\ OwnName \in [Actors -> Names \cup {Default}]
    /\ Pairs \subseteq Actors \X Actors
    /\ Renamers \subseteq Fast
    /\ "main" \notin Reapers
    /\ MaxStops \in Nat

Pooled  == Actors \ Fast
Joiners == Reapers \cup {"main"}

VARIABLES
    main,               \* where the thread of start() and wait_for_shutdown() is
    m_running, m_workers_active, m_shutdown_started,
    to_start,           \* start(): pooled actors whose on_start() is still to run
    in_start,           \* start(): the actor whose on_start() it runs
    listed,             \* m_actors_per_thread and m_fast_actors
    creating,           \* actor -> where its create() is
    m_state, m_stop_phase, m_started,
    caller,             \* actor -> where the stop_actor() that claimed it is
    m_stop_executor,    \* actor -> "own" thread or worker, the "caller", or "main"
    shut,               \* actors with a system_shutdown in their mailbox
    at,                 \* actor -> where its service_stop() is
    to_notify,          \* actor -> watchers its stop has still to tell
    thread,             \* fast actor -> m_dedicated_thread and where it runs
    m_join_claimed,
    todo, joining,      \* joiner -> actors it took off the list, the one it joins
    name, m_actors,     \* actor -> its name; the registry
    m_watchers,         \* pairs <<watched, watcher>>
    m_watching,         \* pairs <<watcher, watched>>
    checked,            \* watches past their state check
    renamed,            \* bound: actors that have changed their name
    joined,             \* history: fast actor -> joins of its thread
    on_starts,          \* history: actor -> calls of on_start()
    hooked,             \* history: actor -> calls of on_stop()
    told,               \* history: pair -> termination messages sent
    beside,             \* history: actors whose create(), or whose stop on its caller's
                        \* thread, ran beside start() or the end of wait_for_shutdown()
    lost                \* fast actors whose joinable thread was overwritten or
                        \* destroyed: std::terminate()

sys   == <<m_running, m_workers_active, m_shutdown_started>>
startV == <<in_start, m_started, on_starts>>
callV == <<caller, m_stop_executor>>
stopV == <<m_state, m_stop_phase, callV, at, to_notify>>
joinV == <<m_join_claimed, todo, joining, joined>>
regV  == <<name, m_actors>>
watV  == <<m_watchers, m_watching, checked>>
endV  == <<beside, lost>>
vars  == <<main, sys, to_start, listed, creating, stopV, startV, shut, thread, joinV,
           regV, watV, renamed, hooked, told, endV>>

Init ==
    /\ main = "new"
    /\ m_running = FALSE /\ m_workers_active = FALSE /\ m_shutdown_started = FALSE
    /\ to_start = {} /\ listed = Pre
    /\ creating = [a \in Actors |-> IF a \in Pre THEN "done" ELSE "none"]
    /\ m_state = [a \in Actors |-> IF a \in Pre THEN "running" ELSE "unborn"]
    /\ m_stop_phase = [a \in Actors |-> "none"]
    /\ in_start = NoActor /\ m_started = {} /\ shut = {}
    /\ caller = [a \in Actors |-> "-"] /\ m_stop_executor = [a \in Actors |-> "-"]
    /\ at = [a \in Actors |-> "-"]
    /\ to_notify = [a \in Actors |-> {}]
    /\ thread = [a \in Fast |-> "none"]
    /\ m_join_claimed = {}
    /\ todo = [j \in Joiners |-> {}] /\ joining = [j \in Joiners |-> NoActor]
    /\ name = [a \in Actors |-> Default] /\ m_actors = [n \in Names |-> NoActor]
    /\ m_watchers = {} /\ m_watching = {} /\ checked = {}
    /\ renamed = {}
    /\ joined = [a \in Fast |-> 0]
    /\ on_starts = [a \in Actors |-> 0] /\ hooked = [a \in Actors |-> 0]
    /\ told = [p \in Pairs |-> 0]
    /\ beside = {} /\ lost = {}

Joinable(a) == thread[a] # "none" /\ joined[a] = 0

----------------------------------------------------------------------------
(* Names *)

\* Slip: the name goes, whoever holds it.
ReleaseAny(reg, n, a) == IF n \in Names THEN [reg EXCEPT ![n] = NoActor] ELSE reg

\* unregister_actor(name, expected): only an entry that is still the actor's.
Release(reg, n, a) == IF n \in Names /\ reg[n] = a THEN [reg EXCEPT ![n] = NoActor] ELSE reg

\* register_actor(): the last one to take a name holds it.
Register(reg, n, a) == [reg EXCEPT ![n] = a]

\* set_name(): the old name is released, the new one taken over from anybody.
SetName(a, n) ==
    /\ name' = [name EXCEPT ![a] = n]
    /\ m_actors' = Register(IF name[a] # n THEN Release(m_actors, name[a], a) ELSE m_actors, n, a)

\* run_on_start(): m_started.exchange(true) lets one call through; an actor
\* names itself in its on_start().
RunOnStart(a) ==
    /\ m_started' = m_started \cup {a}
    /\ on_starts' = IF a \in m_started THEN on_starts ELSE [on_starts EXCEPT ![a] = @ + 1]
    /\ IF a \notin m_started /\ OwnName[a] \in Names THEN SetName(a, OwnName[a]) ELSE UNCHANGED regV

Rename(a, n) ==
    /\ a \notin renamed
    /\ m_state[a] = "running" /\ thread[a] = "loop"
    /\ n # name[a]
    /\ renamed' = renamed \cup {a}
    /\ SetName(a, n)
    /\ UNCHANGED <<main, sys, to_start, listed, creating, stopV, startV, shut, thread, joinV,
                   watV, hooked, told, endV>>

----------------------------------------------------------------------------
(* start() *)

Starting == main = "starting"

\* m_running is set and the list of pooled actors copied, whatever else goes on.
StartBegin ==
    /\ main = "new"
    /\ main' = "starting"
    /\ m_running' = TRUE /\ m_shutdown_started' = FALSE
    /\ to_start' = listed \cap Pooled
    /\ beside' = beside \cup {a \in listed : caller[a] # "-"}
    /\ UNCHANGED <<m_workers_active, listed, creating, stopV, startV, shut, thread, joinV,
                   regV, watV, renamed, hooked, told, lost>>

\* on_start() of one of them; activate_after_start() ends the call.
StartOne(a) ==
    /\ Starting /\ in_start = NoActor /\ a \in to_start
    /\ to_start' = to_start \ {a}
    /\ in_start' = a
    /\ RunOnStart(a)
    /\ UNCHANGED <<main, sys, listed, creating, stopV, shut, thread, joinV, watV, renamed,
                   hooked, told, endV>>

StartOneEnd ==
    /\ in_start # NoActor
    /\ in_start' = NoActor
    /\ UNCHANGED <<main, sys, to_start, listed, creating, stopV, m_started, on_starts, shut, thread,
                   joinV, regV, watV, renamed, hooked, told, endV>>

\* The workers, then a thread for every listed fast actor: assigning to a
\* std::thread that is still joinable is std::terminate().
StartLaunch ==
    /\ Starting /\ to_start = {} /\ in_start = NoActor
    /\ main' = "up"
    /\ m_workers_active' = TRUE
    /\ thread' = [a \in Fast |-> IF a \in listed THEN "start" ELSE thread[a]]
    /\ lost' = {a \in listed \cap Fast : Joinable(a)}
    /\ UNCHANGED <<m_running, m_shutdown_started, to_start, listed, creating, stopV, startV,
                   shut, joinV, regV, watV, renamed, hooked, told, beside>>

----------------------------------------------------------------------------
(* create(): register_actor() on the caller's thread *)

Goto(a, l) == creating' = [creating EXCEPT ![a] = l]

\* m_running is read before the actor is on a list.
CreateRead(a) ==
    /\ creating[a] = "none" /\ main # "reset"
    /\ Goto(a, IF m_running THEN "listing_start" ELSE "listing")
    /\ beside' = IF Starting THEN beside \cup {a} ELSE beside
    /\ UNCHANGED <<main, sys, to_start, listed, stopV, startV, shut, thread, joinV,
                   regV, watV, renamed, hooked, told, lost>>

\* Slip: the thread of a fast actor is launched as soon as it is listed.
CreateListLaunches(a) ==
    /\ creating[a] \in {"listing", "listing_start"}
    /\ Goto(a, IF creating[a] = "listing" THEN "done" ELSE "on_start")
    /\ listed' = listed \cup {a}
    /\ m_state' = [m_state EXCEPT ![a] = "running"]
    /\ thread' = IF a \in Fast /\ m_running THEN [thread EXCEPT ![a] = "loop"] ELSE thread
    /\ UNCHANGED <<main, sys, to_start, m_stop_phase, callV, at, to_notify, startV, shut,
                   joinV, regV, watV, renamed, hooked, told, endV>>

CreateList(a) ==
    /\ creating[a] \in {"listing", "listing_start"}
    /\ Goto(a, IF creating[a] = "listing" THEN "done" ELSE "on_start")
    /\ listed' = listed \cup {a}
    /\ m_state' = [m_state EXCEPT ![a] = "running"]
    /\ UNCHANGED <<main, sys, to_start, m_stop_phase, callV, at, to_notify, startV, shut,
                   thread, joinV, regV, watV, renamed, hooked, told, endV>>

CreateStart(a) ==
    /\ creating[a] = "on_start"
    /\ Goto(a, "launch")
    /\ RunOnStart(a)
    /\ UNCHANGED <<in_start, main, sys, to_start, listed, stopV, shut, thread, joinV, watV, renamed,
                   hooked, told, endV>>

\* Both indices lose every watch the actor is part of (end_watches()).
EndWatches(a) ==
    /\ m_watchers' = {p \in m_watchers : a \notin {p[1], p[2]}}
    /\ m_watching' = {p \in m_watching : a \notin {p[1], p[2]}}
    /\ UNCHANGED checked

\* on_start() throws, perhaps after set_name(): discard_unstarted_actor(), which
\* also closes the mailbox and counts on no thread having been launched.
CreateFails(a) ==
    /\ creating[a] = "launch" \/ (creating[a] = "on_start" /\ a \notin m_started)
    /\ Goto(a, "done")
    /\ m_started' = m_started \cup {a}
    /\ on_starts' = IF a \in m_started THEN on_starts ELSE [on_starts EXCEPT ![a] = @ + 1]
    /\ m_state' = [m_state EXCEPT ![a] = "stopped"]
    /\ m_actors' = Release(m_actors, name[a], a)
    /\ EndWatches(a)
    /\ listed' = listed \ {a}
    /\ shut' = shut \ {a}
    /\ lost' = IF a \in Fast /\ Joinable(a) THEN {a} ELSE {}
    /\ UNCHANGED <<main, sys, to_start, in_start, m_stop_phase, callV, at, to_notify, thread, joinV,
                   name, renamed, hooked, told, beside>>

CreateLaunch(a) ==
    /\ creating[a] = "launch"
    /\ Goto(a, "late_check")
    /\ thread' = IF a \in Fast /\ ~Joinable(a) THEN [thread EXCEPT ![a] = "loop"] ELSE thread
    /\ UNCHANGED <<main, sys, to_start, listed, stopV, startV, shut, joinV, regV, watV, renamed,
                   hooked, told, endV>>

\* Created while the system shuts down: it gets its own system_shutdown.
CreateLate(a) ==
    /\ creating[a] = "late_check"
    /\ Goto(a, "done")
    /\ shut' = IF m_shutdown_started /\ m_state[a] = "running" THEN shut \cup {a} ELSE shut
    /\ UNCHANGED <<main, sys, to_start, listed, stopV, startV, thread, joinV, regV, watV,
                   renamed, hooked, told, endV>>

----------------------------------------------------------------------------
(* watch() and unwatch() *)

\* Neither may be stopped, checked before the lock is taken.
WatchCheck(p) ==
    /\ p \notin m_watchers \cup checked
    /\ \A a \in {p[1], p[2]} : m_state[a] \in {"running", "stopping"}
    /\ checked' = checked \cup {p}
    /\ UNCHANGED <<main, sys, to_start, listed, creating, stopV, startV, shut, thread, joinV, regV,
                   m_watchers, m_watching, renamed, hooked, told, endV>>

WatchAdd(p) ==
    /\ p \in checked
    /\ checked' = checked \ {p}
    /\ m_watchers' = m_watchers \cup {p}
    /\ m_watching' = m_watching \cup {<<p[2], p[1]>>}
    /\ UNCHANGED <<main, sys, to_start, listed, creating, stopV, startV, shut, thread, joinV, regV,
                   renamed, hooked, told, endV>>

Unwatch(p) ==
    /\ p \in m_watchers
    /\ m_watchers' = m_watchers \ {p}
    /\ m_watching' = m_watching \ {<<p[2], p[1]>>}
    /\ UNCHANGED <<main, sys, to_start, listed, creating, stopV, startV, shut, thread, joinV, regV,
                   checked, renamed, hooked, told, endV>>

----------------------------------------------------------------------------
(* stop_actor() and service_stop() *)

InOnStart(a) ==
    in_start = a \/ creating[a] \in {"on_start", "launch"} \/ (a \in Fast /\ thread[a] = "start")

Ask(a, l) == caller' = [caller EXCEPT ![a] = l]

\* The claim: messages are refused from here on.
StopActor(a) ==
    /\ m_state[a] = "running" /\ m_stop_phase[a] = "none"
    /\ Cardinality({b \in Actors : caller[b] # "-"}) < MaxStops
    /\ m_stop_phase' = [m_stop_phase EXCEPT ![a] = "requested"]
    /\ m_state' = [m_state EXCEPT ![a] = "stopping"]
    /\ Ask(a, "claimed")
    /\ UNCHANGED <<main, sys, to_start, listed, creating, m_stop_executor, at, to_notify, startV, shut,
                   thread, joinV, regV, watV, renamed, hooked, told, endV>>

\* Without workers the caller's thread carries out the stop.  Otherwise a pooled
\* actor is scheduled for it if try_unblock() finds it idle: not one whose
\* on_start() is not over.
StopWho(a) ==
    /\ caller[a] = "claimed"
    /\ Ask(a, IF ~m_workers_active THEN "runs"
              ELSE IF a \in Pooled /\ (InOnStart(a) \/ a \notin m_started) THEN "missed" ELSE "left")
    /\ beside' = IF ~m_workers_active /\ main \notin {"new", "down", "reset"} THEN beside \cup {a} ELSE beside
    /\ UNCHANGED <<main, sys, to_start, listed, creating, m_state, m_stop_phase, m_stop_executor, at,
                   to_notify, startV, shut, thread, joinV, regV, watV, renamed, hooked, told, lost>>

\* A worker runs a pooled actor once on_start() is over: until then its mailbox
\* is open and it is on no ready queue (activate_after_start()).
OnWorker(a) ==
    /\ a \in Pooled /\ main \in {"up", "shutting", "told"}
    /\ a \in m_started /\ ~InOnStart(a)

\* The threads that may find the request: the caller's, the actor's own or its
\* worker, and the one in complete_pending_stops().
Finds(e, a) ==
    \/ e = "caller" /\ caller[a] = "runs"
    \/ e = "own" /\ (IF a \in Fast THEN thread[a] = "loop" ELSE OnWorker(a))
    \/ e = "main" /\ main = "pending" /\ a \in listed

At(a, l) == at' = [at EXCEPT ![a] = l]

\* service_stop(): m_stop_executor is claimed, on_shutdown() and on_stop() run, the
\* mailbox closes, the name is given up.
StopHooks(e, a) ==
    /\ m_stop_phase[a] = "requested" /\ m_stop_executor[a] = "-"
    /\ m_state[a] = "stopping"
    /\ Finds(e, a)
    /\ m_stop_executor' = [m_stop_executor EXCEPT ![a] = e]
    /\ At(a, "unwatch")
    /\ hooked' = [hooked EXCEPT ![a] = @ + 1]
    /\ m_actors' = Release(m_actors, name[a], a)
    /\ UNCHANGED <<main, sys, to_start, listed, creating, m_state, m_stop_phase, caller, to_notify,
                   startV, shut, thread, joinV, name, watV, renamed, told, endV>>

\* What service_stop() says to e: the stop is over, or another thread's business.
Serviced(e, a) ==
    IF m_stop_executor[a] = e THEN at[a] = "done"
                              ELSE m_stop_executor[a] # "-" \/ m_state[a] = "stopped"

WatchersOf(a) == {p[2] : p \in {q \in m_watchers : q[1] = a}}

\* Slip: the actors it watches are taken for its watchers.
StopUnwatchSwapped(a) ==
    /\ at[a] = "unwatch"
    /\ At(a, "notify")
    /\ EndWatches(a)
    /\ to_notify' = [to_notify EXCEPT ![a] = {p[1] : p \in {q \in m_watchers : q[2] = a}}]
    /\ UNCHANGED <<main, sys, to_start, listed, creating, m_state, m_stop_phase, callV, startV, shut, thread,
                   joinV, regV, renamed, hooked, told, endV>>

\* end_watches(), under the lock: the watchers are told afterwards.
StopUnwatch(a) ==
    /\ at[a] = "unwatch"
    /\ At(a, "notify")
    /\ EndWatches(a)
    /\ to_notify' = [to_notify EXCEPT ![a] = WatchersOf(a)]
    /\ UNCHANGED <<main, sys, to_start, listed, creating, m_state, m_stop_phase, callV, startV, shut, thread,
                   joinV, regV, renamed, hooked, told, endV>>

\* A termination_msg to the watchers that are running, a pooled actor leaves its
\* list, and the state wakes a waiting stop_actor().
StopDone(a) ==
    /\ at[a] = "notify"
    /\ At(a, "done")
    /\ told' = [p \in Pairs |->
                   told[p] + IF p[1] = a /\ p[2] \in to_notify[a] /\ m_state[p[2]] = "running" THEN 1 ELSE 0]
    /\ to_notify' = [to_notify EXCEPT ![a] = {}]
    /\ Ask(a, "over")
    /\ listed' = IF a \in Pooled THEN listed \ {a} ELSE listed
    /\ m_state' = [m_state EXCEPT ![a] = "stopped"]
    /\ UNCHANGED <<main, sys, to_start, creating, m_stop_phase, m_stop_executor, startV, shut,
                   thread, joinV, regV, watV, renamed, hooked, endV>>

----------------------------------------------------------------------------
(* The dedicated threads, and joining them *)

Run(a, l) == thread' = [thread EXCEPT ![a] = l]

\* run_dedicated_thread(): on_start() first.
FastStart(a) ==
    /\ thread[a] = "start"
    /\ Run(a, "loop")
    /\ RunOnStart(a)
    /\ UNCHANGED <<in_start, main, sys, to_start, listed, creating, stopV, shut, joinV, watV, renamed,
                   hooked, told, endV>>

\* system_shutdown, unless a stop was requested first; for a fast actor the
\* loop ends, on_stop() runs.
HandleShutdown(a) ==
    /\ a \in shut /\ m_stop_phase[a] = "none"
    /\ IF a \in Fast THEN thread[a] = "loop" ELSE OnWorker(a)
    /\ m_stop_phase' = [m_stop_phase EXCEPT ![a] = "shutdown"]
    /\ m_state' = [m_state EXCEPT ![a] = "stopping"]
    /\ hooked' = IF a \in Fast THEN [hooked EXCEPT ![a] = @ + 1] ELSE hooked
    /\ UNCHANGED <<main, sys, to_start, listed, creating, callV, at, to_notify, startV, shut,
                   thread, joinV, regV, watV, renamed, told, endV>>

\* The thread function returns after either kind of stop, or because another
\* thread carries out the stop.
FastExit(a) ==
    /\ thread[a] = "loop"
    /\ m_stop_phase[a] = "shutdown" \/ (m_stop_phase[a] = "requested" /\ Serviced("own", a))
    /\ Run(a, "ended")
    /\ UNCHANGED <<main, sys, to_start, listed, creating, stopV, startV, shut, joinV, regV, watV,
                   renamed, hooked, told, endV>>

Reapable == {a \in listed \cap Fast : m_stop_phase[a] = "requested" /\ m_state[a] = "stopped"}

\* reap_stopped_fast_actors(): off the list under the lock.
Take(j) ==
    /\ todo' = [todo EXCEPT ![j] = Reapable]
    /\ listed' = listed \ Reapable

Reap(j) ==
    /\ j # "main" /\ todo[j] = {} /\ joining[j] = NoActor /\ main # "reset"
    /\ Reapable # {}
    /\ Take(j)
    /\ UNCHANGED <<main, sys, to_start, creating, stopV, startV, shut, thread, m_join_claimed, joining,
                   joined, regV, watV, renamed, hooked, told, endV>>

\* Slip: the claim is read and not taken.
ClaimJoinShared(j, a) ==
    /\ joining[j] = NoActor /\ a \in todo[j]
    /\ todo' = [todo EXCEPT ![j] = @ \ {a}]
    /\ joining' = IF a \notin m_join_claimed /\ Joinable(a) THEN [joining EXCEPT ![j] = a] ELSE joining
    /\ UNCHANGED <<main, sys, to_start, listed, creating, stopV, startV, shut, thread, joined, m_join_claimed,
                   regV, watV, renamed, hooked, told, endV>>

\* m_join_claimed.exchange(true) decides who joins the thread, if there is one.
ClaimJoin(j, a) ==
    /\ joining[j] = NoActor /\ a \in todo[j]
    /\ todo' = [todo EXCEPT ![j] = @ \ {a}]
    /\ m_join_claimed' = m_join_claimed \cup {a}
    /\ joining' = IF a \notin m_join_claimed /\ Joinable(a) THEN [joining EXCEPT ![j] = a] ELSE joining
    /\ UNCHANGED <<main, sys, to_start, listed, creating, stopV, startV, shut, thread, joined,
                   regV, watV, renamed, hooked, told, endV>>

Join(j) ==
    /\ joining[j] # NoActor /\ thread[joining[j]] = "ended"
    /\ joined' = [joined EXCEPT ![joining[j]] = @ + 1]
    /\ joining' = [joining EXCEPT ![j] = NoActor]
    /\ UNCHANGED <<main, sys, to_start, listed, creating, stopV, startV, shut, thread, m_join_claimed, todo,
                   regV, watV, renamed, hooked, told, endV>>

----------------------------------------------------------------------------
(* shutdown(), wait_for_shutdown(), reset() *)

ShutdownBegin ==
    /\ main = "up"
    /\ main' = "shutting"
    /\ m_shutdown_started' = TRUE
    /\ UNCHANGED <<m_running, m_workers_active, to_start, listed, creating, stopV, startV, shut, thread,
                   joinV, regV, watV, renamed, hooked, told, endV>>

\* Slip: the list of fast actors is left out.
ShutdownTellPooled ==
    /\ main = "shutting"
    /\ main' = "told"
    /\ shut' = shut \cup {a \in listed \cap Pooled : m_state[a] = "running"}
    /\ UNCHANGED <<sys, to_start, listed, creating, stopV, startV, thread, joinV, regV, watV,
                   renamed, hooked, told, endV>>

\* system_shutdown to every listed actor that is running.
ShutdownTell ==
    /\ main = "shutting"
    /\ main' = "told"
    /\ shut' = shut \cup {a \in listed : m_state[a] = "running"}
    /\ UNCHANGED <<sys, to_start, listed, creating, stopV, startV, thread, joinV, regV, watV,
                   renamed, hooked, told, endV>>

\* m_running ends and the workers are joined; a stop one of them carries out
\* is over by then.
JoinWorkers ==
    /\ main = "told"
    /\ \A a \in Pooled : m_stop_executor[a] = "own" => at[a] = "done"
    /\ main' = "joining"
    /\ m_running' = FALSE
    /\ UNCHANGED <<m_workers_active, m_shutdown_started, to_start, listed, creating, stopV, startV, shut,
                   thread, joinV, regV, watV, renamed, hooked, told, endV>>

\* The list of fast actors is copied, with a create() under way or not.
JoinFast ==
    /\ main = "joining"
    /\ main' = "joins"
    /\ beside' = beside \cup {a \in Actors : creating[a] \in {"listing_start", "on_start", "launch", "late_check"}}
    /\ todo' = [todo EXCEPT !["main"] = listed \cap Fast]
    /\ UNCHANGED <<sys, to_start, listed, creating, stopV, startV, shut, thread, m_join_claimed, joining,
                   joined, regV, watV, renamed, hooked, told, lost>>

MainIdle == todo["main"] = {} /\ joining["main"] = NoActor

JoinsDone ==
    /\ main = "joins" /\ MainIdle
    /\ main' = "pending"
    /\ m_workers_active' = FALSE
    /\ UNCHANGED <<m_running, m_shutdown_started, to_start, listed, creating, stopV, startV, shut, thread,
                   joinV, regV, watV, renamed, hooked, told, endV>>

\* complete_pending_stops() has run the stops still requested, and reaps.
PendingDone ==
    /\ main = "pending"
    /\ \A a \in listed : m_stop_phase[a] = "requested" => Serviced("main", a)
    /\ main' = "reaping"
    /\ Take("main")
    /\ UNCHANGED <<sys, to_start, creating, stopV, startV, shut, thread, m_join_claimed, joining,
                   joined, regV, watV, renamed, hooked, told, endV>>

\* The remaining pooled actors: on_stop(); they and the fast actors of the copied
\* list, whose joins are all claimed, are stopped.
Finish ==
    /\ main = "reaping" /\ MainIdle
    /\ main' = "down"
    /\ hooked' = [a \in Actors |-> hooked[a] + IF a \in listed \cap Pooled THEN 1 ELSE 0]
    /\ m_state' = [a \in Actors |-> IF a \in (listed \cap Pooled) \cup m_join_claimed THEN "stopped" ELSE m_state[a]]
    /\ UNCHANGED <<sys, to_start, listed, creating, m_stop_phase, callV, at, to_notify, startV,
                   shut, thread, joinV, regV, watV, renamed, told, endV>>

\* Lists, registry and watches are cleared; an actor nobody refers to any more
\* is destroyed, which a joinable thread does not survive.
Reset ==
    /\ main = "down" /\ ~m_running
    /\ main' = "reset"
    /\ listed' = {}
    /\ m_actors' = [n \in Names |-> NoActor]
    /\ m_watchers' = {} /\ m_watching' = {}
    /\ m_shutdown_started' = FALSE
    /\ lost' = {a \in listed \cap Fast : Joinable(a)}
    /\ UNCHANGED <<m_running, m_workers_active, to_start, creating, stopV, startV, shut, thread, joinV,
                   name, checked, renamed, hooked, told, beside>>

----------------------------------------------------------------------------

MainSteps ==
    \/ \E a \in Actors : StartOne(a)
    \/ StartOneEnd \/ StartLaunch \/ ShutdownTell \/ JoinWorkers \/ JoinFast \/ JoinsDone
    \/ PendingDone \/ Finish

Creating(a) == CreateList(a) \/ CreateStart(a) \/ CreateFails(a) \/ CreateLaunch(a) \/ CreateLate(a)

Stopping(a) ==
    \/ StopWho(a) \/ StopHooks("caller", a) \/ StopHooks("main", a)
    \/ caller[a] # "missed" /\ StopHooks("own", a)
    \/ StopUnwatch(a) \/ StopDone(a)

OwnThread(a) == FastStart(a) \/ HandleShutdown(a) \/ FastExit(a)

Joining(j) == Join(j) \/ \E a \in Fast : ClaimJoin(j, a)

Requests ==
    \/ StartBegin \/ ShutdownBegin \/ Reset
    \/ \E a \in Actors : CreateRead(a) \/ StopActor(a)
    \/ \E a \in Renamers, n \in Names : Rename(a, n)
    \/ \E p \in Pairs : WatchCheck(p) \/ WatchAdd(p) \/ Unwatch(p)
    \/ \E j \in Reapers : Reap(j)

\* A worker that gets to an actor it was not scheduled for, by a message in its
\* mailbox.
StopFound(a) == caller[a] = "missed" /\ StopHooks("own", a)

\* Threads in a call of the library, and threads of actors.
Threads ==
    \/ MainSteps
    \/ \E a \in Actors : Creating(a) \/ Stopping(a)
    \/ \E a \in Fast : OwnThread(a)
    \/ \E j \in Joiners : Joining(j)

\* std::terminate() ends it all.
Alive == lost = {}

Next ==
    /\ Alive
    /\ \/ Threads \/ Requests
       \/ \E a \in Pooled : StopFound(a) \/ HandleShutdown(a)

\* The threads keep running; nothing is assumed of what the application asks for.
\* Each thread has finitely many steps to take for an actor, so that one weak
\* fairness condition is as good as one for each thread.
Fairness == WF_vars(Alive /\ Threads)

Spec == Init /\ [][Next]_vars /\ Fairness

----------------------------------------------------------------------------
(* Properties *)

MainType ==
    /\ main \in {"new", "starting", "up", "shutting", "told", "joining", "joins", "pending",
                 "reaping", "down", "reset"}
    /\ m_running \in BOOLEAN /\ m_workers_active \in BOOLEAN /\ m_shutdown_started \in BOOLEAN
    /\ listed \subseteq Actors /\ to_start \subseteq Pooled

ActorType ==
    /\ creating \in [Actors -> {"none", "listing", "listing_start", "on_start", "launch",
                                "late_check", "done"}]
    /\ m_state \in [Actors -> {"unborn", "running", "stopping", "stopped"}]
    /\ m_stop_phase \in [Actors -> {"none", "requested", "shutdown"}]
    /\ caller \in [Actors -> {"-", "claimed", "runs", "left", "missed", "over"}]
    /\ m_stop_executor \in [Actors -> {"-", "caller", "own", "main"}]
    /\ at \in [Actors -> {"-", "unwatch", "notify", "done"}]
    /\ m_started \subseteq Actors /\ shut \subseteq Actors /\ beside \subseteq Actors
    /\ in_start \in Actors \cup {NoActor}
    /\ on_starts \in [Actors -> Nat] /\ hooked \in [Actors -> Nat]

ThreadType ==
    /\ thread \in [Fast -> {"none", "start", "loop", "ended"}]
    /\ m_join_claimed \subseteq Fast
    /\ todo \in [Joiners -> SUBSET Fast]
    /\ joining \in [Joiners -> Fast \cup {NoActor}]
    /\ joined \in [Fast -> Nat]
    /\ lost \subseteq Fast

NameType ==
    /\ name \in [Actors -> Names \cup {Default}]
    /\ m_actors \in [Names -> Actors \cup {NoActor}]

WatchType ==
    /\ m_watchers \subseteq Pairs /\ checked \subseteq Pairs
    /\ m_watching \subseteq Actors \X Actors
    /\ to_notify \in [Actors -> SUBSET Actors]
    /\ renamed \subseteq Renamers
    /\ told \in [Pairs -> Nat]

TypeOK == MainType /\ ActorType /\ ThreadType /\ NameType /\ WatchType

\* on_start() runs once at most, whoever gets to it (start(), create() or the
\* dedicated thread); on_stop() runs once at most, and neither while on_start()
\* runs nor before it, whichever thread carries out the stop.  The second part is
\* about actors whose create(), or stop on its caller's thread, ran beside neither
\* start() nor the end of wait_for_shutdown(): nothing orders those (see CreateSafe,
\* and StopCarriedOut of Shutdown).
HookOrder ==
    \A a \in Actors :
        /\ on_starts[a] <= 1
        /\ a \notin beside => hooked[a] <= 1 /\ (hooked[a] = 1 => ~InOnStart(a))

\* A thread is joined once at most, by whoever claimed it; when wait_for_shutdown()
\* has returned, every thread was joined or is with a reaper, and neither start()
\* nor reset() nor a failed create() drops a joinable thread - unless the actor's
\* create() ran beside start() or was not over when the fast actors were joined.
ThreadsJoined ==
    /\ lost \subseteq beside
    /\ \A a \in Fast :
           /\ joined[a] <= 1
           /\ a \notin beside /\ main \in {"down", "reset"} /\ Joinable(a) =>
                 \E j \in Reapers : a \in todo[j] \cup {joining[j]}

\* "system::create() is safe from any thread - a handler, on_start(), main()": no
\* create() that succeeds ends in std::terminate(), and an actor that is told to shut
\* down was started when the workers are gone.
CreateSafe ==
    /\ \A a \in lost : m_state[a] = "stopped"
    /\ main = "joining" =>
          \A a \in listed \cap shut : creating[a] = "done" => a \in m_started \/ InOnStart(a)

\* A name disappears from the registry only because the actor that holds it
\* stops, renamed itself or failed to start: the stop of an actor leaves the
\* entry of its replacement alone (unregister_actor() with the expected actor).
NameKept ==
    [][\A n \in Names : LET a == m_actors[n] IN
           a # NoActor /\ m_actors'[n] = NoActor =>
               main' = "reset" \/ m_state'[a] \in {"stopping", "stopped"} \/ name'[a] # n]_vars

UnwatchedEarly(p) == p \notin m_watchers /\ at[p[1]] \in {"-", "unwatch"}

\* A stop somebody is bound to carry out: its caller, the dedicated thread, or
\* the worker it was scheduled on.
Bound(a) ==
    /\ m_stop_phase[a] = "requested" /\ m_state[a] = "stopping"
    /\ caller[a] = "runs" \/ (caller[a] = "left" /\ (a \in Fast => thread[a] # "none"))

\* A watcher registered when the stop of its actor reaches the watches is told,
\* unless it stops itself or takes the watch back in time.
WatcherTold ==
    \A p \in Pairs :
        /\ p \in m_watchers
        /\ Bound(p[1]) /\ at[p[1]] \in {"-", "unwatch"}
        ~> told[p] = 1 \/ m_state[p[2]] # "running" \/ UnwatchedEarly(p) \/ ~Alive

\* shutdown() and wait_for_shutdown() end: no thread of a fast actor misses its
\* system_shutdown, one created meanwhile included.
ShutdownEnds == main = "shutting" ~> main = "down" \/ ~Alive

=============================================================================
