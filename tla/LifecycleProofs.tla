--------------------------- MODULE LifecycleProofs ---------------------------
(***************************************************************************)
(* What holds of the lives of actors for any number of them, of names, of  *)
(* watches and of threads that reap.                                       *)
(***************************************************************************)
EXTENDS Lifecycle, TLAPS

\* Where the thread of start() and wait_for_shutdown() is, and what it left.
MainAt ==
    /\ m_workers_active <=> main \in {"up", "shutting", "told", "joining", "joins"}
    /\ m_running <=> main \in {"starting", "up", "shutting", "told"}
    /\ main \notin {"joins", "reaping"} => MainIdle
    /\ main \in {"new", "starting"} => shut = {} /\ ~m_shutdown_started
    /\ main # "starting" => to_start = {} /\ in_start = NoActor

\* How far create() is, and what the actor cannot have done yet.
Born(a) ==
    /\ creating[a] \in {"none", "listing", "listing_start"} =>
          /\ m_state[a] = "unborn" /\ m_stop_phase[a] = "none" /\ at[a] = "-"
          /\ hooked[a] = 0 /\ a \notin listed /\ a \notin shut
    /\ creating[a] \in {"on_start", "launch"} =>
          /\ m_state[a] \in {"running", "stopping"} /\ m_stop_phase[a] # "shutdown" /\ at[a] = "-"
          /\ hooked[a] = 0 /\ a \in listed
    /\ creating[a] \in {"listing_start", "on_start", "launch", "late_check"} =>
          main \in {"up", "shutting", "told", "joining"}

\* An actor that is not stopped is on a list; start() finds none with a stop that
\* somebody may already carry out.
Listed(a) ==
    /\ m_state[a] \in {"running", "stopping"} => a \in listed \/ main = "reset"
    /\ main = "starting" /\ a \in listed =>
          m_state[a] # "stopped" /\ m_stop_phase[a] # "shutdown" /\ at[a] = "-"
    /\ a \in to_start \/ in_start = a => a \in listed /\ creating[a] = "done"
    /\ m_state[a] = "stopped" /\ a \in listed =>
          main \in {"down", "reset"} \/ (a \in Fast /\ m_stop_phase[a] = "requested")

\* State, stop phase and the thread in stop_actor() agree.
Phase(a) ==
    /\ m_stop_phase[a] = "none" => m_state[a] # "stopping"
    /\ m_stop_phase[a] = "requested" => m_state[a] \in {"stopping", "stopped"}
    /\ m_stop_phase[a] = "requested" <=> caller[a] # "-"
    /\ m_stop_phase[a] = "shutdown" => main \notin {"new", "starting"}
    /\ caller[a] = "runs" => main \in {"new", "down", "reset"} \/ a \notin listed
    /\ a \in shut /\ m_stop_phase[a] = "none" => m_state[a] = "running" \/ main \in {"down", "reset"}

\* Each of the places that call on_stop() leaves a trace, and a stop begun by one
\* of them is over before wait_for_shutdown() comes to its last loop.
Hooks(a) ==
    /\ at[a] # "-" <=> m_stop_executor[a] # "-"
    /\ at[a] # "-" => m_stop_phase[a] = "requested"
    /\ at[a] = "done" => m_state[a] = "stopped"
    /\ hooked[a] <= 1
    /\ hooked[a] = 1 => \/ at[a] # "-"
                        \/ a \in Fast /\ m_stop_phase[a] = "shutdown"
                        \/ a \in Pooled /\ m_state[a] = "stopped" /\ main \in {"down", "reset"}
    /\ a \in Pooled /\ a \in listed /\ at[a] # "-" =>
          \/ main \in {"new", "down", "reset"}
          \/ main \in {"up", "shutting", "told"} /\ m_stop_executor[a] = "own"
          \/ main = "pending" /\ m_stop_executor[a] = "main"

\* The thread of a fast actor, and what wait_for_shutdown() knows of it.
Thread(a) ==
    /\ thread[a] # "none" => creating[a] \in {"late_check", "done"} /\ main \notin {"new", "starting"}
    /\ thread[a] = "start" =>
          /\ hooked[a] = 0 /\ at[a] = "-"
          /\ m_state[a] # "stopped" /\ m_stop_phase[a] # "shutdown"
    /\ thread[a] = "loop" /\ m_state[a] = "stopped" => m_stop_phase[a] = "requested"
    /\ main = "joins" => \/ thread[a] \in {"none", "ended"} \/ m_state[a] = "stopped"
                         \/ a \in todo["main"] \/ joining["main"] = a
    /\ main \in {"pending", "reaping", "down", "reset"} =>
          thread[a] \in {"none", "ended"} \/ m_state[a] = "stopped"

Claimed(a) ==
    a \in m_join_claimed =>
        /\ creating[a] \in {"late_check", "done"}
        /\ m_state[a] = "stopped" \/ joining["main"] = a \/ thread[a] \in {"none", "ended"}
        /\ main \in {"new", "starting"} => a \notin listed
        /\ Joinable(a) => \E j \in Joiners : joining[j] = a

\* A thread that can be joined is on a list or with a joiner.
Owned(a) ==
    /\ joined[a] = 1 => thread[a] = "ended"
    /\ Joinable(a) => a \in listed \/ \E j \in Joiners : a \in todo[j] \/ joining[j] = a
    /\ main = "joins" /\ a \in listed /\ Joinable(a) => a \in todo["main"] \/ joining["main"] = a
    /\ main \in {"pending", "reaping", "down", "reset"} /\ a \in listed => ~Joinable(a)

\* What a joiner holds.
Held(j, a) ==
    /\ a \in todo[j] => creating[a] \in {"late_check", "done"}
    /\ a \in todo[j] /\ j \in Reapers =>
          a \notin listed /\ m_state[a] = "stopped" /\ m_stop_phase[a] = "requested"
    /\ joining[j] = a => Joinable(a)
    /\ joining[j] = a /\ j \in Reapers => a \notin listed

\* What is known of every actor: m_started lets one on_start() through, and
\* m_join_claimed one join.
Once(a) == on_starts[a] = IF a \in m_started THEN 1 ELSE 0

JoinOnce(a) ==
    /\ joined[a] <= 1
    /\ joined[a] = 1 => a \in m_join_claimed
    /\ \A j \in Joiners : joining[j] = a => a \in m_join_claimed /\ joined[a] = 0
    /\ \A i, j \in Joiners : joining[i] = a /\ joining[j] = a => i = j

\* What is known of an actor nothing ran beside, and of the thread of a fast one.
ActorInv(a) == Once(a) /\ (a \notin beside => Born(a) /\ Listed(a) /\ Phase(a) /\ Hooks(a))
FastInv(a)  == JoinOnce(a) /\ (a \notin beside => Thread(a) /\ Claimed(a) /\ Owned(a))

LifeInv ==
    /\ MainAt /\ lost \subseteq beside
    /\ \A a \in Actors : ActorInv(a)
    /\ \A a \in Fast : FastInv(a)
    /\ \A j \in Joiners, a \in Fast : a \notin beside => Held(j, a)

-----------------------------------------------------------------------------
(* Every step keeps the types, one part of the state after the other *)

\* start(), shutdown and reset keep the types of the system flags.
LEMMA MainStep ==
    ASSUME TypeOK, [Next]_vars
    PROVE  MainType'
<1> USE LifecycleAssumption DEF TypeOK, MainType, Pooled, vars, sys, stopV, callV, startV, joinV, regV, watV, endV
<1>1. CASE MainSteps
  BY <1>1 DEF MainSteps, StartOne, StartLaunch, ShutdownTell, JoinWorkers, JoinFast,
       JoinsDone, PendingDone, Finish, StartOneEnd, Take, Reapable, RunOnStart, SetName, Starting
<1>2. CASE Requests
  <2>1. CASE StartBegin \/ ShutdownBegin
    BY <2>1 DEF StartBegin, ShutdownBegin
  <2>2. CASE Reset
    BY <2>2 DEF Reset
  <2>3. CASE \E a \in Actors : CreateRead(a) \/ StopActor(a)
    BY <2>3 DEF CreateRead, StopActor, Goto, Ask
  <2>4. CASE \E a \in Renamers, n \in Names : Rename(a, n)
    BY <2>4 DEF Rename, SetName
  <2>5. CASE \E p \in Pairs : WatchCheck(p) \/ WatchAdd(p) \/ Unwatch(p)
    BY <2>5 DEF WatchCheck, WatchAdd, Unwatch
  <2>6. CASE \E j \in Reapers : Reap(j)
    BY <2>6 DEF Reap, Take, Reapable
  <2>7. QED
    BY <1>2, <2>1, <2>2, <2>3, <2>4, <2>5, <2>6 DEF Requests
<1>3. CASE \E a \in Actors : Creating(a)
  BY <1>3 DEF Creating, CreateList, CreateStart, CreateFails, CreateLaunch, CreateLate,
       Goto, EndWatches, RunOnStart, SetName
<1>4. CASE \E a \in Actors : Stopping(a)
  BY <1>4 DEF Stopping, StopWho, StopHooks, StopUnwatch, StopDone, At, Ask, EndWatches
<1>5. CASE \E a \in Fast : OwnThread(a)
  BY <1>5 DEF OwnThread, FastStart, HandleShutdown, FastExit, Run, RunOnStart, SetName
<1>6. CASE \E a \in Pooled : StopFound(a) \/ HandleShutdown(a)
  BY <1>6 DEF StopFound, StopHooks, At, HandleShutdown
<1>7. CASE \E j \in Joiners : Joining(j)
  BY <1>7 DEF Joining, Join, ClaimJoin
<1>8. CASE UNCHANGED vars
  BY <1>8
<1>9. QED
  BY <1>1, <1>2, <1>3, <1>4, <1>5, <1>6, <1>7, <1>8 DEF Next, Threads

\* The types of states, phases and hooks.
LEMMA ActorStep ==
    ASSUME TypeOK, [Next]_vars
    PROVE  ActorType'
<1> USE LifecycleAssumption DEF TypeOK, ActorType, MainType, Pooled, OnWorker, vars, sys,
     stopV, callV, startV, joinV, regV, watV, endV
<1>1. CASE MainSteps
  <2>1. CASE \E a \in Actors : StartOne(a)
    BY <2>1 DEF StartOne, RunOnStart, SetName
  <2>2. CASE StartLaunch \/ StartOneEnd
    BY <2>2 DEF StartLaunch, StartOneEnd, Starting
  <2>3. CASE Finish
    BY <2>3 DEF Finish
  <2>4. CASE JoinFast \/ PendingDone
    BY <2>4 DEF JoinFast, PendingDone, Take, Reapable
  <2>5. CASE ShutdownTell \/ JoinWorkers \/ JoinsDone
    BY <2>5 DEF ShutdownTell, JoinWorkers, JoinsDone
  <2>6. QED
    BY <1>1, <2>1, <2>2, <2>3, <2>4, <2>5 DEF MainSteps
<1>2. CASE Requests
  <2>1. CASE StartBegin \/ ShutdownBegin
    BY <2>1 DEF StartBegin, ShutdownBegin
  <2>2. CASE Reset
    BY <2>2 DEF Reset
  <2>3. CASE \E a \in Actors : CreateRead(a) \/ StopActor(a)
    BY <2>3 DEF CreateRead, StopActor, Goto, Ask
  <2>4. CASE \E a \in Renamers, n \in Names : Rename(a, n)
    BY <2>4 DEF Rename, SetName
  <2>5. CASE \E p \in Pairs : WatchCheck(p) \/ WatchAdd(p) \/ Unwatch(p)
    BY <2>5 DEF WatchCheck, WatchAdd, Unwatch
  <2>6. CASE \E j \in Reapers : Reap(j)
    BY <2>6 DEF Reap, Take, Reapable
  <2>7. QED
    BY <1>2, <2>1, <2>2, <2>3, <2>4, <2>5, <2>6 DEF Requests
<1>3. CASE \E a \in Actors : Creating(a)
  BY <1>3 DEF Creating, CreateList, CreateStart, CreateFails, CreateLaunch, CreateLate,
       Goto, EndWatches, RunOnStart, SetName
<1>4. CASE \E a \in Actors : Stopping(a)
  BY <1>4 DEF Stopping, StopWho, StopHooks, StopUnwatch, StopDone, At, Ask, EndWatches
<1>5. CASE \E a \in Fast : OwnThread(a)
  BY <1>5 DEF OwnThread, FastStart, HandleShutdown, FastExit, Run, RunOnStart, SetName
<1>6. CASE \E a \in Pooled : StopFound(a) \/ HandleShutdown(a)
  BY <1>6 DEF StopFound, StopHooks, At, HandleShutdown
<1>7. CASE \E j \in Joiners : Joining(j)
  BY <1>7 DEF Joining, Join, ClaimJoin
<1>8. CASE UNCHANGED vars
  BY <1>8
<1>9. QED
  BY <1>1, <1>2, <1>3, <1>4, <1>5, <1>6, <1>7, <1>8 DEF Next, Threads

\* The types of threads and joins.
LEMMA ThreadStep ==
    ASSUME TypeOK, [Next]_vars
    PROVE  ThreadType'
<1> USE LifecycleAssumption DEF TypeOK, ThreadType, Joiners, Joinable, MainIdle, vars, sys,
     stopV, callV, startV, joinV, regV, watV, endV
<1>1. CASE MainSteps
  <2>1. CASE \E a \in Actors : StartOne(a)
    BY <2>1 DEF StartOne, RunOnStart, SetName
  <2>2. CASE StartLaunch \/ StartOneEnd
    BY <2>2 DEF StartLaunch, StartOneEnd, Starting
  <2>3. CASE Finish
    BY <2>3 DEF Finish
  <2>4. CASE JoinFast \/ PendingDone
    BY <2>4 DEF JoinFast, PendingDone, Take, Reapable
  <2>5. CASE ShutdownTell \/ JoinWorkers \/ JoinsDone
    BY <2>5 DEF ShutdownTell, JoinWorkers, JoinsDone
  <2>6. QED
    BY <1>1, <2>1, <2>2, <2>3, <2>4, <2>5 DEF MainSteps
<1>2. CASE Requests
  <2>1. CASE StartBegin \/ ShutdownBegin
    BY <2>1 DEF StartBegin, ShutdownBegin
  <2>2. CASE Reset
    BY <2>2 DEF Reset
  <2>3. CASE \E a \in Actors : CreateRead(a) \/ StopActor(a)
    BY <2>3 DEF CreateRead, StopActor, Goto, Ask
  <2>4. CASE \E a \in Renamers, n \in Names : Rename(a, n)
    BY <2>4 DEF Rename, SetName
  <2>5. CASE \E p \in Pairs : WatchCheck(p) \/ WatchAdd(p) \/ Unwatch(p)
    BY <2>5 DEF WatchCheck, WatchAdd, Unwatch
  <2>6. CASE \E j \in Reapers : Reap(j)
    BY <2>6 DEF Reap, Take, Reapable
  <2>7. QED
    BY <1>2, <2>1, <2>2, <2>3, <2>4, <2>5, <2>6 DEF Requests
<1>3. CASE \E a \in Actors : Creating(a)
  BY <1>3 DEF Creating, CreateList, CreateStart, CreateFails, CreateLaunch, CreateLate,
       Goto, EndWatches, RunOnStart, SetName
<1>4. CASE \E a \in Actors : Stopping(a)
  BY <1>4 DEF Stopping, StopWho, StopHooks, StopUnwatch, StopDone, At, Ask, EndWatches
<1>5. CASE \E a \in Fast : OwnThread(a)
  BY <1>5 DEF OwnThread, FastStart, HandleShutdown, FastExit, Run, RunOnStart, SetName
<1>6. CASE \E a \in Pooled : StopFound(a) \/ HandleShutdown(a)
  BY <1>6 DEF StopFound, StopHooks, At, HandleShutdown
<1>7. CASE \E j \in Joiners : Joining(j)
  BY <1>7 DEF Joining, Join, ClaimJoin
<1>8. CASE UNCHANGED vars
  BY <1>8
<1>9. QED
  BY <1>1, <1>2, <1>3, <1>4, <1>5, <1>6, <1>7, <1>8 DEF Next, Threads

\* The types of names and of the registry.
LEMMA NameStep ==
    ASSUME TypeOK, [Next]_vars
    PROVE  NameType'
<1> USE LifecycleAssumption DEF TypeOK, NameType, Register, Release, vars, sys, stopV,
     callV, startV, joinV, regV, watV, endV
<1>1. CASE MainSteps
  <2>1. CASE \E a \in Actors : StartOne(a)
    BY <2>1 DEF StartOne, RunOnStart, SetName
  <2>2. CASE StartLaunch \/ StartOneEnd
    BY <2>2 DEF StartLaunch, StartOneEnd, Starting
  <2>3. CASE Finish
    BY <2>3 DEF Finish
  <2>4. CASE JoinFast \/ PendingDone
    BY <2>4 DEF JoinFast, PendingDone, Take, Reapable
  <2>5. CASE ShutdownTell \/ JoinWorkers \/ JoinsDone
    BY <2>5 DEF ShutdownTell, JoinWorkers, JoinsDone
  <2>6. QED
    BY <1>1, <2>1, <2>2, <2>3, <2>4, <2>5 DEF MainSteps
<1>2. CASE Requests
  <2>1. CASE StartBegin \/ ShutdownBegin
    BY <2>1 DEF StartBegin, ShutdownBegin
  <2>2. CASE Reset
    BY <2>2 DEF Reset
  <2>3. CASE \E a \in Actors : CreateRead(a) \/ StopActor(a)
    BY <2>3 DEF CreateRead, StopActor, Goto, Ask
  <2>4. CASE \E a \in Renamers, n \in Names : Rename(a, n)
    BY <2>4 DEF Rename, SetName
  <2>5. CASE \E p \in Pairs : WatchCheck(p) \/ WatchAdd(p) \/ Unwatch(p)
    BY <2>5 DEF WatchCheck, WatchAdd, Unwatch
  <2>6. CASE \E j \in Reapers : Reap(j)
    BY <2>6 DEF Reap, Take, Reapable
  <2>7. QED
    BY <1>2, <2>1, <2>2, <2>3, <2>4, <2>5, <2>6 DEF Requests
<1>3. CASE \E a \in Actors : Creating(a)
  BY <1>3 DEF Creating, CreateList, CreateStart, CreateFails, CreateLaunch, CreateLate,
       Goto, EndWatches, RunOnStart, SetName
<1>4. CASE \E a \in Actors : Stopping(a)
  BY <1>4 DEF Stopping, StopWho, StopHooks, StopUnwatch, StopDone, At, Ask, EndWatches
<1>5. CASE \E a \in Fast : OwnThread(a)
  BY <1>5 DEF OwnThread, FastStart, HandleShutdown, FastExit, Run, RunOnStart, SetName
<1>6. CASE \E a \in Pooled : StopFound(a) \/ HandleShutdown(a)
  BY <1>6 DEF StopFound, StopHooks, At, HandleShutdown
<1>7. CASE \E j \in Joiners : Joining(j)
  BY <1>7 DEF Joining, Join, ClaimJoin
<1>8. CASE UNCHANGED vars
  BY <1>8
<1>9. QED
  BY <1>1, <1>2, <1>3, <1>4, <1>5, <1>6, <1>7, <1>8 DEF Next, Threads

\* The types of the watch indices.
LEMMA WatchStep ==
    ASSUME TypeOK, [Next]_vars
    PROVE  WatchType'
<1> USE LifecycleAssumption DEF TypeOK, WatchType, WatchersOf, vars, sys, stopV, callV, startV, joinV,
     regV, watV, endV
<1>1. CASE MainSteps
  BY <1>1 DEF MainSteps, StartOne, StartLaunch, ShutdownTell, JoinWorkers, JoinFast,
       JoinsDone, PendingDone, Finish, StartOneEnd, Take, Reapable, RunOnStart, SetName, Starting
<1>2. CASE Requests
  <2>1. CASE StartBegin \/ ShutdownBegin
    BY <2>1 DEF StartBegin, ShutdownBegin
  <2>2. CASE Reset
    BY <2>2 DEF Reset
  <2>3. CASE \E a \in Actors : CreateRead(a) \/ StopActor(a)
    BY <2>3 DEF CreateRead, StopActor, Goto, Ask
  <2>4. CASE \E a \in Renamers, n \in Names : Rename(a, n)
    BY <2>4 DEF Rename, SetName
  <2>5. CASE \E p \in Pairs : WatchCheck(p) \/ WatchAdd(p) \/ Unwatch(p)
    BY <2>5 DEF WatchCheck, WatchAdd, Unwatch
  <2>6. CASE \E j \in Reapers : Reap(j)
    BY <2>6 DEF Reap, Take, Reapable
  <2>7. QED
    BY <1>2, <2>1, <2>2, <2>3, <2>4, <2>5, <2>6 DEF Requests
<1>3. CASE \E a \in Actors : Creating(a)
  BY <1>3 DEF Creating, CreateList, CreateStart, CreateFails, CreateLaunch, CreateLate,
       Goto, EndWatches, RunOnStart, SetName
<1>4. CASE \E a \in Actors : Stopping(a)
  BY <1>4 DEF Stopping, StopWho, StopHooks, StopUnwatch, StopDone, At, Ask, EndWatches
<1>5. CASE \E a \in Fast : OwnThread(a)
  BY <1>5 DEF OwnThread, FastStart, HandleShutdown, FastExit, Run, RunOnStart, SetName
<1>6. CASE \E a \in Pooled : StopFound(a) \/ HandleShutdown(a)
  BY <1>6 DEF StopFound, StopHooks, At, HandleShutdown
<1>7. CASE \E j \in Joiners : Joining(j)
  BY <1>7 DEF Joining, Join, ClaimJoin
<1>8. CASE UNCHANGED vars
  BY <1>8
<1>9. QED
  BY <1>1, <1>2, <1>3, <1>4, <1>5, <1>6, <1>7, <1>8 DEF Next, Threads

\* Every variable keeps its type, whatever overlaps what.
THEOREM TypeCorrect == Spec => []TypeOK
<1>1. Init => TypeOK
  <2> SUFFICES ASSUME Init PROVE TypeOK
    OBVIOUS
  <2> USE LifecycleAssumption DEF Init
  <2>1. MainType
    BY DEF MainType, Pooled
  <2>2. ActorType
    BY DEF ActorType
  <2>3. ThreadType
    BY DEF ThreadType, Joiners
  <2>4. NameType
    BY DEF NameType
  <2>5. WatchType
    BY DEF WatchType
  <2>6. QED
    BY <2>1, <2>2, <2>3, <2>4, <2>5 DEF TypeOK
<1>2. TypeOK /\ [Next]_vars => TypeOK'
  BY MainStep, ActorStep, ThreadStep, NameStep, WatchStep DEF TypeOK
<1>3. QED
  BY <1>1, <1>2, PTL DEF Spec

-----------------------------------------------------------------------------
(* Names *)

\* An actor that takes a name gives up none but its own.
LEMMA SetNameKeeps ==
    ASSUME NameType, NEW b \in Actors, NEW k \in Names, SetName(b, k),
           NEW n \in Names, m_actors[n] # NoActor, m_actors'[n] = NoActor
    PROVE  name'[m_actors[n]] # n
<1>1. name' = [name EXCEPT ![b] = k] /\ k # n
  BY LifecycleAssumption DEF SetName, Register, Release, NameType
<1>2. name[b] # k /\ name[b] = n /\ m_actors[n] = b
  BY <1>1 DEF SetName, Register, Release, NameType
<1>3. QED
  BY <1>1, <1>2 DEF NameType

\* An on_start() that renames its actor takes no other name away.
LEMMA RunOnStartKeeps ==
    ASSUME NameType, NEW b \in Actors, RunOnStart(b),
           NEW n \in Names, m_actors[n] # NoActor, m_actors'[n] = NoActor
    PROVE  name'[m_actors[n]] # n
BY SetNameKeeps DEF RunOnStart, regV

KeepsName(n) ==
    LET a == m_actors[n] IN
        a # NoActor /\ m_actors'[n] = NoActor =>
            main' = "reset" \/ m_state'[a] \in {"stopping", "stopped"} \/ name'[a] # n

\* A name disappears from the registry only because its holder stops, renamed
\* itself or failed to start, or because of reset(): the stop of an actor
\* leaves the entry of its replacement alone.
THEOREM NamesKept == Spec => NameKept
<1>1. TypeOK /\ [Next]_vars => [\A n \in Names : KeepsName(n)]_vars
  <2> SUFFICES ASSUME TypeOK, Next, NEW n \in Names, m_actors[n] # NoActor, m_actors'[n] = NoActor
               PROVE  \/ main' = "reset" \/ m_state'[m_actors[n]] \in {"stopping", "stopped"}
                      \/ name'[m_actors[n]] # n
    BY DEF KeepsName
  <2> USE DEF TypeOK, NameType, ActorType, regV
  <2>1. CASE MainSteps
    <3>1. CASE \E a \in Actors : StartOne(a)
      BY <3>1, RunOnStartKeeps DEF StartOne
    <3>2. QED
      BY <2>1, <3>1 DEF MainSteps, StartOneEnd, StartLaunch, ShutdownTell, JoinWorkers, JoinFast, JoinsDone,
         PendingDone, Finish
  <2>2. CASE Requests
    <3>1. CASE \E a \in Renamers, k \in Names : Rename(a, k)
      BY <3>1, SetNameKeeps, LifecycleAssumption DEF Rename
    <3>2. QED
      BY <2>2, <3>1 DEF Requests, StartBegin, ShutdownBegin, Reset, CreateRead, StopActor,
         WatchCheck, WatchAdd, Unwatch, Reap
  <2>3. CASE \E a \in Actors : Creating(a)
    <3>1. CASE \E a \in Actors : CreateStart(a)
      BY <3>1, RunOnStartKeeps DEF CreateStart
    <3>2. CASE \E a \in Actors : CreateFails(a)
      BY <3>2 DEF CreateFails, Release
    <3>3. QED
      BY <2>3, <3>1, <3>2 DEF Creating, CreateList, CreateLaunch, CreateLate
  <2>4. CASE \E a \in Actors : Stopping(a)
    <3>1. CASE \E a \in Actors, e \in {"caller", "main", "own"} : StopHooks(e, a)
      BY <3>1 DEF StopHooks, Release
    <3>2. QED
      BY <2>4, <3>1 DEF Stopping, StopWho, StopUnwatch, StopDone
  <2>5. CASE \E a \in Fast : OwnThread(a)
    <3>1. CASE \E a \in Fast : FastStart(a)
      BY <3>1, RunOnStartKeeps, LifecycleAssumption DEF FastStart
    <3>2. QED
      BY <2>5, <3>1 DEF OwnThread, HandleShutdown, FastExit
  <2>6. CASE \E a \in Pooled : StopFound(a) \/ HandleShutdown(a)
    BY <2>6 DEF StopFound, StopHooks, Release, HandleShutdown, Pooled
  <2>7. CASE \E j \in Joiners : Joining(j)
    BY <2>7 DEF Joining, Join, ClaimJoin
  <2>8. QED
    BY <2>1, <2>2, <2>3, <2>4, <2>5, <2>6, <2>7 DEF Next, Threads
<1>2. QED
  BY <1>1, TypeCorrect, PTL DEF Spec, NameKept, KeepsName

-----------------------------------------------------------------------------
(* Hooks and threads: every step keeps LifeInv *)

\* What LifeInv says of one actor.
LEMMA KnownOf ==
    ASSUME LifeInv, NEW a \in Actors
    PROVE  /\ MainAt /\ ActorInv(a)
           /\ a \in Fast => FastInv(a) /\ (a \notin beside => \A j \in Joiners : Held(j, a))
BY DEF LifeInv

\* start() sets its flags and copies the list of pooled actors.
LEMMA StartBeginKeeps ==
    ASSUME TypeOK, LifeInv, StartBegin
    PROVE  LifeInv'
<1> USE LifecycleAssumption DEF TypeOK, MainType, ActorType, ThreadType, stopV, joinV, StartBegin, callV, startV, endV
<1>1. MainAt' /\ (lost \subseteq beside)'
  BY DEF LifeInv, MainAt, MainIdle
<1>2. ASSUME NEW a \in Actors PROVE ActorInv(a)'
  BY KnownOf DEF MainAt, ActorInv, Once, Born, Listed, Phase, Hooks, Pooled
<1>3. ASSUME NEW a \in Fast PROVE FastInv(a)'
  BY KnownOf DEF FastInv, JoinOnce, Thread, Claimed, Owned, Joinable
<1>4. ASSUME NEW j \in Joiners, NEW a \in Fast, a \notin beside' PROVE Held(j, a)'
  BY <1>4, KnownOf DEF Joinable, Held
<1>5. QED
  BY <1>1, <1>2, <1>3, <1>4 DEF LifeInv

\* start() runs the on_start() of a pooled actor.
LEMMA StartOneKeeps ==
    ASSUME TypeOK, LifeInv, StartOneEnd \/ \E b \in Actors : StartOne(b)
    PROVE  LifeInv'
<1> USE LifecycleAssumption DEF TypeOK, MainType, ActorType, sys, stopV, callV, joinV, endV, StartOne,
     StartOneEnd, Starting, RunOnStart
<1>1. MainAt' /\ (lost \subseteq beside)'
  BY DEF LifeInv, MainAt, MainIdle
<1>2. ASSUME NEW a \in Actors PROVE ActorInv(a)'
  BY KnownOf DEF MainAt, ActorInv, Once, Born, Listed, Phase, Hooks, Pooled
<1>3. ASSUME NEW a \in Fast PROVE FastInv(a)'
  BY KnownOf DEF FastInv, JoinOnce, Thread, Claimed, Owned, Joinable
<1>4. ASSUME NEW j \in Joiners, NEW a \in Fast, a \notin beside' PROVE Held(j, a)'
  BY <1>4, KnownOf DEF Joinable, Held
<1>5. QED
  BY <1>1, <1>2, <1>3, <1>4 DEF LifeInv

\* start() launches the thread of a fast actor.
LEMMA StartLaunchKeeps ==
    ASSUME TypeOK, LifeInv, StartLaunch
    PROVE  LifeInv'
<1> USE LifecycleAssumption DEF TypeOK, MainType, ActorType, ThreadType, sys, stopV, joinV,
     StartLaunch, Starting, Joinable, callV, startV, endV
<1>1. MainAt' /\ (lost \subseteq beside)'
  BY DEF LifeInv, MainAt, MainIdle, FastInv, Thread
<1>2. ASSUME NEW a \in Actors PROVE ActorInv(a)'
  BY KnownOf DEF MainAt, ActorInv, Once, Born, Listed, Phase, Hooks, Pooled
<1>3. ASSUME NEW a \in Fast PROVE FastInv(a)'
  <2>1. MainAt /\ ActorInv(a) /\ FastInv(a)
    BY KnownOf
  <2>2. JoinOnce(a)'
    BY <2>1 DEF FastInv, JoinOnce
  <2>3. ASSUME a \notin beside PROVE Thread(a)' /\ Claimed(a)' /\ Owned(a)'
    <3>1. Born(a) /\ Listed(a) /\ Hooks(a) /\ Thread(a) /\ Claimed(a) /\ Owned(a)
      BY <2>1, <2>3 DEF ActorInv, FastInv
    <3>2. Thread(a)'
      BY <3>1 DEF Born, Listed, Hooks, Thread
    <3>3. Claimed(a)'
      BY <3>1 DEF Thread, Claimed
    <3>4. Owned(a)'
      BY <3>1, <2>1 DEF Thread, Owned, Claimed, JoinOnce, FastInv
    <3>5. QED
      BY <3>2, <3>3, <3>4
  <2>4. QED
    BY <2>2, <2>3 DEF FastInv
<1>4. ASSUME NEW j \in Joiners, NEW a \in Fast, a \notin beside' PROVE Held(j, a)'
  BY <1>4, KnownOf DEF Held
<1>5. QED
  BY <1>1, <1>2, <1>3, <1>4 DEF LifeInv

\* The broadcast of system_shutdown, and the join of the workers.
LEMMA TellKeeps ==
    ASSUME TypeOK, LifeInv, ShutdownBegin \/ ShutdownTell \/ JoinWorkers
    PROVE  LifeInv'
<1> USE LifecycleAssumption DEF TypeOK, MainType, sys, stopV, joinV, ShutdownBegin, ShutdownTell, JoinWorkers, callV, startV, endV
<1>1. MainAt' /\ (lost \subseteq beside)'
  BY DEF LifeInv, MainAt, MainIdle
<1>2. ASSUME NEW a \in Actors PROVE ActorInv(a)'
  BY KnownOf DEF MainAt, ActorInv, Once, Born, Listed, Phase, Hooks, Pooled
<1>3. ASSUME NEW a \in Fast PROVE FastInv(a)'
  BY KnownOf DEF FastInv, JoinOnce, Thread, Claimed, Owned, Joinable
<1>4. ASSUME NEW j \in Joiners, NEW a \in Fast, a \notin beside' PROVE Held(j, a)'
  BY <1>4, KnownOf DEF Joinable, Held
<1>5. QED
  BY <1>1, <1>2, <1>3, <1>4 DEF LifeInv

\* wait_for_shutdown() turns to a fast actor.
LEMMA JoinFastKeeps ==
    ASSUME TypeOK, LifeInv, JoinFast
    PROVE  LifeInv'
<1> USE LifecycleAssumption DEF TypeOK, ActorType, ThreadType, sys, stopV, JoinFast, callV, startV, endV
<1>1. MainAt' /\ (lost \subseteq beside)'
  BY DEF LifeInv, MainAt
<1>2. ASSUME NEW a \in Actors PROVE ActorInv(a)'
  BY KnownOf DEF MainAt, ActorInv, Once, Born, Listed, Phase, Hooks, Pooled
<1>3. ASSUME NEW a \in Fast PROVE FastInv(a)'
  BY KnownOf DEF MainAt, MainIdle, FastInv, JoinOnce, Thread, Claimed, Owned, Joinable, Joiners, Held
<1>4. ASSUME NEW j \in Joiners, NEW a \in Fast, a \notin beside' PROVE Held(j, a)'
  BY <1>4, KnownOf DEF ActorInv, Born, Joinable, Held
<1>5. QED
  BY <1>1, <1>2, <1>3, <1>4 DEF LifeInv

\* wait_for_shutdown() has joined every dedicated thread.
LEMMA JoinsDoneKeeps ==
    ASSUME TypeOK, LifeInv, JoinsDone
    PROVE  LifeInv'
<1> USE LifecycleAssumption DEF TypeOK, stopV, joinV, JoinsDone, MainIdle, callV, startV, endV
<1>1. MainAt' /\ (lost \subseteq beside)'
  BY DEF LifeInv, MainAt
<1>2. ASSUME NEW a \in Actors PROVE ActorInv(a)'
  BY KnownOf DEF MainAt, ActorInv, Once, Born, Listed, Phase, Hooks, Pooled
<1>3. ASSUME NEW a \in Fast PROVE FastInv(a)'
  BY KnownOf DEF FastInv, JoinOnce, Thread, Claimed, Owned, Joinable
<1>4. ASSUME NEW j \in Joiners, NEW a \in Fast, a \notin beside' PROVE Held(j, a)'
  BY <1>4, KnownOf DEF Joinable, Held
<1>5. QED
  BY <1>1, <1>2, <1>3, <1>4 DEF LifeInv

\* complete_pending_stops().
LEMMA PendingDoneKeeps ==
    ASSUME TypeOK, LifeInv, PendingDone
    PROVE  LifeInv'
<1> USE LifecycleAssumption DEF TypeOK, ActorType, sys, stopV, PendingDone, Take, Reapable, Serviced, callV, startV, endV
<1>1. MainAt' /\ (lost \subseteq beside)'
  BY DEF LifeInv, MainAt
<1>2. ASSUME NEW a \in Actors PROVE ActorInv(a)'
  BY KnownOf DEF MainAt, ActorInv, Once, Born, Listed, Phase, Hooks, Pooled
<1>3. ASSUME NEW a \in Fast PROVE FastInv(a)'
  BY KnownOf DEF MainAt, MainIdle, FastInv, JoinOnce, Thread, Claimed, Owned, Joinable
<1>4. ASSUME NEW j \in Joiners, NEW a \in Fast, a \notin beside' PROVE Held(j, a)'
  BY <1>4, KnownOf DEF ActorInv, Born, Joinable, Held
<1>5. QED
  BY <1>1, <1>2, <1>3, <1>4 DEF LifeInv

\* The last loop of wait_for_shutdown() calls on_stop() where it has not run.
LEMMA FinishKeeps ==
    ASSUME TypeOK, LifeInv, Finish
    PROVE  LifeInv'
<1> USE LifecycleAssumption DEF TypeOK, ActorType, ThreadType, sys, joinV, Finish, callV, startV, endV
<1>1. MainAt' /\ (lost \subseteq beside)'
  BY DEF LifeInv, MainAt, MainIdle
<1>2. ASSUME NEW a \in Actors PROVE ActorInv(a)'
  <2>1. MainAt /\ ActorInv(a) /\ (a \in Fast => FastInv(a))
    BY KnownOf
  <2>2. Once(a)'
    BY <2>1 DEF ActorInv, Once
  <2>3. ASSUME a \notin beside PROVE Born(a)' /\ Listed(a)' /\ Phase(a)' /\ Hooks(a)'
    <3>1. Born(a) /\ Listed(a) /\ Phase(a) /\ Hooks(a) /\ (a \in Fast => Claimed(a))
      BY <2>1, <2>3 DEF ActorInv, FastInv
    <3>2. a \in Pooled /\ a \in listed => hooked[a] = 0
      BY <3>1 DEF Hooks, Pooled
    <3>3. Born(a)'
      BY <3>1 DEF Born, Claimed, Pooled
    <3>4. Listed(a)' /\ Phase(a)'
      BY <2>1, <3>1 DEF Listed, Phase, Hooks, MainAt, Pooled
    <3>5. Hooks(a)'
      BY <3>1, <3>2 DEF Hooks, Pooled
    <3>6. QED
      BY <3>3, <3>4, <3>5
  <2>4. QED
    BY <2>2, <2>3 DEF ActorInv, Pooled
<1>3. ASSUME NEW a \in Fast PROVE FastInv(a)'
  BY KnownOf DEF FastInv, JoinOnce, Thread, Claimed, Owned, Joinable
<1>4. ASSUME NEW j \in Joiners, NEW a \in Fast, a \notin beside' PROVE Held(j, a)'
  BY <1>4, KnownOf DEF Joinable, Held
<1>5. QED
  BY <1>1, <1>2, <1>3, <1>4 DEF LifeInv

\* reset() drops the actors.
LEMMA ResetKeeps ==
    ASSUME TypeOK, LifeInv, Reset
    PROVE  LifeInv'
<1> USE LifecycleAssumption DEF TypeOK, MainType, stopV, joinV, Reset, Joinable, callV, startV, endV
<1>1. MainAt' /\ (lost \subseteq beside)'
  BY DEF LifeInv, MainAt, MainIdle, FastInv, Owned
<1>2. ASSUME NEW a \in Actors PROVE ActorInv(a)'
  BY KnownOf DEF MainAt, ActorInv, Once, Born, Listed, Phase, Hooks, Pooled
<1>3. ASSUME NEW a \in Fast PROVE FastInv(a)'
  BY KnownOf DEF FastInv, JoinOnce, Thread, Claimed, Owned
<1>4. ASSUME NEW j \in Joiners, NEW a \in Fast, a \notin beside' PROVE Held(j, a)'
  BY <1>4, KnownOf DEF Held
<1>5. QED
  BY <1>1, <1>2, <1>3, <1>4 DEF LifeInv

\* register_actor() reads m_running.
LEMMA CreateReadKeeps ==
    ASSUME TypeOK, LifeInv, NEW b \in Actors, CreateRead(b)
    PROVE  LifeInv'
<1> USE LifecycleAssumption DEF TypeOK, sys, stopV, joinV, CreateRead, Starting, Goto, callV, startV, endV
<1>1. MainAt' /\ (lost \subseteq beside)'
  BY DEF LifeInv, MainAt, MainIdle
<1>2. ASSUME NEW a \in Actors PROVE ActorInv(a)'
  BY KnownOf DEF MainAt, ActorInv, Once, Born, Listed, Phase, Hooks, Pooled
<1>3. ASSUME NEW a \in Fast PROVE FastInv(a)'
  BY KnownOf DEF FastInv, JoinOnce, Thread, Claimed, Owned, Joinable
<1>4. ASSUME NEW j \in Joiners, NEW a \in Fast, a \notin beside' PROVE Held(j, a)'
  BY <1>4, KnownOf DEF Joinable, Held
<1>5. QED
  BY <1>1, <1>2, <1>3, <1>4 DEF LifeInv

\* register_actor() enters the actor in its list.
LEMMA CreateListKeeps ==
    ASSUME TypeOK, LifeInv, NEW b \in Actors, CreateList(b)
    PROVE  LifeInv'
<1> USE LifecycleAssumption DEF TypeOK, ActorType, sys, joinV, CreateList, Goto, callV, startV, endV
<1>1. MainAt' /\ (lost \subseteq beside)'
  BY DEF LifeInv, MainAt, MainIdle
<1>2. ASSUME NEW a \in Actors PROVE ActorInv(a)'
  BY KnownOf DEF MainAt, ActorInv, Once, Born, Listed, Phase, Hooks, Pooled
<1>3. ASSUME NEW a \in Fast PROVE FastInv(a)'
  BY KnownOf DEF FastInv, JoinOnce, Thread, Claimed, Owned, Joinable
<1>4. ASSUME NEW j \in Joiners, NEW a \in Fast, a \notin beside' PROVE Held(j, a)'
  BY <1>4, KnownOf DEF FastInv, Thread, Joinable, Held
<1>5. QED
  BY <1>1, <1>2, <1>3, <1>4 DEF LifeInv

\* on_start() of an actor created while the system runs.
LEMMA CreateStartKeeps ==
    ASSUME TypeOK, LifeInv, NEW b \in Actors, CreateStart(b)
    PROVE  LifeInv'
<1> USE LifecycleAssumption DEF TypeOK, ActorType, sys, stopV, joinV, CreateStart, RunOnStart, Goto, callV, startV, endV
<1>1. MainAt' /\ (lost \subseteq beside)'
  BY DEF LifeInv, MainAt, MainIdle
<1>2. ASSUME NEW a \in Actors PROVE ActorInv(a)'
  BY KnownOf DEF MainAt, ActorInv, Once, Born, Listed, Phase, Hooks, Pooled
<1>3. ASSUME NEW a \in Fast PROVE FastInv(a)'
  BY KnownOf DEF FastInv, JoinOnce, Thread, Claimed, Owned, Joinable
<1>4. ASSUME NEW j \in Joiners, NEW a \in Fast, a \notin beside' PROVE Held(j, a)'
  BY <1>4, KnownOf DEF Joinable, Held
<1>5. QED
  BY <1>1, <1>2, <1>3, <1>4 DEF LifeInv

\* An on_start() that throws.
LEMMA CreateFailsKeeps ==
    ASSUME TypeOK, LifeInv, NEW b \in Actors, CreateFails(b)
    PROVE  LifeInv'
<1> USE LifecycleAssumption DEF TypeOK, ActorType, sys, joinV, CreateFails, Goto, callV, startV, endV
<1>1. MainAt' /\ (lost \subseteq beside)'
  BY KnownOf DEF LifeInv, MainAt, MainIdle, FastInv, Thread, Joinable
<1>2. ASSUME NEW a \in Actors PROVE ActorInv(a)'
  BY KnownOf DEF MainAt, ActorInv, Once, Born, Listed, Phase, Hooks, Pooled
<1>3. ASSUME NEW a \in Fast PROVE FastInv(a)'
  BY KnownOf DEF FastInv, JoinOnce, Thread, Claimed, Owned, Joinable
<1>4. ASSUME NEW j \in Joiners, NEW a \in Fast, a \notin beside' PROVE Held(j, a)'
  BY <1>4, KnownOf DEF Joinable, Held
<1>5. QED
  BY <1>1, <1>2, <1>3, <1>4 DEF LifeInv

\* register_actor() launches a dedicated thread.
LEMMA CreateLaunchKeeps ==
    ASSUME TypeOK, LifeInv, NEW b \in Actors, CreateLaunch(b)
    PROVE  LifeInv'
<1> USE LifecycleAssumption DEF TypeOK, ActorType, sys, stopV, joinV, CreateLaunch, Goto,
     Joinable, callV, startV, endV
<1>1. MainAt' /\ (lost \subseteq beside)'
  BY DEF LifeInv, MainAt, MainIdle
<1>2. ASSUME NEW a \in Actors PROVE ActorInv(a)'
  BY KnownOf DEF MainAt, ActorInv, Once, Born, Listed, Phase, Hooks, Pooled
<1>3. ASSUME NEW a \in Fast PROVE FastInv(a)'
  BY KnownOf DEF ActorInv, Born, FastInv, JoinOnce, Thread, Claimed, Owned
<1>4. ASSUME NEW j \in Joiners, NEW a \in Fast, a \notin beside' PROVE Held(j, a)'
  BY <1>4, KnownOf DEF Held
<1>5. QED
  BY <1>1, <1>2, <1>3, <1>4 DEF LifeInv

\* An actor created while the system shuts down.
LEMMA CreateLateKeeps ==
    ASSUME TypeOK, LifeInv, NEW b \in Actors, CreateLate(b)
    PROVE  LifeInv'
<1> USE LifecycleAssumption DEF TypeOK, sys, stopV, joinV, CreateLate, Goto, callV, startV, endV
<1>1. MainAt' /\ (lost \subseteq beside)'
  BY DEF LifeInv, MainAt, MainIdle
<1>2. ASSUME NEW a \in Actors PROVE ActorInv(a)'
  BY KnownOf DEF MainAt, ActorInv, Once, Born, Listed, Phase, Hooks, Pooled
<1>3. ASSUME NEW a \in Fast PROVE FastInv(a)'
  BY KnownOf DEF FastInv, JoinOnce, Thread, Claimed, Owned, Joinable
<1>4. ASSUME NEW j \in Joiners, NEW a \in Fast, a \notin beside' PROVE Held(j, a)'
  BY <1>4, KnownOf DEF Joinable, Held
<1>5. QED
  BY <1>1, <1>2, <1>3, <1>4 DEF LifeInv

\* stop_actor() claims a stop.
LEMMA StopActorKeeps ==
    ASSUME TypeOK, LifeInv, NEW b \in Actors, StopActor(b)
    PROVE  LifeInv'
<1> USE LifecycleAssumption DEF TypeOK, ActorType, sys, joinV, StopActor, Ask, callV, startV, endV
<1>1. MainAt' /\ (lost \subseteq beside)'
  BY DEF LifeInv, MainAt, MainIdle
<1>2. ASSUME NEW a \in Actors PROVE ActorInv(a)'
  BY KnownOf DEF MainAt, ActorInv, Once, Born, Listed, Phase, Hooks, Pooled
<1>3. ASSUME NEW a \in Fast PROVE FastInv(a)'
  BY KnownOf DEF FastInv, JoinOnce, Thread, Claimed, Owned, Joinable
<1>4. ASSUME NEW j \in Joiners, NEW a \in Fast, a \notin beside' PROVE Held(j, a)'
  BY <1>4, KnownOf DEF Joinable, Held
<1>5. QED
  BY <1>1, <1>2, <1>3, <1>4 DEF LifeInv

\* stop_actor() looks who has to carry out the stop.
LEMMA StopWhoKeeps ==
    ASSUME TypeOK, LifeInv, NEW b \in Actors, StopWho(b)
    PROVE  LifeInv'
<1> USE LifecycleAssumption DEF TypeOK, ActorType, sys, joinV, startV, StopWho, Ask
<1>1. MainAt' /\ (lost \subseteq beside)'
  BY DEF LifeInv, MainAt, MainIdle
<1>2. ASSUME NEW a \in Actors PROVE ActorInv(a)'
  BY KnownOf DEF MainAt, ActorInv, Once, Born, Listed, Phase, Hooks, Pooled
<1>3. ASSUME NEW a \in Fast PROVE FastInv(a)'
  BY KnownOf DEF FastInv, JoinOnce, Thread, Claimed, Owned, Joinable
<1>4. ASSUME NEW j \in Joiners, NEW a \in Fast, a \notin beside' PROVE Held(j, a)'
  BY <1>4, KnownOf DEF Joinable, Held
<1>5. QED
  BY <1>1, <1>2, <1>3, <1>4 DEF LifeInv

\* The hooks of a stop.
LEMMA StopHooksKeeps ==
    ASSUME TypeOK, LifeInv, NEW b \in Actors, NEW e \in {"caller", "main", "own"}, StopHooks(e, b)
    PROVE  LifeInv'
<1> USE LifecycleAssumption DEF TypeOK, ActorType, sys, joinV, StopHooks, At, Finds,
     OnWorker, callV, startV, endV
<1>1. MainAt' /\ (lost \subseteq beside)'
  BY DEF LifeInv, MainAt, MainIdle
<1>2. ASSUME NEW a \in Actors PROVE ActorInv(a)'
  <2>1. MainAt /\ ActorInv(a) /\ (a \in Fast => FastInv(a))
    BY KnownOf
  <2>2. CASE a # b
    BY <2>1, <2>2 DEF ActorInv, Once, Born, Listed, Phase, Hooks
  <2>3. CASE a = b
    <3>1. Once(a)'
      BY <2>1 DEF ActorInv, Once
    <3>2. ASSUME a \notin beside PROVE Born(a)' /\ Listed(a)' /\ Phase(a)' /\ Hooks(a)'
      <4>1. Born(a) /\ Listed(a) /\ Phase(a) /\ Hooks(a) /\ (a \in Fast => Thread(a))
        BY <2>1, <3>2 DEF ActorInv, FastInv
      <4>2. creating[a] \notin {"on_start", "launch"} /\ main # "starting"
        BY <2>1, <2>3, <4>1 DEF Born, Listed, Phase, Thread, InOnStart, MainAt
      <4>3. hooked[a] = 0
        BY <2>3, <4>1 DEF Hooks
      <4>4. Born(a)' /\ Listed(a)' /\ Phase(a)'
        BY <2>3, <4>1, <4>2 DEF Born, Listed, Phase
      <4>5. Hooks(a)'
        BY <2>3, <4>1, <4>3 DEF Hooks, Phase, Listed, Pooled
      <4>6. QED
        BY <4>4, <4>5
    <3>3. QED
      BY <3>1, <3>2 DEF ActorInv
  <2>4. QED
    BY <2>2, <2>3
<1>3. ASSUME NEW a \in Fast PROVE FastInv(a)'
  <2>1. MainAt /\ ActorInv(a) /\ FastInv(a)
    BY KnownOf
  <2>2. JoinOnce(a)'
    BY <2>1 DEF FastInv, JoinOnce
  <2>3. ASSUME a \notin beside PROVE Thread(a)' /\ Claimed(a)' /\ Owned(a)'
    <3>1. Listed(a) /\ Phase(a) /\ Thread(a) /\ Claimed(a) /\ Owned(a)
      BY <2>1, <2>3 DEF ActorInv, FastInv
    <3>2. a = b => thread[a] # "start"
      BY <3>1 DEF Listed, Phase, Thread, Pooled
    <3>3. Thread(a)'
      BY <3>1, <3>2 DEF Thread
    <3>4. Claimed(a)' /\ Owned(a)'
      BY <3>1 DEF Claimed, Owned, Joinable
    <3>5. QED
      BY <3>3, <3>4
  <2>4. QED
    BY <2>2, <2>3 DEF FastInv
<1>4. ASSUME NEW j \in Joiners, NEW a \in Fast, a \notin beside' PROVE Held(j, a)'
  BY <1>4, KnownOf DEF Joinable, Held
<1>5. QED
  BY <1>1, <1>2, <1>3, <1>4 DEF LifeInv

\* The rest of a stop: names, watches, lists.
LEMMA StopRestKeeps ==
    ASSUME TypeOK, LifeInv, NEW b \in Actors, StopUnwatch(b) \/ StopDone(b)
    PROVE  LifeInv'
<1> USE LifecycleAssumption DEF TypeOK, ActorType, sys, joinV, StopUnwatch, StopDone, At, Ask, callV, startV, endV
<1>1. MainAt' /\ (lost \subseteq beside)'
  BY DEF LifeInv, MainAt, MainIdle
<1>2. ASSUME NEW a \in Actors PROVE ActorInv(a)'
  BY KnownOf DEF MainAt, ActorInv, Once, Born, Listed, Phase, Hooks, Pooled
<1>3. ASSUME NEW a \in Fast PROVE FastInv(a)'
  BY KnownOf DEF Pooled, ActorInv, Hooks, FastInv, JoinOnce, Thread, Claimed, Owned, Joinable
<1>4. ASSUME NEW j \in Joiners, NEW a \in Fast, a \notin beside' PROVE Held(j, a)'
  BY <1>4, KnownOf DEF Joinable, Held
<1>5. QED
  BY <1>1, <1>2, <1>3, <1>4 DEF LifeInv

\* The loop of a dedicated thread, up to its exit.
LEMMA FastThreadKeeps ==
    ASSUME TypeOK, LifeInv, NEW b \in Fast, FastStart(b) \/ FastExit(b)
    PROVE  LifeInv'
<1> USE LifecycleAssumption DEF TypeOK, ActorType, ThreadType, sys, stopV, joinV, FastStart, FastExit, Run, RunOnStart, Serviced, callV, startV, endV
<1>1. MainAt' /\ (lost \subseteq beside)'
  BY DEF LifeInv, MainAt, MainIdle
<1>2. ASSUME NEW a \in Actors PROVE ActorInv(a)'
  BY KnownOf DEF MainAt, ActorInv, Once, Born, Listed, Phase, Hooks, Pooled
<1>3. ASSUME NEW a \in Fast PROVE FastInv(a)'
  BY KnownOf DEF FastInv, JoinOnce, Thread, Claimed, Owned, Joinable
<1>4. ASSUME NEW j \in Joiners, NEW a \in Fast, a \notin beside' PROVE Held(j, a)'
  BY <1>4, KnownOf DEF Joinable, Held
<1>5. QED
  BY <1>1, <1>2, <1>3, <1>4 DEF LifeInv

\* An actor handles system_shutdown.
LEMMA HandleShutdownKeeps ==
    ASSUME TypeOK, LifeInv, NEW b \in Actors, HandleShutdown(b)
    PROVE  LifeInv'
<1> USE LifecycleAssumption DEF TypeOK, ActorType, sys, joinV, HandleShutdown, OnWorker, callV, startV, endV
<1>1. MainAt' /\ (lost \subseteq beside)'
  BY DEF LifeInv, MainAt, MainIdle
<1>2. ASSUME NEW a \in Actors PROVE ActorInv(a)'
  <2>1. MainAt /\ ActorInv(a) /\ (a \in Fast => FastInv(a))
    BY KnownOf
  <2>2. CASE a # b
    BY <2>1, <2>2 DEF ActorInv, Once, Born, Listed, Phase, Hooks
  <2>3. CASE a = b
    BY <2>1, <2>3 DEF MainAt, ActorInv, Once, Born, Listed, Phase, Hooks, FastInv, Thread, InOnStart, Pooled
  <2>4. QED
    BY <2>2, <2>3
<1>3. ASSUME NEW a \in Fast PROVE FastInv(a)'
  BY KnownOf DEF FastInv, JoinOnce, Thread, Claimed, Owned, Joinable
<1>4. ASSUME NEW j \in Joiners, NEW a \in Fast, a \notin beside' PROVE Held(j, a)'
  BY <1>4, KnownOf DEF Joinable, Held
<1>5. QED
  BY <1>1, <1>2, <1>3, <1>4 DEF LifeInv

\* reap_stopped_fast_actors() finds a thread to join.
LEMMA ReapKeeps ==
    ASSUME TypeOK, LifeInv, NEW r \in Reapers, Reap(r)
    PROVE  LifeInv'
<1> USE LifecycleAssumption DEF TypeOK, ActorType, ThreadType, sys, stopV, Reap, Take, Reapable, callV, startV, endV
<1>1. MainAt' /\ (lost \subseteq beside)'
  BY DEF LifeInv, MainAt, MainIdle
<1>2. ASSUME NEW a \in Actors PROVE ActorInv(a)'
  BY KnownOf DEF MainAt, ActorInv, Once, Born, Listed, Phase, Hooks, Pooled
<1>3. ASSUME NEW a \in Fast PROVE FastInv(a)'
  BY KnownOf DEF FastInv, JoinOnce, Thread, Claimed, Owned, Joinable, Joiners
<1>4. ASSUME NEW j \in Joiners, NEW a \in Fast, a \notin beside' PROVE Held(j, a)'
  BY <1>4, KnownOf DEF ActorInv, Born, Joinable, Held
<1>5. QED
  BY <1>1, <1>2, <1>3, <1>4 DEF LifeInv

\* A joiner wins or loses m_join_claimed.
LEMMA ClaimJoinKeeps ==
    ASSUME TypeOK, LifeInv, NEW r \in Joiners, NEW b \in Fast, ClaimJoin(r, b)
    PROVE  LifeInv'
<1> USE LifecycleAssumption DEF TypeOK, ThreadType, sys, stopV, ClaimJoin, Joinable, callV, startV, endV
<1>1. MainAt' /\ (lost \subseteq beside)'
  BY DEF LifeInv, MainAt, MainIdle
<1>2. ASSUME NEW a \in Actors PROVE ActorInv(a)'
  BY KnownOf DEF MainAt, ActorInv, Once, Born, Listed, Phase, Hooks, Pooled
<1>3. ASSUME NEW a \in Fast PROVE FastInv(a)'
  BY KnownOf DEF MainAt, MainIdle, FastInv, JoinOnce, Thread, Claimed, Owned, Joiners, Held
<1>4. ASSUME NEW j \in Joiners, NEW a \in Fast, a \notin beside' PROVE Held(j, a)'
  BY <1>4, KnownOf DEF Held
<1>5. QED
  BY <1>1, <1>2, <1>3, <1>4 DEF LifeInv

\* A joiner returns from join().
LEMMA JoinKeeps ==
    ASSUME TypeOK, LifeInv, NEW r \in Joiners, Join(r)
    PROVE  LifeInv'
<1> USE LifecycleAssumption DEF TypeOK, ThreadType, sys, stopV, Join, callV, startV, endV
<1>1. MainAt' /\ (lost \subseteq beside)'
  BY DEF LifeInv, MainAt, MainIdle
<1>2. ASSUME NEW a \in Actors PROVE ActorInv(a)'
  BY KnownOf DEF MainAt, ActorInv, Once, Born, Listed, Phase, Hooks, Pooled
<1>3. ASSUME NEW a \in Fast PROVE FastInv(a)'
  BY KnownOf DEF FastInv, JoinOnce, Thread, Claimed, Owned, Joinable, Held
<1>4. ASSUME NEW j \in Joiners, NEW a \in Fast, a \notin beside' PROVE Held(j, a)'
  BY <1>4, KnownOf DEF Joinable, Held, FastInv, JoinOnce
<1>5. QED
  BY <1>1, <1>2, <1>3, <1>4 DEF LifeInv

\* Names and watches are no part of LifeInv.
LEMMA OthersKeep ==
    ASSUME LifeInv, UNCHANGED <<main, sys, to_start, listed, creating, m_state, m_stop_phase, callV, at,
                                startV, shut, thread, joinV, hooked, endV>>
    PROVE  LifeInv'
<1> USE DEF sys, callV, startV, joinV, endV
<1>1. MainAt' /\ (lost \subseteq beside)'
  BY DEF LifeInv, MainAt, MainIdle
<1>2. ASSUME NEW a \in Actors PROVE ActorInv(a)'
  BY KnownOf DEF MainAt, ActorInv, Once, Born, Listed, Phase, Hooks, Pooled
<1>3. ASSUME NEW a \in Fast PROVE FastInv(a)'
  BY KnownOf, LifecycleAssumption DEF FastInv, JoinOnce, Thread, Claimed, Owned, Joinable
<1>4. ASSUME NEW j \in Joiners, NEW a \in Fast, a \notin beside' PROVE Held(j, a)'
  BY <1>4, KnownOf, LifecycleAssumption DEF Held, Joinable
<1>5. QED
  BY <1>1, <1>2, <1>3, <1>4 DEF LifeInv

\* Every step keeps the invariant.
LEMMA LifeStep ==
    ASSUME TypeOK, LifeInv, [Next]_vars
    PROVE  LifeInv'
<1>1. CASE UNCHANGED vars
  BY <1>1, OthersKeep DEF vars, stopV
<1>2. CASE MainSteps
  BY <1>2, StartOneKeeps, StartLaunchKeeps, TellKeeps, JoinFastKeeps, JoinsDoneKeeps,
     PendingDoneKeeps, FinishKeeps DEF MainSteps
<1>3. CASE Requests
  <2>1. CASE \/ \E a \in Renamers, n \in Names : Rename(a, n)
             \/ \E p \in Pairs : WatchCheck(p) \/ WatchAdd(p) \/ Unwatch(p)
    BY <2>1, OthersKeep DEF Rename, WatchCheck, WatchAdd, Unwatch, stopV
  <2>2. QED
    BY <1>3, <2>1, StartBeginKeeps, TellKeeps, ResetKeeps, CreateReadKeeps, StopActorKeeps,
       ReapKeeps DEF Requests
<1>4. CASE \E a \in Actors : Creating(a)
  BY <1>4, CreateListKeeps, CreateStartKeeps, CreateFailsKeeps, CreateLaunchKeeps,
       CreateLateKeeps
     DEF Creating
<1>5. CASE \E a \in Actors : Stopping(a)
  BY <1>5, StopWhoKeeps, StopHooksKeeps, StopRestKeeps DEF Stopping
<1>6. CASE \E a \in Actors : StopFound(a) \/ HandleShutdown(a)
  BY <1>6, StopHooksKeeps, HandleShutdownKeeps DEF StopFound
<1>7. CASE \E a \in Fast : FastStart(a) \/ FastExit(a)
  BY <1>7, FastThreadKeeps
<1>8. CASE \E j \in Joiners : Joining(j)
  BY <1>8, ClaimJoinKeeps, JoinKeeps DEF Joining
<1>9. QED
  BY <1>1, <1>2, <1>3, <1>4, <1>5, <1>6, <1>7, <1>8, LifecycleAssumption DEF Next,
       Threads, OwnThread, Pooled

\* The invariant holds at the start.
LEMMA LifeInit == Init => LifeInv
<1> SUFFICES ASSUME Init PROVE LifeInv
  OBVIOUS
<1> USE LifecycleAssumption DEF Init
<1>1. MainAt /\ lost \subseteq beside
  BY DEF MainAt, MainIdle, Joiners
<1>2. ASSUME NEW a \in Actors PROVE ActorInv(a)
  BY DEF ActorInv, Once, Born, Listed, Phase, Hooks, Pooled
<1>3. ASSUME NEW a \in Fast PROVE FastInv(a)
  BY DEF FastInv, JoinOnce, Thread, Claimed, Owned, Joinable
<1>4. ASSUME NEW j \in Joiners, NEW a \in Fast, a \notin beside PROVE Held(j, a)
  BY <1>4 DEF Held
<1>5. QED
  BY <1>1, <1>2, <1>3, <1>4 DEF LifeInv

\* The inductive invariant holds throughout.
LEMMA LifeInvariant == Spec => []LifeInv
<1>1. TypeOK /\ LifeInv /\ [Next]_vars => LifeInv'
  BY LifeStep
<1>2. QED
  BY <1>1, LifeInit, TypeCorrect, PTL DEF Spec

-----------------------------------------------------------------------------
\* on_start() runs once at most, on whichever of three threads; on_stop() runs once
\* at most, and neither while on_start() runs nor before it, for every actor whose
\* create(), or stop on its caller's thread, ran beside neither start() nor the end
\* of wait_for_shutdown().
THEOREM HooksInOrder == Spec => []HookOrder
<1>1. TypeOK /\ LifeInv => HookOrder
  <2> SUFFICES ASSUME TypeOK, LifeInv, NEW a \in Actors
               PROVE  /\ on_starts[a] <= 1
                      /\ a \notin beside => hooked[a] <= 1 /\ (hooked[a] = 1 => ~InOnStart(a))
    BY DEF HookOrder
  <2>1. MainAt /\ ActorInv(a) /\ (a \in Fast => FastInv(a))
    BY KnownOf
  <2>2. on_starts[a] <= 1
    BY <2>1 DEF ActorInv, Once
  <2>3. ASSUME a \notin beside PROVE hooked[a] <= 1 /\ (hooked[a] = 1 => ~InOnStart(a))
    <3>1. Born(a) /\ Listed(a) /\ Hooks(a) /\ (a \in Fast => Thread(a))
      BY <2>1, <2>3 DEF ActorInv, FastInv
    <3>2. hooked[a] = 1 => in_start # a
      BY <2>1, <3>1, LifecycleAssumption DEF MainAt, Listed, Hooks
    <3>3. QED
      BY <3>1, <3>2 DEF Born, Hooks, Thread, InOnStart, TypeOK, ActorType
  <2>4. QED
    BY <2>2, <2>3
<1>2. QED
  BY <1>1, LifeInvariant, TypeCorrect, PTL

\* Every dedicated thread is joined once at most, by whoever claimed it; start(),
\* reset() and a failed create() drop no joinable thread, and wait_for_shutdown()
\* leaves none behind, but for actors created beside start() or not yet created
\* when wait_for_shutdown() joins.
THEOREM EveryThreadJoined == Spec => []ThreadsJoined
<1>1. TypeOK /\ LifeInv => ThreadsJoined
  <2> SUFFICES ASSUME TypeOK, LifeInv, NEW a \in Fast
               PROVE  /\ joined[a] <= 1
                      /\ a \notin beside /\ main \in {"down", "reset"} /\ Joinable(a) =>
                            \E j \in Reapers : a \in todo[j] \cup {joining[j]}
    BY DEF ThreadsJoined, LifeInv
  <2>1. MainAt /\ FastInv(a)
    BY KnownOf, LifecycleAssumption
  <2>2. joined[a] <= 1
    BY <2>1 DEF FastInv, JoinOnce
  <2>3. ASSUME a \notin beside, main \in {"down", "reset"}, Joinable(a)
        PROVE  \E j \in Reapers : a \in todo[j] \cup {joining[j]}
    <3>1. PICK j \in Joiners : a \in todo[j] \/ joining[j] = a
      BY <2>1, <2>3 DEF FastInv, Owned
    <3>2. j # "main"
      BY <2>1, <2>3, <3>1, LifecycleAssumption DEF MainAt, MainIdle
    <3>3. QED
      BY <3>1, <3>2 DEF Joiners
  <2>4. QED
    BY <2>2, <2>3
<1>2. QED
  BY <1>1, LifeInvariant, TypeCorrect, PTL
=============================================================================
