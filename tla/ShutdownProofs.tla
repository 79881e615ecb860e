--------------------------- MODULE ShutdownProofs ---------------------------
(***************************************************************************)
(* What holds of shutdown() and wait_for_shutdown() for any number of      *)
(* actors, workers, clients and messages.                                  *)
(***************************************************************************)
EXTENDS Shutdown, TLAPS

\* The steps of the code that runs an actor: a turn of its worker, or
\* run_stop_to_completion() of another thread.
RunSteps == {"enter", "service", "handle", "hook", "hooks", "close", "finish", "set"}

\* on_stop() has run in this service_stop().
AfterStop == {"close", "finish", "set"}

\* The steps inside a stop_actor() call.
StopSteps == {"claimed", "request", "who", "may_wait", "wait"}

\* The last loop of wait_for_shutdown(), and its end.
LastSteps == {"stop_all", "last", "done"}

\* The workers have been joined.
MainAlone == step[Main] \in {"pending"} \cup LastSteps \cup RunSteps

\* Which thread can be where: a client runs an actor only when there are no
\* workers, and like the thread in wait_for_shutdown() only as its executor.
PlaceOf(t) ==
    /\ t \in Clients => /\ step[t] \in {"ready", "push"} \cup StopSteps \cup RunSteps
                        /\ step[t] \in RunSteps => MainAlone
    /\ t \in Workers => step[t] \in {"loop", "turn", "handler", "exited"} \cup RunSteps \cup StopSteps
    /\ t = Main => step[t] \notin {"loop", "turn", "handler", "exited"} \cup StopSteps
    /\ MainAlone /\ t \in Workers => step[t] = "exited"
    /\ t \notin Workers /\ step[t] \in RunSteps \ {"enter"} => m_executor[on[t]] = t

\* A thread that runs an actor, other than a caller of stop_actor(), is the only
\* one, and the actor has its end ahead of it: on_stop() has run only when the
\* thread is past it.
Runs(t, a) ==
    /\ m_state[a] # "stopped"
    /\ step[t] # "set" => a \in m_listed
    /\ step[t] \in AfterStop => on_stop[a] = 1
    /\ step[t] \notin AfterStop => on_stop[a] = 0

TurnOf(t) ==
    /\ t \in Workers /\ step[t] \notin {"loop", "exited"} => Pin[cur[t]] = t /\ Runs(t, cur[t])
    /\ t \in Workers /\ step[t] \in RunSteps => on[t] = cur[t]
    /\ t = Main /\ step[t] \in RunSteps /\ ~ByCaller(on[t]) => Runs(t, on[t])
    /\ step[t] \in {"finish", "set"} => on_stop[on[t]] >= 1 /\ on[t] \in m_closed
    /\ step[t] = "close" => on_stop[on[t]] >= 1
    /\ step[t] = "set" => on[t] \notin m_listed
    /\ t = Main /\ step[t] = "last" => on[t] \notin todo

\* A thread of the system is between the end of on_stop() and "stopped".
Ending(a) ==
    \E t \in Workers \cup {Main} : step[t] \in AfterStop \cup {"last"} /\ on[t] = a

\* What is off the list is closed, and its on_stop() has run; the last pass of
\* wait_for_shutdown() finds the others.
GoneOf(a) ==
    /\ on_stop[a] \in Nat
    /\ m_workers_active => ~ByCaller(a)
    /\ a \notin m_listed => on_stop[a] >= 1 /\ a \in m_closed
    /\ step[Main] \in {"stop_all", "last"} /\ a \notin todo => on_stop[a] >= 1
    /\ step[Main] = "done" => on_stop[a] >= 1

\* The end of an actor that no caller of stop_actor() runs: on_stop() has run
\* once, and what is off the list is stopped.
EndOf(a) ==
    /\ on_stop[a] \in {0, 1}
    /\ m_state[a] = "stopped" => on_stop[a] = 1
    /\ on_stop[a] = 1 => m_state[a] = "stopped" \/ Ending(a)
    /\ a \notin m_listed => m_state[a] = "stopped" \/ Ending(a)
    /\ m_state[a] = "stopped" /\ a \in m_listed => step[Main] \in LastSteps
    /\ step[Main] \in {"stop_all", "last"} /\ a \in todo => on_stop[a] = 0
    /\ step[Main] = "stop_all" /\ a \notin todo => m_state[a] = "stopped"
    /\ step[Main] = "last" /\ a \notin todo /\ a # on[Main] => m_state[a] = "stopped"
    /\ step[Main] = "done" => m_state[a] = "stopped"

EndInv ==
    /\ MainAlone => ~m_workers_active
    /\ ~MainAlone => m_workers_active
    /\ \A t \in Threads : PlaceOf(t) /\ TurnOf(t)
    /\ \A a \in Actors : GoneOf(a) /\ (~ByCaller(a) => EndOf(a))

\* A closed mailbox stays empty.
Closed == \A a \in m_closed : ~has_messages(a)

\* A message that has been pushed: it is not the one its sender is about to push.
Pushed(m) == m.seq <= sent[m.from] /\ (step[m.from] = "push" => m.seq < sent[m.from])

Queued ==
    /\ \A a \in Actors : \A m \in ToSet(m_queue[a]) :
          IF m = system_shutdown THEN step[Main] # "ready" ELSE Pushed(m)
    /\ \A m \in early : Pushed(m)
    /\ \A c \in Clients : step[c] = "push" => sent[c] > 0

\* The mailboxes that may still hold a message which was there when shutdown()
\* was called: after the third phase only those of the log.
Lookout(a) ==
    \/ step[Main] \in {"ready", "inject", "push", "poll"}
    \/ step[Main] = "log" /\ a \in todo
    \/ a \in m_log

Traces ==
    \A m \in early : \/ m \in dead \cup UNION {done[a] : a \in Actors}
                     \/ \E a \in Actors : m \in ToSet(m_queue[a]) /\ Lookout(a)

TraceInv == Queued /\ Traces

-----------------------------------------------------------------------------
(* Every step keeps the types *)

\* The placeholder is an actor.
LEMMA SomeActorType == SomeActor \in Actors
BY ActorAssumption DEF SomeActor

\* The types of what each thread is in.
LEMMA CallStep ==
    ASSUME TypeOK, [Next]_vars
    PROVE  CallType'
<1> USE SomeActorType, ThreadAssumption, BoundAssumption DEF TypeOK, CallType, StopType,
     Threads, vars, control, mbox, flags, turn, thread, hooks, hist
<1>1. CASE \E c \in Clients : Client(c)
  BY <1>1 DEF Client, Send, ClientStops, Claim, Go, Msg
<1>2. CASE \E t \in Clients \cup {Main} : Push(t)
  BY <1>2 DEF Push, Return, Home, Payload, Msg
<1>3. CASE \E t \in Threads : StopActor(t)
  BY <1>3 DEF StopActor, StopIntake, StopRequest, StopWho, StopMayWait, StopReturn, Go,
       Return, Home
<1>4. CASE \E t \in Threads : ServiceStop(t)
  <2> PICK t \in Threads : ServiceStop(t)
    BY <1>4
  <2>1. CASE ServiceEnter(t)
    BY <2>1 DEF ServiceEnter, Leave, Served, Go
  <2>2. CASE ServiceDrain(t)
    BY <2>2 DEF ServiceDrain, Leave, Served, Go
  <2>3. CASE ServiceShutdownHook(t) \/ ServiceStopHook(t)
    BY <2>3 DEF ServiceShutdownHook, ServiceStopHook, Go
  <2>4. CASE ServiceClose(t)
    BY <2>4 DEF ServiceClose, Go
  <2>7. CASE ServiceUnlist(t)
    BY <2>7 DEF ServiceUnlist, Unlist, Go
  <2>5. CASE ServiceFinish(t)
    BY <2>5 DEF ServiceFinish, Finish, Leave, Served
  <2>6. QED
    BY <1>4, <2>1, <2>2, <2>3, <2>4, <2>5, <2>7 DEF ServiceStop
<1>5. CASE \E t \in Threads : Dispatch(t)
  BY <1>5 DEF Dispatch, Handle, RunHandler, DispatchShutdown, ShutdownHookDone, Go, Again
<1>6. CASE \E w \in Workers : RunActor(w)
  BY <1>6 DEF RunActor, WorkerExit, WorkerPop, TurnTop, TurnOver, HandlerReturns, Leave,
       Served, Go
<1>7. CASE \E w \in Workers, a \in Actors, waits \in BOOLEAN : HandlerStops(w, a, waits)
  BY <1>7 DEF HandlerStops, Claim, Go
<1>8. CASE ShutdownBegin \/ ShutdownSteps
  <2>1. CASE ShutdownBegin
    BY <2>1 DEF ShutdownBegin, Goto, Go
  <2>2. CASE InjectDone \/ PollDone
    BY <2>2 DEF InjectDone, PollDone, Goto, Go
  <2>3. CASE Signal
    BY <2>3 DEF Signal, Request, Goto, Go
  <2>4. CASE \E a \in Actors : Inject(a) \/ Poll(a)
    BY <2>4 DEF Inject, Poll, Goto, Go
  <2>5. CASE \E a \in Actors : LogUndrained(a)
    BY <2>5 DEF LogUndrained, LogIf
  <2>6. QED
    BY <1>8, <2>1, <2>2, <2>3, <2>4, <2>5 DEF ShutdownSteps
<1>9. CASE WaitSteps
  <2>1. CASE Join
    BY <2>1 DEF Join, Goto, Go
  <2>2. CASE PendingDone \/ MarkStopped \/ ShutdownDone
    BY <2>2 DEF PendingDone, MarkStopped, ShutdownDone, Goto, Go
  <2>3. CASE \E a \in Actors : CompletePending(a)
    BY <2>3 DEF CompletePending, Goto, Go
  <2>4. CASE \E a \in Actors : StopListed(a)
    BY <2>4 DEF StopListed, LastCall, Goto, Go
  <2>5. QED
    BY <1>9, <2>1, <2>2, <2>3, <2>4 DEF WaitSteps
<1>10. CASE UNCHANGED vars
  BY <1>10
<1>11. QED
  BY <1>1, <1>2, <1>3, <1>4, <1>5, <1>6, <1>7, <1>8, <1>9, <1>10 DEF Next

\* The types of states, phases and flags.
LEMMA StopStep ==
    ASSUME TypeOK, [Next]_vars
    PROVE  StopType'
<1> USE SomeActorType, ThreadAssumption, BoundAssumption DEF TypeOK, CallType, StopType,
     Threads, vars, control, mbox, flags, turn, thread, hooks, hist
<1>1. CASE \E c \in Clients : Client(c)
  BY <1>1 DEF Client, Send, ClientStops, Claim, Go, Msg
<1>2. CASE \E t \in Clients \cup {Main} : Push(t)
  BY <1>2 DEF Push, Return, Home, Payload, Msg
<1>3. CASE \E t \in Threads : StopActor(t)
  BY <1>3 DEF StopActor, StopIntake, StopRequest, StopWho, StopMayWait, StopReturn, Go,
       Return, Home
<1>4. CASE \E t \in Threads : ServiceStop(t)
  <2> PICK t \in Threads : ServiceStop(t)
    BY <1>4
  <2>1. CASE ServiceEnter(t)
    BY <2>1 DEF ServiceEnter, Leave, Served, Go
  <2>2. CASE ServiceDrain(t)
    BY <2>2 DEF ServiceDrain, Leave, Served, Go
  <2>3. CASE ServiceShutdownHook(t) \/ ServiceStopHook(t)
    BY <2>3 DEF ServiceShutdownHook, ServiceStopHook, Go
  <2>4. CASE ServiceClose(t) \/ ServiceUnlist(t)
    BY <2>4 DEF ServiceClose, ServiceUnlist, Unlist, Go
  <2>5. CASE ServiceFinish(t)
    BY <2>5 DEF ServiceFinish, Finish, Leave, Served
  <2>6. QED
    BY <1>4, <2>1, <2>2, <2>3, <2>4, <2>5 DEF ServiceStop
<1>5. CASE \E t \in Threads : Dispatch(t)
  BY <1>5 DEF Dispatch, Handle, RunHandler, DispatchShutdown, ShutdownHookDone, Go, Again
<1>6. CASE \E w \in Workers : RunActor(w)
  BY <1>6 DEF RunActor, WorkerExit, WorkerPop, TurnTop, TurnOver, HandlerReturns, Leave,
       Served, Go
<1>7. CASE \E w \in Workers, a \in Actors, waits \in BOOLEAN : HandlerStops(w, a, waits)
  BY <1>7 DEF HandlerStops, Claim, Go
<1>8. CASE ShutdownBegin \/ ShutdownSteps
  BY <1>8 DEF ShutdownBegin, ShutdownSteps, InjectDone, PollDone, Signal, Request, Inject,
       Poll, LogUndrained, LogIf, Goto, Go
<1>9. CASE WaitSteps
  BY <1>9 DEF WaitSteps, Join, PendingDone, ShutdownDone, CompletePending, StopListed,
       LastCall, MarkStopped, Goto, Go
<1>10. CASE UNCHANGED vars
  BY <1>10
<1>11. QED
  BY <1>1, <1>2, <1>3, <1>4, <1>5, <1>6, <1>7, <1>8, <1>9, <1>10 DEF Next

-----------------------------------------------------------------------------
(* The end of every actor: every step keeps EndInv *)

\* What EndInv says of one thread and of one actor.
LEMMA KnownOf ==
    ASSUME EndInv, NEW t \in Threads, NEW a \in Actors
    PROVE  PlaceOf(t) /\ TurnOf(t) /\ GoneOf(a) /\ (~ByCaller(a) => EndOf(a))
BY DEF EndInv

\* What a step leaves alone that has nothing to do with the end of actors.
QuietEnd ==
    /\ UNCHANGED <<on_stop, m_listed, m_closed, m_workers_active>>
    /\ \A a \in Actors : ByCaller(a) => ByCaller(a)'
    /\ \A a \in Actors : ~ByCaller(a) => (m_state'[a] = "stopped" <=> m_state[a] = "stopped")
    /\ \A t \in Threads : step[t] \in AfterStop \cup {"last"} => step'[t] = step[t] /\ on'[t] = on[t]
    /\ \/ step'[Main] = step[Main] /\ (step[Main] \in LastSteps => UNCHANGED todo)
       \/ {step[Main], step'[Main]} \cap LastSteps = {}

\* Such a step keeps what EndInv says of the actors.
LEMMA EndFrame ==
    ASSUME TypeOK, EndInv, QuietEnd, NEW a \in Actors, m_workers_active => ~ByCaller(a)'
    PROVE  GoneOf(a)' /\ (~ByCaller(a)' => EndOf(a)')
<1>1. GoneOf(a) /\ (~ByCaller(a) => EndOf(a))
  BY KnownOf, ThreadAssumption DEF Threads
<1>2. GoneOf(a)'
  BY <1>1 DEF GoneOf, QuietEnd, LastSteps
<1>3. Ending(a) => Ending(a)'
  BY DEF Ending, QuietEnd, Threads
<1>4. ASSUME ~ByCaller(a)' PROVE EndOf(a)'
  <2>1. EndOf(a) /\ (m_state'[a] = "stopped" <=> m_state[a] = "stopped")
    BY <1>1, <1>4 DEF QuietEnd
  <2>2. step'[Main] = "last" => on'[Main] = on[Main]
    BY DEF QuietEnd, LastSteps, Threads
  <2>3. QED
    BY <1>3, <1>4, <2>1, <2>2 DEF EndOf, QuietEnd, LastSteps
<1>5. QED
  BY <1>2, <1>4

\* on_stop() of an actor has not run while it is not stopped and nobody stops it.
LEMMA NotYet ==
    ASSUME TypeOK, EndInv, NEW a \in Actors, m_state[a] # "stopped", ~ByCaller(a), ~Ending(a)
    PROVE  on_stop[a] = 0 /\ a \in m_listed
<1>1. EndOf(a)
  BY DEF EndInv
<1>2. QED
  BY <1>1 DEF EndOf

\* A client begins tell().
LEMMA SendKeeps ==
    ASSUME TypeOK, EndInv, NEW t \in Clients, NEW x \in Actors, Send(t, x)
    PROVE  EndInv'
<1> USE SomeActorType, ThreadAssumption, PinAssumption DEF TypeOK, CallType, StopType,
     Threads, Send, Go, control, mbox, flags, turn, thread, hooks, hist, RunSteps,
     AfterStop, StopSteps, LastSteps, MainAlone, ByCaller
<1>1. /\ PlaceOf(t) /\ TurnOf(t) /\ PlaceOf(Main) /\ TurnOf(Main)
      /\ GoneOf(on[t]) /\ (~ByCaller(on[t]) => EndOf(on[t]))
      /\ MainAlone => ~m_workers_active
      /\ ~MainAlone => m_workers_active
  BY DEF EndInv
<1>2. /\ (MainAlone => ~m_workers_active)'
      /\ (~MainAlone => m_workers_active)'
  BY <1>1 DEF PlaceOf
<1>3. ASSUME NEW u \in Threads PROVE PlaceOf(u)'
  <2>1. PlaceOf(u)
    BY DEF EndInv
  <2>2. QED
    BY <1>1, <2>1 DEF PlaceOf
<1>4. ASSUME NEW u \in Threads PROVE TurnOf(u)'
  <2>1. PlaceOf(u) /\ TurnOf(u) /\ GoneOf(on[u]) /\ (~ByCaller(on[u]) => EndOf(on[u]))
    BY KnownOf
  <2>2. QED
    BY <1>1, <2>1 DEF PlaceOf, TurnOf, Runs, GoneOf, EndOf
<1>5. QuietEnd
  BY <1>1 DEF PlaceOf, QuietEnd
<1>6. ASSUME NEW a \in Actors PROVE GoneOf(a)' /\ (~ByCaller(a)' => EndOf(a)')
  <2>1. m_workers_active => ~ByCaller(a)'
    BY <1>1, KnownOf DEF PlaceOf, GoneOf
  <2>2. QED
    BY <1>5, <2>1, EndFrame
<1>7. QED
  BY <1>2, <1>3, <1>4, <1>6 DEF EndInv

\* A client begins stop_actor().
LEMMA ClientStopsKeeps ==
    ASSUME TypeOK, EndInv, NEW t \in Clients, NEW x \in Actors, NEW waits \in BOOLEAN,
           ClientStops(t, x, waits)
    PROVE  EndInv'
<1> USE SomeActorType, ThreadAssumption, PinAssumption DEF TypeOK, CallType, StopType,
     Threads, ClientStops, Claim, Go, control, mbox, flags, turn, thread, hooks, hist,
     RunSteps, AfterStop, StopSteps, LastSteps, MainAlone, ByCaller
<1>1. /\ PlaceOf(t) /\ TurnOf(t) /\ PlaceOf(Main) /\ TurnOf(Main)
      /\ GoneOf(on[t]) /\ (~ByCaller(on[t]) => EndOf(on[t]))
      /\ MainAlone => ~m_workers_active
      /\ ~MainAlone => m_workers_active
  BY DEF EndInv
<1>2. /\ (MainAlone => ~m_workers_active)'
      /\ (~MainAlone => m_workers_active)'
  BY <1>1 DEF PlaceOf
<1>3. ASSUME NEW u \in Threads PROVE PlaceOf(u)'
  <2>1. PlaceOf(u)
    BY DEF EndInv
  <2>2. QED
    BY <1>1, <2>1 DEF PlaceOf
<1>4. ASSUME NEW u \in Threads PROVE TurnOf(u)'
  <2>1. PlaceOf(u) /\ TurnOf(u) /\ GoneOf(on[u]) /\ (~ByCaller(on[u]) => EndOf(on[u]))
    BY KnownOf
  <2>2. QED
    BY <1>1, <2>1 DEF PlaceOf, TurnOf, Runs, GoneOf, EndOf
<1>5. QuietEnd
  BY <1>1 DEF PlaceOf, QuietEnd
<1>6. ASSUME NEW a \in Actors PROVE GoneOf(a)' /\ (~ByCaller(a)' => EndOf(a)')
  <2>1. m_workers_active => ~ByCaller(a)'
    BY <1>1, KnownOf DEF PlaceOf, GoneOf
  <2>2. QED
    BY <1>5, <2>1, EndFrame
<1>7. QED
  BY <1>2, <1>3, <1>4, <1>6 DEF EndInv

\* A handler begins stop_actor().
LEMMA HandlerStopsKeeps ==
    ASSUME TypeOK, EndInv, NEW t \in Workers, NEW x \in Actors, NEW waits \in BOOLEAN,
           HandlerStops(t, x, waits)
    PROVE  EndInv'
<1> USE SomeActorType, ThreadAssumption, PinAssumption DEF TypeOK, CallType, StopType,
     Threads, HandlerStops, Claim, Go, control, mbox, flags, turn, thread, hooks, hist,
     RunSteps, AfterStop, StopSteps, LastSteps, MainAlone, ByCaller
<1>1. /\ PlaceOf(t) /\ TurnOf(t) /\ PlaceOf(Main) /\ TurnOf(Main)
      /\ GoneOf(on[t]) /\ (~ByCaller(on[t]) => EndOf(on[t]))
      /\ MainAlone => ~m_workers_active
      /\ ~MainAlone => m_workers_active
  BY DEF EndInv
<1>2. /\ (MainAlone => ~m_workers_active)'
      /\ (~MainAlone => m_workers_active)'
  BY <1>1 DEF PlaceOf
<1>3. ASSUME NEW u \in Threads PROVE PlaceOf(u)'
  <2>1. PlaceOf(u)
    BY DEF EndInv
  <2>2. QED
    BY <1>1, <2>1 DEF PlaceOf
<1>4. ASSUME NEW u \in Threads PROVE TurnOf(u)'
  <2>1. PlaceOf(u) /\ TurnOf(u) /\ GoneOf(on[u]) /\ (~ByCaller(on[u]) => EndOf(on[u]))
    BY KnownOf
  <2>2. QED
    BY <1>1, <2>1 DEF PlaceOf, TurnOf, Runs, GoneOf, EndOf
<1>5. QuietEnd
  BY <1>1 DEF PlaceOf, QuietEnd
<1>6. ASSUME NEW a \in Actors PROVE GoneOf(a)' /\ (~ByCaller(a)' => EndOf(a)')
  <2>1. m_workers_active => ~ByCaller(a)'
    BY <1>1, KnownOf DEF PlaceOf, GoneOf
  <2>2. QED
    BY <1>5, <2>1, EndFrame
<1>7. QED
  BY <1>2, <1>3, <1>4, <1>6 DEF EndInv

\* The push of tell().
LEMMA PushKeeps ==
    ASSUME TypeOK, EndInv, NEW t \in Clients \cup {Main}, Push(t)
    PROVE  EndInv'
<1> USE SomeActorType, ThreadAssumption, PinAssumption DEF TypeOK, CallType, StopType,
     Threads, Push, Return, Home, control, mbox, flags, turn, thread, hooks, hist, RunSteps,
     AfterStop, StopSteps, LastSteps, MainAlone, ByCaller
<1>1. /\ PlaceOf(t) /\ TurnOf(t) /\ PlaceOf(Main) /\ TurnOf(Main)
      /\ GoneOf(on[t]) /\ (~ByCaller(on[t]) => EndOf(on[t]))
      /\ MainAlone => ~m_workers_active
      /\ ~MainAlone => m_workers_active
  BY DEF EndInv
<1>2. /\ (MainAlone => ~m_workers_active)'
      /\ (~MainAlone => m_workers_active)'
  BY <1>1 DEF PlaceOf
<1>3. ASSUME NEW u \in Threads PROVE PlaceOf(u)'
  <2>1. PlaceOf(u)
    BY DEF EndInv
  <2>2. CASE u = t
    BY <1>1, <2>1, <2>2 DEF PlaceOf
  <2>3. CASE u # t
    BY <1>1, <2>1, <2>3 DEF PlaceOf
  <2>4. QED
    BY <2>2, <2>3
<1>4. ASSUME NEW u \in Threads PROVE TurnOf(u)'
  <2>1. PlaceOf(u) /\ TurnOf(u) /\ GoneOf(on[u]) /\ (~ByCaller(on[u]) => EndOf(on[u]))
    BY KnownOf
  <2>2. QED
    BY <1>1, <2>1 DEF PlaceOf, TurnOf, Runs, GoneOf, EndOf
<1>5. QuietEnd
  BY <1>1 DEF PlaceOf, QuietEnd
<1>6. ASSUME NEW a \in Actors PROVE GoneOf(a)' /\ (~ByCaller(a)' => EndOf(a)')
  <2>1. m_workers_active => ~ByCaller(a)'
    BY <1>1, KnownOf DEF PlaceOf, GoneOf
  <2>2. QED
    BY <1>5, <2>1, EndFrame
<1>7. QED
  BY <1>2, <1>3, <1>4, <1>6 DEF EndInv

\* stop_actor() up to its wait.
LEMMA StopActorKeeps ==
    ASSUME TypeOK, EndInv, NEW t \in Threads, StopActor(t)
    PROVE  EndInv'
<1> USE SomeActorType, ThreadAssumption, PinAssumption DEF TypeOK, CallType, StopType,
     Threads, StopActor, StopIntake, StopRequest, StopWho, StopMayWait, StopReturn, Go,
     Return, Home, control, mbox, flags, turn, thread, hooks, hist, RunSteps, AfterStop,
     StopSteps, LastSteps, MainAlone, ByCaller
<1>1. /\ PlaceOf(t) /\ TurnOf(t) /\ PlaceOf(Main) /\ TurnOf(Main)
      /\ GoneOf(on[t]) /\ (~ByCaller(on[t]) => EndOf(on[t]))
      /\ MainAlone => ~m_workers_active
      /\ ~MainAlone => m_workers_active
  BY DEF EndInv
<1>2. /\ (MainAlone => ~m_workers_active)'
      /\ (~MainAlone => m_workers_active)'
  BY <1>1 DEF PlaceOf
<1>3. ASSUME NEW u \in Threads PROVE PlaceOf(u)'
  <2>1. PlaceOf(u)
    BY DEF EndInv
  <2>2. QED
    BY <1>1, <2>1 DEF PlaceOf
<1>4. ASSUME NEW u \in Threads PROVE TurnOf(u)'
  <2>1. PlaceOf(u) /\ TurnOf(u) /\ GoneOf(on[u]) /\ (~ByCaller(on[u]) => EndOf(on[u]))
    BY KnownOf
  <2>2. QED
    BY <1>1, <2>1 DEF PlaceOf, TurnOf, Runs, GoneOf, EndOf
<1>5. QuietEnd
  BY <1>1 DEF PlaceOf, QuietEnd
<1>6. ASSUME NEW a \in Actors PROVE GoneOf(a)' /\ (~ByCaller(a)' => EndOf(a)')
  <2>1. m_workers_active => ~ByCaller(a)'
    BY <1>1, KnownOf DEF PlaceOf, GoneOf
  <2>2. QED
    BY <1>5, <2>1, EndFrame
<1>7. QED
  BY <1>2, <1>3, <1>4, <1>6 DEF EndInv

\* service_stop() is entered by the executor of the stop.
LEMMA ServiceEnterKeeps ==
    ASSUME TypeOK, EndInv, NEW t \in Threads, ServiceEnter(t)
    PROVE  EndInv'
<1> USE SomeActorType, ThreadAssumption, PinAssumption DEF TypeOK, CallType, StopType,
     Threads, ServiceEnter, Leave, Served, Go, control, mbox, flags, turn, thread, hooks,
     hist, RunSteps, AfterStop, StopSteps, LastSteps, MainAlone, ByCaller
<1>1. /\ PlaceOf(t) /\ TurnOf(t) /\ PlaceOf(Main) /\ TurnOf(Main)
      /\ GoneOf(on[t]) /\ (~ByCaller(on[t]) => EndOf(on[t]))
      /\ MainAlone => ~m_workers_active
      /\ ~MainAlone => m_workers_active
  BY DEF EndInv
<1>2. /\ (MainAlone => ~m_workers_active)'
      /\ (~MainAlone => m_workers_active)'
  BY <1>1 DEF PlaceOf
<1>3. ASSUME NEW u \in Threads PROVE PlaceOf(u)'
  <2>1. PlaceOf(u)
    BY DEF EndInv
  <2>2. QED
    BY <1>1, <2>1 DEF PlaceOf
<1>4. ASSUME NEW u \in Threads PROVE TurnOf(u)'
  <2>1. PlaceOf(u) /\ TurnOf(u)
    BY KnownOf
  <2>2. CASE u = t /\ step'[t] = "service"
    BY <1>1, <2>1, <2>2 DEF PlaceOf, TurnOf, Runs
  <2>3. CASE u = t /\ step'[t] # "service"
    BY <1>1, <2>1, <2>3 DEF PlaceOf, TurnOf, Runs
  <2>4. CASE u # t
    <3>1. step'[u] = step[u] /\ on'[u] = on[u] /\ (u \in Workers => cur'[u] = cur[u])
      BY <2>4
    <3>5. ASSUME NEW a \in Actors, m_executor[a] \in Clients PROVE m_executor'[a] = m_executor[a]
      BY <3>5
    <3>2. ByCaller(on[u]) => ByCaller(on[u])'
      BY <3>1, <3>5
    <3>3. UNCHANGED <<m_state, on_stop, m_listed, m_closed, todo>>
      OBVIOUS
    <3>4. QED
      BY <2>1, <3>1, <3>2, <3>3 DEF TurnOf, Runs
  <2>5. QED
    BY <2>2, <2>3, <2>4
<1>8. ASSUME NEW a \in Actors
      PROVE  m_executor'[a] = m_executor[a] \/ (m_executor[a] = NoThread /\ m_executor'[a] = t)
  OBVIOUS
<1>9. /\ UNCHANGED <<on_stop, m_listed, m_closed, m_workers_active, m_state, todo>>
      /\ \A u \in Threads : step[u] \in AfterStop \cup {"last"} => step'[u] = step[u] /\ on'[u] = on[u]
      /\ step'[Main] = step[Main] \/ {step[Main], step'[Main]} \cap LastSteps = {}
  BY <1>1 DEF PlaceOf
<1>5. QuietEnd
  BY <1>8, <1>9 DEF QuietEnd
<1>6. ASSUME NEW a \in Actors PROVE GoneOf(a)' /\ (~ByCaller(a)' => EndOf(a)')
  <2>3. m_workers_active => ~ByCaller(a)
    BY KnownOf DEF GoneOf
  <2>4. t \in Clients => ~m_workers_active
    BY <1>1 DEF PlaceOf
  <2>1. m_workers_active => ~ByCaller(a)'
    BY <1>8, <2>3, <2>4
  <2>2. QED
    BY <1>5, <2>1, EndFrame
<1>7. QED
  BY <1>2, <1>3, <1>4, <1>6 DEF EndInv

\* service_stop() drains the mailbox.
LEMMA ServiceDrainKeeps ==
    ASSUME TypeOK, EndInv, NEW t \in Threads, ServiceDrain(t)
    PROVE  EndInv'
<1> USE SomeActorType, ThreadAssumption, PinAssumption DEF TypeOK, CallType, StopType,
     Threads, ServiceDrain, Leave, Served, Go, control, mbox, flags, turn, thread, hooks,
     hist, RunSteps, AfterStop, StopSteps, LastSteps, MainAlone, ByCaller
<1>1. /\ PlaceOf(t) /\ TurnOf(t) /\ PlaceOf(Main) /\ TurnOf(Main)
      /\ GoneOf(on[t]) /\ (~ByCaller(on[t]) => EndOf(on[t]))
      /\ MainAlone => ~m_workers_active
      /\ ~MainAlone => m_workers_active
  BY DEF EndInv
<1>2. /\ (MainAlone => ~m_workers_active)'
      /\ (~MainAlone => m_workers_active)'
  BY <1>1 DEF PlaceOf
<1>3. ASSUME NEW u \in Threads PROVE PlaceOf(u)'
  <2>1. PlaceOf(u)
    BY DEF EndInv
  <2>2. QED
    BY <1>1, <2>1 DEF PlaceOf
<1>4. ASSUME NEW u \in Threads PROVE TurnOf(u)'
  <2>1. PlaceOf(u) /\ TurnOf(u) /\ GoneOf(on[u]) /\ (~ByCaller(on[u]) => EndOf(on[u]))
    BY KnownOf
  <2>2. QED
    BY <1>1, <2>1 DEF PlaceOf, TurnOf, Runs, GoneOf, EndOf
<1>5. QuietEnd
  BY <1>1 DEF PlaceOf, QuietEnd
<1>6. ASSUME NEW a \in Actors PROVE GoneOf(a)' /\ (~ByCaller(a)' => EndOf(a)')
  <2>1. m_workers_active => ~ByCaller(a)'
    BY <1>1, KnownOf DEF PlaceOf, GoneOf
  <2>2. QED
    BY <1>5, <2>1, EndFrame
<1>7. QED
  BY <1>2, <1>3, <1>4, <1>6 DEF EndInv

\* service_stop() runs on_shutdown().
LEMMA ServiceShutdownHookKeeps ==
    ASSUME TypeOK, EndInv, NEW t \in Threads, ServiceShutdownHook(t)
    PROVE  EndInv'
<1> USE SomeActorType, ThreadAssumption, PinAssumption DEF TypeOK, CallType, StopType,
     Threads, ServiceShutdownHook, Go, control, mbox, flags, turn, thread, hooks, hist,
     RunSteps, AfterStop, StopSteps, LastSteps, MainAlone, ByCaller
<1>1. /\ PlaceOf(t) /\ TurnOf(t) /\ PlaceOf(Main) /\ TurnOf(Main)
      /\ GoneOf(on[t]) /\ (~ByCaller(on[t]) => EndOf(on[t]))
      /\ MainAlone => ~m_workers_active
      /\ ~MainAlone => m_workers_active
  BY DEF EndInv
<1>2. /\ (MainAlone => ~m_workers_active)'
      /\ (~MainAlone => m_workers_active)'
  BY <1>1 DEF PlaceOf
<1>3. ASSUME NEW u \in Threads PROVE PlaceOf(u)'
  <2>1. PlaceOf(u)
    BY DEF EndInv
  <2>2. QED
    BY <1>1, <2>1 DEF PlaceOf
<1>4. ASSUME NEW u \in Threads PROVE TurnOf(u)'
  <2>1. PlaceOf(u) /\ TurnOf(u) /\ GoneOf(on[u]) /\ (~ByCaller(on[u]) => EndOf(on[u]))
    BY KnownOf
  <2>2. QED
    BY <1>1, <2>1 DEF PlaceOf, TurnOf, Runs, GoneOf, EndOf
<1>5. QuietEnd
  BY <1>1 DEF PlaceOf, QuietEnd
<1>6. ASSUME NEW a \in Actors PROVE GoneOf(a)' /\ (~ByCaller(a)' => EndOf(a)')
  <2>1. m_workers_active => ~ByCaller(a)'
    BY <1>1, KnownOf DEF PlaceOf, GoneOf
  <2>2. QED
    BY <1>5, <2>1, EndFrame
<1>7. QED
  BY <1>2, <1>3, <1>4, <1>6 DEF EndInv

\* service_stop() runs on_stop().
LEMMA ServiceStopHookKeeps ==
    ASSUME TypeOK, EndInv, NEW t \in Threads, ServiceStopHook(t)
    PROVE  EndInv'
<1> USE SomeActorType, ThreadAssumption, PinAssumption DEF TypeOK, CallType, StopType,
     Threads, ServiceStopHook, Go, control, mbox, flags, turn, thread, hooks, hist,
     RunSteps, AfterStop, StopSteps, LastSteps, MainAlone, ByCaller
<1>1. /\ PlaceOf(t) /\ TurnOf(t) /\ PlaceOf(Main) /\ TurnOf(Main)
      /\ GoneOf(on[t]) /\ (~ByCaller(on[t]) => EndOf(on[t]))
      /\ MainAlone => ~m_workers_active
      /\ ~MainAlone => m_workers_active
  BY DEF EndInv
<1>2. /\ (MainAlone => ~m_workers_active)'
      /\ (~MainAlone => m_workers_active)'
  BY <1>1 DEF PlaceOf
<1>3. ASSUME NEW u \in Threads PROVE PlaceOf(u)'
  <2>1. PlaceOf(u)
    BY DEF EndInv
  <2>2. QED
    BY <1>1, <2>1 DEF PlaceOf
<1>4. ASSUME NEW u \in Threads PROVE TurnOf(u)'
  <2>1. PlaceOf(u) /\ TurnOf(u) /\ GoneOf(on[u]) /\ (~ByCaller(on[u]) => EndOf(on[u]))
    BY KnownOf
  <2>2. QED
    BY <1>1, <2>1 DEF PlaceOf, TurnOf, Runs, GoneOf, EndOf
<1>5. ASSUME NEW a \in Actors PROVE GoneOf(a)'
  <2>1. GoneOf(a)
    BY KnownOf
  <2>2. QED
    BY <1>1, <2>1 DEF PlaceOf, TurnOf, Runs, GoneOf
<1>6. ASSUME NEW a \in Actors, ~ByCaller(a)' PROVE EndOf(a)'
  <2>1. GoneOf(a) /\ EndOf(a)
    BY <1>6, KnownOf
  <2>2. QED
    BY <1>1, <1>6, <2>1 DEF PlaceOf, TurnOf, Runs, GoneOf, EndOf, Ending
<1>7. QED
  BY <1>2, <1>3, <1>4, <1>5, <1>6 DEF EndInv

\* service_stop() closes the mailbox.
LEMMA ServiceCloseKeeps ==
    ASSUME TypeOK, EndInv, NEW t \in Threads, ServiceClose(t)
    PROVE  EndInv'
<1> USE SomeActorType, ThreadAssumption, PinAssumption DEF TypeOK, CallType, StopType,
     Threads, ServiceClose, Go, control, mbox, flags, turn, thread, hooks, hist, RunSteps,
     AfterStop, StopSteps, LastSteps, MainAlone, ByCaller
<1>1. /\ PlaceOf(t) /\ TurnOf(t) /\ PlaceOf(Main) /\ TurnOf(Main)
      /\ GoneOf(on[t]) /\ (~ByCaller(on[t]) => EndOf(on[t]))
      /\ MainAlone => ~m_workers_active
      /\ ~MainAlone => m_workers_active
  BY DEF EndInv
<1>2. /\ (MainAlone => ~m_workers_active)'
      /\ (~MainAlone => m_workers_active)'
  BY <1>1 DEF PlaceOf
<1>3. ASSUME NEW u \in Threads PROVE PlaceOf(u)'
  <2>1. PlaceOf(u)
    BY DEF EndInv
  <2>2. QED
    BY <1>1, <2>1 DEF PlaceOf
<1>4. ASSUME NEW u \in Threads PROVE TurnOf(u)'
  <2>1. PlaceOf(u) /\ TurnOf(u) /\ GoneOf(on[u]) /\ (~ByCaller(on[u]) => EndOf(on[u]))
    BY KnownOf
  <2>2. QED
    BY <1>1, <2>1 DEF PlaceOf, TurnOf, Runs, GoneOf, EndOf
<1>5. ASSUME NEW a \in Actors PROVE GoneOf(a)'
  <2>1. GoneOf(a)
    BY KnownOf
  <2>2. QED
    BY <1>1, <2>1 DEF PlaceOf, TurnOf, Runs, GoneOf
<1>6. ASSUME NEW a \in Actors, ~ByCaller(a)' PROVE EndOf(a)'
  <2>1. GoneOf(a) /\ EndOf(a)
    BY <1>6, KnownOf
  <2>2. QED
    BY <1>1, <1>6, <2>1 DEF PlaceOf, TurnOf, Runs, GoneOf, EndOf, Ending
<1>7. QED
  BY <1>2, <1>3, <1>4, <1>5, <1>6 DEF EndInv

\* service_stop() takes the actor off the list.
LEMMA ServiceUnlistKeeps ==
    ASSUME TypeOK, EndInv, NEW t \in Threads, ServiceUnlist(t)
    PROVE  EndInv'
<1> USE SomeActorType, ThreadAssumption, PinAssumption DEF TypeOK, CallType, StopType,
     Threads, ServiceUnlist, Unlist, Go, control, mbox, flags, turn, thread, hooks, hist,
     RunSteps, AfterStop, StopSteps, LastSteps, MainAlone, ByCaller
<1>1. /\ PlaceOf(t) /\ TurnOf(t) /\ PlaceOf(Main) /\ TurnOf(Main)
      /\ GoneOf(on[t]) /\ (~ByCaller(on[t]) => EndOf(on[t]))
      /\ MainAlone => ~m_workers_active
      /\ ~MainAlone => m_workers_active
  BY DEF EndInv
<1>2. /\ (MainAlone => ~m_workers_active)'
      /\ (~MainAlone => m_workers_active)'
  BY <1>1 DEF PlaceOf
<1>3. ASSUME NEW u \in Threads PROVE PlaceOf(u)'
  <2>1. PlaceOf(u)
    BY DEF EndInv
  <2>2. QED
    BY <1>1, <2>1 DEF PlaceOf
<1>4. ASSUME NEW u \in Threads PROVE TurnOf(u)'
  <2>1. PlaceOf(u) /\ TurnOf(u) /\ GoneOf(on[u]) /\ (~ByCaller(on[u]) => EndOf(on[u]))
    BY KnownOf
  <2>2. QED
    BY <1>1, <2>1 DEF PlaceOf, TurnOf, Runs, GoneOf, EndOf
<1>5. ASSUME NEW a \in Actors PROVE GoneOf(a)'
  <2>1. GoneOf(a)
    BY KnownOf
  <2>2. QED
    BY <1>1, <2>1 DEF PlaceOf, TurnOf, Runs, GoneOf
<1>6. ASSUME NEW a \in Actors, ~ByCaller(a)' PROVE EndOf(a)'
  <2>1. GoneOf(a) /\ EndOf(a)
    BY <1>6, KnownOf
  <2>2. QED
    BY <1>1, <1>6, <2>1 DEF PlaceOf, TurnOf, Runs, GoneOf, EndOf, Ending
<1>7. QED
  BY <1>2, <1>3, <1>4, <1>5, <1>6 DEF EndInv

\* service_stop() ends.
LEMMA ServiceFinishKeeps ==
    ASSUME TypeOK, EndInv, NEW t \in Threads, ServiceFinish(t)
    PROVE  EndInv'
<1> USE SomeActorType, ThreadAssumption, PinAssumption DEF TypeOK, CallType, StopType,
     Threads, ServiceFinish, Finish, Leave, Served, control, mbox, flags, turn, thread,
     hooks, hist, RunSteps, AfterStop, StopSteps, LastSteps, MainAlone, ByCaller
<1>1. /\ PlaceOf(t) /\ TurnOf(t) /\ PlaceOf(Main) /\ TurnOf(Main)
      /\ GoneOf(on[t]) /\ (~ByCaller(on[t]) => EndOf(on[t]))
      /\ MainAlone => ~m_workers_active
      /\ ~MainAlone => m_workers_active
  BY DEF EndInv
<1>2. /\ (MainAlone => ~m_workers_active)'
      /\ (~MainAlone => m_workers_active)'
  BY <1>1 DEF PlaceOf
<1>3. ASSUME NEW u \in Threads PROVE PlaceOf(u)'
  <2>1. PlaceOf(u)
    BY DEF EndInv
  <2>2. QED
    BY <1>1, <2>1 DEF PlaceOf
<1>4. ASSUME NEW u \in Threads PROVE TurnOf(u)'
  <2>1. PlaceOf(u) /\ TurnOf(u) /\ GoneOf(on[u]) /\ (~ByCaller(on[u]) => EndOf(on[u]))
    BY KnownOf
  <2>2. QED
    BY <1>1, <2>1 DEF PlaceOf, TurnOf, Runs, GoneOf, EndOf
<1>5. ASSUME NEW a \in Actors PROVE GoneOf(a)'
  <2>1. GoneOf(a)
    BY KnownOf
  <2>2. QED
    BY <1>1, <2>1 DEF PlaceOf, TurnOf, Runs, GoneOf
<1>6. ASSUME NEW a \in Actors, ~ByCaller(a)' PROVE EndOf(a)'
  <2>1. GoneOf(a) /\ EndOf(a)
    BY <1>6, KnownOf
  <2>2. /\ UNCHANGED <<on_stop, m_listed, m_closed, m_executor, todo>>
        /\ step[t] = "set" /\ m_state'[on[t]] = "stopped"
        /\ step'[Main] = step[Main] \/ {step[Main], step'[Main]} \cap LastSteps = {}
        /\ step'[Main] = step[Main] => on'[Main] = on[Main]
    BY <1>1 DEF PlaceOf
  <2>3. CASE a = on[t]
    <3>1. t \notin Clients
      BY <1>1, <1>6, <2>2, <2>3 DEF PlaceOf
    <3>2. on_stop[a] = 1 /\ a \notin m_listed
      BY <1>1, <1>6, <2>2, <2>3, <3>1 DEF TurnOf, Runs
    <3>3. QED
      BY <2>1, <2>2, <2>3, <3>2 DEF EndOf
  <2>4. CASE a # on[t]
    <3>1. m_state'[a] = m_state[a] /\ (Ending(a) => Ending(a)')
      BY <2>4 DEF Ending
    <3>2. QED
      BY <2>1, <2>2, <3>1 DEF EndOf
  <2>5. QED
    BY <2>3, <2>4
<1>7. QED
  BY <1>2, <1>3, <1>4, <1>5, <1>6 DEF EndInv

\* A handler, or the system_shutdown branch of dispatch_message().
LEMMA DispatchKeeps ==
    ASSUME TypeOK, EndInv, NEW t \in Threads, Dispatch(t)
    PROVE  EndInv'
<1> USE SomeActorType, ThreadAssumption, PinAssumption DEF TypeOK, CallType, StopType,
     Threads, Dispatch, Handle, RunHandler, DispatchShutdown, ShutdownHookDone, Go, Again,
     control, mbox, flags, turn, thread, hooks, hist, RunSteps, AfterStop, StopSteps,
     LastSteps, MainAlone, ByCaller
<1>1. /\ PlaceOf(t) /\ TurnOf(t) /\ PlaceOf(Main) /\ TurnOf(Main)
      /\ GoneOf(on[t]) /\ (~ByCaller(on[t]) => EndOf(on[t]))
      /\ MainAlone => ~m_workers_active
      /\ ~MainAlone => m_workers_active
  BY DEF EndInv
<1>2. /\ (MainAlone => ~m_workers_active)'
      /\ (~MainAlone => m_workers_active)'
  BY <1>1 DEF PlaceOf
<1>3. ASSUME NEW u \in Threads PROVE PlaceOf(u)'
  <2>1. PlaceOf(u)
    BY DEF EndInv
  <2>2. QED
    BY <1>1, <2>1 DEF PlaceOf
<1>4. ASSUME NEW u \in Threads PROVE TurnOf(u)'
  <2>1. PlaceOf(u) /\ TurnOf(u) /\ GoneOf(on[u]) /\ (~ByCaller(on[u]) => EndOf(on[u]))
    BY KnownOf
  <2>2. QED
    BY <1>1, <2>1 DEF PlaceOf, TurnOf, Runs, GoneOf, EndOf
<1>8. ASSUME NEW a \in Actors, ~ByCaller(a) PROVE m_state'[a] = "stopped" <=> m_state[a] = "stopped"
  <2>1. step[t] = "hook" /\ on[t] = a => m_state[a] # "stopped"
    BY <1>1, <1>8 DEF PlaceOf, TurnOf, Runs
  <2>2. m_state'[a] = m_state[a] \/ (step[t] = "hook" /\ on[t] = a /\ m_state'[a] = "stopping")
    OBVIOUS
  <2>3. QED
    BY <2>1, <2>2
<1>9. /\ UNCHANGED <<on_stop, m_listed, m_closed, m_workers_active, m_executor, todo>>
      /\ \A u \in Threads : step[u] \in AfterStop \cup {"last"} => step'[u] = step[u] /\ on'[u] = on[u]
      /\ step'[Main] = step[Main] \/ {step[Main], step'[Main]} \cap LastSteps = {}
  OBVIOUS
<1>5. QuietEnd
  BY <1>8, <1>9 DEF QuietEnd
<1>6. ASSUME NEW a \in Actors PROVE GoneOf(a)' /\ (~ByCaller(a)' => EndOf(a)')
  <2>1. m_workers_active => ~ByCaller(a)'
    BY <1>1, KnownOf DEF PlaceOf, GoneOf
  <2>2. QED
    BY <1>5, <2>1, EndFrame
<1>7. QED
  BY <1>2, <1>3, <1>4, <1>6 DEF EndInv

\* A worker takes an actor.
LEMMA WorkerPopKeeps ==
    ASSUME TypeOK, EndInv, NEW t \in Workers, NEW x \in Actors, WorkerPop(t, x)
    PROVE  EndInv'
<1> USE SomeActorType, ThreadAssumption, PinAssumption DEF TypeOK, CallType, StopType,
     Threads, WorkerPop, Go, control, mbox, flags, turn, thread, hooks, hist, RunSteps,
     AfterStop, StopSteps, LastSteps, MainAlone, ByCaller
<1>1. /\ PlaceOf(t) /\ TurnOf(t) /\ PlaceOf(Main) /\ TurnOf(Main)
      /\ GoneOf(on[t]) /\ (~ByCaller(on[t]) => EndOf(on[t]))
      /\ MainAlone => ~m_workers_active
      /\ ~MainAlone => m_workers_active
  BY DEF EndInv
<1>2. /\ (MainAlone => ~m_workers_active)'
      /\ (~MainAlone => m_workers_active)'
  BY <1>1 DEF PlaceOf
<1>3. ASSUME NEW u \in Threads PROVE PlaceOf(u)'
  <2>1. PlaceOf(u)
    BY DEF EndInv
  <2>2. QED
    BY <1>1, <2>1 DEF PlaceOf
<1>8. on_stop[x] = 0 /\ x \in m_listed
  <2>1. m_state[x] # "stopped" /\ step[Main] \notin AfterStop \cup {"last"}
    BY <1>1 DEF PlaceOf
  <2>2. ~ByCaller(x)
    BY <1>1, KnownOf DEF PlaceOf, GoneOf
  <2>3. ASSUME NEW u \in Workers, step[u] \in AfterStop \cup {"last"}, on[u] = x PROVE FALSE
    <3>1. PlaceOf(u) /\ TurnOf(u)
      BY DEF EndInv
    <3>2. QED
      BY <1>1, <2>3, <3>1 DEF PlaceOf, TurnOf
  <2>4. ~Ending(x)
    BY <2>1, <2>3 DEF Ending
  <2>5. QED
    BY <2>1, <2>2, <2>4, NotYet
<1>4. ASSUME NEW u \in Threads PROVE TurnOf(u)'
  <2>1. PlaceOf(u) /\ TurnOf(u)
    BY KnownOf
  <2>2. CASE u = t
    BY <1>1, <1>8, <2>1, <2>2 DEF PlaceOf, TurnOf, Runs
  <2>3. CASE u # t
    BY <1>1, <2>1, <2>3 DEF PlaceOf, TurnOf, Runs
  <2>4. QED
    BY <2>2, <2>3
<1>5. QuietEnd
  BY <1>1 DEF PlaceOf, QuietEnd
<1>6. ASSUME NEW a \in Actors PROVE GoneOf(a)' /\ (~ByCaller(a)' => EndOf(a)')
  <2>1. m_workers_active => ~ByCaller(a)'
    BY <1>1, KnownOf DEF PlaceOf, GoneOf
  <2>2. QED
    BY <1>5, <2>1, EndFrame
<1>7. QED
  BY <1>2, <1>3, <1>4, <1>6 DEF EndInv

\* A worker goes on with its turn or ends it.
LEMMA TurnKeeps ==
    ASSUME TypeOK, EndInv, NEW t \in Workers,
           WorkerExit(t) \/ TurnTop(t) \/ TurnOver(t) \/ HandlerReturns(t)
    PROVE  EndInv'
<1> USE SomeActorType, ThreadAssumption, PinAssumption DEF TypeOK, CallType, StopType,
     Threads, WorkerExit, TurnTop, TurnOver, HandlerReturns, Leave, Served, Go, control,
     mbox, flags, turn, thread, hooks, hist, RunSteps, AfterStop, StopSteps, LastSteps,
     MainAlone, ByCaller
<1>1. /\ PlaceOf(t) /\ TurnOf(t) /\ PlaceOf(Main) /\ TurnOf(Main)
      /\ GoneOf(on[t]) /\ (~ByCaller(on[t]) => EndOf(on[t]))
      /\ MainAlone => ~m_workers_active
      /\ ~MainAlone => m_workers_active
  BY DEF EndInv
<1>2. /\ (MainAlone => ~m_workers_active)'
      /\ (~MainAlone => m_workers_active)'
  BY <1>1 DEF PlaceOf
<1>3. ASSUME NEW u \in Threads PROVE PlaceOf(u)'
  <2>1. PlaceOf(u)
    BY DEF EndInv
  <2>2. QED
    BY <1>1, <2>1 DEF PlaceOf
<1>4. ASSUME NEW u \in Threads PROVE TurnOf(u)'
  <2>1. PlaceOf(u) /\ TurnOf(u) /\ GoneOf(on[u]) /\ (~ByCaller(on[u]) => EndOf(on[u]))
    BY KnownOf
  <2>2. QED
    BY <1>1, <2>1 DEF PlaceOf, TurnOf, Runs, GoneOf, EndOf
<1>5. QuietEnd
  BY <1>1 DEF PlaceOf, QuietEnd
<1>6. ASSUME NEW a \in Actors PROVE GoneOf(a)' /\ (~ByCaller(a)' => EndOf(a)')
  <2>1. m_workers_active => ~ByCaller(a)'
    BY <1>1, KnownOf DEF PlaceOf, GoneOf
  <2>2. QED
    BY <1>5, <2>1, EndFrame
<1>7. QED
  BY <1>2, <1>3, <1>4, <1>6 DEF EndInv

\* The phases of shutdown().
LEMMA ShutdownKeeps ==
    ASSUME TypeOK, EndInv, ShutdownBegin \/ ShutdownSteps
    PROVE  EndInv'
<1> USE SomeActorType, ThreadAssumption, PinAssumption DEF TypeOK, CallType, StopType,
     Threads, ShutdownBegin, ShutdownSteps, InjectDone, PollDone, Signal, Request, Inject,
     Poll, LogUndrained, LogIf, Goto, Go, control, mbox, flags, turn, thread, hooks, hist,
     RunSteps, AfterStop, StopSteps, LastSteps, MainAlone, ByCaller
<1>1. /\ PlaceOf(Main) /\ TurnOf(Main)
      /\ GoneOf(on[Main]) /\ (~ByCaller(on[Main]) => EndOf(on[Main]))
      /\ MainAlone => ~m_workers_active
      /\ ~MainAlone => m_workers_active
  BY DEF EndInv
<1>2. /\ (MainAlone => ~m_workers_active)'
      /\ (~MainAlone => m_workers_active)'
  BY <1>1 DEF PlaceOf
<1>3. ASSUME NEW u \in Threads PROVE PlaceOf(u)'
  <2>1. PlaceOf(u)
    BY DEF EndInv
  <2>2. QED
    BY <1>1, <2>1 DEF PlaceOf
<1>4. ASSUME NEW u \in Threads PROVE TurnOf(u)'
  <2>1. PlaceOf(u) /\ TurnOf(u) /\ GoneOf(on[u]) /\ (~ByCaller(on[u]) => EndOf(on[u]))
    BY KnownOf
  <2>2. QED
    BY <1>1, <2>1 DEF PlaceOf, TurnOf, Runs, GoneOf, EndOf
<1>5. QuietEnd
  BY <1>1 DEF PlaceOf, QuietEnd
<1>6. ASSUME NEW a \in Actors PROVE GoneOf(a)' /\ (~ByCaller(a)' => EndOf(a)')
  <2>1. m_workers_active => ~ByCaller(a)'
    BY <1>1, KnownOf DEF PlaceOf, GoneOf
  <2>2. QED
    BY <1>5, <2>1, EndFrame
<1>7. QED
  BY <1>2, <1>3, <1>4, <1>6 DEF EndInv

\* wait_for_shutdown() has joined the workers.
LEMMA JoinKeeps ==
    ASSUME TypeOK, EndInv, Join
    PROVE  EndInv'
<1> USE SomeActorType, ThreadAssumption, PinAssumption DEF TypeOK, CallType, StopType,
     Threads, Join, Goto, Go, control, mbox, flags, turn, thread, hooks, hist, RunSteps,
     AfterStop, StopSteps, LastSteps, MainAlone, ByCaller
<1>1. /\ PlaceOf(Main) /\ TurnOf(Main)
      /\ GoneOf(on[Main]) /\ (~ByCaller(on[Main]) => EndOf(on[Main]))
      /\ MainAlone => ~m_workers_active
      /\ ~MainAlone => m_workers_active
  BY DEF EndInv
<1>2. /\ (MainAlone => ~m_workers_active)'
      /\ (~MainAlone => m_workers_active)'
  BY <1>1 DEF PlaceOf
<1>3. ASSUME NEW u \in Threads PROVE PlaceOf(u)'
  <2>1. PlaceOf(u)
    BY DEF EndInv
  <2>2. QED
    BY <1>1, <2>1 DEF PlaceOf
<1>4. ASSUME NEW u \in Threads PROVE TurnOf(u)'
  <2>1. PlaceOf(u) /\ TurnOf(u) /\ GoneOf(on[u]) /\ (~ByCaller(on[u]) => EndOf(on[u]))
    BY KnownOf
  <2>2. QED
    BY <1>1, <2>1 DEF PlaceOf, TurnOf, Runs, GoneOf, EndOf
<1>5. ASSUME NEW a \in Actors PROVE GoneOf(a)'
  <2>1. GoneOf(a)
    BY KnownOf
  <2>2. QED
    BY <1>1, <2>1 DEF PlaceOf, TurnOf, Runs, GoneOf
<1>6. ASSUME NEW a \in Actors, ~ByCaller(a)' PROVE EndOf(a)'
  <2>1. GoneOf(a) /\ EndOf(a)
    BY <1>6, KnownOf
  <2>2. QED
    BY <1>1, <1>6, <2>1 DEF PlaceOf, TurnOf, Runs, GoneOf, EndOf, Ending
<1>7. QED
  BY <1>2, <1>3, <1>4, <1>5, <1>6 DEF EndInv

\* complete_pending_stops().
LEMMA PendingKeeps ==
    ASSUME TypeOK, EndInv, PendingDone \/ ShutdownDone \/ \E a \in Actors : CompletePending(a)
    PROVE  EndInv'
<1> USE SomeActorType, ThreadAssumption, PinAssumption DEF TypeOK, CallType, StopType,
     Threads, PendingDone, ShutdownDone, CompletePending, Goto, Go, control, mbox, flags,
     turn, thread, hooks, hist, RunSteps, AfterStop, StopSteps, LastSteps, MainAlone,
     ByCaller
<1>1. /\ PlaceOf(Main) /\ TurnOf(Main)
      /\ GoneOf(on[Main]) /\ (~ByCaller(on[Main]) => EndOf(on[Main]))
      /\ MainAlone => ~m_workers_active
      /\ ~MainAlone => m_workers_active
  BY DEF EndInv
<1>2. /\ (MainAlone => ~m_workers_active)'
      /\ (~MainAlone => m_workers_active)'
  BY <1>1 DEF PlaceOf
<1>3. ASSUME NEW u \in Threads PROVE PlaceOf(u)'
  <2>1. PlaceOf(u)
    BY DEF EndInv
  <2>2. QED
    BY <1>1, <2>1 DEF PlaceOf
<1>8. ASSUME NEW a \in Actors, ~ByCaller(a)
      PROVE  /\ ~Ending(a) /\ EndOf(a)
             /\ m_state[a] # "stopped" => on_stop[a] = 0 /\ a \in m_listed
  <2>1. \A u \in Workers : step[u] = "exited"
    BY <1>1, KnownOf DEF PlaceOf
  <2>2. ~Ending(a)
    BY <2>1 DEF Ending
  <2>3. QED
    BY <1>8, <2>2, NotYet, KnownOf
<1>4. ASSUME NEW u \in Threads PROVE TurnOf(u)'
  <2>1. PlaceOf(u) /\ TurnOf(u)
    BY KnownOf
  <2>2. CASE u = Main
    BY <1>1, <1>8, <2>1, <2>2 DEF PlaceOf, TurnOf, Runs
  <2>3. CASE u # Main
    BY <1>1, <2>1, <2>3 DEF PlaceOf, TurnOf, Runs
  <2>4. QED
    BY <2>2, <2>3
<1>5. ASSUME NEW a \in Actors PROVE GoneOf(a)'
  <2>1. GoneOf(a)
    BY KnownOf
  <2>2. QED
    BY <1>1, <2>1 DEF PlaceOf, TurnOf, Runs, GoneOf
<1>6. ASSUME NEW a \in Actors, ~ByCaller(a)' PROVE EndOf(a)'
  <2>1. UNCHANGED <<on_stop, m_state, m_listed, m_executor>>
    OBVIOUS
  <2>2. ~ByCaller(a)
    BY <1>6, <2>1
  <2>3. EndOf(a) /\ ~Ending(a) /\ (m_state[a] # "stopped" => on_stop[a] = 0 /\ a \in m_listed)
    BY <1>8, <2>2
  <2>4. CASE PendingDone
    <3>1. step'[Main] = "stop_all" /\ todo' = m_listed /\ step[Main] = "pending"
      BY <2>4
    <3>2. m_state[a] = "stopped" => a \notin m_listed
      BY <2>3, <3>1 DEF EndOf
    <3>3. QED
      BY <2>1, <2>3, <3>1, <3>2 DEF EndOf
  <2>5. CASE ShutdownDone
    <3>1. step'[Main] = "done" /\ todo = {} /\ step[Main] = "stop_all"
      BY <2>5
    <3>2. QED
      BY <2>1, <2>3, <3>1 DEF EndOf
  <2>6. CASE \E b \in Actors : CompletePending(b)
    <3>1. step'[Main] \in {"enter", "pending"} /\ step[Main] = "pending"
      BY <2>6
    <3>2. QED
      BY <2>1, <2>3, <3>1 DEF EndOf
  <2>7. QED
    BY <2>4, <2>5, <2>6
<1>7. QED
  BY <1>2, <1>3, <1>4, <1>5, <1>6 DEF EndInv

\* The last loop of wait_for_shutdown(), on_stop().
LEMMA StopListedKeeps ==
    ASSUME TypeOK, EndInv, NEW x \in Actors, StopListed(x)
    PROVE  EndInv'
<1> USE SomeActorType, ThreadAssumption, PinAssumption DEF TypeOK, CallType, StopType,
     Threads, StopListed, LastCall, Goto, Go, control, mbox, flags, turn, thread, hooks,
     hist, RunSteps, AfterStop, StopSteps, LastSteps, MainAlone, ByCaller
<1>1. /\ PlaceOf(Main) /\ TurnOf(Main)
      /\ GoneOf(on[Main]) /\ (~ByCaller(on[Main]) => EndOf(on[Main]))
      /\ MainAlone => ~m_workers_active
      /\ ~MainAlone => m_workers_active
  BY DEF EndInv
<1>2. /\ (MainAlone => ~m_workers_active)'
      /\ (~MainAlone => m_workers_active)'
  BY <1>1 DEF PlaceOf
<1>3. ASSUME NEW u \in Threads PROVE PlaceOf(u)'
  <2>1. PlaceOf(u)
    BY DEF EndInv
  <2>2. QED
    BY <1>1, <2>1 DEF PlaceOf
<1>4. ASSUME NEW u \in Threads PROVE TurnOf(u)'
  <2>1. PlaceOf(u) /\ TurnOf(u) /\ GoneOf(on[u]) /\ (~ByCaller(on[u]) => EndOf(on[u]))
    BY KnownOf
  <2>2. QED
    BY <1>1, <2>1 DEF PlaceOf, TurnOf, Runs, GoneOf, EndOf
<1>5. ASSUME NEW a \in Actors PROVE GoneOf(a)'
  <2>1. GoneOf(a)
    BY KnownOf
  <2>2. QED
    BY <1>1, <2>1 DEF PlaceOf, TurnOf, Runs, GoneOf
<1>6. ASSUME NEW a \in Actors, ~ByCaller(a)' PROVE EndOf(a)'
  <2>1. GoneOf(a) /\ EndOf(a)
    BY <1>6, KnownOf
  <2>2. QED
    BY <1>1, <1>6, <2>1 DEF PlaceOf, TurnOf, Runs, GoneOf, EndOf, Ending
<1>7. QED
  BY <1>2, <1>3, <1>4, <1>5, <1>6 DEF EndInv

\* The last loop of wait_for_shutdown(), the state.
LEMMA MarkStoppedKeeps ==
    ASSUME TypeOK, EndInv, MarkStopped
    PROVE  EndInv'
<1> USE SomeActorType, ThreadAssumption, PinAssumption DEF TypeOK, CallType, StopType,
     Threads, MarkStopped, Goto, Go, control, mbox, flags, turn, thread, hooks, hist,
     RunSteps, AfterStop, StopSteps, LastSteps, MainAlone, ByCaller
<1>1. /\ PlaceOf(Main) /\ TurnOf(Main)
      /\ GoneOf(on[Main]) /\ (~ByCaller(on[Main]) => EndOf(on[Main]))
      /\ MainAlone => ~m_workers_active
      /\ ~MainAlone => m_workers_active
  BY DEF EndInv
<1>2. /\ (MainAlone => ~m_workers_active)'
      /\ (~MainAlone => m_workers_active)'
  BY <1>1 DEF PlaceOf
<1>3. ASSUME NEW u \in Threads PROVE PlaceOf(u)'
  <2>1. PlaceOf(u)
    BY DEF EndInv
  <2>2. QED
    BY <1>1, <2>1 DEF PlaceOf
<1>4. ASSUME NEW u \in Threads PROVE TurnOf(u)'
  <2>1. PlaceOf(u) /\ TurnOf(u) /\ GoneOf(on[u]) /\ (~ByCaller(on[u]) => EndOf(on[u]))
    BY KnownOf
  <2>2. QED
    BY <1>1, <2>1 DEF PlaceOf, TurnOf, Runs, GoneOf, EndOf
<1>5. ASSUME NEW a \in Actors PROVE GoneOf(a)'
  <2>1. GoneOf(a)
    BY KnownOf
  <2>2. QED
    BY <1>1, <2>1 DEF PlaceOf, TurnOf, Runs, GoneOf
<1>6. ASSUME NEW a \in Actors, ~ByCaller(a)' PROVE EndOf(a)'
  <2>1. GoneOf(a) /\ EndOf(a)
    BY <1>6, KnownOf
  <2>2. /\ UNCHANGED <<on_stop, m_listed, todo>> /\ step[Main] = "last" /\ step'[Main] = "stop_all"
        /\ m_state' = [m_state EXCEPT ![on[Main]] = "stopped"] /\ on[Main] \in Actors
    OBVIOUS
  <2>3. CASE a = on[Main]
    <3>1. a \notin todo /\ on_stop[a] = 1 /\ m_state'[a] = "stopped"
      BY <1>1, <2>1, <2>2, <2>3 DEF TurnOf, GoneOf, EndOf
    <3>2. QED
      BY <2>2, <3>1 DEF EndOf
  <2>4. CASE a # on[Main]
    <3>1. m_state'[a] = m_state[a]
      BY <2>2, <2>4
    <3>2. Ending(a) => Ending(a)'
      BY <2>2, <2>4 DEF Ending
    <3>3. QED
      BY <2>1, <2>2, <2>4, <3>1, <3>2 DEF EndOf
  <2>5. QED
    BY <2>3, <2>4
<1>7. QED
  BY <1>2, <1>3, <1>4, <1>5, <1>6 DEF EndInv

\* Every step keeps EndInv.
LEMMA EndStep ==
    ASSUME TypeOK, EndInv, [Next]_vars
    PROVE  EndInv'
<1>1. CASE UNCHANGED vars
  BY <1>1 DEF vars, control, mbox, flags, turn, thread, hooks, hist, EndInv, PlaceOf, TurnOf,
     GoneOf, EndOf, Ending, ByCaller, Runs, MainAlone
<1>2. CASE \E c \in Clients : Client(c)
  BY <1>2, SendKeeps, ClientStopsKeeps DEF Client
<1>3. CASE \E t \in Clients \cup {Main} : Push(t)
  BY <1>3, PushKeeps
<1>4. CASE \E t \in Threads : StopActor(t) \/ ServiceStop(t) \/ Dispatch(t)
  BY <1>4, StopActorKeeps, ServiceEnterKeeps, ServiceDrainKeeps, ServiceShutdownHookKeeps,
     ServiceStopHookKeeps, ServiceCloseKeeps, ServiceUnlistKeeps, ServiceFinishKeeps, DispatchKeeps DEF ServiceStop
<1>5. CASE \E w \in Workers : RunActor(w)
  BY <1>5, WorkerPopKeeps, TurnKeeps DEF RunActor
<1>6. CASE \E w \in Workers, a \in Actors, waits \in BOOLEAN : HandlerStops(w, a, waits)
  BY <1>6, HandlerStopsKeeps
<1>7. CASE ShutdownBegin \/ ShutdownSteps
  BY <1>7, ShutdownKeeps
<1>8. CASE WaitSteps
  BY <1>8, JoinKeeps, PendingKeeps, StopListedKeeps, MarkStoppedKeeps DEF WaitSteps
<1>9. QED
  BY <1>1, <1>2, <1>3, <1>4, <1>5, <1>6, <1>7, <1>8 DEF Next

\* EndInv holds at the start.
LEMMA EndInit == Init => EndInv
<1> SUFFICES ASSUME Init PROVE EndInv
  OBVIOUS
<1> USE ThreadAssumption DEF Init, Threads
<1>1. step[Main] = "ready"
  OBVIOUS
<1>2. ASSUME NEW t \in Threads PROVE PlaceOf(t) /\ TurnOf(t)
  BY <1>1 DEF PlaceOf, TurnOf, MainAlone, RunSteps, StopSteps, LastSteps
<1>3. ASSUME NEW a \in Actors PROVE GoneOf(a) /\ EndOf(a)
  BY <1>1 DEF GoneOf, EndOf, LastSteps, ByCaller
<1>4. QED
  BY <1>1, <1>2, <1>3 DEF EndInv, MainAlone, RunSteps, LastSteps

-----------------------------------------------------------------------------
(* Messages *)

\* What Append and Tail do to the messages of a mailbox.
LEMMA Appended ==
    ASSUME NEW S, NEW q \in Seq(S), NEW x \in S
    PROVE  Append(q, x) \in Seq(S) /\ ToSet(Append(q, x)) = ToSet(q) \cup {x}
<1> DEFINE r == Append(q, x)
<1>1. r \in Seq(S)
  OBVIOUS
<1>2. /\ DOMAIN r = DOMAIN q \cup {Len(q) + 1}
      /\ \A i \in DOMAIN q : r[i] = q[i]
      /\ r[Len(q) + 1] = x
  OBVIOUS
<1> HIDE DEF r
<1>3. ASSUME NEW y PROVE y \in ToSet(r) <=> y \in ToSet(q) \/ y = x
  BY <1>2 DEF ToSet
<1>4. ToSet(r) = ToSet(q) \cup {x}
  BY <1>3
<1>5. QED
  BY <1>1, <1>4 DEF r

\* What a pop leaves in a mailbox.
LEMMA Tailed ==
    ASSUME NEW S, NEW q \in Seq(S), q # <<>>
    PROVE  Tail(q) \in Seq(S) /\ Head(q) \in S /\ ToSet(q) = ToSet(Tail(q)) \cup {Head(q)}
<1> DEFINE r == Tail(q)
<1>1. r \in Seq(S) /\ Head(q) \in S /\ Head(q) = q[1] /\ 1 \in DOMAIN q
  OBVIOUS
<1>2. \A i \in DOMAIN r : i + 1 \in DOMAIN q /\ r[i] = q[i + 1]
  OBVIOUS
<1>3. \A i \in DOMAIN q : i = 1 \/ (i - 1 \in DOMAIN r /\ r[i - 1] = q[i])
  OBVIOUS
<1> HIDE DEF r
<1>4. ASSUME NEW y PROVE y \in ToSet(q) <=> y \in ToSet(r) \/ y = Head(q)
  BY <1>1, <1>2, <1>3 DEF ToSet
<1>5. ToSet(q) = ToSet(r) \cup {Head(q)}
  BY <1>4
<1>6. QED
  BY <1>1, <1>5 DEF r

\* A message of a client has a sender and a number, system_shutdown has not.
LEMMA MessageFacts ==
    ASSUME NEW m \in Message
    PROVE  m.from \in Clients /\ m.seq \in 1..MaxSend /\ m # system_shutdown
BY BoundAssumption DEF Message, system_shutdown

\* What is in a mailbox is a message or system_shutdown.
LEMMA EntryType ==
    ASSUME MailType, NEW a \in Actors, NEW m \in ToSet(m_queue[a])
    PROVE  m \in Message \cup {system_shutdown}
<1>1. m_queue[a] \in Seq(Message \cup {system_shutdown})
  BY DEF MailType
<1>2. QED
  BY <1>1 DEF ToSet

\* What a step leaves alone that has nothing to do with messages.
QuietMail ==
    /\ UNCHANGED <<m_queue, m_closed, sent, early, dead, done>>
    /\ \A c \in Clients : step'[c] = "push" => step[c] = "push"
    /\ step'[Main] = "ready" => step[Main] = "ready"

MailInv == Queued /\ Closed

\* Steps that touch no mailbox keep MailInv.
LEMMA MailFrame ==
    ASSUME TypeOK, MailInv, QuietMail
    PROVE  MailType' /\ MailInv'
<1>1. MailType'
  BY DEF TypeOK, MailType, QuietMail
<1>2. Closed'
  BY DEF MailInv, Closed, QuietMail, has_messages
<1>3. ASSUME NEW m \in Message, Pushed(m) PROVE Pushed(m)'
  BY <1>3, MessageFacts DEF Pushed, QuietMail
<1>4. ASSUME NEW a \in Actors, NEW m \in ToSet(m_queue[a])
      PROVE  (m = system_shutdown /\ step'[Main] # "ready") \/ (m # system_shutdown /\ Pushed(m)')
  BY <1>3, EntryType DEF MailInv, Queued, QuietMail, TypeOK
<1>5. \A m \in early : Pushed(m)'
  BY <1>3 DEF MailInv, Queued, TypeOK, MailType
<1>6. \A c \in Clients : step'[c] = "push" => sent'[c] > 0
  BY DEF MailInv, Queued, QuietMail
<1>7. m_queue' = m_queue /\ early' = early
  BY DEF QuietMail
<1>8. Queued'
  BY <1>4, <1>5, <1>6, <1>7 DEF Queued
<1>9. QED
  BY <1>1, <1>2, <1>8 DEF MailInv

\* A mailbox that gets or loses messages: the others keep theirs.
LEMMA Requeued ==
    ASSUME TypeOK, MailInv, NEW a \in Actors, NEW q \in Seq(Message \cup {system_shutdown}),
           m_queue' = [m_queue EXCEPT ![a] = q], UNCHANGED early,
           \A m \in Message : Pushed(m) => Pushed(m)',
           \A m \in ToSet(q) \cap Message : m \in ToSet(m_queue[a]) \/ Pushed(m)',
           system_shutdown \in ToSet(q) => step'[Main] # "ready",
           step'[Main] = "ready" => step[Main] = "ready",
           \A c \in Clients : step'[c] = "push" => sent'[c] > 0
    PROVE  Queued'
<1>1. ASSUME NEW b \in Actors, NEW m \in ToSet(m_queue'[b])
      PROVE  (m = system_shutdown /\ step'[Main] # "ready") \/ (m # system_shutdown /\ Pushed(m)')
  <2>1. m \in IF b = a THEN ToSet(q) ELSE ToSet(m_queue[b])
    BY DEF TypeOK, MailType
  <2>2. m \in Message \cup {system_shutdown}
    <3>1. CASE b = a
      BY <2>1, <3>1 DEF ToSet
    <3>2. CASE b # a
      BY <2>1, <3>2, EntryType DEF TypeOK
    <3>3. QED
      BY <3>1, <3>2
  <2>3. CASE m = system_shutdown
    BY <2>1, <2>3 DEF MailInv, Queued
  <2>4. CASE m # system_shutdown
    BY <2>1, <2>2, <2>4 DEF MailInv, Queued
  <2>5. QED
    BY <2>3, <2>4
<1>2. \A m \in early' : Pushed(m)'
  BY DEF MailInv, Queued, TypeOK, MailType
<1>3. QED
  BY <1>1, <1>2 DEF Queued

\* tell() takes a new number.
LEMMA SendMail ==
    ASSUME TypeOK, MailInv, NEW c \in Clients, NEW a \in Actors, Send(c, a)
    PROVE  MailType' /\ MailInv'
<1>1. /\ sent' = [sent EXCEPT ![c] = sent[c] + 1] /\ sent[c] \in 0..MaxSend
      /\ sent'[c] = sent[c] + 1 /\ sent'[c] \in 1..MaxSend
      /\ UNCHANGED <<m_queue, m_closed, early, done>>
  BY BoundAssumption DEF Send, TypeOK, MailType, mbox
<1>2. /\ \A d \in Clients : d # c => step'[d] = step[d]
      /\ step'[Main] = step[Main]
  BY ThreadAssumption DEF Send, Go, TypeOK, CallType, Threads
<1>3. Msg(c)' \in Message
  BY <1>1 DEF Msg, Message
<1>4. dead' \subseteq Message \cup {system_shutdown}
  BY <1>3 DEF Send, TypeOK, MailType
<1>5. MailType'
  BY <1>1, <1>4 DEF TypeOK, MailType
<1>6. ASSUME NEW m \in Message, Pushed(m) PROVE Pushed(m)'
  <2>1. m.from \in Clients /\ m.seq \in 1..MaxSend
    BY MessageFacts
  <2>2. CASE m.from = c
    BY <1>1, <1>6, <2>1, <2>2, BoundAssumption DEF Pushed
  <2>3. CASE m.from # c
    BY <1>1, <1>2, <1>6, <2>1, <2>3 DEF Pushed, TypeOK, MailType
  <2>4. QED
    BY <2>2, <2>3
<1>7. \A d \in Clients : step'[d] = "push" => sent'[d] > 0
  BY <1>1, <1>2 DEF MailInv, Queued, TypeOK, MailType
<1>8. ASSUME NEW b \in Actors, NEW m \in ToSet(m_queue[b])
      PROVE  (m = system_shutdown /\ step'[Main] # "ready") \/ (m # system_shutdown /\ Pushed(m)')
  BY <1>2, <1>6, EntryType DEF MailInv, Queued, TypeOK
<1>9. \A m \in early : Pushed(m)'
  BY <1>6 DEF MailInv, Queued, TypeOK, MailType
<1>10. Queued'
  BY <1>1, <1>7, <1>8, <1>9 DEF Queued
<1>11. Closed'
  BY <1>1 DEF MailInv, Closed, has_messages
<1>12. QED
  BY <1>5, <1>10, <1>11 DEF MailInv

\* A push, also of system_shutdown, into a mailbox that may be closed.
LEMMA PushMail ==
    ASSUME TypeOK, MailInv, NEW t \in Clients \cup {Main}, Push(t)
    PROVE  MailType' /\ MailInv'
<1> DEFINE a == on[t]
<1>1. /\ step[t] = "push" /\ UNCHANGED <<m_closed, sent, early, done>>
      /\ step' = [step EXCEPT ![t] = Home(t)]
  BY DEF Push, Return
<1>2. /\ a \in Actors /\ m_queue[a] \in Seq(Message \cup {system_shutdown})
  BY DEF TypeOK, MailType, CallType, Threads
<1>3. /\ t \in Clients => step'[t] = "ready" /\ t # Main
      /\ t = Main => step'[t] = "inject"
      /\ \A u \in Threads : u # t => step'[u] = step[u]
  BY <1>1, ThreadAssumption DEF Home, TypeOK, CallType, Threads
<1>4. ASSUME t # Main PROVE Payload(t) = Msg(t) /\ Msg(t) \in Message /\ Msg(t).from = t /\ Msg(t).seq = sent[t]
  BY <1>1, <1>4 DEF Payload, Msg, Message, MailInv, Queued, TypeOK, MailType
<1>5. Payload(t) \in Message \cup {system_shutdown}
  BY <1>4 DEF Payload
<1>6. ASSUME NEW m \in Message, Pushed(m) PROVE Pushed(m)'
  BY <1>1, <1>3, <1>6, MessageFacts DEF Pushed, Threads
<1>7. \A d \in Clients : step'[d] = "push" => sent'[d] > 0
  BY <1>1, <1>3 DEF MailInv, Queued, Threads
<1>8. CASE a \in m_closed
  <2>1. m_queue' = m_queue /\ dead' = dead \cup {Payload(t)}
    BY <1>8 DEF Push
  <2>2. MailType'
    BY <1>1, <1>5, <2>1 DEF TypeOK, MailType
  <2>3. ASSUME NEW b \in Actors, NEW m \in ToSet(m_queue[b])
        PROVE  (m = system_shutdown /\ step'[Main] # "ready") \/ (m # system_shutdown /\ Pushed(m)')
    BY <1>3, <1>6, EntryType DEF MailInv, Queued, TypeOK, Threads
  <2>4. \A m \in early : Pushed(m)'
    BY <1>6 DEF MailInv, Queued, TypeOK, MailType
  <2>5. Queued'
    BY <1>1, <1>7, <2>1, <2>3, <2>4 DEF Queued
  <2>6. Closed'
    BY <1>1, <2>1 DEF MailInv, Closed, has_messages
  <2>7. QED
    BY <2>2, <2>5, <2>6 DEF MailInv
<1>9. CASE a \notin m_closed
  <2> DEFINE q == Append(m_queue[a], Payload(t))
  <2>1. m_queue' = [m_queue EXCEPT ![a] = q] /\ dead' = dead
    BY <1>9 DEF Push
  <2>2. q \in Seq(Message \cup {system_shutdown}) /\ ToSet(q) = ToSet(m_queue[a]) \cup {Payload(t)}
    BY <1>2, <1>5, Appended
  <2> HIDE DEF q
  <2>3. MailType'
    BY <1>1, <1>2, <2>1, <2>2 DEF TypeOK, MailType
  <2>4. \A m \in ToSet(q) \cap Message : m \in ToSet(m_queue[a]) \/ Pushed(m)'
    <3>1. ASSUME NEW m \in Message, m = Payload(t) PROVE Pushed(m)'
      <4>1. m.from = t /\ m.seq = sent[t] /\ t \in Clients
        BY <1>4, <3>1, MessageFacts DEF Payload
      <4>2. sent[t] \in 0..MaxSend
        BY <4>1 DEF TypeOK, MailType
      <4>3. QED
        BY <1>1, <1>3, <4>1, <4>2, BoundAssumption DEF Pushed
    <3>2. QED
      BY <2>2, <3>1
  <2>5. system_shutdown \in ToSet(q) => step'[Main] # "ready"
    BY <1>2, <1>3, <1>4, <2>2, MessageFacts DEF MailInv, Queued, Threads
  <2>6. step'[Main] = "ready" => step[Main] = "ready"
    BY <1>3 DEF Threads
  <2>7. Queued'
    BY <1>1, <1>2, <1>6, <1>7, <2>1, <2>2, <2>4, <2>5, <2>6, Requeued
  <2>8. Closed'
    BY <1>1, <1>2, <1>9, <2>1 DEF MailInv, Closed, has_messages, TypeOK, MailType, StopType
  <2>9. QED
    BY <2>3, <2>7, <2>8 DEF MailInv
<1>10. QED
  BY <1>8, <1>9

\* A mailbox loses messages, to a handler or to its end.
LEMMA TakenMail ==
    ASSUME TypeOK, MailInv, NEW t \in Threads, NEW q \in Seq(Message \cup {system_shutdown}),
           m_queue' = [m_queue EXCEPT ![on[t]] = q], ToSet(q) \subseteq ToSet(m_queue[on[t]]),
           UNCHANGED <<sent, early>>,
           dead' \subseteq Message \cup {system_shutdown}, done' \in [Actors -> SUBSET Message],
           \/ UNCHANGED m_closed /\ has_messages(on[t])
           \/ m_closed' = m_closed \cup {on[t]} /\ q = <<>>,
           NEW l, l \notin {"ready", "push"}, step' = [step EXCEPT ![t] = l]
    PROVE  MailType' /\ MailInv'
<1>1. on[t] \in Actors
  BY DEF TypeOK, CallType
<1>2. MailType'
  BY <1>1 DEF TypeOK, MailType
<1>3. /\ \A c \in Clients : step'[c] = "push" => step[c] = "push"
      /\ step'[Main] = "ready" => step[Main] = "ready"
  BY DEF TypeOK, CallType, Threads
<1>4. \A m \in Message : Pushed(m) => Pushed(m)'
  BY <1>3, MessageFacts DEF Pushed
<1>5. system_shutdown \in ToSet(q) => step'[Main] # "ready"
  BY <1>1, <1>3 DEF MailInv, Queued
<1>6. \A c \in Clients : step'[c] = "push" => sent'[c] > 0
  BY <1>3 DEF MailInv, Queued
<1>7. \A m \in ToSet(q) \cap Message : m \in ToSet(m_queue[on[t]]) \/ Pushed(m)'
  OBVIOUS
<1>8. Queued'
  BY <1>1, <1>3, <1>4, <1>5, <1>6, <1>7, Requeued
<1>9. Closed'
  BY <1>1 DEF MailInv, Closed, has_messages, TypeOK, StopType, MailType
<1>10. QED
  BY <1>2, <1>8, <1>9 DEF MailInv

\* close() leaves a mailbox empty.
LEMMA CloseMail ==
    ASSUME TypeOK, MailInv, NEW t \in Threads, ServiceClose(t)
    PROVE  MailType' /\ MailInv'
<1>1. on[t] \in Actors
  BY DEF TypeOK, CallType
<1>2. << >> \in Seq(Message \cup {system_shutdown}) /\ ToSet(<< >>) = {}
  BY DEF ToSet
<1>3. dead' \subseteq Message \cup {system_shutdown}
  BY <1>1, EntryType DEF ServiceClose, TypeOK, MailType
<1>4. done' \in [Actors -> SUBSET Message]
  BY DEF ServiceClose, TypeOK, MailType
<1>5. QED
  BY <1>2, <1>3, <1>4, TakenMail DEF ServiceClose, Go

\* The head of the mailbox and what is left of it.
LEMMA Popped ==
    ASSUME TypeOK, NEW t \in Threads, has_messages(on[t])
    PROVE  LET q == m_queue[on[t]] IN
              /\ Tail(q) \in Seq(Message \cup {system_shutdown})
              /\ Head(q) \in Message \cup {system_shutdown}
              /\ ToSet(q) = ToSet(Tail(q)) \cup {Head(q)}
<1>1. m_queue[on[t]] \in Seq(Message \cup {system_shutdown}) /\ m_queue[on[t]] # << >>
  BY DEF has_messages, TypeOK, CallType, MailType
<1>2. QED
  BY <1>1, Tailed

\* A pop takes the head of a mailbox.
LEMMA DispatchMail ==
    ASSUME TypeOK, MailInv, NEW t \in Threads, Handle(t) \/ DispatchShutdown(t)
    PROVE  MailType' /\ MailInv'
<1> DEFINE a == on[t]
           r == Tail(m_queue[a])
<1>1. /\ has_messages(a) /\ m_queue' = [m_queue EXCEPT ![a] = r]
      /\ UNCHANGED <<sent, early, m_closed, dead>>
  BY DEF Handle, RunHandler, DispatchShutdown
<1>2. r \in Seq(Message \cup {system_shutdown}) /\ ToSet(r) \subseteq ToSet(m_queue[a])
  BY <1>1, Popped
<1>3. done' \in [Actors -> SUBSET Message]
  <2>1. CASE Handle(t)
    <3>1. Head(m_queue[a]) \in Message
      BY <1>1, <2>1, Popped DEF Handle
    <3>2. QED
      BY <2>1, <3>1 DEF Handle, RunHandler, TypeOK, MailType, CallType
  <2>2. CASE DispatchShutdown(t)
    BY <2>2 DEF DispatchShutdown, TypeOK, MailType
  <2>3. QED
    BY <2>1, <2>2
<1>4. \E l : l \notin {"ready", "push"} /\ step' = [step EXCEPT ![t] = l]
  BY DEF Handle, RunHandler, DispatchShutdown, Go, Again
<1>5. dead' \subseteq Message \cup {system_shutdown}
  BY <1>1 DEF TypeOK, MailType
<1> HIDE DEF r
<1>6. QED
  BY <1>1, <1>2, <1>3, <1>4, <1>5, TakenMail

\* shutdown() notes what is queued.
LEMMA BeginMail ==
    ASSUME TypeOK, MailInv, ShutdownBegin
    PROVE  MailType' /\ MailInv'
<1>1. /\ UNCHANGED <<m_queue, m_closed, sent, dead, done>>
      /\ early' = UNION {ToSet(m_queue[a]) : a \in Actors}
      /\ step' = [step EXCEPT ![Main] = "inject"] /\ step[Main] = "ready"
  BY DEF ShutdownBegin, Goto, Go, mbox
<1>2. /\ \A c \in Clients : step'[c] = step[c]
      /\ step'[Main] = "inject"
  BY <1>1, ThreadAssumption DEF TypeOK, CallType, Threads
<1>3. ASSUME NEW m \in Message, Pushed(m) PROVE Pushed(m)'
  BY <1>1, <1>2, <1>3, MessageFacts DEF Pushed
<1>4. ASSUME NEW a \in Actors, NEW m \in ToSet(m_queue[a]) PROVE m \in Message /\ Pushed(m)
  BY <1>1, EntryType, MessageFacts DEF MailInv, Queued, TypeOK
<1>5. MailType'
  BY <1>1, <1>4 DEF TypeOK, MailType
<1>6. \A m \in early' : Pushed(m)'
  BY <1>1, <1>3, <1>4
<1>7. ASSUME NEW a \in Actors, NEW m \in ToSet(m_queue[a])
      PROVE  m # system_shutdown /\ Pushed(m)'
  BY <1>3, <1>4, MessageFacts
<1>8. \A c \in Clients : step'[c] = "push" => sent'[c] > 0
  BY <1>1, <1>2 DEF MailInv, Queued
<1>9. Queued'
  BY <1>1, <1>6, <1>7, <1>8 DEF Queued
<1>10. Closed'
  BY <1>1 DEF MailInv, Closed, has_messages
<1>11. QED
  BY <1>5, <1>9, <1>10 DEF MailInv

\* The other steps have nothing to do with messages.
LEMMA QuietSteps ==
    ASSUME TypeOK, Next,
           ~\E c \in Clients, a \in Actors : Send(c, a),
           ~\E t \in Clients \cup {Main} : Push(t),
           ~\E t \in Threads : ServiceClose(t) \/ Handle(t) \/ DispatchShutdown(t),
           ~ShutdownBegin
    PROVE  QuietMail
<1> USE ThreadAssumption DEF QuietMail, TypeOK, CallType, Threads, mbox, hist, thread, Go
<1>1. CASE \E c \in Clients, a \in Actors, waits \in BOOLEAN : ClientStops(c, a, waits)
  BY <1>1 DEF ClientStops, Claim
<1>2. CASE \E w \in Workers, a \in Actors, waits \in BOOLEAN : HandlerStops(w, a, waits)
  BY <1>2 DEF HandlerStops, Claim
<1>3. CASE \E t \in Threads : StopActor(t)
  BY <1>3 DEF StopActor, StopIntake, StopRequest, StopWho, StopMayWait, StopReturn, Return, Home
<1>4. CASE \E t \in Threads : ServiceEnter(t) \/ ServiceDrain(t) \/ ServiceShutdownHook(t) \/ ServiceStopHook(t)
                            \/ ServiceUnlist(t) \/ ServiceFinish(t)
  BY <1>4 DEF ServiceEnter, ServiceDrain, ServiceShutdownHook, ServiceStopHook, ServiceUnlist,
     Unlist, ServiceFinish, Finish, Leave, Served
<1>5. CASE \E t \in Threads : ShutdownHookDone(t)
  BY <1>5 DEF ShutdownHookDone, Again
<1>6. CASE \E w \in Workers : RunActor(w)
  BY <1>6 DEF RunActor, WorkerExit, WorkerPop, TurnTop, TurnOver, HandlerReturns, Leave, Served
<1>7. CASE ShutdownSteps
  BY <1>7 DEF ShutdownSteps, InjectDone, PollDone, Signal, Request, Inject, Poll, LogUndrained, LogIf,
     Goto
<1>8. CASE WaitSteps
  BY <1>8 DEF WaitSteps, Join, PendingDone, ShutdownDone, CompletePending, StopListed,
     LastCall, MarkStopped, Goto
<1>9. QED
  BY <1>1, <1>2, <1>3, <1>4, <1>5, <1>6, <1>7, <1>8 DEF Next, Client, ServiceStop, Dispatch

\* Every step keeps MailInv.
LEMMA MailStep ==
    ASSUME TypeOK, MailInv, [Next]_vars
    PROVE  MailType' /\ MailInv'
<1>1. CASE UNCHANGED vars
  BY <1>1, MailFrame DEF vars, QuietMail, mbox, hist, thread
<1>2. CASE Next /\ QuietMail
  BY <1>2, MailFrame
<1>3. CASE Next /\ ~QuietMail
  BY <1>3, QuietSteps, SendMail, PushMail, CloseMail, DispatchMail, BeginMail
<1>4. QED
  BY <1>1, <1>2, <1>3

\* Every variable keeps its type, whatever runs beside wait_for_shutdown().
THEOREM TypeCorrect == Spec => []TypeOK
<1>1. Init => TypeOK /\ MailInv
  <2> SUFFICES ASSUME Init PROVE TypeOK /\ MailInv
    OBVIOUS
  <2> USE DEF Init
  <2>1. StopType
    BY DEF StopType
  <2>2. CallType
    <3>1. m_shutdown_requested \in BOOLEAN /\ m_workers_active \in BOOLEAN
      OBVIOUS
    <3>2. on \in [Threads -> Actors] /\ cur \in [Workers -> Actors]
      BY SomeActorType
    <3>3. QED
      BY <3>1, <3>2, BoundAssumption DEF CallType, Threads
  <2>3. MailType
    BY BoundAssumption DEF MailType
  <2>4. \A a \in Actors : ToSet(m_queue[a]) = {}
    BY DEF ToSet
  <2>5. Queued
    BY <2>4, ThreadAssumption DEF Queued, Threads
  <2>6. Closed
    BY DEF Closed
  <2>7. QED
    BY <2>1, <2>2, <2>3, <2>5, <2>6 DEF TypeOK, MailInv
<1>2. TypeOK /\ MailInv /\ [Next]_vars => (TypeOK /\ MailInv)'
  BY CallStep, StopStep, MailStep DEF TypeOK
<1>3. QED
  BY <1>1, <1>2, PTL DEF Spec

\* The messages are where they should be, throughout.
LEMMA MailInvariant == Spec => []MailInv
<1>1. Init => MailInv
  <2>1. Init => \A a \in Actors : ToSet(m_queue[a]) = {}
    BY DEF Init, ToSet
  <2>2. QED
    BY <2>1, ThreadAssumption DEF Init, MailInv, Queued, Closed, Threads
<1>2. TypeOK /\ MailInv /\ [Next]_vars => MailInv'
  BY MailStep
<1>3. QED
  BY <1>1, <1>2, TypeCorrect, PTL DEF Spec

\* EndInv holds throughout.
LEMMA EndInvariant == Spec => []EndInv
<1>1. TypeOK /\ EndInv /\ [Next]_vars => EndInv'
  BY EndStep
<1>2. QED
  BY <1>1, EndInit, TypeCorrect, PTL DEF Spec

-----------------------------------------------------------------------------
(* Early messages *)

\* Until the log is written, then for the actors it has still to look at.
Before == {"ready", "inject", "push", "poll"}

\* A message stays where it was or leaves a trace, and its mailbox is still on
\* the lookout.
LEMMA TraceFrame ==
    ASSUME Traces, UNCHANGED early, dead \subseteq dead',
           \A a \in Actors : done[a] \subseteq done'[a],
           \A a \in Actors, m \in early :
               m \in ToSet(m_queue[a]) /\ Lookout(a) =>
                   \/ m \in ToSet(m_queue'[a]) /\ Lookout(a)'
                   \/ m \in dead' \cup UNION {done'[b] : b \in Actors}
    PROVE  Traces'
BY DEF Traces

\* The thread of shutdown() does not move, or nothing changes for the lookout.
LEMMA SameLookout ==
    ASSUME TypeOK, NEW a \in Actors, Lookout(a),
           \/ step'[Main] = step[Main]
           \/ step'[Main] \in Before
           \/ step[Main] \notin Before \cup {"log"},
           m_log \subseteq m_log', UNCHANGED todo \/ step[Main] # "log"
    PROVE  Lookout(a)'
BY DEF Lookout, Before

\* Where the thread of shutdown() is after a step of anybody's.
MainMoves ==
    /\ \/ step'[Main] = step[Main]
       \/ step'[Main] \in Before
       \/ step[Main] \notin Before \cup {"log"}
    /\ UNCHANGED todo \/ step[Main] # "log"
    /\ UNCHANGED m_log

\* Steps inside tell(), stop_actor(), service_stop() and handlers.
LEMMA ThreadMoves ==
    ASSUME TypeOK,
           \/ \E t \in Threads : StopActor(t) \/ ServiceStop(t) \/ Dispatch(t)
           \/ \E t \in Clients \cup {Main} : Push(t)
    PROVE  MainMoves
<1> USE DEF MainMoves, Before, TypeOK, CallType, Go, Threads
<1>1. CASE \E t \in Threads : StopActor(t)
  BY <1>1 DEF StopActor, StopIntake, StopRequest, StopWho, StopMayWait, StopReturn, Return
<1>2. CASE \E t \in Threads : ServiceStop(t)
  BY <1>2 DEF ServiceStop, ServiceEnter, ServiceDrain, ServiceShutdownHook, ServiceStopHook,
     ServiceClose, ServiceUnlist, Unlist, ServiceFinish, Finish, Leave
<1>3. CASE \E t \in Threads : Dispatch(t)
  BY <1>3 DEF Dispatch, Handle, RunHandler, DispatchShutdown, ShutdownHookDone
<1>4. CASE \E t \in Clients \cup {Main} : Push(t)
  BY <1>4, ThreadAssumption DEF Push, Return, Home
<1>5. QED
  BY <1>1, <1>2, <1>3, <1>4

\* Steps that begin a call or move a worker.
LEMMA OtherMoves ==
    ASSUME TypeOK,
           \/ \E c \in Clients : Client(c)
           \/ \E w \in Workers : RunActor(w)
           \/ \E w \in Workers, a \in Actors, waits \in BOOLEAN : HandlerStops(w, a, waits)
           \/ WaitSteps \/ InjectDone \/ \E a \in Actors : Inject(a) \/ Poll(a)
    PROVE  MainMoves
<1> USE ThreadAssumption DEF MainMoves, Before, TypeOK, CallType, Go, Threads, thread
<1>1. CASE \E c \in Clients : Client(c)
  BY <1>1 DEF Client, Send, ClientStops, Claim
<1>2. CASE \E w \in Workers : RunActor(w)
  BY <1>2 DEF RunActor, WorkerExit, WorkerPop, TurnTop, TurnOver, HandlerReturns, Leave
<1>3. CASE \E w \in Workers, a \in Actors, waits \in BOOLEAN : HandlerStops(w, a, waits)
  BY <1>3 DEF HandlerStops, Claim
<1>4. CASE WaitSteps
  BY <1>4 DEF WaitSteps, Join, PendingDone, ShutdownDone, CompletePending, StopListed,
     LastCall, MarkStopped, Goto
<1>5. CASE InjectDone \/ \E a \in Actors : Inject(a) \/ Poll(a)
  BY <1>5 DEF InjectDone, Inject, Poll, Goto
<1>6. QED
  BY <1>1, <1>2, <1>3, <1>4, <1>5

\* No mailbox is out of sight and has messages.
LEMMA Seen ==
    ASSUME TypeOK, EndInv, MailInv, NEW a \in Actors, ToSet(m_queue[a]) # {}
    PROVE  has_messages(a) /\ a \in m_listed
<1>1. has_messages(a)
  BY DEF has_messages, ToSet
<1>2. QED
  BY <1>1 DEF EndInv, GoneOf, MailInv, Closed

\* Every step keeps the trace of early messages.
LEMMA TraceStep ==
    ASSUME TypeOK, EndInv, MailInv, Traces, [Next]_vars
    PROVE  Traces'
<1>1. CASE UNCHANGED vars
  BY <1>1, TraceFrame DEF vars, mbox, thread, hist, Lookout
<1>2. ASSUME MainMoves, UNCHANGED early, dead \subseteq dead', \A a \in Actors : done[a] \subseteq done'[a],
             \A a \in Actors, m \in early : m \in ToSet(m_queue[a]) =>
                 m \in ToSet(m_queue'[a]) \cup dead' \cup UNION {done'[b] : b \in Actors}
      PROVE  Traces'
  BY <1>2, TraceFrame, SameLookout DEF MainMoves
<1>3. CASE \E c \in Clients, a \in Actors : Send(c, a)
  <2>1. MainMoves
    BY <1>3, OtherMoves DEF Client
  <2>2. QED
    BY <1>2, <1>3, <2>1 DEF Send, mbox
<1>4. ASSUME NEW t \in Clients \cup {Main}, Push(t) PROVE Traces'
  <2>1. MainMoves
    BY <1>4, ThreadMoves
  <2>2. UNCHANGED <<early, done>> /\ dead \subseteq dead'
    BY <1>4 DEF Push
  <2>3. ASSUME NEW a \in Actors, NEW m \in ToSet(m_queue[a]) PROVE m \in ToSet(m_queue'[a])
    <3>1. CASE m_queue' = m_queue
      BY <3>1
    <3>2. CASE m_queue' # m_queue
      <4>1. m_queue' = [m_queue EXCEPT ![on[t]] = Append(m_queue[on[t]], Payload(t))]
        BY <1>4, <3>2 DEF Push
      <4>2. on[t] \in Actors /\ m_queue[on[t]] \in Seq(Message \cup {system_shutdown})
        BY DEF TypeOK, CallType, MailType, Threads
      <4>3. Payload(t) \in Message \cup {system_shutdown}
        BY <1>4 DEF Payload, Msg, Message, Push, MailInv, Queued, TypeOK, MailType
      <4>4. ToSet(m_queue[on[t]]) \subseteq ToSet(Append(m_queue[on[t]], Payload(t)))
        BY <4>2, <4>3, Appended
      <4>5. QED
        BY <4>1, <4>2, <4>4 DEF TypeOK, MailType
    <3>3. QED
      BY <3>1, <3>2
  <2>4. QED
    BY <1>2, <2>1, <2>2, <2>3
<1>5. ASSUME NEW t \in Threads, ServiceClose(t) PROVE Traces'
  <2>1. MainMoves
    BY <1>5, ThreadMoves DEF ServiceStop
  <2>2. /\ UNCHANGED <<early, done>> /\ dead' = dead \cup (ToSet(m_queue[on[t]]) \ {system_shutdown})
        /\ \A a \in Actors : a # on[t] => m_queue'[a] = m_queue[a]
    BY <1>5 DEF ServiceClose, TypeOK, MailType
  <2>3. \A m \in early : m # system_shutdown
    BY MessageFacts DEF TypeOK, MailType
  <2>4. QED
    BY <1>2, <2>1, <2>2, <2>3
<1>6. ASSUME NEW t \in Threads, Handle(t) \/ DispatchShutdown(t) PROVE Traces'
  <2>1. MainMoves
    BY <1>6, ThreadMoves DEF Dispatch
  <2>2. /\ has_messages(on[t]) /\ UNCHANGED <<early, dead>>
        /\ m_queue' = [m_queue EXCEPT ![on[t]] = Tail(m_queue[on[t]])]
    BY <1>6 DEF Handle, RunHandler, DispatchShutdown
  <2>3. on[t] \in Actors /\ ToSet(m_queue[on[t]]) = ToSet(Tail(m_queue[on[t]])) \cup {Head(m_queue[on[t]])}
    BY <2>2, Popped DEF TypeOK, CallType
  <2>4. \/ done' = [done EXCEPT ![on[t]] = @ \cup {Head(m_queue[on[t]])}]
        \/ done' = done /\ Head(m_queue[on[t]]) = system_shutdown
    BY <1>6 DEF Handle, RunHandler, DispatchShutdown
  <2>5. \A m \in early : m # system_shutdown
    BY MessageFacts DEF TypeOK, MailType
  <2>6. ASSUME NEW a \in Actors PROVE done[a] \subseteq done'[a]
    BY <2>3, <2>4 DEF TypeOK, MailType
  <2>7. ASSUME NEW a \in Actors, NEW m \in early, m \in ToSet(m_queue[a])
        PROVE  m \in ToSet(m_queue'[a]) \cup dead' \cup UNION {done'[b] : b \in Actors}
    <3>1. CASE a # on[t]
      BY <2>2, <2>7, <3>1 DEF TypeOK, MailType
    <3>2. CASE a = on[t] /\ m = Head(m_queue[a])
      <4>1. m \in done'[a]
        BY <2>3, <2>4, <2>5, <3>2 DEF TypeOK, MailType
      <4>2. QED
        BY <4>1
    <3>3. CASE a = on[t] /\ m # Head(m_queue[a])
      BY <2>2, <2>3, <2>7, <3>3 DEF TypeOK, MailType
    <3>4. QED
      BY <3>1, <3>2, <3>3
  <2>8. QED
    BY <1>2, <2>1, <2>2, <2>6, <2>7
<1>7. CASE ShutdownBegin
  <2>1. /\ early' = UNION {ToSet(m_queue[a]) : a \in Actors} /\ m_queue' = m_queue
        /\ step'[Main] = "inject"
    BY <1>7 DEF ShutdownBegin, Goto, Go, mbox, TypeOK, CallType, Threads
  <2>2. QED
    BY <2>1 DEF Traces, Lookout
<1>8. CASE \/ \E c \in Clients, a \in Actors, waits \in BOOLEAN : ClientStops(c, a, waits)
           \/ \E w \in Workers, a \in Actors, waits \in BOOLEAN : HandlerStops(w, a, waits)
           \/ \E t \in Threads : \/ StopActor(t) \/ ServiceEnter(t) \/ ServiceDrain(t)
                                 \/ ServiceShutdownHook(t) \/ ServiceStopHook(t) \/ ServiceUnlist(t)
                                 \/ ServiceFinish(t) \/ ShutdownHookDone(t)
           \/ \E w \in Workers : RunActor(w)
           \/ WaitSteps \/ InjectDone \/ \E a \in Actors : Inject(a) \/ Poll(a)
  <2>1. MainMoves
    BY <1>8, ThreadMoves, OtherMoves DEF Client, ServiceStop, Dispatch
  <2>2. UNCHANGED <<early, dead, done, m_queue>>
    BY <1>8 DEF ClientStops, HandlerStops, Claim, StopActor, StopIntake, StopRequest, StopWho,
       StopMayWait, StopReturn, ServiceEnter, ServiceDrain, ServiceShutdownHook, ServiceStopHook,
       ServiceUnlist, Unlist, ServiceFinish, Finish, ShutdownHookDone, RunActor, WorkerExit, WorkerPop, TurnTop, TurnOver, HandlerReturns,
       WaitSteps, Join, PendingDone, ShutdownDone, CompletePending, StopListed, LastCall,
       MarkStopped, InjectDone, Inject, Poll, mbox, hist
  <2>3. QED
    BY <1>2, <2>1, <2>2
<1>9. CASE PollDone \/ Signal \/ \E a \in Actors : LogUndrained(a)
  <2>1. UNCHANGED <<early, dead, done, m_queue>>
    BY <1>9 DEF PollDone, Signal, Request, LogUndrained, LogIf, mbox, hist
  <2>2. ASSUME NEW a \in Actors, NEW m \in ToSet(m_queue[a]), Lookout(a) PROVE Lookout(a)'
    <3>1. has_messages(a) /\ a \in m_listed
      BY Seen
    <3>2. CASE PollDone
      BY <3>1, <3>2 DEF PollDone, Goto, Go, Lookout, TypeOK, CallType, Threads
    <3>3. CASE Signal
      BY <2>2, <3>3 DEF Signal, Request, Lookout
    <3>4. CASE \E b \in Actors : LogUndrained(b)
      BY <2>2, <3>1, <3>4 DEF LogUndrained, LogIf, Lookout, thread
    <3>5. QED
      BY <1>9, <3>2, <3>3, <3>4
  <2>3. QED
    BY <2>1, <2>2, TraceFrame
<1>10. QED
  BY <1>1, <1>3, <1>4, <1>5, <1>6, <1>7, <1>8, <1>9
     DEF Next, Client, ServiceStop, Dispatch, ShutdownSteps

-----------------------------------------------------------------------------
\* When wait_for_shutdown() returns on_stop() of every actor has run, and but for
\* the actors that a caller of stop_actor() runs on its own thread, it has run
\* once and the actor is stopped.
THEOREM EveryActorStopped == Spec => []AllStopped
<1>1. EndInv => AllStopped
  BY DEF EndInv, GoneOf, EndOf, AllStopped
<1>2. QED
  BY <1>1, EndInvariant, PTL

\* No handler and no hook of an actor runs after its on_stop(), unless a caller of
\* stop_actor() runs the actor on its own thread.
THEOREM NothingAfterStop == Spec => StopIsLast
<1>1. TypeOK /\ EndInv /\ [Next]_vars =>
          [\A a \in Actors : on_stop[a] > 0 /\ ~ByCaller(a) =>
              /\ on_stop'[a] = on_stop[a]
              /\ on_shutdown'[a] = on_shutdown[a]
              /\ done'[a] = done[a]]_vars
  <2> SUFFICES ASSUME TypeOK, EndInv, Next, NEW a \in Actors, on_stop[a] > 0, ~ByCaller(a)
               PROVE  on_stop'[a] = on_stop[a] /\ on_shutdown'[a] = on_shutdown[a] /\ done'[a] = done[a]
    OBVIOUS
  <2>1. ASSUME NEW t \in Threads, step[t] \in {"service", "hooks", "handle"}
        PROVE  on[t] # a /\ on[t] \in Actors
    <3>1. PlaceOf(t) /\ TurnOf(t)
      BY DEF EndInv
    <3>2. QED
      BY <2>1, <3>1, ThreadAssumption DEF PlaceOf, TurnOf, Runs, RunSteps, AfterStop, StopSteps,
         Threads, TypeOK, CallType, ByCaller
  <2>2. step[Main] = "stop_all" => a \notin todo
    BY DEF EndInv, EndOf
  <2>3. CASE \E t \in Threads : \/ ServiceShutdownHook(t) \/ ServiceStopHook(t)
                                \/ Handle(t) \/ DispatchShutdown(t)
    <3>1. PICK t \in Threads : \/ ServiceShutdownHook(t) \/ ServiceStopHook(t)
                               \/ Handle(t) \/ DispatchShutdown(t)
      BY <2>3
    <3>2. on[t] # a
      BY <2>1, <3>1 DEF ServiceShutdownHook, ServiceStopHook, Handle, RunHandler, DispatchShutdown
    <3>3. CASE ServiceShutdownHook(t) \/ ServiceStopHook(t)
      BY <3>2, <3>3 DEF ServiceShutdownHook, ServiceStopHook, TypeOK, StopType
    <3>4. CASE Handle(t)
      BY <3>2, <3>4 DEF Handle, RunHandler, hooks, TypeOK, MailType
    <3>5. CASE DispatchShutdown(t)
      BY <3>2, <3>5 DEF DispatchShutdown, TypeOK, StopType
    <3>6. QED
      BY <3>1, <3>3, <3>4, <3>5
  <2>4. CASE \E b \in Actors : StopListed(b)
    BY <2>2, <2>4 DEF StopListed, LastCall, TypeOK, StopType
  <2>5. CASE /\ ~\E t \in Threads : \/ ServiceShutdownHook(t) \/ ServiceStopHook(t)
                                    \/ Handle(t) \/ DispatchShutdown(t)
             /\ ~\E b \in Actors : StopListed(b)
    BY <2>5 DEF Next, Client, Send, ClientStops, Claim, Push, StopActor, StopIntake, StopRequest,
       StopWho, StopMayWait, StopReturn, ServiceStop, ServiceEnter, ServiceDrain, ServiceClose,
       ServiceUnlist, Unlist, ServiceFinish, Finish, Dispatch, ShutdownHookDone, RunActor,
       WorkerExit, WorkerPop, TurnTop, TurnOver, HandlerReturns, HandlerStops, ShutdownBegin,
       ShutdownSteps, InjectDone, PollDone, Signal, Request, Inject, Poll, LogUndrained, LogIf,
       WaitSteps, Join, PendingDone, MarkStopped, ShutdownDone, CompletePending, hooks, hist
  <2>6. QED
    BY <2>3, <2>4, <2>5
<1>2. QED
  BY <1>1, EndInvariant, TypeCorrect, PTL DEF Spec, StopIsLast

\* A message that was in a mailbox when shutdown() was called is handled, a dead
\* letter, or in the mailbox of an actor that the shutdown log names.
THEOREM EarlyLeaveTrace == Spec => []EarlyTraced
<1>1. Init => Traces
  BY DEF Init, Traces
<1>2. TypeOK /\ EndInv /\ MailInv /\ Traces /\ [Next]_vars => Traces'
  BY TraceStep
<1>3. Traces => EarlyTraced
  BY DEF Traces, EarlyTraced, Lookout
<1>4. QED
  BY <1>1, <1>2, <1>3, TypeCorrect, MailInvariant, EndInvariant, PTL DEF Spec
=============================================================================
