-------------------------- MODULE SchedulerProofs --------------------------
(***************************************************************************)
(* What holds of the scheduler for any number of actors, workers, clients  *)
(* and creators: an actor is in one place, no wake-up is lost, and every   *)
(* message is accounted for.                                               *)
(***************************************************************************)
EXTENDS Scheduler, FiniteSetTheorems, TLAPS

\* Which threads are at which steps.
Calls ==
    /\ \A t \in Threads :
          /\ call[t].step \in {"count", "push", "claimed", "request", "unblock", "wait"} =>
                t \in Clients
          /\ call[t].op = "stop" => t \in Clients
          /\ At(t, "on_start") => t \in Creators /\ On(t) = NewActor[t]
    /\ \A c \in Clients : call[c].step \in {"count", "push"} => sent[c] >= 1

\* The places an actor can be in.
Queued(a)  == \E i \in DOMAIN ready[Pin[a]] : ready[Pin[a]][i] = a
Coming(a)  == \E t \in Threads : At(t, "schedule") /\ On(t) = a
Running(a) == cur[Pin[a]] = a /\ wpc[Pin[a]] \in Turn

\* A worker has only its own actors, and each of them once.
Homes ==
    /\ \A w \in Workers :
          /\ \A i \in DOMAIN ready[w] : Pin[ready[w][i]] = w
          /\ \A i, j \in DOMAIN ready[w] : ready[w][i] = ready[w][j] => i = j
          /\ wpc[w] \in Turn \cup {"recheck"} => Pin[cur[w]] = w
    /\ \A t, u \in Threads :
          At(t, "schedule") /\ At(u, "schedule") /\ On(t) = On(u) => t = u

\* The places exclude each other, and the tag of the mailbox tells whether the
\* actor is in one.
PlaceOf(a) ==
    /\ Queued(a) => ~Coming(a) /\ ~Running(a) /\ ~Starting(a)
    /\ Coming(a) => ~Running(a) /\ ~Starting(a)
    /\ Running(a) => ~Starting(a)
    /\ m_tag[a] = "open" => Queued(a) \/ Coming(a) \/ Running(a) \/ Starting(a)
    /\ Queued(a) \/ Coming(a) \/ Starting(a) => m_tag[a] = "open"
    /\ Running(a) => m_tag[a] = IF wpc[Pin[a]] = "stopped" THEN "closed" ELSE "open"
    /\ m_state[a] = "stopped" => m_tag[a] = "closed"

Places == \A a \in Actors : PlaceOf(a)

\* The flag of the parking handshake.
Flags ==
    \A w \in Workers :
        wpc[w] \in {"lock", "check", "enter", "waiting", "unpark"} <=> w \in sleeping

PlaceInv == TypeOK /\ Calls /\ Homes /\ Places

-----------------------------------------------------------------------------
\* A thread that is in no call is typed like the others.
LEMMA SomeActorType == SomeActor \in Actors
BY ActorAssumption DEF SomeActor

\* Every step keeps threads where Calls says.
LEMMA CallStep ==
    ASSUME CallType, Calls, [Next]_vars
    PROVE  CallType' /\ Calls'
<1> USE DEF CallType, Calls, At, On, Go, Return, Idle, Threads
<1>1. ASSUME NEW c \in Clients, Tell(c) PROVE CallType' /\ Calls'
  <2>1. ASSUME NEW a \in Actors, Send(c, a) PROVE CallType' /\ Calls'
    BY <2>1, BoundAssumption, ThreadAssumption DEF Send
  <2>2. CASE PushCount(c)
    BY <2>2, ThreadAssumption DEF PushCount
  <2>3. CASE PushLand(c)
    BY <2>3, SomeActorType DEF PushLand, Land
  <2>4. QED
    BY <1>1, <2>1, <2>2, <2>3 DEF Tell
<1>2. ASSUME NEW c \in Clients, StopActor(c) PROVE CallType' /\ Calls'
  <2>1. ASSUME NEW a \in Actors, NEW how \in {"stop", "stop_async"}, StopClaim(c, a, how)
        PROVE  CallType' /\ Calls'
    BY <2>1 DEF StopClaim
  <2>2. ASSUME NEW discard \in BOOLEAN, StopIntake(c, discard) PROVE CallType' /\ Calls'
    BY <2>2, SomeActorType DEF StopIntake
  <2>3. CASE StopRequest(c)
    BY <2>3 DEF StopRequest
  <2>4. CASE StopUnblock(c)
    BY <2>4, SomeActorType DEF StopUnblock, AfterSchedule
  <2>5. CASE StopReturn(c)
    BY <2>5, SomeActorType DEF StopReturn
  <2>6. QED
    BY <1>2, <2>1, <2>2, <2>3, <2>4, <2>5 DEF StopActor
<1>3. ASSUME NEW t \in Threads, ScheduleActor(t) PROVE CallType' /\ Calls'
  <2>1. CASE Schedule(t)
    BY <2>1 DEF Schedule
  <2>2. CASE WakeLook(t)
    BY <2>2, SomeActorType DEF WakeLook, AfterSchedule
  <2>3. CASE Notify(t)
    BY <2>3, SomeActorType DEF Notify, AfterSchedule
  <2>4. QED
    BY <1>3, <2>1, <2>2, <2>3 DEF ScheduleActor
<1>4. ASSUME NEW k \in Creators, Create(k) PROVE CallType' /\ Calls'
  <2>1. CASE ActivateAfterStart(k)
    BY <2>1, SomeActorType, ThreadAssumption DEF ActivateAfterStart
  <2>2. CASE DiscardUnstarted(k)
    BY <2>2, SomeActorType, ThreadAssumption DEF DiscardUnstarted
  <2>3. QED
    BY <1>4, <2>1, <2>2 DEF Create
<1>5. ASSUME NEW w \in Workers, Work(w) \/ ParkTimeout(w) PROVE CallType' /\ Calls'
  <2>1. UNCHANGED <<call, sent>>
    BY <1>5 DEF Work, WorkerPop, WorkerIdle, Park, ParkFlag, ParkLock, ParkCheck, ParkEnter,
                ParkTimeout, Unpark, RunActor, TurnTop, TurnOver, TurnHandle, TurnEmpty,
                TryBlock, Recheck, ServiceDrain, ServiceHooks, RunHooks, ServiceClose,
                ServiceStopped
  <2>2. QED
    BY <2>1
<1>6. CASE UNCHANGED vars
  BY <1>6 DEF vars
<1>7. QED
  BY <1>1, <1>2, <1>3, <1>4, <1>5, <1>6 DEF Next

\* Every step keeps the types of the mailboxes, of the actors' states and of the
\* histories.
LEMMA MailStep ==
    ASSUME TypeOK, Calls, [Next]_vars
    PROVE  MailType' /\ StateType' /\ HistType'
<1> DEFINE Goal == MailType' /\ StateType' /\ HistType'
<1> USE DEF TypeOK, MailType, StateType, HistType, mbox, control, hist
<1>1. ASSUME NEW c \in Clients, Tell(c) PROVE Goal
  <2>1. ASSUME NEW a \in Actors, Send(c, a) PROVE Goal
    <3>1. Msg(c)' \in Message
      BY <2>1, BoundAssumption DEF Send, Msg, Message, CallType
    <3>2. QED
      BY <2>1, <3>1 DEF Send
  <2>2. CASE PushCount(c)
    BY <2>2 DEF PushCount
  <2>3. CASE PushLand(c)
    <3>1. /\ Msg(c) \in Message
          /\ On(c) \in Actors
          /\ Append(m_queue[On(c)], Msg(c)) \in Seq(Message \cup {Echo})
      <4>1. Msg(c) \in Message /\ On(c) \in Actors
        BY <2>3, BoundAssumption DEF PushLand, Land, Msg, Message, CallType, Calls, On, At, Threads
      <4>2. QED
        BY <4>1
    <3>2. MailType'
      BY <2>3, <3>1 DEF PushLand, Land, Enqueue
    <3>3. StateType' /\ HistType'
      BY <2>3, <3>1 DEF PushLand, Land
    <3>4. QED
      BY <3>2, <3>3
  <2>4. QED
    BY <1>1, <2>1, <2>2, <2>3 DEF Tell
<1>2. ASSUME NEW c \in Clients, StopActor(c) PROVE Goal
  <2>1. On(c) \in Actors
    BY DEF On, CallType, Threads
  <2>2. QED
    BY <1>2, <2>1 DEF StopActor, StopClaim, StopIntake, StopRequest, StopUnblock, StopReturn
<1>3. ASSUME NEW t \in Threads, ScheduleActor(t) PROVE Goal
  BY <1>3 DEF ScheduleActor, Schedule, WakeLook, Notify
<1>4. ASSUME NEW k \in Creators, Create(k) PROVE Goal
  <2>1. On(k) \in Actors
    BY DEF On, CallType, Threads
  <2>2. QED
    <3>1. CASE ActivateAfterStart(k)
      BY <2>1, <3>1 DEF ActivateAfterStart
    <3>2. CASE DiscardUnstarted(k)
      <4>1. ToSet(m_queue[On(k)]) \subseteq Message \cup {Echo}
        BY <2>1 DEF ToSet
      <4>2. QED
        BY <2>1, <3>2, <4>1 DEF DiscardUnstarted, CloseMailbox
    <3>3. QED
      BY <1>4, <3>1, <3>2 DEF Create
<1>5. ASSUME NEW w \in Workers, WorkerPop(w) \/ WorkerIdle(w) \/ Park(w) \/ ParkTimeout(w)
      PROVE  Goal
  BY <1>5 DEF WorkerPop, WorkerIdle, Park, ParkFlag, ParkLock, ParkCheck, ParkEnter,
              ParkTimeout, Unpark
<1>6. ASSUME NEW w \in Workers, RunActor(w) PROVE Goal
  <2>1. cur[w] \in Actors /\ ToSet(m_queue[cur[w]]) \subseteq Message \cup {Echo}
    BY DEF WorkerType, ToSet
  <2>2. CASE TurnTop(w) \/ TurnOver(w) \/ TurnEmpty(w) \/ TryBlock(w) \/ Recheck(w) \/ ServiceDrain(w)
    BY <2>1, <2>2 DEF TurnTop, TurnOver, TurnEmpty, TryBlock, Recheck, ServiceDrain
  <2>3. CASE TurnHandle(w)
    <3>1. ASSUME m_queue[cur[w]] # <<>>
          PROVE  /\ Head(m_queue[cur[w]]) \in Message \cup {Echo}
                 /\ Tail(m_queue[cur[w]]) \in Seq(Message \cup {Echo})
                 /\ Append(Tail(m_queue[cur[w]]), Echo) \in Seq(Message \cup {Echo})
      BY <2>1, <3>1
    <3>2. ASSUME m_queue[cur[w]] # <<>>, Head(m_queue[cur[w]]) # Echo
          PROVE  Append(done[cur[w]], Head(m_queue[cur[w]])) \in Seq(Message)
      BY <2>1, <3>1, <3>2
    <3>3. MailType' /\ StateType'
      BY <2>1, <2>3, <3>1 DEF TurnHandle
    <3>4. HistType'
      BY <2>1, <2>3, <3>2 DEF TurnHandle
    <3>5. QED
      BY <3>3, <3>4
  <2>4. CASE ServiceHooks(w)
    <3>1. <<>> \in Seq(Message \cup {Echo})
      OBVIOUS
    <3>2. MailType' /\ StateType'
      BY <2>1, <2>4, <3>1 DEF ServiceHooks, RunHooks
    <3>3. HistType'
      BY <2>1, <2>4 DEF ServiceHooks, RunHooks
    <3>4. QED
      BY <3>2, <3>3
  <2>5. CASE ServiceClose(w)
    BY <2>1, <2>5 DEF ServiceClose, CloseMailbox
  <2>6. CASE ServiceStopped(w)
    BY <2>1, <2>6 DEF ServiceStopped
  <2>7. QED
    BY <1>6, <2>2, <2>3, <2>4, <2>5, <2>6 DEF RunActor
<1>7. CASE UNCHANGED vars
  BY <1>7 DEF vars
<1>8. QED
  BY <1>1, <1>2, <1>3, <1>4, <1>5, <1>6, <1>7 DEF Next, Work

\* Every step keeps the types of what belongs to the workers.
LEMMA WorkerStep ==
    ASSUME TypeOK, [Next]_vars
    PROVE  WorkerType'
<1> USE DEF WorkerType, worker
<1>1. ASSUME NEW c \in Clients, Tell(c) \/ StopActor(c) PROVE WorkerType'
  BY <1>1 DEF TypeOK, Tell, Send, PushCount, PushLand, Land, StopActor, StopClaim, StopIntake,
              StopRequest, StopUnblock, StopReturn
<1>2. ASSUME NEW t \in Threads, ScheduleActor(t) PROVE WorkerType'
  <2>1. On(t) \in Actors /\ Pin[On(t)] \in Workers
    BY PinAssumption DEF On, TypeOK, CallType
  <2>2. QED
    <3>1. CASE Schedule(t)
      BY <2>1, <3>1 DEF TypeOK, Schedule, Home
    <3>2. CASE WakeLook(t)
      BY <3>2 DEF TypeOK, WakeLook
    <3>3. CASE Notify(t)
      BY <2>1, <3>3 DEF TypeOK, Notify, Home
    <3>4. QED
      BY <1>2, <3>1, <3>2, <3>3 DEF ScheduleActor
<1>3. ASSUME NEW k \in Creators, Create(k) PROVE WorkerType'
  BY <1>3 DEF TypeOK, Create, ActivateAfterStart, DiscardUnstarted
<1>4. ASSUME NEW w \in Workers, WorkerPop(w) \/ WorkerIdle(w) \/ Park(w) \/ ParkTimeout(w)
      PROVE  WorkerType'
  <2>1. CASE WorkerPop(w)
    <3>1. Head(ready[w]) \in Actors /\ Tail(ready[w]) \in Seq(Actors)
      BY <2>1 DEF TypeOK, WorkerPop
    <3>2. QED
      BY <2>1, <3>1 DEF TypeOK, WorkerPop
  <2>2. CASE WorkerIdle(w) \/ ParkLock(w) \/ ParkCheck(w) \/ ParkEnter(w) \/ ParkTimeout(w)
    BY <2>2 DEF TypeOK, WorkerIdle, ParkLock, ParkCheck, ParkEnter, ParkTimeout
  <2>3. CASE ParkFlag(w) \/ Unpark(w)
    BY <2>3 DEF TypeOK, ParkFlag, Unpark
  <2>4. QED
    BY <1>4, <2>1, <2>2, <2>3 DEF Park
<1>5. ASSUME NEW w \in Workers, RunActor(w) PROVE WorkerType'
  <2>1. CASE TurnTop(w) \/ TurnEmpty(w) \/ ServiceDrain(w) \/ ServiceClose(w)
    BY <2>1 DEF TypeOK, TurnTop, TurnEmpty, ServiceDrain, ServiceClose
  <2>5. CASE ServiceHooks(w)
    BY <2>5 DEF TypeOK, ServiceHooks, RunHooks
  <2>2. CASE TurnHandle(w)
    BY <2>2, BoundAssumption DEF TypeOK, TurnHandle, MayHandle
  <2>3. CASE TryBlock(w)
    BY <2>3 DEF TypeOK, TryBlock
  <2>7. CASE Recheck(w)
    <3>1. CASE m_phase[cur[w]] = "requested" /\ m_tag[cur[w]] = "blocked"
      BY <2>7, <3>1 DEF TypeOK, Recheck
    <3>2. CASE ~(m_phase[cur[w]] = "requested" /\ m_tag[cur[w]] = "blocked")
      <4>1. UNCHANGED <<ready, sleeping>> /\ Leave(w)
        BY <2>7, <3>2 DEF Recheck
      <4>2. QED
        BY <4>1, SomeActorType, BoundAssumption DEF TypeOK, Leave
    <3>3. QED
      BY <3>1, <3>2
  <2>8. CASE ServiceStopped(w)
    BY <2>8, SomeActorType, BoundAssumption DEF TypeOK, ServiceStopped, Leave
  <2>6. CASE TurnOver(w)
    <3>1. Append(ready[w], cur[w]) \in Seq(Actors)
      BY DEF TypeOK
    <3>2. QED
      BY <2>6, <3>1, SomeActorType, BoundAssumption DEF TypeOK, TurnOver, Leave
  <2>9. QED
    BY <1>5, <2>1, <2>2, <2>3, <2>5, <2>6, <2>7, <2>8 DEF RunActor
<1>6. CASE UNCHANGED vars
  BY <1>6 DEF TypeOK, vars
<1>7. QED
  BY <1>1, <1>2, <1>3, <1>4, <1>5, <1>6 DEF Next, Work

-----------------------------------------------------------------------------
\* What Append and Tail do to the entries of a queue.
LEMMA AppendEntries ==
    ASSUME NEW S, NEW q \in Seq(S), NEW x \in S
    PROVE  /\ DOMAIN Append(q, x) = DOMAIN q \cup {Len(q) + 1}
           /\ Len(q) + 1 \notin DOMAIN q
           /\ \A i \in DOMAIN q : Append(q, x)[i] = q[i]
           /\ Append(q, x)[Len(q) + 1] = x
OBVIOUS

\* What Tail removes from a sequence.
LEMMA TailEntries ==
    ASSUME NEW S, NEW q \in Seq(S), q # <<>>
    PROVE  /\ 1 \in DOMAIN q /\ q[1] = Head(q)
           /\ \A i \in DOMAIN Tail(q) : i + 1 \in DOMAIN q /\ Tail(q)[i] = q[i + 1]
           /\ \A i \in DOMAIN q : i # 1 => i - 1 \in DOMAIN Tail(q)
           /\ DOMAIN Tail(q) \subseteq Nat \ {0} /\ DOMAIN q \subseteq Nat \ {0}
OBVIOUS

\* Every step leaves each worker with its own actors, each of them once.
LEMMA HomeStep ==
    ASSUME TypeOK, Calls, Homes, Places, [Next]_vars
    PROVE  Homes'
<1> USE DEF Homes
<1>1. ASSUME NEW c \in Clients, Tell(c) PROVE Homes'
  <2> USE DEF worker
  <2>1. ASSUME NEW a \in Actors, Send(c, a) PROVE Homes'
    BY <2>1 DEF Send, TypeOK, CallType, Threads, At, On
  <2>2. CASE PushCount(c)
    BY <2>2 DEF PushCount, TypeOK, CallType, Threads, At, On, Go
  <2>3. CASE PushLand(c)
    BY <2>3 DEF PushLand, Land, TypeOK, CallType, Threads, At, On, Go, Return, Idle, Places, PlaceOf, Coming
  <2>4. QED
    BY <1>1, <2>1, <2>2, <2>3 DEF Tell
<1>2. ASSUME NEW c \in Clients, StopActor(c) PROVE Homes'
  <2> USE DEF worker, TypeOK, CallType, Threads, At, On, Go, Return, Idle
  <2>1. ASSUME NEW a \in Actors, NEW how \in {"stop", "stop_async"}, StopClaim(c, a, how)
        PROVE  Homes'
    BY <2>1 DEF StopClaim
  <2>2. ASSUME NEW discard \in BOOLEAN, StopIntake(c, discard) PROVE Homes'
    BY <2>2 DEF StopIntake
  <2>3. CASE StopRequest(c) \/ StopReturn(c)
    BY <2>3 DEF StopRequest, StopReturn
  <2>4. CASE StopUnblock(c)
    BY <2>4 DEF StopUnblock, AfterSchedule, Places, PlaceOf, Coming
  <2>5. QED
    BY <1>2, <2>1, <2>2, <2>3, <2>4 DEF StopActor
<1>3. ASSUME NEW t \in Threads, ScheduleActor(t) PROVE Homes'
  <2> USE DEF TypeOK, CallType, At, On, Go
  <2>1. CASE Schedule(t)
    <3> DEFINE a == On(t)
               q == ready[Pin[a]]
    <3>1. a \in Actors /\ Pin[a] \in Workers /\ q \in Seq(Actors)
      BY PinAssumption DEF WorkerType
    <3>2. \A i \in DOMAIN q : q[i] # a
      <4>1. Coming(a)
        BY <2>1 DEF Schedule, Coming
      <4>2. QED
        BY <3>1, <4>1 DEF Places, PlaceOf, Queued
    <3>3. ready' = [ready EXCEPT ![Pin[a]] = Append(q, a)]
      BY <2>1 DEF Schedule, Home
    <3>4. \A w \in Workers : /\ \A i \in DOMAIN ready'[w] : Pin[ready'[w][i]] = w
                             /\ \A i, j \in DOMAIN ready'[w] : ready'[w][i] = ready'[w][j] => i = j
      <4> HIDE DEF a, q
      <4>1. /\ \A i \in DOMAIN Append(q, a) : Pin[Append(q, a)[i]] = Pin[a]
            /\ \A i, j \in DOMAIN Append(q, a) : Append(q, a)[i] = Append(q, a)[j] => i = j
        BY <3>1, <3>2, AppendEntries DEF a, q
      <4>2. QED
        BY <3>1, <3>3, <4>1 DEF WorkerType
    <3>5. QED
      BY <2>1, <3>4 DEF Schedule, worker
  <2>2. CASE WakeLook(t)
    BY <2>2 DEF WakeLook, AfterSchedule, Return, Idle, worker
  <2>3. CASE Notify(t)
    <3>1. UNCHANGED <<ready, cur>>
      BY <2>3 DEF Notify
    <3>2. \A w \in Workers : wpc'[w] \in Turn \cup {"recheck"} => wpc'[w] = wpc[w]
      BY <2>3 DEF Notify, WorkerType, Turn
    <3>3. \A u \in Threads : At(u, "schedule")' => At(u, "schedule") /\ On(u)' = On(u)
      BY <2>3 DEF Notify, AfterSchedule, Return, Idle
    <3>4. QED
      BY <3>1, <3>2, <3>3
  <2>4. QED
    BY <1>3, <2>1, <2>2, <2>3 DEF ScheduleActor
<1>4. ASSUME NEW k \in Creators, Create(k) PROVE Homes'
  <2> USE DEF TypeOK, CallType, Threads, At, On, Go, Return, Idle, worker
  <2>1. CASE ActivateAfterStart(k)
    <3>1. Starting(On(k)) /\ On(k) \in Actors
      BY <2>1 DEF ActivateAfterStart, Starting, Calls
    <3>2. ~Coming(On(k))
      BY <3>1 DEF Places, PlaceOf
    <3>3. QED
      BY <2>1, <3>2 DEF ActivateAfterStart, Coming
  <2>2. CASE DiscardUnstarted(k)
    BY <2>2 DEF DiscardUnstarted
  <2>3. QED
    BY <1>4, <2>1, <2>2 DEF Create
<1>5. ASSUME NEW w \in Workers, WorkerPop(w) PROVE Homes'
  <2> DEFINE q == ready[w]
  <2>1. q \in Seq(Actors) /\ q # <<>>
    BY <1>5 DEF WorkerPop, TypeOK, WorkerType
  <2>2. ready' = [ready EXCEPT ![w] = Tail(q)]
    BY <1>5 DEF WorkerPop
  <2>3. /\ \A i \in DOMAIN Tail(q) : Pin[Tail(q)[i]] = w
        /\ \A i, j \in DOMAIN Tail(q) : Tail(q)[i] = Tail(q)[j] => i = j
        /\ Pin[Head(q)] = w
    <3>1. /\ \A i \in DOMAIN q : Pin[q[i]] = w
          /\ \A i, j \in DOMAIN q : q[i] = q[j] => i = j
      OBVIOUS
    <3> HIDE DEF q
    <3>2. QED
      BY <2>1, <3>1, TailEntries
  <2>4. \A v \in Workers : /\ \A i \in DOMAIN ready'[v] : Pin[ready'[v][i]] = v
                           /\ \A i, j \in DOMAIN ready'[v] : ready'[v][i] = ready'[v][j] => i = j
    <3> HIDE DEF q
    <3>1. QED
      BY <2>2, <2>3 DEF TypeOK, WorkerType
  <2>5. \A v \in Workers : wpc'[v] \in Turn \cup {"recheck"} => Pin[cur'[v]] = v
    <3>1. \A v \in Workers : \/ wpc'[v] = wpc[v] /\ cur'[v] = cur[v]
                             \/ v = w /\ cur'[v] = Head(q)
      BY <1>5 DEF WorkerPop, TypeOK, WorkerType
    <3> HIDE DEF q
    <3>2. QED
      BY <2>3, <3>1
  <2>6. QED
    BY <1>5, <2>4, <2>5 DEF WorkerPop, At, On
<1>6. ASSUME NEW w \in Workers, WorkerIdle(w) \/ Park(w) \/ ParkTimeout(w) PROVE Homes'
  <2>1. UNCHANGED <<ready, cur, call>>
    BY <1>6 DEF WorkerIdle, Park, ParkFlag, ParkLock, ParkCheck, ParkEnter, ParkTimeout, Unpark
  <2>2. \A v \in Workers : wpc'[v] \in Turn \cup {"recheck"} => wpc'[v] = wpc[v]
    BY <1>6 DEF WorkerIdle, Park, ParkFlag, ParkLock, ParkCheck, ParkEnter, ParkTimeout, Unpark,
                TypeOK, WorkerType, Turn
  <2>3. QED
    BY <2>1, <2>2 DEF At, On
<1>7. ASSUME NEW w \in Workers, RunActor(w) PROVE Homes'
  <2>1. CASE TurnOver(w)
    <3> DEFINE a == cur[w]
               q == ready[w]
    <3>1. a \in Actors /\ Pin[a] = w /\ q \in Seq(Actors) /\ Running(a)
      BY <2>1 DEF TurnOver, TypeOK, WorkerType, Turn, Running
    <3>2. \A i \in DOMAIN q : q[i] # a
      BY <3>1 DEF Places, PlaceOf, Queued
    <3>3. ready' = [ready EXCEPT ![w] = Append(q, a)]
      BY <2>1 DEF TurnOver
    <3>4. \A v \in Workers : /\ \A i \in DOMAIN ready'[v] : Pin[ready'[v][i]] = v
                             /\ \A i, j \in DOMAIN ready'[v] : ready'[v][i] = ready'[v][j] => i = j
      <4>1. /\ \A i \in DOMAIN q : Pin[q[i]] = w
            /\ \A i, j \in DOMAIN q : q[i] = q[j] => i = j
        OBVIOUS
      <4> HIDE DEF a, q
      <4>2. /\ \A i \in DOMAIN Append(q, a) : Pin[Append(q, a)[i]] = w
            /\ \A i, j \in DOMAIN Append(q, a) : Append(q, a)[i] = Append(q, a)[j] => i = j
        BY <3>1, <3>2, <4>1, AppendEntries
      <4>3. QED
        BY <3>3, <4>2 DEF TypeOK, WorkerType
    <3>5. \A v \in Workers : wpc'[v] \in Turn \cup {"recheck"} => wpc'[v] = wpc[v] /\ cur'[v] = cur[v]
      BY <2>1 DEF TurnOver, Leave, TypeOK, WorkerType, Turn
    <3>6. QED
      BY <2>1, <3>4, <3>5 DEF TurnOver, At, On
  <2>2. CASE ~TurnOver(w)
    <3>1. UNCHANGED <<ready, call>>
      BY <1>7, <2>2 DEF RunActor, TurnTop, TurnHandle, TurnEmpty, TryBlock, Recheck,
                        ServiceDrain, ServiceHooks, RunHooks, ServiceClose, ServiceStopped
    <3>2. \A v \in Workers : wpc'[v] \in Turn \cup {"recheck"} =>
                                wpc[v] \in Turn \cup {"recheck"} /\ cur'[v] = cur[v]
      BY <1>7, <2>2 DEF RunActor, TurnTop, TurnHandle, TurnEmpty, TryBlock, Recheck, Leave,
                        ServiceDrain, ServiceHooks, RunHooks, ServiceClose, ServiceStopped,
                        TypeOK, WorkerType, Turn
    <3>3. QED
      BY <3>1, <3>2 DEF At, On
  <2>3. QED
    BY <2>1, <2>2
<1>8. CASE UNCHANGED vars
  BY <1>8 DEF vars, worker, At, On
<1>9. QED
  BY <1>1, <1>2, <1>3, <1>4, <1>5, <1>6, <1>7, <1>8 DEF Next, Work

\* A step that moves no actor.
LEMMA PlaceFrame ==
    ASSUME TypeOK, Places,
           UNCHANGED <<m_tag, m_state, ready, cur>>,
           \A w \in Workers : wpc'[w] = wpc[w] \/ (/\ wpc'[w] \in Turn <=> wpc[w] \in Turn
                                                   /\ "stopped" \notin {wpc[w], wpc'[w]}),
           \A t \in Threads : /\ At(t, "schedule")' <=> At(t, "schedule")
                              /\ At(t, "on_start")' <=> At(t, "on_start")
                              /\ At(t, "schedule") => On(t)' = On(t)
    PROVE  Places'
<1> SUFFICES ASSUME NEW a \in Actors PROVE PlaceOf(a)'
  BY DEF Places
<1>1. Pin[a] \in Workers
  BY PinAssumption
<1>2. /\ Queued(a)' <=> Queued(a)
      /\ Coming(a)' <=> Coming(a)
      /\ Running(a)' <=> Running(a)
      /\ Starting(a)' <=> Starting(a)
  BY <1>1 DEF Queued, Coming, Running, Starting, Threads
<1>3. Running(a) => (wpc'[Pin[a]] = "stopped" <=> wpc[Pin[a]] = "stopped")
  BY <1>1
<1>4. QED
  BY <1>1, <1>2, <1>3 DEF Places, PlaceOf

\* Every step leaves an actor in one place, or in none.
LEMMA PlaceStep ==
    ASSUME TypeOK, Calls, Homes, Places, [Next]_vars
    PROVE  Places'
<1> USE DEF TypeOK
<1>1. ASSUME NEW c \in Clients, Tell(c) PROVE Places'
  <2> c \in Threads
    BY DEF Threads
  <2>1. ASSUME NEW a \in Actors, Send(c, a) PROVE Places'
    <3>1. \A t \in Threads : /\ At(t, "schedule")' <=> At(t, "schedule")
                             /\ At(t, "on_start")' <=> At(t, "on_start")
                             /\ At(t, "schedule") => On(t)' = On(t)
      BY <2>1 DEF Send, CallType, At, On
    <3>2. QED
      BY <2>1, <3>1, PlaceFrame DEF Send, mbox, control, worker
  <2>2. CASE PushCount(c)
    <3>1. \A t \in Threads : /\ At(t, "schedule")' <=> At(t, "schedule")
                             /\ At(t, "on_start")' <=> At(t, "on_start")
                             /\ At(t, "schedule") => On(t)' = On(t)
      BY <2>2 DEF PushCount, CallType, At, On, Go
    <3>2. QED
      BY <2>2, <3>1, PlaceFrame DEF PushCount, mbox, control, worker
  <2>3. CASE PushLand(c)
    <3> DEFINE a == On(c)
    <3>1. a \in Actors /\ UNCHANGED <<m_state, ready, cur, wpc>>
      BY <2>3 DEF PushLand, Land, CallType, On, control, worker
    <3>2. CASE m_tag[a] # "blocked"
      <4>1. \A t \in Threads : /\ At(t, "schedule")' <=> At(t, "schedule")
                               /\ At(t, "on_start")' <=> At(t, "on_start")
                               /\ At(t, "schedule") => On(t)' = On(t)
        BY <2>3, <3>2 DEF PushLand, Land, CallType, At, On, Return, Idle
      <4>2. UNCHANGED m_tag
        BY <2>3, <3>2, <3>1 DEF PushLand, Land, mbox, MailType
      <4>3. QED
        BY <3>1, <4>1, <4>2, PlaceFrame
    <3>3. CASE m_tag[a] = "blocked"
      <4>1. call' = [call EXCEPT ![c] = [step |-> "schedule", on |-> a, op |-> call[c].op]]
        BY <2>3, <3>3 DEF PushLand, Land, Go
      <4>2. m_tag' = [m_tag EXCEPT ![a] = "open"]
        BY <2>3, <3>3 DEF PushLand, Land
      <4>3. At(c, "push")
        BY <2>3 DEF PushLand, Land
      <4> HIDE DEF a
      <4>4. ASSUME NEW b \in Actors
            PROVE  /\ Queued(b)' <=> Queued(b)
                   /\ Coming(b)' <=> Coming(b) \/ b = a
                   /\ Running(b)' <=> Running(b)
                   /\ Starting(b)' <=> Starting(b)
        BY <3>1, <4>1, <4>3 DEF Queued, Coming, Running, Starting, Threads, CallType, At, On
      <4>5. QED
        BY <3>1, <3>3, <4>2, <4>4 DEF Places, PlaceOf, MailType
    <3>4. QED
      BY <3>2, <3>3
  <2>4. QED
    BY <1>1, <2>1, <2>2, <2>3 DEF Tell
<1>2. ASSUME NEW c \in Clients, StopActor(c) PROVE Places'
  <2> c \in Threads
    BY DEF Threads
  <2>1. CASE ~StopUnblock(c)
    <3>1. \A t \in Threads : /\ At(t, "schedule")' <=> At(t, "schedule")
                             /\ At(t, "on_start")' <=> At(t, "on_start")
                             /\ At(t, "schedule") => On(t)' = On(t)
      BY <1>2, <2>1 DEF StopActor, StopClaim, StopIntake, StopRequest, StopReturn,
                        CallType, At, On, Go, Return, Idle
    <3>2. /\ UNCHANGED <<m_tag, ready, cur, wpc>>
          /\ \A a \in Actors : m_state'[a] = "stopped" <=> m_state[a] = "stopped"
      BY <1>2, <2>1 DEF StopActor, StopClaim, StopIntake, StopRequest, StopReturn,
                        mbox, control, worker, StateType
    <3>3. SUFFICES ASSUME NEW a \in Actors PROVE PlaceOf(a)'
      BY DEF Places
    <3>4. /\ Queued(a)' <=> Queued(a)
          /\ Coming(a)' <=> Coming(a)
          /\ Running(a)' <=> Running(a)
          /\ Starting(a)' <=> Starting(a)
      BY <3>1, <3>2 DEF Queued, Coming, Running, Starting, Threads
    <3>5. QED
      BY <3>2, <3>4 DEF Places, PlaceOf
  <2>2. CASE StopUnblock(c)
    <3> DEFINE a == On(c)
    <3>1. a \in Actors /\ UNCHANGED <<m_state, ready, cur, wpc>>
      BY <2>2 DEF StopUnblock, CallType, On, control, worker
    <3>2. CASE m_tag[a] # "blocked"
      <4>1. \A t \in Threads : /\ At(t, "schedule")' <=> At(t, "schedule")
                               /\ At(t, "on_start")' <=> At(t, "on_start")
                               /\ At(t, "schedule") => On(t)' = On(t)
        BY <2>2, <3>2 DEF StopUnblock, CallType, At, On, AfterSchedule, Go, Return, Idle
      <4>2. UNCHANGED m_tag
        BY <2>2, <3>1, <3>2 DEF StopUnblock, MailType
      <4>3. QED
        BY <3>1, <4>1, <4>2, PlaceFrame
    <3>3. CASE m_tag[a] = "blocked"
      <4>1. call' = [call EXCEPT ![c] = [step |-> "schedule", on |-> a, op |-> call[c].op]]
        BY <2>2, <3>3 DEF StopUnblock, Go
      <4>2. m_tag' = [m_tag EXCEPT ![a] = "open"]
        BY <2>2, <3>3 DEF StopUnblock
      <4>3. At(c, "unblock")
        BY <2>2 DEF StopUnblock
      <4> HIDE DEF a
      <4>4. ASSUME NEW b \in Actors
            PROVE  /\ Queued(b)' <=> Queued(b)
                   /\ Coming(b)' <=> Coming(b) \/ b = a
                   /\ Running(b)' <=> Running(b)
                   /\ Starting(b)' <=> Starting(b)
        BY <3>1, <4>1, <4>3 DEF Queued, Coming, Running, Starting, Threads, CallType, At, On
      <4>5. QED
        BY <3>1, <3>3, <4>2, <4>4 DEF Places, PlaceOf, MailType
    <3>4. QED
      BY <3>2, <3>3
  <2>3. QED
    BY <2>1, <2>2
<1>3. ASSUME NEW t \in Threads, ScheduleActor(t) PROVE Places'
  <2>1. CASE Schedule(t)
    <3> DEFINE a == On(t)
               q == ready[Pin[a]]
    <3>1. /\ a \in Actors /\ Pin[a] \in Workers /\ q \in Seq(Actors)
          /\ UNCHANGED <<m_tag, m_state, cur, wpc>>
          /\ ready' = [ready EXCEPT ![Pin[a]] = Append(q, a)]
          /\ call' = [call EXCEPT ![t] = [step |-> "wake", on |-> a, op |-> call[t].op]]
          /\ call[t].step = "schedule" /\ call[t].on = a
      BY <2>1, PinAssumption DEF Schedule, CallType, WorkerType, At, On, Go, Home, mbox, control, worker
    <3>2. ASSUME NEW b \in Actors
          PROVE  /\ Coming(b)' <=> Coming(b) /\ b # a
                 /\ Running(b)' <=> Running(b)
                 /\ Starting(b)' <=> Starting(b)
      BY <3>1 DEF Coming, Running, Starting, Threads, CallType, At, On, Homes
    <3>3. ASSUME NEW b \in Actors
          PROVE  Queued(b)' <=> Queued(b) \/ b = a
      <4> HIDE DEF a, q
      <4>1. (\E i \in DOMAIN Append(q, a) : Append(q, a)[i] = b) <=>
            (\E i \in DOMAIN q : q[i] = b) \/ b = a
        BY <3>1, AppendEntries
      <4>2. CASE Pin[b] = Pin[a]
        BY <3>1, <4>1, <4>2 DEF Queued, WorkerType, q
      <4>3. CASE Pin[b] # Pin[a]
        BY <3>1, <4>3, PinAssumption DEF Queued, WorkerType
      <4>4. QED
        BY <4>2, <4>3
    <3>4. Coming(a)
      BY <3>1 DEF Coming, At, On
    <3>5. QED
      BY <3>1, <3>2, <3>3, <3>4 DEF Places, PlaceOf
  <2>2. CASE WakeLook(t)
    <3>1. \A u \in Threads : /\ At(u, "schedule")' <=> At(u, "schedule")
                             /\ At(u, "on_start")' <=> At(u, "on_start")
                             /\ At(u, "schedule") => On(u)' = On(u)
      BY <2>2 DEF WakeLook, AfterSchedule, CallType, At, On, Go, Return, Idle
    <3>2. QED
      BY <2>2, <3>1, PlaceFrame DEF WakeLook, mbox, control, worker
  <2>3. CASE Notify(t)
    <3>1. \A u \in Threads : /\ At(u, "schedule")' <=> At(u, "schedule")
                             /\ At(u, "on_start")' <=> At(u, "on_start")
                             /\ At(u, "schedule") => On(u)' = On(u)
      BY <2>3 DEF Notify, AfterSchedule, CallType, At, On, Go, Return, Idle
    <3>2. \A w \in Workers : wpc'[w] = wpc[w] \/ (/\ wpc'[w] \in Turn <=> wpc[w] \in Turn
                                                  /\ "stopped" \notin {wpc[w], wpc'[w]})
      BY <2>3 DEF Notify, WorkerType, Turn
    <3>3. QED
      BY <2>3, <3>1, <3>2, PlaceFrame DEF Notify, mbox, control
  <2>4. QED
    BY <1>3, <2>1, <2>2, <2>3 DEF ScheduleActor
<1>4. ASSUME NEW k \in Creators, Create(k) PROVE Places'
  <2> DEFINE a == On(k)
  <2>1. /\ k \in Threads /\ a \in Actors /\ a = NewActor[k] /\ At(k, "on_start")
        /\ Starting(a)
        /\ UNCHANGED <<ready, cur, wpc>>
        /\ \A l \in Creators : NewActor[l] = a => l = k
    BY <1>4, NewActorAssumption DEF Create, ActivateAfterStart, DiscardUnstarted, Threads, CallType, Calls,
                At, On, Starting, worker
  <2>2. CASE ActivateAfterStart(k) /\ m_queue[a] = <<>>
    <3>1. /\ m_tag' = [m_tag EXCEPT ![a] = "blocked"]
          /\ call' = [call EXCEPT ![k] = Idle]
          /\ UNCHANGED m_state
      BY <2>2 DEF ActivateAfterStart, Return, control
    <3> HIDE DEF a
    <3>2. ASSUME NEW b \in Actors
          PROVE  /\ Queued(b)' <=> Queued(b)
                 /\ Coming(b)' <=> Coming(b)
                 /\ Running(b)' <=> Running(b)
                 /\ Starting(b)' <=> Starting(b) /\ b # a
      BY <2>1, <3>1 DEF Queued, Coming, Running, Starting, Threads, CallType, At, On, Idle, Calls
    <3>3. QED
      BY <2>1, <3>1, <3>2 DEF Places, PlaceOf, MailType
  <2>3. CASE ActivateAfterStart(k) /\ m_queue[a] # <<>>
    <3>1. /\ call' = [call EXCEPT ![k] = [step |-> "schedule", on |-> a, op |-> call[k].op]]
          /\ UNCHANGED <<m_tag, m_state>>
      BY <2>3 DEF ActivateAfterStart, Go, control
    <3> HIDE DEF a
    <3>2. ASSUME NEW b \in Actors
          PROVE  /\ Queued(b)' <=> Queued(b)
                 /\ Coming(b)' <=> Coming(b) \/ b = a
                 /\ Running(b)' <=> Running(b)
                 /\ Starting(b)' <=> Starting(b) /\ b # a
      BY <2>1, <3>1 DEF Queued, Coming, Running, Starting, Threads, CallType, At, On, Calls
    <3>3. QED
      BY <2>1, <3>1, <3>2 DEF Places, PlaceOf
  <2>4. CASE DiscardUnstarted(k)
    <3>1. /\ m_tag' = [m_tag EXCEPT ![a] = "closed"]
          /\ m_state' = [m_state EXCEPT ![a] = "stopped"]
          /\ call' = [call EXCEPT ![k] = Idle]
      BY <2>4 DEF DiscardUnstarted, CloseMailbox, Return
    <3> HIDE DEF a
    <3>2. ASSUME NEW b \in Actors
          PROVE  /\ Queued(b)' <=> Queued(b)
                 /\ Coming(b)' <=> Coming(b)
                 /\ Running(b)' <=> Running(b)
                 /\ Starting(b)' <=> Starting(b) /\ b # a
      BY <2>1, <3>1 DEF Queued, Coming, Running, Starting, Threads, CallType, At, On, Idle, Calls
    <3>3. QED
      BY <2>1, <3>1, <3>2 DEF Places, PlaceOf, MailType, StateType
  <2>5. QED
    BY <1>4, <2>2, <2>3, <2>4 DEF Create
<1>5. ASSUME NEW w \in Workers, WorkerPop(w) PROVE Places'
  <2> DEFINE q == ready[w]
             a == Head(q)
  <2>1. /\ q \in Seq(Actors) /\ q # <<>> /\ a \in Actors
        /\ ready' = [ready EXCEPT ![w] = Tail(q)]
        /\ wpc[w] = "pop"
        /\ UNCHANGED <<m_tag, m_state, call>>
    BY <1>5 DEF WorkerPop, WorkerType, mbox, control
  <2>2. /\ \A i \in DOMAIN q : Pin[q[i]] = w
        /\ \A i, j \in DOMAIN q : q[i] = q[j] => i = j
    BY DEF Homes
  <2>3. Pin[a] = w /\ Queued(a)
    <3>1. 1 \in DOMAIN q /\ q[1] = a
      BY <2>1
    <3>2. QED
      BY <2>2, <3>1 DEF Queued
  <2>4. IF m_state[a] = "stopped"
        THEN UNCHANGED <<wpc, cur>>
        ELSE wpc' = [wpc EXCEPT ![w] = "turn"] /\ cur' = [cur EXCEPT ![w] = a]
    BY <1>5 DEF WorkerPop
  <2>5. wpc' = [wpc EXCEPT ![w] = "turn"] /\ cur' = [cur EXCEPT ![w] = a]
    BY <2>1, <2>3, <2>4 DEF Places, PlaceOf
  <2>6. ASSUME NEW b \in Actors
        PROVE  Queued(b)' <=> Queued(b) /\ b # a
    <3>1. (\E i \in DOMAIN Tail(q) : Tail(q)[i] = b) <=> (\E i \in DOMAIN q : q[i] = b) /\ b # a
      <4> HIDE DEF q
      <4>1. QED
        BY <2>1, <2>2, TailEntries
    <3> HIDE DEF q, a
    <3>2. CASE Pin[b] = w
      BY <2>1, <3>1, <3>2 DEF Queued, WorkerType, q
    <3>3. CASE Pin[b] # w
      BY <2>1, <2>3, <3>3 DEF Queued, WorkerType
    <3>4. QED
      BY <3>2, <3>3
  <2> HIDE DEF q, a
  <2>7. ASSUME NEW b \in Actors
        PROVE  /\ Coming(b)' <=> Coming(b)
               /\ Running(b)' <=> Running(b) \/ b = a
               /\ Starting(b)' <=> Starting(b)
    BY <2>1, <2>3, <2>5, PinAssumption DEF Coming, Running, Starting, At, On, WorkerType, Turn
  <2>8. \A b \in Actors : wpc'[Pin[b]] = "stopped" <=> wpc[Pin[b]] = "stopped"
    BY <2>1, <2>5, PinAssumption DEF WorkerType
  <2>9. QED
    BY <2>1, <2>3, <2>6, <2>7, <2>8 DEF Places, PlaceOf
<1>6. ASSUME NEW w \in Workers, WorkerIdle(w) \/ Park(w) \/ ParkTimeout(w) PROVE Places'
  <2>1. UNCHANGED <<m_tag, m_state, ready, cur, call>>
    BY <1>6 DEF WorkerIdle, Park, ParkFlag, ParkLock, ParkCheck, ParkEnter, ParkTimeout, Unpark,
                mbox, control
  <2>2. \A v \in Workers : wpc'[v] = wpc[v] \/ (/\ wpc'[v] \in Turn <=> wpc[v] \in Turn
                                                /\ "stopped" \notin {wpc[v], wpc'[v]})
    BY <1>6 DEF WorkerIdle, Park, ParkFlag, ParkLock, ParkCheck, ParkEnter, ParkTimeout, Unpark,
                WorkerType, Turn
  <2>3. QED
    BY <2>1, <2>2, PlaceFrame DEF At, On
<1>7. ASSUME NEW w \in Workers, RunActor(w) PROVE Places'
  <2> DEFINE a == cur[w]
  <2>1. /\ a \in Actors /\ wpc[w] \in Turn \cup {"recheck"}
        /\ UNCHANGED call
        /\ Pin[a] = w
    BY <1>7 DEF RunActor, TurnTop, TurnOver, TurnHandle, TurnEmpty, TryBlock, Recheck, Turn,
                ServiceDrain, ServiceHooks, RunHooks, ServiceClose, ServiceStopped, WorkerType,
                Homes
  <2>2. \A b \in Actors : /\ Coming(b)' <=> Coming(b)
                          /\ Starting(b)' <=> Starting(b)
    BY <2>1 DEF Coming, Starting, At, On
  <2>3. wpc[w] \in Turn => Running(a)
    BY <2>1 DEF Running
  <2>4. CASE TurnTop(w) \/ TurnHandle(w) \/ TurnEmpty(w) \/ ServiceDrain(w) \/ ServiceHooks(w)
    <3>1. UNCHANGED <<m_tag, m_state, ready, cur>>
      BY <2>4 DEF TurnTop, TurnHandle, TurnEmpty, ServiceDrain, ServiceHooks, RunHooks, mbox, control
    <3>2. \A v \in Workers : wpc'[v] = wpc[v] \/ (/\ wpc'[v] \in Turn <=> wpc[v] \in Turn
                                                  /\ "stopped" \notin {wpc[v], wpc'[v]})
      BY <2>4 DEF TurnTop, TurnHandle, TurnEmpty, ServiceDrain, ServiceHooks, RunHooks, WorkerType, Turn
    <3>3. QED
      BY <2>1, <3>1, <3>2, PlaceFrame DEF At, On
  <2>5. CASE TurnOver(w)
    <3> DEFINE q == ready[w]
    <3>1. /\ q \in Seq(Actors) /\ wpc[w] = "budget"
          /\ ready' = [ready EXCEPT ![w] = Append(q, a)]
          /\ wpc' = [wpc EXCEPT ![w] = "pop"] /\ cur' = [cur EXCEPT ![w] = SomeActor]
          /\ UNCHANGED <<m_tag, m_state>>
      BY <2>5 DEF TurnOver, Leave, WorkerType, mbox, control
    <3>2. ASSUME NEW b \in Actors
          PROVE  Queued(b)' <=> Queued(b) \/ b = a
      <4> HIDE DEF a, q
      <4>1. (\E i \in DOMAIN Append(q, a) : Append(q, a)[i] = b) <=>
            (\E i \in DOMAIN q : q[i] = b) \/ b = a
        BY <2>1, <3>1, AppendEntries
      <4>2. CASE Pin[b] = w
        BY <3>1, <4>1, <4>2 DEF Queued, WorkerType, q
      <4>3. CASE Pin[b] # w
        BY <2>1, <3>1, <4>3, PinAssumption DEF Queued, WorkerType
      <4>4. QED
        BY <4>2, <4>3
    <3>3. ASSUME NEW b \in Actors
          PROVE  Running(b)' <=> Running(b) /\ b # a
      BY <2>1, <3>1, PinAssumption DEF Running, WorkerType, Turn
    <3>4. Running(a) /\ m_tag[a] = "open"
      BY <2>1, <2>3, <3>1 DEF Turn, Places, PlaceOf
    <3>5. \A b \in Actors : b # a /\ Running(b) => wpc'[Pin[b]] = wpc[Pin[b]]
      BY <2>1, <3>1, PinAssumption DEF Running, WorkerType
    <3> HIDE DEF a, q
    <3>6. QED
      BY <2>1, <2>2, <3>1, <3>2, <3>3, <3>4, <3>5 DEF Places, PlaceOf
  <2>6. CASE TryBlock(w)
    <3>1. CASE m_queue[a] # <<>>
      <4>1. UNCHANGED <<m_tag, m_state, ready, cur>>
        BY <2>6, <3>1 DEF TryBlock, control
      <4>2. \A v \in Workers : wpc'[v] = wpc[v] \/ (/\ wpc'[v] \in Turn <=> wpc[v] \in Turn
                                                    /\ "stopped" \notin {wpc[v], wpc'[v]})
        BY <2>6, <3>1 DEF TryBlock, WorkerType, Turn
      <4>3. QED
        BY <2>1, <4>1, <4>2, PlaceFrame DEF At, On
    <3>2. CASE m_queue[a] = <<>>
      <4>1. /\ wpc[w] = "block"
            /\ m_tag' = [m_tag EXCEPT ![a] = "blocked"]
            /\ wpc' = [wpc EXCEPT ![w] = "recheck"]
            /\ UNCHANGED <<m_state, ready, cur>>
        BY <2>6, <3>2 DEF TryBlock, control
      <4>2. Running(a) /\ m_tag[a] = "open"
        BY <2>1, <2>3, <4>1 DEF Turn, Places, PlaceOf
      <4>3. ASSUME NEW b \in Actors
            PROVE  /\ Queued(b)' <=> Queued(b)
                   /\ Running(b)' <=> Running(b) /\ b # a
                   /\ b # a /\ Running(b) => wpc'[Pin[b]] = wpc[Pin[b]]
        BY <2>1, <4>1, PinAssumption DEF Queued, Running, WorkerType, Turn
      <4> HIDE DEF a
      <4>4. QED
        BY <2>1, <2>2, <4>1, <4>2, <4>3 DEF Places, PlaceOf, MailType, StateType
    <3>3. QED
      BY <3>1, <3>2
  <2>7. CASE Recheck(w)
    <3>1. CASE m_phase[a] = "requested" /\ m_tag[a] = "blocked"
      <4>1. /\ wpc[w] = "recheck"
            /\ m_tag' = [m_tag EXCEPT ![a] = "open"]
            /\ wpc' = [wpc EXCEPT ![w] = "turn"]
            /\ UNCHANGED <<m_state, ready, cur>>
        BY <2>7, <3>1 DEF Recheck, control
      <4>2. ASSUME NEW b \in Actors
            PROVE  /\ Queued(b)' <=> Queued(b)
                   /\ Running(b)' <=> Running(b) \/ b = a
                   /\ Running(b) => wpc'[Pin[b]] = wpc[Pin[b]]
        BY <2>1, <4>1, PinAssumption DEF Queued, Running, WorkerType, Turn
      <4>3. wpc'[Pin[a]] = "turn"
        BY <2>1, <4>1 DEF WorkerType
      <4> HIDE DEF a
      <4>4. QED
        BY <2>1, <2>2, <3>1, <4>1, <4>2, <4>3 DEF Places, PlaceOf, MailType, StateType
    <3>2. CASE ~(m_phase[a] = "requested" /\ m_tag[a] = "blocked")
      <4>1. /\ wpc[w] = "recheck"
            /\ UNCHANGED <<m_state, ready>>
            /\ wpc' = [wpc EXCEPT ![w] = "pop"] /\ cur' = [cur EXCEPT ![w] = SomeActor]
        BY <2>7, <3>2 DEF Recheck, Leave, control
      <4>2. UNCHANGED m_tag
        BY <2>1, <2>7, <3>2 DEF Recheck, MailType
      <4>3. ASSUME NEW b \in Actors
            PROVE  /\ Queued(b)' <=> Queued(b)
                   /\ Running(b)' <=> Running(b)
                   /\ Running(b) => wpc'[Pin[b]] = wpc[Pin[b]]
        BY <4>1, PinAssumption DEF Queued, Running, WorkerType, Turn
      <4>4. QED
        BY <2>2, <4>1, <4>2, <4>3 DEF Places, PlaceOf
    <3>3. QED
      BY <3>1, <3>2
  <2>8. CASE ServiceClose(w)
    <3>1. /\ wpc[w] = "close"
          /\ m_tag' = [m_tag EXCEPT ![a] = "closed"]
          /\ wpc' = [wpc EXCEPT ![w] = "stopped"]
          /\ UNCHANGED <<m_state, ready, cur>>
      BY <2>8 DEF ServiceClose, CloseMailbox, control
    <3>2. ASSUME NEW b \in Actors
          PROVE  /\ Queued(b)' <=> Queued(b)
                 /\ Running(b)' <=> Running(b)
                 /\ b # a /\ Running(b) => wpc'[Pin[b]] = wpc[Pin[b]]
      BY <2>1, <3>1, PinAssumption DEF Queued, Running, WorkerType, Turn
    <3>3. Running(a) /\ wpc'[Pin[a]] = "stopped"
      BY <2>1, <2>3, <3>1 DEF WorkerType, Turn
    <3> HIDE DEF a
    <3>4. QED
      BY <2>1, <2>2, <3>1, <3>2, <3>3 DEF Places, PlaceOf, MailType, StateType
  <2>9. CASE ServiceStopped(w)
    <3>1. /\ wpc[w] = "stopped"
          /\ m_state' = [m_state EXCEPT ![a] = "stopped"]
          /\ wpc' = [wpc EXCEPT ![w] = "pop"] /\ cur' = [cur EXCEPT ![w] = SomeActor]
          /\ UNCHANGED <<m_tag, ready>>
      BY <2>9 DEF ServiceStopped, Leave, mbox
    <3>2. ASSUME NEW b \in Actors
          PROVE  /\ Queued(b)' <=> Queued(b)
                 /\ Running(b)' <=> Running(b) /\ b # a
                 /\ b # a /\ Running(b) => wpc'[Pin[b]] = wpc[Pin[b]]
      BY <2>1, <3>1, PinAssumption DEF Queued, Running, WorkerType, Turn
    <3>3. Running(a) /\ m_tag[a] = "closed"
      BY <2>1, <2>3, <3>1 DEF Turn, Places, PlaceOf
    <3> HIDE DEF a
    <3>4. QED
      BY <2>1, <2>2, <3>1, <3>2, <3>3 DEF Places, PlaceOf, StateType
  <2>10. QED
    BY <1>7, <2>4, <2>5, <2>6, <2>7, <2>8, <2>9 DEF RunActor
<1>8. CASE UNCHANGED vars
  BY <1>8, PlaceFrame DEF vars, mbox, control, worker, At, On
<1>9. QED
  BY <1>1, <1>2, <1>3, <1>4, <1>5, <1>6, <1>7, <1>8 DEF Next, Work

-----------------------------------------------------------------------------
\* The ready queues start with every busy actor once.
LEMMA SetToSeqEntries ==
    ASSUME NEW S, IsFiniteSet(S)
    PROVE  /\ SetToSeq(S) \in Seq(S)
           /\ \A i, j \in DOMAIN SetToSeq(S) : SetToSeq(S)[i] = SetToSeq(S)[j] => i = j
           /\ \A x \in S : \E i \in DOMAIN SetToSeq(S) : SetToSeq(S)[i] = x
<1> DEFINE D == 1..Cardinality(S)
           q == SetToSeq(S)
<1>1. Cardinality(S) \in Nat /\ ExistsBijection(D, S)
  BY FS_CardinalityType
<1>2. \E f \in [D -> S] : IsInjective(f)
  BY <1>1 DEF ExistsBijection, Bijection, Injection
<1>3. q \in [D -> S] /\ IsInjective(q)
  BY <1>2 DEF SetToSeq
<1>4. q \in Injection(D, S) /\ Cardinality(D) = Cardinality(S)
  <2>1. Cardinality(D) = Cardinality(S)
    BY <1>1, FS_Interval
  <2>2. QED
    BY <1>3, <2>1 DEF Injection
<1>5. q \in Surjection(D, S)
  BY <1>4, FS_Injection
<1>6. q \in Seq(S)
  BY <1>1, <1>3
<1>7. QED
  BY <1>3, <1>5, <1>6 DEF Surjection, IsInjective

\* The system as it runs: idle actors, busy ones on their queues, new ones with
\* their creators.
LEMMA PlaceInit == Init => PlaceInv
<1> SUFFICES ASSUME Init PROVE PlaceInv
  OBVIOUS
<1> DEFINE new == {NewActor[k] : k \in Creators}
           mine(w) == {a \in Busy : Pin[a] = w}
<1>1. \A w \in Workers : /\ IsFiniteSet(mine(w))
                         /\ mine(w) \subseteq Actors
  BY ActorAssumption, FS_Subset
<1>2. \A w \in Workers : ready[w] = SetToSeq(mine(w))
  BY DEF Init
<1> HIDE DEF mine
<1>3. ASSUME NEW w \in Workers
      PROVE  /\ ready[w] \in Seq(mine(w))
             /\ \A i, j \in DOMAIN ready[w] : ready[w][i] = ready[w][j] => i = j
             /\ \A x \in mine(w) : \E i \in DOMAIN ready[w] : ready[w][i] = x
  BY <1>1, <1>2, SetToSeqEntries
<1>4. ASSUME NEW w \in Workers
      PROVE  /\ ready[w] \in Seq(Actors)
             /\ \A i \in DOMAIN ready[w] : ready[w][i] \in mine(w)
  BY <1>1, <1>3
<1>5. MailType /\ StateType /\ HistType
  <2>1. <<>> \in Seq(Message) /\ <<>> \in Seq(Message \cup {Echo}) /\ <<Echo>> \in Seq(Message \cup {Echo})
    OBVIOUS
  <2>2. QED
    BY <2>1 DEF Init, MailType, StateType, HistType
<1>6. WorkerType
  <2>1. ready \in [Workers -> Seq(Actors)]
    BY <1>4 DEF Init
  <2>2. QED
    BY <2>1, SomeActorType, BoundAssumption DEF Init, WorkerType
<1>7. CallType /\ Calls
  <2>1. \A t \in Threads : call[t] = IF t \in Creators
                                     THEN [step |-> "on_start", on |-> NewActor[t], op |-> "create"]
                                     ELSE Idle
    BY DEF Init
  <2>2. CallType
    BY SomeActorType, BoundAssumption, NewActorAssumption DEF Init, CallType, Idle
  <2>3. Calls
    <3>1. ASSUME NEW c \in Clients PROVE call[c].step = "ready" /\ call[c].op = "none"
      <4>1. c \in Threads /\ c \notin Creators
        BY ThreadAssumption DEF Threads
      <4>2. call[c] = Idle
        BY <2>1, <4>1
      <4>3. QED
        BY <4>2 DEF Idle
    <3>2. ASSUME NEW k \in Creators
          PROVE  call[k].step = "on_start" /\ call[k].op = "create" /\ call[k].on = NewActor[k]
      <4>1. call[k] = [step |-> "on_start", on |-> NewActor[k], op |-> "create"]
        BY <2>1 DEF Threads
      <4>2. QED
        BY <4>1
    <3>3. QED
      BY <3>1, <3>2 DEF Calls, Threads, At, On
  <2>4. QED
    BY <2>2, <2>3
<1>8. Homes
  <2>1. \A w \in Workers : \A i \in DOMAIN ready[w] : Pin[ready[w][i]] = w
    BY <1>4 DEF mine
  <2>2. \A t \in Threads : call[t].step # "schedule"
    BY DEF Init, Idle
  <2>3. \A w \in Workers : wpc[w] = "pop"
    BY DEF Init
  <2>4. QED
    BY <1>3, <2>1, <2>2, <2>3 DEF Homes, At, Turn
<1>9. Places
  <2> SUFFICES ASSUME NEW a \in Actors PROVE PlaceOf(a)
    BY DEF Places
  <2>1. Queued(a) <=> a \in Busy
    <3>1. Pin[a] \in Workers /\ (a \in mine(Pin[a]) <=> a \in Busy)
      BY PinAssumption DEF mine
    <3>2. QED
      BY <1>3, <1>4, <3>1 DEF Queued
  <2>2. ~Coming(a) /\ ~Running(a)
    BY PinAssumption DEF Init, Coming, Running, At, Idle, Turn
  <2>3. Starting(a) <=> a \in new
    BY DEF Init, Starting, At, Threads
  <2>4. m_tag[a] = (IF a \in new \cup Busy THEN "open" ELSE "blocked") /\ m_state[a] = "running"
    BY DEF Init
  <2>5. QED
    BY <2>1, <2>2, <2>3, <2>4, NewActorAssumption DEF PlaceOf
<1>10. QED
  BY <1>5, <1>6, <1>7, <1>8, <1>9 DEF PlaceInv, TypeOK

\* The inductive invariant holds throughout.
LEMMA PlaceInvariant == Spec => []PlaceInv
<1>1. PlaceInv /\ [Next]_vars => PlaceInv'
  <2> SUFFICES ASSUME PlaceInv, [Next]_vars PROVE PlaceInv'
    OBVIOUS
  <2>1. CallType' /\ Calls'
    BY CallStep DEF PlaceInv, TypeOK
  <2>2. MailType' /\ StateType' /\ HistType' /\ WorkerType'
    BY MailStep, WorkerStep DEF PlaceInv
  <2>3. Homes' /\ Places'
    BY HomeStep, PlaceStep DEF PlaceInv
  <2>4. QED
    BY <2>1, <2>2, <2>3 DEF PlaceInv, TypeOK
<1>2. QED
  BY <1>1, PlaceInit, PTL DEF Spec

\* Type correctness, for any number of actors, workers, clients and creators.
THEOREM TypeCorrect == Spec => []TypeOK
<1>1. PlaceInv => TypeOK
  BY DEF PlaceInv
<1>2. QED
  BY <1>1, PlaceInvariant, PTL

\* A set with one element, and none.
LEMMA One == ASSUME NEW x PROVE Cardinality({x}) = 1
BY FS_Singleton

\* INVARIANT 1: an open mailbox means that its actor is in exactly one place, a
\* blocked or closed one that it is in none.
THEOREM InOnePlace == Spec => []OnePlace
<1>1. PlaceInv => OnePlace
  <2> SUFFICES ASSUME PlaceInv, NEW a \in Actors
      PROVE  /\ \A w \in Workers : a \in ToSet(ready[w]) \/ w \in RunBy(a) => w = Pin[a]
             /\ LET places == Entries(a) + Cardinality(RunBy(a)) + (IF Starting(a) THEN 1 ELSE 0)
                IN  /\ m_tag[a] = "open" => places = 1
                    /\ m_tag[a] = "blocked" => places = 0
                    /\ m_tag[a] = "closed" =>
                          places = Cardinality({w \in RunBy(a) : wpc[w] = "stopped"})
    BY DEF OnePlace
  <2> DEFINE q == ready[Pin[a]]
             I == {i \in 1..Len(q) : q[i] = a}
             T == {t \in Threads : At(t, "schedule") /\ On(t) = a}
  <2>1. /\ Pin[a] \in Workers /\ q \in Seq(Actors) /\ DOMAIN q = 1..Len(q)
        /\ PlaceOf(a) /\ m_tag[a] \in {"open", "blocked", "closed"}
    BY PinAssumption DEF PlaceInv, TypeOK, WorkerType, MailType, Places
  <2>2. \A w \in Workers : a \in ToSet(ready[w]) \/ w \in RunBy(a) => w = Pin[a]
    BY DEF PlaceInv, Homes, ToSet, RunBy
  <2>3. Cardinality(I) = IF Queued(a) THEN 1 ELSE 0
    <3>1. CASE Queued(a)
      <4>1. PICK i \in 1..Len(q) : q[i] = a
        BY <2>1, <3>1 DEF Queued
      <4>2. \A j \in 1..Len(q) : q[j] = a => j = i
        BY <2>1, <4>1 DEF PlaceInv, Homes
      <4>3. I = {i}
        BY <4>1, <4>2
      <4>4. QED
        BY <3>1, <4>3, One
    <3>2. CASE ~Queued(a)
      <4>1. I = {}
        BY <2>1, <3>2 DEF Queued
      <4>2. QED
        BY <3>2, <4>1, FS_EmptySet
    <3>3. QED
      BY <3>1, <3>2
  <2>4. Cardinality(T) = IF Coming(a) THEN 1 ELSE 0
    <3>1. CASE Coming(a)
      <4>1. PICK t \in Threads : At(t, "schedule") /\ On(t) = a
        BY <3>1 DEF Coming
      <4>2. T = {t}
        BY <4>1 DEF PlaceInv, Homes
      <4>3. QED
        BY <3>1, <4>2, One
    <3>2. CASE ~Coming(a)
      <4>1. T = {}
        BY <3>2 DEF Coming
      <4>2. QED
        BY <3>2, <4>1, FS_EmptySet
    <3>3. QED
      BY <3>1, <3>2
  <2>5. RunBy(a) = IF Running(a) THEN {Pin[a]} ELSE {}
    BY <2>1, <2>2 DEF RunBy, Running
  <2>6. Cardinality(RunBy(a)) = IF Running(a) THEN 1 ELSE 0
    BY <2>5, One, FS_EmptySet
  <2>7. m_tag[a] = "closed" => {w \in RunBy(a) : wpc[w] = "stopped"} = RunBy(a)
    BY <2>1, <2>5 DEF PlaceOf
  <2>8. Entries(a) = Cardinality(I) + Cardinality(T)
    BY DEF Entries
  <2> DEFINE n == Entries(a) + Cardinality(RunBy(a)) + (IF Starting(a) THEN 1 ELSE 0)
  <2>9. n = (IF Queued(a) THEN 1 ELSE 0) + (IF Coming(a) THEN 1 ELSE 0)
            + (IF Running(a) THEN 1 ELSE 0) + (IF Starting(a) THEN 1 ELSE 0)
    BY <2>3, <2>4, <2>6, <2>8
  <2>10. m_tag[a] = "open" => n = 1
    BY <2>1, <2>9 DEF PlaceOf
  <2>11. m_tag[a] = "blocked" => n = 0
    BY <2>1, <2>9 DEF PlaceOf
  <2>12. m_tag[a] = "closed" => n = Cardinality({w \in RunBy(a) : wpc[w] = "stopped"})
    <3>1. m_tag[a] = "closed" => n = Cardinality(RunBy(a))
      BY <2>1, <2>6, <2>9 DEF PlaceOf
    <3>2. QED
      BY <2>7, <3>1
  <2>13. QED
    BY <2>2, <2>10, <2>11, <2>12
<1>2. QED
  BY <1>1, PlaceInvariant, PTL

-----------------------------------------------------------------------------
\* The inductive part of the parking handshake: the flag is set when it says so.
LEMMA FlagStep ==
    ASSUME TypeOK, Flags, [Next]_vars
    PROVE  Flags'
<1> USE DEF TypeOK, WorkerType, Flags, worker
<1>1. ASSUME NEW c \in Clients, Tell(c) \/ StopActor(c) PROVE Flags'
  BY <1>1 DEF Tell, Send, PushCount, PushLand, Land, StopActor, StopClaim, StopIntake,
              StopRequest, StopUnblock, StopReturn
<1>2. ASSUME NEW t \in Threads, ScheduleActor(t) PROVE Flags'
  BY <1>2 DEF ScheduleActor, Schedule, WakeLook, Notify
<1>3. ASSUME NEW k \in Creators, Create(k) PROVE Flags'
  BY <1>3 DEF Create, ActivateAfterStart, DiscardUnstarted
<1>4. ASSUME NEW w \in Workers, WorkerPop(w) \/ WorkerIdle(w) \/ Park(w) \/ ParkTimeout(w)
      PROVE  Flags'
  BY <1>4 DEF WorkerPop, WorkerIdle, Park, ParkFlag, ParkLock, ParkCheck, ParkEnter,
              ParkTimeout, Unpark
<1>5. ASSUME NEW w \in Workers, RunActor(w) PROVE Flags'
  BY <1>5 DEF RunActor, TurnTop, TurnOver, TurnHandle, TurnEmpty, TryBlock, Recheck, Leave,
              ServiceDrain, ServiceHooks, RunHooks, ServiceClose, ServiceStopped
<1>6. CASE UNCHANGED vars
  BY <1>6 DEF vars
<1>7. QED
  BY <1>1, <1>2, <1>3, <1>4, <1>5, <1>6 DEF Next, Work

\* The thread that is on its way to wake a worker which waits with work.
Waker(w) == \E t \in Threads : call[t].step \in {"wake", "notify"} /\ Home(t) = w
Waits(w) == wpc[w] \in {"enter", "waiting"}

\* A step that wakes no worker, and after which no worker waits that did not
\* before, or has work that it had not.
LEMMA WakeFrame ==
    ASSUME NoLostWakeup,
           \A t \in Threads : call[t].step \in {"wake", "notify"} =>
                                 call'[t].step \in {"wake", "notify"} /\ call'[t].on = call[t].on,
           \A w \in Workers : Waits(w)' /\ ready'[w] # <<>> => Waits(w) /\ ready[w] # <<>>
    PROVE  NoLostWakeup'
BY DEF NoLostWakeup, Waits, Home, On

\* Every step keeps a thread on the way to a worker that waits with work.
LEMMA WakeStep ==
    ASSUME TypeOK, Flags, NoLostWakeup, [Next]_vars
    PROVE  NoLostWakeup'
<1> USE DEF TypeOK
<1>1. ASSUME NEW c \in Clients, Tell(c) \/ StopActor(c) PROVE NoLostWakeup'
  <2>1. UNCHANGED <<ready, wpc>>
    BY <1>1 DEF Tell, Send, PushCount, PushLand, Land, StopActor, StopClaim, StopIntake,
                StopRequest, StopUnblock, StopReturn, worker
  <2>2. /\ call[c].step \notin {"wake", "notify"}
        /\ \A t \in Threads : t # c => call'[t] = call[t]
    BY <1>1 DEF Tell, Send, PushCount, PushLand, Land, StopActor, StopClaim, StopIntake,
                StopRequest, StopUnblock, StopReturn, AfterSchedule, Go, Return, At, CallType, Threads
  <2>3. QED
    BY <2>1, <2>2, WakeFrame DEF Waits
<1>2. ASSUME NEW t \in Threads, Schedule(t) PROVE NoLostWakeup'
  <2>0. PICK h \in Workers : h = Pin[On(t)]
    BY PinAssumption DEF On, CallType
  <2>1. /\ UNCHANGED wpc
        /\ call' = [call EXCEPT ![t] = [step |-> "wake", on |-> On(t), op |-> call[t].op]]
        /\ \A w \in Workers : w # h => ready'[w] = ready[w]
        /\ call[t].step = "schedule"
    BY <1>2, <2>0 DEF Schedule, At, On, Go, Home, CallType, WorkerType, worker
  <2>2. Waker(h)'
    BY <2>0, <2>1 DEF Waker, Home, On, CallType
  <2>3. \A w \in Workers : Waker(w) => Waker(w)'
    BY <2>1 DEF Waker, Home, On, CallType
  <2>4. QED
    BY <2>1, <2>2, <2>3 DEF NoLostWakeup, Waker
<1>3. ASSUME NEW t \in Threads, WakeLook(t) PROVE NoLostWakeup'
  <2>1. UNCHANGED <<ready, wpc>> /\ On(t) \in Actors
    BY <1>3 DEF WakeLook, worker, On, CallType
  <2>2. CASE Home(t) \in sleeping
    <3>1. call' = [call EXCEPT ![t] = [step |-> "notify", on |-> On(t), op |-> call[t].op]]
      BY <1>3, <2>2 DEF WakeLook, Go
    <3>2. QED
      BY <2>1, <3>1, WakeFrame DEF Waits, On, CallType
  <2>3. CASE Home(t) \notin sleeping
    <3>1. \A u \in Threads : u # t => call'[u] = call[u]
      BY <1>3, <2>3 DEF WakeLook, AfterSchedule, Go, Return, CallType
    <3>2. \A w \in Workers : Waits(w) => w # Home(t)
      BY <2>3 DEF Waits, Flags
    <3>3. QED
      BY <2>1, <3>1, <3>2 DEF NoLostWakeup, Waits, Home, On
  <2>4. QED
    BY <2>2, <2>3
<1>4. ASSUME NEW t \in Threads, Notify(t) PROVE NoLostWakeup'
  <2>1. /\ UNCHANGED ready
        /\ \A u \in Threads : u # t => call'[u] = call[u]
    BY <1>4 DEF Notify, AfterSchedule, Go, Return, CallType
  <2>2. \A w \in Workers : Waits(w)' => Waits(w) /\ w # Home(t)
    BY <1>4 DEF Notify, Locked, Waits, WorkerType
  <2>3. QED
    BY <2>1, <2>2 DEF NoLostWakeup, Waits, Home, On
<1>5. ASSUME NEW k \in Creators, Create(k) PROVE NoLostWakeup'
  <2>1. /\ UNCHANGED <<ready, wpc>>
        /\ call[k].step = "on_start"
        /\ \A t \in Threads : t # k => call'[t] = call[t]
    BY <1>5 DEF Create, ActivateAfterStart, DiscardUnstarted, At, Go, Return, CallType, worker
  <2>2. QED
    BY <2>1, WakeFrame DEF Waits
<1>6. ASSUME NEW w \in Workers, WorkerPop(w) \/ WorkerIdle(w) \/ Park(w) \/ ParkTimeout(w)
      PROVE  NoLostWakeup'
  <2>1. UNCHANGED call
    BY <1>6 DEF WorkerPop, WorkerIdle, Park, ParkFlag, ParkLock, ParkCheck, ParkEnter,
                ParkTimeout, Unpark
  <2>2. \A v \in Workers : Waits(v)' /\ ready'[v] # <<>> => Waits(v) /\ ready[v] # <<>>
    <3>1. \A v \in Workers : v # w => wpc'[v] = wpc[v] /\ ready'[v] = ready[v]
      BY <1>6 DEF WorkerPop, WorkerIdle, Park, ParkFlag, ParkLock, ParkCheck, ParkEnter,
                  ParkTimeout, Unpark, WorkerType
    <3>2. Waits(w)' /\ ready'[w] # <<>> => Waits(w) /\ ready[w] # <<>>
      BY <1>6 DEF WorkerPop, WorkerIdle, Park, ParkFlag, ParkLock, ParkCheck, ParkEnter,
                  ParkTimeout, Unpark, WorkerType, Waits
    <3>3. QED
      BY <3>1, <3>2 DEF Waits
  <2>3. QED
    BY <2>1, <2>2, WakeFrame
<1>7. ASSUME NEW w \in Workers, RunActor(w) PROVE NoLostWakeup'
  <2>1. UNCHANGED call
    BY <1>7 DEF RunActor, TurnTop, TurnOver, TurnHandle, TurnEmpty, TryBlock, Recheck,
                ServiceDrain, ServiceHooks, RunHooks, ServiceClose, ServiceStopped
  <2>2. \A v \in Workers : Waits(v)' => v # w
    BY <1>7 DEF RunActor, TurnTop, TurnOver, TurnHandle, TurnEmpty, TryBlock, Recheck, Leave,
                ServiceDrain, ServiceHooks, RunHooks, ServiceClose, ServiceStopped, Waits, WorkerType
  <2>3. \A v \in Workers : v # w => wpc'[v] = wpc[v] /\ ready'[v] = ready[v]
    BY <1>7 DEF RunActor, TurnTop, TurnOver, TurnHandle, TurnEmpty, TryBlock, Recheck, Leave,
                ServiceDrain, ServiceHooks, RunHooks, ServiceClose, ServiceStopped, WorkerType
  <2>4. QED
    BY <2>1, <2>2, <2>3, WakeFrame DEF Waits
<1>8. CASE UNCHANGED vars
  BY <1>8, WakeFrame DEF vars, worker, Waits
<1>9. QED
  BY <1>1, <1>2, <1>3, <1>4, <1>5, <1>6, <1>7, <1>8 DEF Next, Work, ScheduleActor

\* No wake-up is lost between a thread that schedules and a worker that parks,
\* however many of each there are: the backstop timer is never needed.
THEOREM WakeupKept == Spec => []NoLostWakeup
<1>1. Init => Flags /\ NoLostWakeup
  BY DEF Init, Flags, NoLostWakeup
<1>2. TypeOK /\ Flags /\ NoLostWakeup /\ [Next]_vars => Flags' /\ NoLostWakeup'
  BY FlagStep, WakeStep
<1>3. QED
  BY <1>1, <1>2, TypeCorrect, PTL DEF Spec

-----------------------------------------------------------------------------
(* Where the messages are *)

\* A message is somewhere in a family of queues, and at one place of it at most.
In(f, m)   == \E a \in Actors : \E i \in DOMAIN f[a] : f[a][i] = m
Once(f, m) == \A a, b \in Actors : \A i \in DOMAIN f[a], j \in DOMAIN f[b] :
                  f[a][i] = m /\ f[b][j] = m => a = b /\ i = j

Flying(m) == call[m.from].step \in {"count", "push"} /\ m.seq = sent[m.from]

\* The message is with its sender, in a mailbox, handled or a dead letter exactly
\* when it was sent, and in one of these places only.
AccountOf(m) ==
    /\ Once(m_queue, m) /\ Once(done, m)
    /\ Flying(m) => ~In(m_queue, m) /\ ~In(done, m) /\ m \notin dead
    /\ In(m_queue, m) => ~In(done, m) /\ m \notin dead
    /\ In(done, m) => m \notin dead
    /\ m.seq <= sent[m.from] <=> Flying(m) \/ In(m_queue, m) \/ In(done, m) \/ m \in dead

Accounts == \A m \in Message : AccountOf(m)

\* The stop hooks ran only if the stop is past them.
Closing(a) == cur[Pin[a]] = a /\ wpc[Pin[a]] \in {"close", "stopped"}
StopOf(a)  == stops[a] <= 1 /\ (stops[a] = 1 => m_tag[a] = "closed" \/ Closing(a))

StoppedOnce == \A a \in Actors : StopOf(a)

Put(f, a, x) == [f EXCEPT ![a] = Append(f[a], x)]

\* Append puts a message into the family, Tail takes one out, and so on.
LEMMA PutOne ==
    ASSUME NEW S, NEW f \in [Actors -> Seq(S)], NEW a \in Actors, NEW x \in S,
           NEW m
    PROVE  /\ In(Put(f, a, x), m) <=> In(f, m) \/ m = x
           /\ Once(f, m) /\ (m = x => ~In(f, m)) => Once(Put(f, a, x), m)
<1> DEFINE q == f[a]
           g == Put(f, a, x)
<1>1. /\ q \in Seq(S)
      /\ \A b \in Actors : g[b] = IF b = a THEN Append(q, x) ELSE f[b]
  BY DEF Put
<1> HIDE DEF q, g
<1>2. /\ DOMAIN Append(q, x) = DOMAIN q \cup {Len(q) + 1}
      /\ Len(q) + 1 \notin DOMAIN q
      /\ \A i \in DOMAIN q : Append(q, x)[i] = q[i]
      /\ Append(q, x)[Len(q) + 1] = x
  BY <1>1, AppendEntries
<1>3. /\ DOMAIN g[a] = DOMAIN q \cup {Len(q) + 1}
      /\ \A i \in DOMAIN q : g[a][i] = f[a][i]
      /\ g[a][Len(q) + 1] = x
      /\ \A b \in Actors : b # a => g[b] = f[b]
      /\ DOMAIN f[a] = DOMAIN q
  BY <1>1, <1>2 DEF q
<1>4. /\ In(g, m) <=> In(f, m) \/ m = x
      /\ Once(f, m) /\ (m = x => ~In(f, m)) => Once(g, m)
  BY <1>2, <1>3 DEF In, Once
<1>5. QED
  BY <1>4 DEF g

\* A pop takes one message out of the family.
LEMMA TakeOne ==
    ASSUME NEW S, NEW f \in [Actors -> Seq(S)], NEW a \in Actors, f[a] # <<>>,
           NEW g, g = [f EXCEPT ![a] = Tail(f[a])], NEW m, Once(f, m)
    PROVE  /\ In(g, m) <=> In(f, m) /\ m # Head(f[a])
           /\ Once(g, m)
           /\ m = Head(f[a]) => In(f, m)
<1> DEFINE q == f[a]
<1>1. /\ q \in Seq(S) /\ q # <<>>
      /\ \A b \in Actors : g[b] = IF b = a THEN Tail(q) ELSE f[b]
  OBVIOUS
<1> HIDE DEF q
<1>2. /\ 1 \in DOMAIN q /\ q[1] = Head(q)
      /\ \A i \in DOMAIN Tail(q) : i + 1 \in DOMAIN q /\ Tail(q)[i] = q[i + 1]
      /\ \A i \in DOMAIN q : i # 1 => i - 1 \in DOMAIN Tail(q)
      /\ DOMAIN Tail(q) \subseteq Nat \ {0} /\ DOMAIN q \subseteq Nat \ {0}
  BY <1>1, TailEntries
<1>3. /\ 1 \in DOMAIN f[a] /\ f[a][1] = Head(q)
      /\ \A i \in DOMAIN g[a] : i + 1 \in DOMAIN f[a] /\ g[a][i] = f[a][i + 1]
      /\ \A i \in DOMAIN f[a] : i # 1 => i - 1 \in DOMAIN g[a] /\ g[a][i - 1] = f[a][i]
      /\ DOMAIN g[a] \subseteq Nat \ {0} /\ DOMAIN f[a] \subseteq Nat \ {0}
      /\ \A b \in Actors : b # a => g[b] = f[b]
  BY <1>1, <1>2 DEF q
<1>4. m = Head(q) => In(f, m)
  BY <1>3 DEF In
<1>5. Once(g, m)
  BY <1>3 DEF Once
<1>6. In(g, m) => In(f, m) /\ m # Head(q)
  BY <1>3 DEF In, Once
<1>7. ASSUME In(f, m), m # Head(q) PROVE In(g, m)
  <2>1. PICK b \in Actors : \E i \in DOMAIN f[b] : f[b][i] = m
    BY <1>7 DEF In
  <2>2. PICK i \in DOMAIN f[b] : f[b][i] = m
    BY <2>1
  <2>3. CASE b # a
    BY <1>3, <2>2, <2>3 DEF In
  <2>4. CASE b = a
    BY <1>3, <1>7, <2>2, <2>4 DEF In
  <2>5. QED
    BY <2>3, <2>4
<1>8. QED
  BY <1>4, <1>5, <1>6, <1>7 DEF q

\* A close takes all messages of one actor out of it.
LEMMA TakeAll ==
    ASSUME NEW S, NEW f \in [Actors -> Seq(S)], NEW a \in Actors,
           NEW g, g = [f EXCEPT ![a] = <<>>], NEW m, Once(f, m)
    PROVE  /\ In(g, m) <=> In(f, m) /\ m \notin ToSet(f[a])
           /\ Once(g, m)
           /\ m \in ToSet(f[a]) => In(f, m)
<1>1. /\ \A i : i \notin DOMAIN g[a]
      /\ \A b \in Actors : b # a => g[b] = f[b]
  <2>1. \A i : i \notin DOMAIN << >>
    OBVIOUS
  <2>2. g[a] = << >>
    OBVIOUS
  <2>3. QED
    BY <2>1, <2>2
<1>2. QED
  BY <1>1 DEF In, Once, ToSet

\* The next state's queues.
LEMMA Primed ==
    ASSUME NEW m
    PROVE  /\ In(m_queue, m)' <=> In(m_queue', m)
           /\ In(done, m)' <=> In(done', m)
           /\ Once(m_queue, m)' <=> Once(m_queue', m)
           /\ Once(done, m)' <=> Once(done', m)
BY DEF In, Once

\* A step of a call that neither begins nor ends a tell().
LEMMA AccountFrame ==
    ASSUME Accounts,
           UNCHANGED <<m_queue, done, sent>>,
           dead' = dead,
           \A c \in Clients : call'[c].step \in {"count", "push"} <=> call[c].step \in {"count", "push"}
    PROVE  Accounts'
<1> SUFFICES ASSUME NEW m \in Message PROVE AccountOf(m)'
  BY DEF Accounts
<1>1. Flying(m)' <=> Flying(m)
  BY DEF Flying, Message
<1>2. QED
  BY <1>1 DEF Accounts, AccountOf

\* Every step leaves each message in one place.
LEMMA AccountStep ==
    ASSUME TypeOK, Calls, Accounts, [Next]_vars
    PROVE  Accounts'
<1> USE DEF TypeOK
<1> Echo \notin Message
  BY DEF Echo, Message
<1>1. ASSUME NEW c \in Clients, Tell(c) PROVE Accounts'
  <2> c \in Threads
    BY DEF Threads
  <2>1. ASSUME NEW a \in Actors, Send(c, a) PROVE Accounts'
    <3> SUFFICES ASSUME NEW m \in Message PROVE AccountOf(m)'
      BY DEF Accounts
    <3> DEFINE x == [from |-> c, seq |-> sent[c] + 1]
    <3>1. /\ UNCHANGED <<m_queue, done>>
          /\ sent' = [sent EXCEPT ![c] = @ + 1]
          /\ call[c].step = "ready"
          /\ \A d \in Clients : d # c => call'[d] = call[d]
          /\ \/ call'[c].step = "count" /\ dead' = dead
             \/ call'[c].step = "ready" /\ dead' = dead \cup {x}
      BY <2>1 DEF Send, mbox, Msg, At, CallType, Threads
    <3>2. /\ m = x => ~In(m_queue, m) /\ ~In(done, m) /\ m \notin dead /\ m.seq > sent[m.from]
          /\ ~Flying(x)
      BY <3>1, BoundAssumption DEF Accounts, AccountOf, CallType, Flying, Message
    <3>3. m \in dead' <=> m \in dead \/ (m = x /\ call'[c].step = "ready")
      BY <3>1
    <3>4. Flying(m)' <=> Flying(m) \/ (m = x /\ call'[c].step = "count")
      BY <3>1, BoundAssumption DEF Flying, Message, CallType
    <3>5. m.seq <= sent'[m.from] <=> m.seq <= sent[m.from] \/ m = x
      BY <3>1, BoundAssumption DEF Message, CallType
    <3>6. m = x => call'[c].step \in {"count", "ready"}
      BY <3>1
    <3> HIDE DEF x
    <3>7. QED
      BY <3>1, <3>2, <3>3, <3>4, <3>5, <3>6 DEF Accounts, AccountOf
  <2>2. CASE PushCount(c)
    BY <2>2, AccountFrame DEF PushCount, At, Go, CallType, Threads, mbox, hist
  <2>3. CASE PushLand(c)
    <3> SUFFICES ASSUME NEW m \in Message PROVE AccountOf(m)'
      BY DEF Accounts
    <3> DEFINE x == Msg(c)
               a == On(c)
    <3>1. /\ x \in Message /\ a \in Actors
          /\ call[c].step = "push" /\ x.from = c /\ x.seq = sent[c]
      BY <2>3, BoundAssumption DEF PushLand, Land, Msg, Message, CallType, Calls, On, At
    <3>2. /\ UNCHANGED <<done, sent>>
          /\ call'[c].step \notin {"count", "push"}
          /\ \A d \in Clients : d # c => call'[d] = call[d]
      BY <2>3 DEF PushLand, Land, Go, Return, Idle, CallType, Threads
    <3>3. Flying(m)' <=> Flying(m) /\ m # x
      BY <3>1, <3>2 DEF Flying, Message, CallType
    <3>4. Flying(x)
      BY <3>1 DEF Flying
    <3>5. CASE m_tag[a] = "closed"
      <4>1. m_queue' = m_queue /\ dead' = dead \cup {x}
        BY <2>3, <3>5 DEF PushLand, Land, mbox
      <4> HIDE DEF x
      <4>2. QED
        BY <3>1, <3>2, <3>3, <3>4, <4>1 DEF Accounts, AccountOf
    <3>6. CASE m_tag[a] # "closed"
      <4>1. m_queue' = Put(m_queue, a, x) /\ dead' = dead
        BY <2>3, <3>6 DEF PushLand, Land, Enqueue, Put
      <4>2. m_queue \in [Actors -> Seq(Message \cup {Echo})] /\ x \in Message \cup {Echo}
        BY <3>1 DEF MailType
      <4> HIDE DEF x, a
      <4>3. /\ In(m_queue', m) <=> In(m_queue, m) \/ m = x
            /\ Once(m_queue, m) /\ (m = x => ~In(m_queue, m)) => Once(m_queue', m)
        BY <3>1, <4>1, <4>2, PutOne
      <4>4. QED
        BY <3>1, <3>2, <3>3, <3>4, <4>1, <4>3, Primed DEF Accounts, AccountOf
    <3>7. QED
      BY <3>5, <3>6
  <2>4. QED
    BY <1>1, <2>1, <2>2, <2>3 DEF Tell
<1>2. ASSUME NEW c \in Clients, StopActor(c) PROVE Accounts'
  <2>1. \A d \in Clients : call'[d].step \in {"count", "push"} <=> call[d].step \in {"count", "push"}
    BY <1>2 DEF StopActor, StopClaim, StopIntake, StopRequest, StopUnblock, StopReturn,
                AfterSchedule, At, Go, Return, Idle, CallType, Threads
  <2>2. UNCHANGED <<m_queue, done, dead, sent>>
    BY <1>2 DEF StopActor, StopClaim, StopIntake, StopRequest, StopUnblock, StopReturn, mbox, hist
  <2>3. QED
    BY <2>1, <2>2, AccountFrame
<1>3. ASSUME NEW t \in Threads, ScheduleActor(t) PROVE Accounts'
  <2>1. \A d \in Clients : call'[d].step \in {"count", "push"} <=> call[d].step \in {"count", "push"}
    BY <1>3 DEF ScheduleActor, Schedule, WakeLook, Notify, AfterSchedule, At, Go, Return, Idle,
                CallType, Threads
  <2>2. UNCHANGED <<m_queue, done, dead, sent>>
    BY <1>3 DEF ScheduleActor, Schedule, WakeLook, Notify, mbox, hist
  <2>3. QED
    BY <2>1, <2>2, AccountFrame
<1>4. ASSUME NEW a \in Actors, UNCHANGED <<done, sent>>,
             m_queue' = [m_queue EXCEPT ![a] = <<>>],
             dead' = dead \cup ToSet(m_queue[a]),
             \A d \in Clients : call'[d].step \in {"count", "push"} <=> call[d].step \in {"count", "push"}
      PROVE  Accounts'
  <2> SUFFICES ASSUME NEW m \in Message PROVE AccountOf(m)'
    BY DEF Accounts
  <2>1. m_queue \in [Actors -> Seq(Message \cup {Echo})]
    BY DEF MailType
  <2>2. Flying(m)' <=> Flying(m)
    BY <1>4 DEF Flying, Message
  <2>3. /\ In(m_queue', m) <=> In(m_queue, m) /\ m \notin ToSet(m_queue[a])
        /\ Once(m_queue', m)
        /\ m \in ToSet(m_queue[a]) => In(m_queue, m)
    BY <1>4, <2>1, TakeAll DEF Accounts, AccountOf
  <2>4. QED
    BY <1>4, <2>2, <2>3, Primed DEF Accounts, AccountOf
<1>5. ASSUME NEW k \in Creators, Create(k) PROVE Accounts'
  <2>1. \A d \in Clients : call'[d].step \in {"count", "push"} <=> call[d].step \in {"count", "push"}
    BY <1>5, ThreadAssumption DEF Create, ActivateAfterStart, DiscardUnstarted, At, Go, Return, Idle,
                CallType, Threads
  <2>2. CASE ActivateAfterStart(k)
    BY <2>1, <2>2, AccountFrame DEF ActivateAfterStart, hist
  <2>3. CASE DiscardUnstarted(k)
    <3>1. On(k) \in Actors
      BY DEF On, CallType, Threads
    <3>2. /\ UNCHANGED <<done, sent>>
          /\ m_queue' = [m_queue EXCEPT ![On(k)] = <<>>]
          /\ dead' = dead \cup ToSet(m_queue[On(k)])
      BY <2>3 DEF DiscardUnstarted, CloseMailbox
    <3>3. QED
      BY <1>4, <2>1, <3>1, <3>2
  <2>4. QED
    BY <1>5, <2>2, <2>3 DEF Create
<1>6. ASSUME NEW w \in Workers, WorkerPop(w) \/ WorkerIdle(w) \/ Park(w) \/ ParkTimeout(w)
      PROVE  Accounts'
  <2>1. UNCHANGED <<m_queue, done, dead, sent, call>>
    BY <1>6 DEF WorkerPop, WorkerIdle, Park, ParkFlag, ParkLock, ParkCheck, ParkEnter,
                ParkTimeout, Unpark, mbox, hist
  <2>2. QED
    BY <2>1, AccountFrame
<1>7. ASSUME NEW w \in Workers, RunActor(w) PROVE Accounts'
  <2> DEFINE a == cur[w]
  <2>1. a \in Actors /\ UNCHANGED <<call, sent>>
    BY <1>7 DEF RunActor, TurnTop, TurnOver, TurnHandle, TurnEmpty, TryBlock, Recheck,
                ServiceDrain, ServiceHooks, RunHooks, ServiceClose, ServiceStopped, WorkerType
  <2>2. CASE UNCHANGED <<m_queue, done, dead>>
    BY <2>1, <2>2, AccountFrame
  <2>3. CASE UNCHANGED done /\ m_queue' = [m_queue EXCEPT ![a] = <<>>]
             /\ dead' = dead \cup ToSet(m_queue[a])
    BY <1>4, <2>1, <2>3
  <2>4. CASE TurnHandle(w) /\ m_queue[a] # <<>>
    <3> SUFFICES ASSUME NEW m \in Message PROVE AccountOf(m)'
      BY DEF Accounts
    <3> DEFINE S == Message \cup {Echo}
               x == Head(m_queue[a])
               g == [m_queue EXCEPT ![a] = Tail(m_queue[a])]
    <3>1. /\ m_queue \in [Actors -> Seq(S)] /\ done \in [Actors -> Seq(Message)]
          /\ dead' = dead /\ Echo \in S /\ x \in S
      BY <2>1, <2>4 DEF MailType, HistType, TurnHandle
    <3>2. Flying(m)' <=> Flying(m)
      BY <2>1 DEF Flying, Message
    <3>3. /\ In(g, m) <=> In(m_queue, m) /\ m # x
          /\ Once(g, m)
          /\ m = x => In(m_queue, m)
      <4> HIDE DEF g, S
      <4>1. QED
        BY <2>1, <2>4, <3>1, TakeOne DEF g, Accounts, AccountOf
    <3>4. CASE x # Echo
      <4>1. m_queue' = g /\ done' = Put(done, a, x) /\ x \in Message
        BY <2>4, <3>1, <3>4 DEF TurnHandle, Put
      <4> HIDE DEF x, a, g
      <4>2. /\ In(done', m) <=> In(done, m) \/ m = x
            /\ Once(done, m) /\ (m = x => ~In(done, m)) => Once(done', m)
        BY <2>1, <3>1, <4>1, PutOne
      <4>3. QED
        BY <2>1, <3>1, <3>2, <3>3, <4>1, <4>2, Primed DEF Accounts, AccountOf
    <3>5. CASE x = Echo /\ m_queue' = g
      <4>1. done' = done
        BY <2>4, <3>5 DEF TurnHandle
      <4> HIDE DEF x, g
      <4>2. QED
        BY <2>1, <3>1, <3>2, <3>3, <3>5, <4>1, Primed DEF Accounts, AccountOf
    <3>6. CASE x = Echo /\ m_queue' # g
      <4>1. done' = done /\ m_queue' = [m_queue EXCEPT ![a] = Append(Tail(m_queue[a]), Echo)]
        BY <2>4, <3>6 DEF TurnHandle
      <4>2. g \in [Actors -> Seq(S)] /\ g[a] = Tail(m_queue[a])
        BY <2>1, <2>4, <3>1
      <4>3. m_queue' = Put(g, a, Echo)
        BY <2>1, <3>1, <4>1, <4>2 DEF Put
      <4> HIDE DEF g, S, x
      <4>4. m # Echo
        OBVIOUS
      <4> HIDE DEF a
      <4> HIDE DEF Echo
      <4>5. /\ In(Put(g, a, Echo), m) <=> In(g, m) \/ m = Echo
            /\ Once(g, m) /\ (m = Echo => ~In(g, m)) => Once(Put(g, a, Echo), m)
        BY <2>1, <3>1, <4>2, PutOne
      <4>6. In(m_queue', m) <=> In(g, m)
        BY <4>3, <4>4, <4>5
      <4>7. Once(m_queue', m)
        BY <3>3, <4>3, <4>4, <4>5
      <4>8. QED
        BY <2>1, <3>1, <3>2, <3>3, <3>6, <4>1, <4>4, <4>6, <4>7, Primed DEF Accounts, AccountOf
    <3>7. QED
      BY <3>4, <3>5, <3>6
  <2>5. QED
    BY <1>7, <2>2, <2>3, <2>4 DEF RunActor, TurnTop, TurnOver, TurnHandle, TurnEmpty, TryBlock,
       Recheck, ServiceDrain, ServiceHooks, RunHooks, ServiceClose, CloseMailbox, ServiceStopped,
       mbox, hist
<1>8. CASE UNCHANGED vars
  BY <1>8, AccountFrame DEF vars, mbox, hist
<1>9. QED
  BY <1>1, <1>2, <1>3, <1>5, <1>6, <1>7, <1>8 DEF Next, Work

\* The stop hooks run once: they run when the mailbox is open and close it.
LEMMA StopStep ==
    ASSUME PlaceInv, StoppedOnce, [Next]_vars
    PROVE  StoppedOnce'
<1> USE DEF PlaceInv, TypeOK
<1> SUFFICES ASSUME NEW a \in Actors PROVE StopOf(a)'
  BY DEF StoppedOnce
<1>1. Pin[a] \in Workers /\ PlaceOf(a) /\ stops[a] \in Nat /\ StopOf(a)
  BY PinAssumption DEF Places, HistType, StoppedOnce
<1>2. ASSUME stops'[a] = stops[a], m_tag[a] = "closed" => m_tag'[a] = "closed",
             Closing(a) => Closing(a)' \/ m_tag'[a] = "closed"
      PROVE  StopOf(a)'
  BY <1>1, <1>2 DEF StopOf
<1>3. ASSUME NEW c \in Clients, Tell(c) \/ StopActor(c) PROVE StopOf(a)'
  <2>1. UNCHANGED <<stops, cur, wpc>>
    BY <1>3 DEF Tell, Send, PushCount, PushLand, Land, StopActor, StopClaim, StopIntake,
                StopRequest, StopUnblock, StopReturn, worker, hist
  <2>2. m_tag[a] = "closed" => m_tag'[a] = "closed"
    BY <1>3 DEF Tell, Send, PushCount, PushLand, Land, StopActor, StopClaim, StopIntake,
                StopRequest, StopUnblock, StopReturn, mbox, MailType
  <2>3. QED
    BY <1>2, <2>1, <2>2 DEF Closing
<1>4. ASSUME NEW t \in Threads, ScheduleActor(t) PROVE StopOf(a)'
  <2>1. UNCHANGED <<stops, m_tag, cur>>
    BY <1>4 DEF ScheduleActor, Schedule, WakeLook, Notify, worker, hist, mbox
  <2>2. wpc[Pin[a]] \in {"close", "stopped"} => wpc'[Pin[a]] = wpc[Pin[a]]
    BY <1>1, <1>4 DEF ScheduleActor, Schedule, WakeLook, Notify, worker, WorkerType
  <2>3. QED
    BY <1>2, <2>1, <2>2 DEF Closing
<1>5. ASSUME NEW k \in Creators, Create(k) PROVE StopOf(a)'
  <2>1. UNCHANGED <<stops, cur, wpc>>
    BY <1>5 DEF Create, ActivateAfterStart, DiscardUnstarted, worker, hist
  <2>2. m_tag[a] = "closed" => m_tag'[a] = "closed"
    BY <1>5 DEF Create, ActivateAfterStart, DiscardUnstarted, CloseMailbox, MailType, mbox,
                PlaceOf, Starting, On, At
  <2>3. QED
    BY <1>2, <2>1, <2>2 DEF Closing
<1>6. ASSUME NEW w \in Workers, WorkerPop(w) \/ WorkerIdle(w) \/ Park(w) \/ ParkTimeout(w)
      PROVE  StopOf(a)'
  <2>1. UNCHANGED <<stops, m_tag>>
    BY <1>6 DEF WorkerPop, WorkerIdle, Park, ParkFlag, ParkLock, ParkCheck, ParkEnter,
                ParkTimeout, Unpark, mbox, hist
  <2>2. \A v \in Workers : wpc[v] \in {"close", "stopped"} =>
            wpc'[v] = wpc[v] /\ cur'[v] = cur[v]
    BY <1>6 DEF WorkerPop, WorkerIdle, Park, ParkFlag, ParkLock, ParkCheck, ParkEnter,
                ParkTimeout, Unpark, WorkerType
  <2>3. QED
    BY <1>1, <1>2, <2>1, <2>2 DEF Closing
<1>7. ASSUME NEW w \in Workers, RunActor(w) PROVE StopOf(a)'
  <2>1. cur[w] \in Actors /\ Pin[cur[w]] = w /\ (wpc[w] \in Turn => Running(cur[w]))
    BY <1>7 DEF RunActor, TurnTop, TurnOver, TurnHandle, TurnEmpty, TryBlock, Recheck,
                ServiceDrain, ServiceHooks, RunHooks, ServiceClose, ServiceStopped, WorkerType,
                Homes, Turn, Running
  <2>2. CASE cur[w] # a
    <3>1. UNCHANGED <<stops[a], m_tag[a]>>
      BY <1>7, <2>2 DEF RunActor, TurnTop, TurnOver, TurnHandle, TurnEmpty, TryBlock, Recheck,
         ServiceDrain, ServiceHooks, RunHooks, ServiceClose, CloseMailbox, ServiceStopped,
         HistType, MailType, mbox, hist
    <3>2. \A v \in Workers : v # w => UNCHANGED <<wpc[v], cur[v]>>
      BY <1>7 DEF RunActor, TurnTop, TurnOver, TurnHandle, TurnEmpty, TryBlock, Recheck, Leave,
         ServiceDrain, ServiceHooks, RunHooks, ServiceClose, ServiceStopped, WorkerType
    <3>3. Closing(a) => Closing(a)'
      BY <1>1, <2>2, <3>2 DEF Closing
    <3>4. QED
      BY <1>2, <3>1, <3>3
  <2>3. CASE cur[w] = a /\ ServiceHooks(w)
    <3>1. m_tag[a] = "open" /\ ~Closing(a)
      BY <1>1, <2>1, <2>3 DEF ServiceHooks, RunHooks, Turn, PlaceOf, Closing
    <3>2. stops[a] = 0
      BY <1>1, <3>1 DEF StopOf
    <3>3. stops'[a] = 1 /\ Closing(a)'
      BY <2>1, <2>3, <3>2 DEF ServiceHooks, RunHooks, HistType, WorkerType, Closing
    <3>4. QED
      BY <3>3 DEF StopOf
  <2>4. CASE cur[w] = a /\ ServiceClose(w)
    <3>1. UNCHANGED stops /\ m_tag'[a] = "closed"
      BY <2>4 DEF ServiceClose, CloseMailbox, MailType
    <3>2. QED
      BY <1>2, <3>1
  <2>5. CASE cur[w] = a /\ ServiceStopped(w)
    <3>1. UNCHANGED <<stops, m_tag>>
      BY <2>5 DEF ServiceStopped, mbox, hist
    <3>2. m_tag[a] = "closed"
      BY <1>1, <2>1, <2>5 DEF ServiceStopped, Turn, PlaceOf
    <3>3. QED
      BY <1>2, <3>1, <3>2
  <2>6. CASE cur[w] = a /\ ~(ServiceHooks(w) \/ ServiceClose(w) \/ ServiceStopped(w))
    <3>1. /\ UNCHANGED stops
          /\ wpc[w] \notin {"close", "stopped"}
          /\ m_tag[a] = "closed" => UNCHANGED m_tag \/ wpc[w] = "block"
      BY <1>7, <2>6 DEF RunActor, TurnTop, TurnOver, TurnHandle, TurnEmpty, TryBlock, Recheck,
         ServiceDrain, MailType, mbox, hist
    <3>2. m_tag[a] = "closed" => UNCHANGED m_tag
      BY <1>1, <2>1, <2>6, <3>1 DEF Turn, PlaceOf
    <3>3. QED
      BY <1>2, <2>1, <2>6, <3>1, <3>2 DEF Closing
  <2>7. QED
    BY <1>7, <2>2, <2>3, <2>4, <2>5, <2>6
<1>8. CASE UNCHANGED vars
  BY <1>2, <1>8 DEF vars, mbox, hist, worker, Closing
<1>9. QED
  BY <1>3, <1>4, <1>5, <1>6, <1>7, <1>8 DEF Next, Work

\* Nothing is sent at first, and no hook has run.
LEMMA AccountInit == Init => Accounts /\ StoppedOnce
<1> SUFFICES ASSUME Init PROVE Accounts /\ StoppedOnce
  OBVIOUS
<1>1. /\ \A a \in Actors : m_queue[a] = <<Echo>> \/ m_queue[a] = <<>>
      /\ \A a \in Actors : done[a] = <<>>
      /\ dead = {} /\ \A c \in Clients : sent[c] = 0 /\ call[c].step = "ready"
      /\ \A a \in Actors : stops[a] = 0
  BY ThreadAssumption DEF Init, Threads, Idle
<1>2. \A i : i \notin DOMAIN << >>
  OBVIOUS
<1>3. \A i \in DOMAIN <<Echo>> : <<Echo>>[i] = Echo
  OBVIOUS
<1>4. ASSUME NEW m \in Message PROVE AccountOf(m)
  <2>1. m # Echo /\ m.from \in Clients /\ m.seq \in Nat /\ m.seq > 0
    BY BoundAssumption DEF Echo, Message
  <2>2. ~In(m_queue, m) /\ Once(m_queue, m)
    BY <1>1, <1>2, <1>3, <2>1 DEF In, Once
  <2>3. ~In(done, m) /\ Once(done, m)
    BY <1>1, <1>2 DEF In, Once
  <2>4. ~Flying(m) /\ m \notin dead /\ ~(m.seq <= sent[m.from])
    BY <1>1, <2>1 DEF Flying
  <2>5. QED
    BY <2>2, <2>3, <2>4 DEF AccountOf
<1>5. QED
  BY <1>1, <1>4 DEF Accounts, StoppedOnce, StopOf

\* The messages and the hooks are accounted for in every state.
LEMMA AccountInvariant == Spec => [](PlaceInv /\ Accounts /\ StoppedOnce)
<1>1. PlaceInv /\ Accounts /\ StoppedOnce /\ [Next]_vars => Accounts' /\ StoppedOnce'
  BY AccountStep, StopStep DEF PlaceInv
<1>2. QED
  BY <1>1, AccountInit, PlaceInvariant, PTL DEF Spec

\* Every message sent is with its sender, in a mailbox, handled or a dead letter,
\* in one of them and there once, and the stop hooks of an actor run at most once:
\* across clients, stops, discards and creations, nothing is lost or doubled.
THEOREM MessagesAccounted == Spec => []Accounted
<1>1. PlaceInv /\ Accounts /\ StoppedOnce => Accounted
  <2> SUFFICES ASSUME PlaceInv, Accounts, StoppedOnce PROVE Accounted
    OBVIOUS
  <2> USE DEF PlaceInv, TypeOK
  <2>1. ASSUME NEW c \in Clients
        PROVE  LET mine == {m \in Message : m.from = c /\ m.seq <= sent[c]}
                   at   == <<InFlight(c), Waiting \cap mine, Handled \cap mine, dead \cap mine>>
               IN  /\ mine = UNION {at[i] : i \in 1..4}
                   /\ \A i, j \in 1..4 : i # j => at[i] \cap at[j] = {}
    <3> DEFINE mine == {m \in Message : m.from = c /\ m.seq <= sent[c]}
               A1 == InFlight(c)
               A2 == Waiting \cap mine
               A3 == Handled \cap mine
               A4 == dead \cap mine
               at == <<A1, A2, A3, A4>>
    <3>1. \A m \in Message : /\ m \in Waiting <=> In(m_queue, m)
                             /\ m \in Handled <=> In(done, m)
      <4>1. Echo \notin Message
        BY DEF Echo, Message
      <4>2. QED
        BY <4>1 DEF Waiting, Handled, ToSet, In
    <3>2. A1 \subseteq Message
      BY BoundAssumption DEF InFlight, Msg, Message, CallType, Calls
    <3>3. \A m \in Message : m.from = c => (m \in A1 <=> Flying(m))
      BY DEF InFlight, Msg, Message, Flying
    <3>4. \A m \in A1 : m.from = c /\ m.seq = sent[c]
      BY DEF InFlight, Msg
    <3>5. A1 \subseteq mine
      BY <3>2, <3>4, BoundAssumption DEF CallType, Message
    <3> HIDE DEF A1
    <3>6. \A m \in mine : /\ m \in A1 \/ m \in A2 \/ m \in A3 \/ m \in A4
                          /\ m \in A1 => m \notin A2 /\ m \notin A3 /\ m \notin A4
                          /\ m \in A2 => m \notin A3 /\ m \notin A4
                          /\ m \in A3 => m \notin A4
      BY <3>1, <3>3 DEF Accounts, AccountOf
    <3>7. A2 \subseteq mine /\ A3 \subseteq mine /\ A4 \subseteq mine
      OBVIOUS
    <3> HIDE DEF A2, A3, A4, mine
    <3>8. at[1] = A1 /\ at[2] = A2 /\ at[3] = A3 /\ at[4] = A4
      OBVIOUS
    <3>9. \A i \in 1..4 : i = 1 \/ i = 2 \/ i = 3 \/ i = 4
      OBVIOUS
    <3> HIDE DEF at
    <3>10. mine = UNION {at[i] : i \in 1..4}
      <4>1. \A m \in mine : \E i \in 1..4 : m \in at[i]
        BY <3>6, <3>8
      <4>2. \A i \in 1..4 : at[i] \subseteq mine
        BY <3>5, <3>7, <3>8, <3>9
      <4>3. QED
        BY <4>1, <4>2
    <3>11. \A i, j \in 1..4 : i # j => at[i] \cap at[j] = {}
      BY <3>5, <3>6, <3>7, <3>8, <3>9
    <3>12. QED
      BY <3>10, <3>11 DEF at, A1, A2, A3, A4, mine
  <2>2. ASSUME NEW a \in Actors PROVE IsInjective(done[a]) /\ stops[a] <= 1
    <3>1. \A i \in DOMAIN done[a] : done[a][i] \in Message
      BY DEF HistType
    <3>2. IsInjective(done[a])
      BY <3>1 DEF IsInjective, Accounts, AccountOf, Once
    <3>3. QED
      BY <3>2 DEF StoppedOnce, StopOf
  <2>3. QED
    BY <2>1, <2>2 DEF Accounted
<1>2. QED
  BY <1>1, AccountInvariant, PTL
=============================================================================
