# A verification of the cygnus actor framework

TLA+ modules, TLC runs and TLAPS proofs about the concurrent core of
`cygnus-actors-cpp`: how messages reach an actor, how an actor reaches a worker,
how both end, and what surrounds them: creation and start, threads and names, calls,
inline and stateful actors, timers, the message pool and the ZeroMQ relay.
`PROJECT.json` maps every definition to the lines it models.

## 1. The system

An *actor* owns a mailbox and handlers. `tell()` puts a message in the mailbox from
any thread. A pooled actor is pinned to one *worker*; the push that ends the actor's
idleness puts it on that worker's *ready queue*, and the worker runs it for a turn
of at most `max_messages_per_turn` messages. The correctness argument of the code
(doc/INVARIANTS.md) rests on three claims: an actor is executed by one thread at
a time (INVARIANT 1), no user code runs under a framework lock (2), and calls come
first, then messages in send order per sender (3).

| component | state | operations | hard part | what makes it correct |
|---|---|---|---|---|
| mailbox (`mailbox.cpp`) | stack word with two sentinels, two private caches, two counters | push, pop, try_block, try_unblock, close, size | lock-free; a push races the owner going idle, or closing | nothing lost or reordered, one wake-up per idleness, counters never under-run |
| ready queue (`ready_queue.cpp`) | intrusive stack and cache | push, pop, maybe_nonempty, clear | lock-free, ABA, lifetime of the entries | FIFO; linked actors stay alive |
| intake (`actor.cpp` enqueue_*) | m_state, statistics | tell, call | state check is stale when the push lands | every message is handled or a dead letter |
| scheduler (`system.cpp` schedule ... worker_thread) | ready queues, sleeping flags | schedule, wake, park, run_actor | lost wake-up; fairness | an actor is in one place; no worker sleeps on work; no starvation |
| stop protocol (stop_actor, service_stop) | m_stop_phase, m_stop_executor, m_state | claim, request, service, wait | request races going idle, on_start(), shutdown | the stop completes, once, on the actor's thread, and is the last thing it does |
| creation and start (register_actor, start) | m_running, actor lists, m_started | create, start | create() races start(), on_start() may throw | on_start() once, before the first message |
| shutdown and reset | shutdown flags, log | shutdown, wait_for_shutdown, reset | drain by polling, joining threads that wait | terminates; on_stop() once; nothing vanishes silently |
| fast actors | dedicated thread, semaphore | loop, wake, wait, reap | second wait/wake handshake; join by two parties | no lost wake-up, one join |
| inline actors | recursive lock, pending queue | dispatch on the sender | re-entrancy, lock order | handlers never nest |
| selective stash | held messages, accept set | hold, release | order after a state change | arrival order, nothing forgotten |
| timers | heap, active set | schedule, cancel, fire | fire outside the lock races cancel | nothing after cancel; periodic ones keep firing |
| registry and watches | name map, two watch indices | register, watch, unwatch, end_watches | replacement under the same name | indices agree; one notification |
| call requests | promise | call, reply, fail | target stops meanwhile | answered or broken exactly once |
| message pool | free lists per thread | allocate, free | frees from other threads, limits | a block is in one place |
| ZeroMQ relay | held sends per peer, pending requests, transport queues | send, request, reply, configure, flush, expire | blocks in the transport while others tell, stop and configure it; slow peers | every send has one outcome, order per peer, replies find their request, no wake-up lost |

Components talk by direct calls (`tell` -> `mailbox::push` -> `system::schedule` ->
`ready_queue::push`), by shared atomics (m_state, m_stop_phase, the stack words, the
sleeping flags) and by condition variables.

## 2. The modules

* **MailboxAbs** - what a mailbox promises: two FIFO lanes, calls served first,
  and one *turn* that is active, idle or granted to whoever ended the idleness.
* **Mailbox** - `mailbox.cpp` with one atomic access per step. `m_tag`/`m_stack` are
  the stack word (a sentinel, or a list), `m_cache` the caches, `m_count` the
  counters; `pc`, `msg`, `head` are the locals of each `push()`, `node`, `batch`
  those of `fetch_more()`. The clients are the real ones: producers that schedule
  the owner when told `unblocked`, the owner's loop from `run_actor()`, one
  `stop_actor()` that tries to unblock, and the `close()` of `service_stop()`.
  A CAS compares the word's *pointer* (`Word`: sentinel or top node), not the list.
* **ReadyFifo** / **ReadyQueue** - a FIFO, and `ready_queue.cpp` pointer by pointer
  (`m_ready_next`, `m_ready_self`, `m_head`, `m_tail`, `m_stack`).
* **Scheduler** - pooled actors on workers: `enqueue_message()`, `schedule()` and the
  parking handshake, `run_actor()`, the end of `create()` while the system runs, and
  `stop_actor()`/`service_stop()`. A mailbox or ready-queue operation is one step here,
  which the refinements `ImplementsAbs` and `ImplementsFifo` justify; `push()` keeps
  two steps, because `has_messages()` may see a message that is counted and not
  yet there. `call` holds the framework call each thread is in.
* **Shutdown** - `shutdown()` phase by phase, `wait_for_shutdown()` and
  `complete_pending_stops()` on the thread `Main`, against `tell()` and `stop_actor()`
  of a client, handlers that call `stop_actor()` and may wait in it, and the workers'
  turns. It has what Scheduler leaves out: m_stop_executor, the system_shutdown
  message and its hook, the worker's exit, the stop on a thread that is no worker.
  What Scheduler shows (an actor with something to do gets a turn of its worker)
  is the guard of `WorkerPop`. `stop_actor()` may be called at any time, after
  `wait_for_shutdown()` has cleared m_workers_active too: its caller then services the
  stop itself (`ByCaller`), beside the final loop, whose on_stop() and set_state() are two steps.
* **Timers** - `timer_manager` and what an actor does with it. `thread` is where
  `timer_thread_func()` is (`callback`: outside the lock), `pc`/`id` the timer call the
  actor's thread is in, `ending` the `cancel_actor_timers()` under way. A critical section
  of m_mutex is one step; the `notify_one()` after it is another. `main` starts and stops
  the manager as `start()` and `wait_for_shutdown()` do, and restarts it after `reset()`.
* **Lifecycle** - the life of actors, threads and names. `main` is where the thread that
  calls `start()`, `wait_for_shutdown()` and `reset()` is, and actors are created step by
  step (`register_actor()`) at any time: before `start()`, while it runs (by another thread
  or by an on_start() that start() itself has under way, `in_start`), while the system runs
  and while it shuts down. A `stop_actor()` may come at any time as well: `caller` is
  where it is, m_stop_executor who carries it out (the caller, the actor's own thread or
  worker, or `complete_pending_stops()`). A fast actor has its thread from launch to join: `run_dedicated_thread()`,
  m_join_claimed, and those that may join it: reapers (threads in `actor_count()` or
  waiting for a fast actor's stop) and `wait_for_shutdown()`. `lost` holds the threads whose
  std::thread was assigned to or destroyed while joinable: std::terminate(), after which
  nothing happens. The registry and both watch indices change in their critical
  sections; a step is one critical section or one hook. What an actor does with its name
  and its watches it does where its handlers run (`OnWorker`): a pooled actor after
  `activate_after_start()`, a fast one on its thread; a `create()` that fails closes the
  mailbox as well.
* **Delivery** - what happens between a sender and a handler, for a *stateful* actor with
  its selective stash, or for an *inline* actor that runs on its senders' threads. Senders
  tell, `call()` and `call()` with a timeout; a handler returns, throws, changes the
  accept set, sends to its own actor or stops it; the handler of a call does as much. `call()`
  has its promise. Each sender has a *role*: a client thread, the handler of another actor on
  the actor's worker, an `on_start()` there, a handler of the actor itself, or an inline actor
  that such a handler has sent to (`nested`); `CallAllowed` has the refusals for each
  (`check_call_allowed()`, and the re-entrant call of an inline actor). The actor ends by a
  stop, or with the system: `SystemShutdown`, `WorkersExit` and the final loop of
  `wait_for_shutdown()`, which runs on_stop() and closes no mailbox (state `ended`).
* **Relay** - `zeromq_relay_actor` in router mode with its blocking transport: a fast
  actor whose thread waits inside the transport and is woken by a frame. A send is its
  number, and its fate is where it is: mailbox, held, transport, sent, dropped, failed.
  Correlation ids (`Corr`) are the application's choice and may coincide: m_pending_requests
  has one entry per id, which a later request takes over (`Overwritten`). A `tell()` past its state
  check may push at any later time, after the last drain of a shutdown too.
  Peers come, go and are slow; policies change; replies and expiries race. The
  transport is modelled from what `zeromq_transport.cpp` answers to each call.
* **MessagePool** - `message_pool.cpp` for one size class: a block is on the `heap`, in the
  `shared` list, in a thread's `t_cache`, with a `user`, or in a local of a running operation.
  The shared list and the count that limits it change in separate steps, as in the code. The size-class arithmetic of `message_pool.h` is there as operators.
* **MailboxProofs**, **SchedulerProofs**, **TimersProofs**, **LifecycleProofs**,
  **ShutdownProofs**, **DeliveryProofs**, **RelayProofs** - the theorems about the module of
  that name; **PoolQueueProofs** - those about ReadyQueue and MessagePool, the two structures
  all threads share (section 4).
* **MCScheduler**, **MCShutdown**, **MCLifecycle**, **MCDelivery**, **MCRelay** - constants
  for TLC.

Definitions marked *Slip* are plausible programming errors. No specification uses
them; each is substituted for the definition it follows to confirm that the property
named with it in `PROJECT.json` notices.

### Abstractions

* Memory is sequentially consistent. The orders in the code (release/acquire CAS,
  seq_cst fences in the parking handshake) are meant to give just that for the
  interleavings modelled; weak-memory effects are out of TLC's reach.
* Messages are their sender, number and lane. Handlers are steps; the only thing a
  handler does in Scheduler is to send to its own actor (the *busy* actors), since
  everything else it may do is a call some client thread makes as well.
* `compare_exchange_weak` failing spuriously is a retry with the same value and adds
  no behaviour. The spinning of `spin_for_work()` changes no state.
* The drain deadline of a stop may pass at any moment (`ServiceShutdownHook` is enabled
  with messages left). The 100 ms backstop of `park_worker()` may fire at any moment and
  never has to.
* m_stop_executor is left out of Scheduler: while workers run, only the pinned
  worker services a stop. It matters in the fallback paths (module Shutdown).
* In Scheduler and Shutdown a message is a `tell()`; the priority of calls is in Mailbox.
* In Timers time is a counter that any thread may find advanced. Timers with the same
  time are taken in any order (std::priority_queue promises none). User code calls
  the timer functions where doc/90_timers.md allows it: on_start(), handlers,
  on_shutdown(). The effect of the fired message is left to Scheduler.
* In Shutdown the snapshots of `shutdown()` are visited in any order, a turn may end
  after any message, and the deadlines of the drain and of phase 2 may pass at any
  time; the last also covers `stop_mode::discard`, which closes with messages left.
  Actors are pooled. A handler that runs inside `wait_for_shutdown()` does not call
  `stop_actor()`.
* In Lifecycle no messages are sent but system_shutdown; what a message meets is in the
  other modules. `service_stop()` runs its two hooks in one step, and so does the final loop of
  `wait_for_shutdown()` for all actors: a stop on its caller's thread beside that loop
  is taken apart in Shutdown. An `on_start()` that throws inside `start()` is not modelled.
* In Delivery a message is its type, sender and number, the mailbox is the two lanes that
  Mailbox implements, and `m_dispatching` is the thread that holds the mutex of an inline actor.
* In Relay time is one bit per held send or pending request (it is late or not), and
  the mailbox is a sequence with the blocked state of Mailbox. Pending requests expire
  only when the relay is idle, as in the code. `flush_outbound()` is one step per held send,
  between which peers take messages, come and go, with the deadlines as it found them when
  it read the clock; it visits the peers in any order (an unordered_map).

## 3. The runs

| run | instance | checks |
|---|---|---|
| `mailbox` | 2 producers x 2 pushes, each on either lane | `OneTurn`, `CountExact`, `ClosedAccounting`, `ClosedIsFinal`, refinement of MailboxAbs (`ImplementsAbs`), `AllConsumed` |
| `ready_queue` | 4 actors, 2 pushers, unbounded pushes | `SelfHeld`, refinement of ReadyFifo (`ImplementsFifo`), `AllPopped` |
| `scheduler` | 1 worker, 2 actors (a busy one, one in on_start()), a client that sends and one that stops | `OnePlace`, `NoLostWakeup`, `Accounted`, `AllSettled`, `StopServiced` |
| `stop_during_start` | 1 client that may stop an actor whose on_start() runs | `StopCompletes`, violated: see section 5 |
| `timers` | 1 actor, 2 timers, one-shot or periodic, delays 1 and 2, time up to 2, one restart | `NoTimerLeft`, `NoOversleep`, `OnSchedule`, `CancelIsFinal`, `DueFires`, `StopEnds` |
| `shutdown` | 1 worker, 2 actors, a client and handlers with one message and two stops between them, at any time; 922,000 states | `AllStopped`, `EarlyTraced`, `StopIsLast`, `ShutdownCompletes`, `StopReturns` |
| `stop_in_shutdown` | the same with one stop, by the client | `StopCarriedOut`, violated in two ways: see section 5 |
| `shutdown_deadlock` | 2 workers with an actor each | `ShutdownCompletes`, violated: see section 5 |
| `lifecycle` | a fast f and a pooled w, both created at any time; f may take w's name, w may watch f; one stop, one reaper; 1,101,000 states | `HookOrder`, `ThreadsJoined`, `NameKept`, `WatcherTold`, `ShutdownEnds` |
| `create_during_start` | the same with w created before everything else | `CreateSafe`, violated in two ways: see section 5 |
| `delivery` | stateful or inline actor; a sender of three messages of two types, one of a timed call, one of four calls in the roles worker, on_start, self and nested; 2 self-sends; 303,000 states | `OnePlace`, `SenderOrder`, `NoneAfterStop`, `CallAnswered`, `NoneForgotten` |
| `relay` | one slow peer (high-water mark 1), 3 sends of which two are requests with one id, mailbox of 1, two of configuration changes, bind and shutdown, one teller; 1,049,000 states | `SendFate`, `PeerOrder`, `RequestsMatched`, `SendSettles`, `StopServed` |

What they show beyond the code's own tests: the interleavings of the idle-to-busy
transition, in which a message or a stop arrives between any two atomic accesses of
the owner; that the parking handshake needs no backstop timer; that an actor is
never on a ready queue twice, which the intrusive queue takes for granted; and that
between the stale state check of `tell()` and the close of the mailbox no message
disappears. The shutdown run adds that a shutdown on one worker always ends, that
every actor gets its `on_stop()`, exactly one and nothing after it whether `stop_actor()` or
system_shutdown got there first (unless the caller of a late `stop_actor()` runs the actor
itself, which is the finding of `stop_in_shutdown`), that a client waiting in `stop_actor()` is released,
and that a message queued before the shutdown is handled, a dead letter, or in the
mailbox of an actor the shutdown log names. The timer run shows that no wait of the
timer thread outlasts a change it should notice, that late firings do not shift later
ones, and that every way an actor ends finds all its timers, whatever it scheduled
while the stop was being claimed.

The lifecycle run shows that `on_start()` runs at most once although `start()`, `create()`
and the dedicated thread may all want to run it, and `on_stop()` at most once and not during
it, on whichever thread (creator, own thread, stopper, main) it falls; that a
dedicated thread is joined by exactly one of those that may join it; that the end of
an actor does not take its name from the one that registered it since; and that a
watcher hears of the end of what it watches. The delivery run shows that a message is in
one place (mailbox, stash, deferred, in hand, done), that messages of one type from one
sender keep their order through any sequence of accept-set changes, that no
handler runs after the stop although an inline sender may have passed the first
state check, and that every `call()` returns, with a value, an exception, a broken
promise or a timeout, or was refused: each role's call that could never be answered is.
One exception it makes visible: a call still queued when the workers exit is answered by
nobody, since `wait_for_shutdown()` closes no mailbox. The relay run shows that no send is duplicated or forgotten between
mailbox, held queue and transport under any change of policy, that a held send does not
let a later one to the same peer overtake it, that neither a message nor a stop waits
for the idle backstop, and that a reply goes to the request it answers or, when two chose
one correlation id, to the one that holds the id. What stays behind is a push that
follows the last drain after system_shutdown. It also shows that the relay's second look at the stop
phase after `try_block()` is redundant: the wake frame is level-triggered, so a wake-up
before the wait is not lost either.

**Bounds.** Two producers suffice for every pairwise race on the stack word, and two
pushes each let a message land behind a cached one, on the same and on the other
lane, after the owner has gone idle and been woken. Four actors and two pushers let
an address leave and re-enter the stack while a CAS that expects it is pending, with
other entries below and above it. One worker is enough in Scheduler, because workers
share nothing but the threads that schedule on them; two actors make it choose.
With Budget = 1 every message is a turn of its own. `MaxPush` and `MaxSend` only bound
the number of calls a client begins.
In Timers two timers give the thread a head that an earlier one overtakes, and the set
of tracked timers a periodic entry when it is pruned (PruneAt = 1 in place of 64); time 2
lets a periodic timer with interval 1 be taken late and be due again.
In Shutdown one message is enough for a handler to run before, between and after the
phases, and each actor also gets a system_shutdown; with two workers a handler can
wait for the other worker, which is the deadlock of section 5, so the passing run has
one. With two stops the second may meet the first in any phase, also after the
workers have gone; nothing is assumed of when they are made. `ByCaller` names the actors
whose stop fell to a `stop_actor()` caller because m_workers_active was false: `AllStopped`
asks only for their `on_stop()`, and `StopIsLast` nothing, because the code runs it twice
(section 5). All other actors have both properties in the same behaviours.
In Lifecycle a fast and a pooled actor, created at any time, meet `start()`, the joins and
a stop in every order, and a name changes hands during each step of the stop or failure of its
holder; one reaper and `wait_for_shutdown()` race for every join. Nothing is assumed of when `create()` and
`stop_actor()` are called. `beside` records the actors whose `create()` ran during `start()` or
was not over when the fast actors were joined, and those whose stop ran on its caller's thread
during `start()` or the end of `wait_for_shutdown()`: the code orders nothing there, and
`HookOrder` and `ThreadsJoined` bound only on_start() and the number of joins for them; what may go
wrong is `CreateSafe` and, for stops, `StopCarriedOut` of Shutdown. A `watch()` whose check precedes the lock may
leave an entry for an actor that ended meanwhile; `WatcherTold` does not speak of it, nor of a
stop that nobody is bound to carry out (`stop_during_start`).
In Delivery three messages of two types leave one type held while the other passes and
arrive again behind the release; two self-sends let a deferred message defer another; four calls
of one sender meet each refusal, with the actor idle, handling or ended. In Relay
a high-water mark of 1 and three sends put one in the transport, one in the held queue and
one behind it, and the mailbox of 1 makes the thread block again between them; two requests
with one id and a send without one let a reply find its own entry, another's, or none.
The systems may stop when the clients have no more calls to make, so all but the ready
queue run without the deadlock check; what must not get stuck is stated by the
liveness properties.

**Fairness.** A thread inside `push()`, `schedule()`, `stop_actor()` or `create()`, and
every worker, keeps taking steps (the OS scheduler; on_start() is assumed to
return or throw). No client has to begin a call, and no timeout has to expire, with
one exception: the deadline of phase 2 of `shutdown()` passes (`WF(PollDone)`), which is
what `drain_timeout` is for. In Timers not even the clock has to advance: `stop()` ends
without it. The main thread calls `wait_for_shutdown()` after
`shutdown()`. In Lifecycle the threads inside a call of the library and the threads of actors
are weakly fair together, and so are, in Delivery, the owner's worker while it lives, and the senders
inside a call: each has finitely many steps to take there, so none can keep the others
from theirs for ever and one condition says as much as one per thread. A worker need not
find a stop it was not scheduled for (`StopFound`). In Relay
the thread with its 1 ms retry poll while sends are held, the wake frame, and the deadline
of some held send are weakly fair; the idle backstop is not, so nothing may rest on it.

## 4. The proofs

The theorems hold for every value of the constants that the named assumptions allow:
any number of actors, workers, clients, timers or senders, and any bound. The
assumptions are those of the modules (ranges of constants, disjoint names for threads,
at least one actor), which TLC evaluates on every run; no theorem assumes anything of
the application. Every
inductive invariant of a module that has a run was checked by TLC on that instance before it
was proved.

| module | theorem | states |
|---|---|---|
| MailboxProofs | `TurnUnique`, `CountersExact`, `ClosingAccounts`, `ClosedForGood`, `MailboxRefines` | `OneTurn`, `CountExact`, `ClosedAccounting`, `ClosedIsFinal`, `ImplementsAbs` |
| PoolQueueProofs | `ReferencesExact`, `QueueRefinesFifo` | `SelfHeld`, `ImplementsFifo` of ReadyQueue |
| PoolQueueProofs | `BlocksKept`, `NeverUndercounts`, `WithinLimit`, `CachesBounded`, `HeaderTellsTheClass` | MessagePool, see below |
| SchedulerProofs | `InOnePlace`, `WakeupKept`, `MessagesAccounted` | `OnePlace`, `NoLostWakeup`, `Accounted` |
| TimersProofs | `TimersEnd`, `SleepsInTime`, `FiresOnSchedule`, `CancelledForGood` | `NoTimerLeft`, `NoOversleep`, `OnSchedule`, `CancelIsFinal` |
| LifecycleProofs | `NamesKept`, `HooksInOrder`, `EveryThreadJoined` | `NameKept`, `HookOrder`, `ThreadsJoined` |
| ShutdownProofs | `EveryActorStopped`, `NothingAfterStop`, `EarlyLeaveTrace` | `AllStopped`, `StopIsLast`, `EarlyTraced` |
| DeliveryProofs | `EverythingPlaced`, `NoHandlerAfterStop`, `OrderKept` | `OnePlace`, `NoneAfterStop`, `SenderOrder` |
| RelayProofs | `SendsPlaced`, `PeersInOrder`, `RepliesMatched` | `SendFate`, `PeerOrder`, `RequestsMatched` |

Each of these modules also proves `TypeCorrect`: `Spec => []TypeOK` (`QueueTypeCorrect` and
`PoolTypeCorrect` in PoolQueueProofs). With these, every invariant, action property and
refinement that a passing run checks is a theorem; the runs alone show liveness.

**Mailbox.** The inductive invariant `IInv` adds two facts to the types and to `OneTurn`.
`WordShape` says that a sentinel is never part of a list and that the word is
`closed_tag()` exactly from the owner's `close()` on: without it a push could publish
into a closed mailbox after reading a stale word. `PopShape` says that `pop()` holds
a message when it is about to return one: without it `Head` of an empty cache would
leave the type. Each action has one step per lemma (`TypeStep`, `ShapeStep`, `TurnStep`),
and the theorems combine them by PTL.

`Books` is the second invariant, for the three theorems about the contents. `Tracked` says
where every message that landed is (stack, taken list, split lists, caches, drain,
delivered or dropped) and, by the lengths, that it is there once; `LaneShape` that a split
message is in its own lane and which lists are empty at which step of the owner;
`PushShape` and `Fresh` that a message inside `push()` has not been in the mailbox before;
`Apart` that nothing is both dropped and delivered, or rejected and landed. `CountExact` is
inductive with these and not without: a pop subtracts one for the lane it serves, so the
message must be in that lane.

`MailboxRefines` maps each step to a step of MailboxAbs. A successful CAS is `APush`, a push
that meets `closed_tag()` `AReject`, the successful `try_block()` and `try_unblock()` `ABlock`
and `AUnblock`, `close()` `AClose`; the step in which `pop()` decides what it will serve is
`APop`: with a call in the cache or the fetched list, or with none anywhere because the call
counter, which `CountExact` bounds from below by the calls on the stack, was read as zero.
Counting, splitting, delivering and dropping are invisible. `fetch_more()` and the mapping
reverse a list and filter it by lane, so the proof needs laws of `Reverse` and `OfLane` for
lists of any length. They come by induction stated with sets: a set of numbers that holds 0
and is closed under the successor is `Nat` (`NatSetInduction`, from the well-foundedness of <),
and a set that holds the empty list and with each list every longer one by an element has
all lists in it. `OfLane` is a recursive function, and it is first shown to exist.

**ReadyQueue**, for any finite set of actors and any set of pushing threads. `QueueInv` says
that the links make up four lists - cache, fetched list, its reversed part, stack - that
share no actor (`Listed`, `Disjoint`), that exactly their actors and those being pushed hold
themselves (`Holds`), and where the tails point (`Ends`); besides, that two threads push two
actors and one about to CAS has linked its own to the word it expects (`PushApart`), which
is why the address comparison of the CAS is enough although a word may have changed and
changed back. One lemma per step names the lists after it (`PushCasLists`, `FetchNodeLists`,
...), with list facts that depend only on the links followed: a write to another actor
changes no list (`PathFrame`), a node in front makes a longer one (`PathLed`). `Chain`, with
which the properties read the lists, is shown by induction to return the list at a
pointer (`ChainIs`). `ReferencesExact` follows. In `QueueRefinesFifo` the CAS is `FPush`, the
unlinking `FPop`, the exchange of an empty stack `FPopNothing`, `maybe_nonempty()` `FLook`; the
exchange, the reversal and the append leave the FIFO as it is.

**MessagePool**, for any set of threads, any finite set of blocks and every
capacity, batch and limit (the hypothesis `PoolConstants`): no block has two holders and
none is lost, whichever thread frees it and whichever thread exits (`BlocksKept`); the count
that limits the shared list is at least its length at every moment, and so never below
zero when a refill subtracts (`NeverUndercounts`); the shared list never exceeds the largest
limit that was set, although several threads release at once (`WithinLimit`); a cache fits
its array, and a thread that has exited holds nothing (`CachesBounded`); the class
`message_pool.h` computes at compile time is the one `message_pool.cpp` uses, for every
payload, and `max_payload_for_class()` is exact (`HeaderTellsTheClass`).
The invariant is `PlaceType /\ Phases /\ OneHolder /\ CountIs /\ GrantBound /\ Room`.
`CountIs` gives the count exactly, as the number of blocks that are on the list or
reserved by a release or not yet subtracted by a refill: the inequality alone is not
preserved, since a step moves a block and changes the count in different steps.
`GrantBound` bounds the blocks on the list together with those a release was granted
room for; `Room` says that a flush or refill in progress leaves place in the cache. These
theorems rest on the proofs alone: no run of this project checks MessagePool.

**Scheduler.** `PlaceInv` is the types and three parts: `Calls` (which threads can be at which
step), `Homes` (a worker queues and runs only actors pinned to it, each once, and no two
threads schedule the same actor) and `Places` (queue, scheduling thread, turn and
`on_start()` exclude each other, and the mailbox is open exactly when the actor is in one
of them). `OnePlace` counts; the proof works with `Places`, which says *which* place,
since a step moves the actor from one known place to another. `NoLostWakeup` needs `Flags`
(`sleeping` is set exactly between the store and the end of `park_worker()`).
`MessagesAccounted` adds `Accounts` (a message is in its sender's hands, or in a mailbox, or
handled, or a dead letter, and in one of these once) and `StoppedOnce` (the hooks have
run only if the mailbox is closed or about to be).

**Timers.** `TimerInv` joins the safety properties, which are inductive only together
with: `Tables` (lookup table and callbacks agree, and what else is queued is cancelled),
`Fresh` (an id that was not given out is in no table), `StopFindsAll` (every timer that
can still fire is in m_active_timers, however often that was pruned: this is
what `cancel_actor_timers()` rests on), `Waited` (the time the thread waits for is that of a
timer in the queue), `Phases` and `Finished` (how far the end of the actor is, and that
none can be entered after it).

**Lifecycle.** `LifeInv` has one part per actor and one per dedicated thread. For an
actor `Born`, `Listed`, `Phase` and `Hooks` tie the creation step, the lists, m_state, the stop
phase and the number of hooks run; for a fast one `Thread`, `Claimed` and `Owned` tie the
thread object, m_join_claimed and the one party that may join; `MainAt` and `Held` say what
the main thread and the reapers hold. Of an actor in `beside` only `Once` (m_started lets
one on_start() through) and `JoinOnce` (m_join_claimed lets one join through) are kept. The first attempt failed for a good reason: the
model let an actor rename itself from a handler while its `on_start()` still ran, which
`activate_after_start()` excludes; `OnWorker` is the correction.

**Shutdown.** The types need `Queued` (what is in a mailbox has been pushed, system_shutdown
only by `shutdown()`) and `Closed` (a closed mailbox stays empty). `EndInv` says which thread
can be at which step (`PlaceOf`: once the workers are joined, `MainAlone`, only
`wait_for_shutdown()` and callers of `stop_actor()` run actors, each as the actor's executor),
that a thread of the system that runs an actor finds it listed and not stopped, with
`on_stop()` still ahead unless the thread itself is past it (`TurnOf`, `Runs`), what is
true of an actor off the list whoever stopped it (`GoneOf`), and how far the end of each actor
is that no caller runs (`EndOf`). It is what makes the final loop of
`wait_for_shutdown()` and a stop that is under way exclude each other. `EarlyTraced` needs
`Traces`: a message that was queued when `shutdown()` began is handled, dead, or in a
mailbox that the third phase has still to look at or has logged (`Lookout`).

**Delivery.** `DeliveryInv` says where each sender is in its call (`SenderInv`), what each
kind of actor never has (`ModeInv`: no stash for an inline actor, nobody in the mutex of a
stateful one), where each message is (`MsgInv`: in exactly one of mailbox, stash, deferred
queue, hand, handled or dead, and there only once it is accepted) and what has become of its
promise (`PromiseInv`). `OrderInv` is the part `SenderOrder` needs: each queue is ordered per
sender, a held message is older than every one of its sender in the mailbox, and a message
of the actor to itself that is in hand is older than the deferred ones. The end of the
system adds states in which nothing moves any more: `MsgInv` promises an empty mailbox after a
stop and not after the loop of `wait_for_shutdown()`. Without the
second clause a release of the stash could overtake. `CountInv` makes the dead-letter
counters the size of the set of dead letters.

**Relay.** `RelayInv` says where each send is (`Places`: mailbox, held, out, reported and dead
exclude each other, a send is held for one peer only, and none is anywhere before its
`tell()`), in which order (`Order`: for each peer, what is out is older than what is held,
and both are older than what is in the mailbox; each of the three is ordered itself), what
the counters are (`Counts`: m_queued_sends is the number held, and the dropped ones
complete the number told), and how far each request is (`Matched`). `PeerOrder` alone says
nothing about what will be sent next, hence `Order`. `Matched` has, beside the life of each request
(`RequestOf`), that no two known requests have one correlation id (`OneEach`), that what arrived
for a request came after it went out (`FromOut`), and that a request whose reply went to another
requester had that one's id and is over (`AnswerOf`, `Gone`). It needs `Unconnected` (without a
connection nothing was sent yet, so that a bind starts with no request out), and the types
need `AtPop` (the thread pops only when there is something to pop, although it decided so
before the flush). Finite cardinalities come from FiniteSetTheorems: a step moves one send
from one set to another.

**Only model-checked**, and why:

* every liveness property (`AllConsumed`, `AllPopped`, `AllSettled`, `StopServiced`,
  `ShutdownCompletes`, `StopReturns`, `DueFires`, `StopEnds`, `WatcherTold`, `ShutdownEnds`,
  `CallAnswered`, `NoneForgotten`, `SendSettles`, `StopServed`): the proof system has no
  fairness reasoning here.

## 5. Findings

**A stop during on_start() is lost.** `stop_actor()` during `on_start()` (run `stop_during_start`). While `on_start()` runs on
the creator's thread the mailbox is unblocked, so the `try_unblock()` of a concurrent
`stop_actor()` - or of one called by `on_start()` itself - fails and leaves the stop to
the executor. `activate_after_start()` then blocks the mailbox and, unlike
`run_actor()`, does not look at `m_stop_phase` again. The actor accepts no messages any
more, is on no queue, and its stop is carried out only by `wait_for_shutdown()`; a
caller with `wait_for_stop` hangs until then. With the stop requested after
`on_start()`, it is carried out (`StopServiced`, run `scheduler`).

**A late stop runs on_stop() twice** (run `stop_in_shutdown`). When `wait_for_shutdown()` has
cleared m_workers_active, a `stop_actor()` on another thread finds no executor and carries out
the stop itself (system.cpp:818-822). Meanwhile the final loop of `wait_for_shutdown()`
(:280-286) runs `on_stop()` of every actor in its snapshot and looks neither at the stop phase
nor at m_stop_executor. So `on_stop()` runs twice, on two threads, and the drain of the late
stop may run handlers after the first one, against system.cpp:859-862 (exactly one fallback
may complete the stop), :275-279 (this thread is the only one touching the actors) and
system.h:391. doc/70_dynamic_removal.md:215 allows the call. `AllStopped` and `StopIsLast` therefore
leave out the actors such a caller runs.

**A stop begun by a worker is abandoned at shutdown** (run `stop_in_shutdown`; TLC stops at
the case above, and reports this one under `tlc -continue -config MCShutdownStop.cfg MCShutdown`). The first
`service_stop()` records the worker in m_stop_executor. If the worker's turn ends while
it drains and the shutdown is requested, the worker exits; `complete_pending_stops()`
then calls `service_stop()` on another thread, which sees a foreign executor and takes
the stop for one that is being carried out. `on_shutdown()` is skipped, the mailbox stays
open and its messages are no dead letters, although the comment at system.cpp:262
says such stops are completed there. The final loop still runs `on_stop()`, which is
why `AllStopped` holds.

**wait_for_shutdown() may wait for ever** (run `shutdown_deadlock`). A handler on one
worker calls `stop_actor()` with `wait_for_stop` for an actor of another worker. It
reads m_shutdown_requested before the flag is set and waits after; the other worker
exits, and `wait_for_shutdown()` joins the waiting worker before it would complete the
stop. system.h:394 promises that the call does not block when waiting would deadlock.

**A fast actor created during start() ends the program** (run `create_during_start`). `start()`
sets m_running first; a fast actor that an `on_start()` of a pooled actor, or another thread, creates
from then on is given its thread by `create()` (system.cpp:454). `start()` assigns a thread to every
listed fast actor all the same (:141), and assignment to a joinable std::thread is
std::terminate(). doc/50_lifecycle_hooks.md:108, doc/70_dynamic_removal.md:300 and
test_on_start_contract.cpp:11 call `create()` from `on_start()` safe. `tlc -continue` also reports the
converse: a pooled actor whose `create()` read m_running (:397) just before `start()` set it, and
which was listed after `start()` copied the list, is never started, while its messages are
accepted.

## 6. Plan

Done: every module of section 2, and the proofs of section 4: all safety, action and
refinement properties of the runs. What remains would need more than this code's own
logic: liveness needs a prover with fairness reasoning, and weak memory another model.

## 7. Not modelled

* The relay's dealer mode, routes, status requests and socket options: they repeat the
  router's queueing over one peer, or only configure libzmq.
* `stop_actor()` with `notify_watchers = false`, and registry lookups, which change no
  more than entries of destroyed actors.
* High-water marks, the queue threshold and its hysteresis, statistics and the user's
  callbacks: they report and steer nothing.
* The polling strategies of fast actors and the spinning of workers, which change no state.
* Fixed strings (a value type without state), logging and formatting, the vendored
  queue, benchmarks, tutorials and tests.
* Weak memory: see the abstractions in section 2.
