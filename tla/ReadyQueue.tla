----------------------------- MODULE ReadyQueue -----------------------------
(***************************************************************************)
(* cas::detail::ready_queue (source/ready_queue.cpp), pointer by pointer:  *)
(* a lock-free stack that many threads push on, and the FIFO cache of the  *)
(* one worker that pops.  The queue is intrusive - the link of an entry    *)
(* and the reference that keeps it alive are fields of the actor - so an   *)
(* actor may be on it only once.  That is the precondition of Push here;   *)
(* invariant OnePlace of module Scheduler shows that schedule() meets it.  *)
(***************************************************************************)
EXTENDS Integers, Sequences, FiniteSets, SequencesExt

CONSTANTS
    Actors,     \* actors pinned to this worker
    Pushers,    \* threads in schedule(), the worker's own push included
    NoActor     \* nullptr

ASSUME ActorsAssumption == IsFiniteSet(Actors) /\ NoActor \notin Actors

Pointer == Actors \cup {NoActor}

VARIABLES
    m_stack,        \* the newest actor pushed, or nullptr
    m_head, m_tail, \* the worker's cache, oldest first
    m_ready_next,   \* actor -> its link
    m_ready_self,   \* actors that hold a reference to themselves
    pc,             \* pusher -> step of push()
    item,           \* pusher -> the actor it pushes
    head,           \* pusher -> the word its next CAS expects
    worker,         \* step of the worker
    node, first, last,  \* locals of fetch_more()
    got,            \* what the last pop() returned
    saw             \* what the last maybe_nonempty() returned

cache  == <<m_head, m_tail>>
pushes == <<pc, item, head>>
locals == <<node, first, last>>
vars   == <<m_stack, cache, m_ready_next, m_ready_self, pushes, worker, locals, got, saw>>

Init ==
    /\ m_stack = NoActor
    /\ m_head = NoActor /\ m_tail = NoActor
    /\ m_ready_next = [a \in Actors |-> NoActor]
    /\ m_ready_self = {}
    /\ pc = [p \in Pushers |-> "ready"]
    /\ item = [p \in Pushers |-> NoActor]
    /\ head = [p \in Pushers |-> NoActor]
    /\ worker = "idle"
    /\ node = NoActor /\ first = NoActor /\ last = NoActor
    /\ got = NoActor
    /\ saw = FALSE

-----------------------------------------------------------------------------
(* push()                                                                  *)

\* The actor takes a reference to itself, then the stack word is loaded.
PushBegin(p, a) ==
    /\ pc[p] = "ready"
    /\ a \notin m_ready_self
    /\ m_ready_self' = m_ready_self \cup {a}
    /\ item' = [item EXCEPT ![p] = a]
    /\ pc' = [pc EXCEPT ![p] = "load"]
    /\ UNCHANGED <<m_stack, cache, m_ready_next, head, worker, locals, got, saw>>

\* The load (or the reload of a failed CAS) and the link to what it found.
PushLink(p) ==
    /\ \/ pc[p] = "load"
       \/ pc[p] = "cas" /\ head[p] # m_stack
    /\ head' = [head EXCEPT ![p] = m_stack]
    /\ m_ready_next' = [m_ready_next EXCEPT ![item[p]] = m_stack]
    /\ pc' = [pc EXCEPT ![p] = "cas"]
    /\ UNCHANGED <<m_stack, cache, m_ready_self, item, worker, locals, got, saw>>

\* The actor becomes the top of the stack.
Publish(p) ==
    /\ pc[p] = "cas"
    /\ m_stack' = item[p]
    /\ pc' = [pc EXCEPT ![p] = "ready"]
    /\ item' = [item EXCEPT ![p] = NoActor]
    /\ head' = [head EXCEPT ![p] = NoActor]
    /\ UNCHANGED <<cache, m_ready_next, m_ready_self, worker, locals, got, saw>>

\* Slip: a store instead of the CAS.
PushCasBlind(p) == Publish(p)

\* The CAS compares pointers: the word may have changed and changed back.
PushCas(p) == head[p] = m_stack /\ Publish(p)

-----------------------------------------------------------------------------
(* pop() and maybe_nonempty(), on the worker                               *)

\* pop() finds the cache empty: fetch_more() takes the whole stack.
Fetch ==
    /\ worker = "idle"
    /\ m_head = NoActor
    /\ m_stack' = NoActor
    /\ \/ /\ m_stack = NoActor
          /\ got' = NoActor
          /\ UNCHANGED <<worker, node, last>>
       \/ /\ m_stack # NoActor
          /\ node' = m_stack
          /\ last' = m_stack
          /\ worker' = "fetch"
          /\ UNCHANGED got
    /\ UNCHANGED <<cache, m_ready_next, m_ready_self, pushes, first, saw>>

\* Slip: the links keep their direction.
FetchNodeKeepsOrder ==
    /\ worker = "fetch"
    /\ node # NoActor
    /\ first' = IF first = NoActor THEN node ELSE first
    /\ node' = m_ready_next[node]
    /\ UNCHANGED <<m_stack, cache, m_ready_next, m_ready_self, pushes, worker, last, got, saw>>

\* One turn of the loop that reverses the list.
FetchNode ==
    /\ worker = "fetch"
    /\ node # NoActor
    /\ node' = m_ready_next[node]
    /\ m_ready_next' = [m_ready_next EXCEPT ![node] = first]
    /\ first' = node
    /\ UNCHANGED <<m_stack, cache, m_ready_self, pushes, worker, last, got, saw>>

\* The list is appended to the cache.
FetchAppend ==
    /\ worker = "fetch"
    /\ node = NoActor
    /\ IF m_tail = NoActor
       THEN m_head' = first /\ UNCHANGED m_ready_next
       ELSE m_ready_next' = [m_ready_next EXCEPT ![m_tail] = first] /\ UNCHANGED m_head
    /\ m_tail' = last
    /\ first' = NoActor
    /\ last' = NoActor
    /\ worker' = "serve"
    /\ UNCHANGED <<m_stack, m_ready_self, pushes, node, got, saw>>

\* Unlink the oldest entry and return its reference; the tail becomes emptied
\* if that was the only entry.
Unlink(emptied) ==
    /\ worker \in {"idle", "serve"}
    /\ m_head # NoActor
    /\ m_head' = m_ready_next[m_head]
    /\ m_tail' = IF m_head' = NoActor THEN emptied ELSE m_tail
    /\ m_ready_next' = [m_ready_next EXCEPT ![m_head] = NoActor]
    /\ m_ready_self' = m_ready_self \ {m_head}
    /\ got' = m_head
    /\ worker' = "idle"
    /\ UNCHANGED <<m_stack, pushes, locals, saw>>

\* Slip: the tail is not reset when the cache becomes empty.
PopKeepsTail == Unlink(m_tail)

Pop == Unlink(NoActor)

\* maybe_nonempty(), the worker's predicate for spinning and parking.
MaybeNonempty ==
    /\ worker = "idle"
    /\ saw' = (m_head # NoActor \/ m_stack # NoActor)
    /\ UNCHANGED <<m_stack, cache, m_ready_next, m_ready_self, pushes, worker, locals, got>>

-----------------------------------------------------------------------------
Push(p) == (\E a \in Actors : PushBegin(p, a)) \/ PushLink(p) \/ PushCas(p)

Work == Fetch \/ FetchNode \/ FetchAppend \/ Pop

Next == (\E p \in Pushers : Push(p)) \/ Work \/ MaybeNonempty

\* The worker keeps calling pop(); nobody has to push.
Spec == Init /\ [][Next]_vars /\ WF_vars(Work)

-----------------------------------------------------------------------------
(* Properties                                                              *)

\* Every variable has its type, and the worker never follows a null link: when
\* it serves an entry it has one.
TypeOK ==
    /\ {m_stack, m_head, m_tail, node, first, last, got} \subseteq Pointer
    /\ m_ready_next \in [Actors -> Pointer]
    /\ m_ready_self \subseteq Actors
    /\ pc \in [Pushers -> {"ready", "load", "cas"}]
    /\ item \in [Pushers -> Pointer]
    /\ head \in [Pushers -> Pointer]
    /\ \A p \in Pushers : pc[p] # "ready" => item[p] # NoActor
    /\ worker \in {"idle", "fetch", "serve"}
    /\ worker = "serve" => m_head # NoActor
    /\ saw \in BOOLEAN

\* The actors on a linked list, first to last (a cycle is cut off).
Chain(a) ==
    LET walk[n \in 0..Cardinality(Actors)] ==
            [b \in Pointer |-> IF b = NoActor \/ n = 0 THEN <<>>
                               ELSE <<b>> \o walk[n - 1][m_ready_next[b]]]
    IN  walk[Cardinality(Actors)][a]

\* What is queued, oldest first: the cache, the part of a fetched list still to
\* be reversed, the reversed part, the stack.
Queued ==
    Chain(m_head) \o Reverse(Chain(node)) \o Chain(first) \o Reverse(Chain(m_stack))

Pushing == {item[p] : p \in {q \in Pushers : pc[q] # "ready"}}

\* An actor keeps itself alive exactly while a thread pushes it or it is linked
\* in: no link ever leads to an actor that may be destroyed, and no actor is
\* leaked by a reference nobody will drop (ready_queue.cpp:17, 58).
SelfHeld ==
    /\ m_ready_self = Pushing \cup ToSet(Queued)
    /\ Pushing \cap ToSet(Queued) = {}
    /\ IsInjective(Queued)

Fifo == INSTANCE ReadyFifo WITH queue <- Queued

\* The lock-free queue is a FIFO: entries come out in the order their CAS put
\* them in, pop() says "empty" and maybe_nonempty() "no" only when it is empty.
ImplementsFifo == Fifo!FSpec

\* An actor that is on the queue gets its turn.
AllPopped == \A a \in Actors : a \in m_ready_self \ Pushing ~> a \notin m_ready_self
=============================================================================
