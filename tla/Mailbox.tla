------------------------------ MODULE Mailbox ------------------------------
(***************************************************************************)
(* cas::detail::mailbox (source/mailbox.cpp), one atomic access per step.  *)
(*                                                                         *)
(* The stack word m_stack is modelled by m_tag and m_stack: m_tag says     *)
(* whether the word is one of the two sentinels ("blocked", "closed") or a *)
(* list ("open"; the empty list is empty_tag()).  The list is a sequence,  *)
(* newest first.  The owner's two private FIFO caches are m_cache, the two *)
(* atomic counters m_count, both indexed by lane.                          *)
(*                                                                         *)
(* The clients are the ones the code has: any number of producers          *)
(* (actor::enqueue_message and enqueue_call_message), the owner, that runs *)
(* the turn loop of system::run_actor and may close the mailbox as         *)
(* system::service_stop does, and one stop_actor() that tries to unblock.  *)
(* "wake" is the point where a client was told to schedule the owner.      *)
(***************************************************************************)
EXTENDS Integers, Sequences, FiniteSets, SequencesExt

CONSTANTS
    Producers,      \* threads that push
    MaxPush         \* bound: messages each producer pushes

ASSUME ProducersAssumption == IsFiniteSet(Producers)
ASSUME MaxPushAssumption   == MaxPush \in Nat \ {0}

Lanes == {"call", "other"}

\* A message is identified by its producer and the producer's push number.
Message == [from : Producers, seq : 1..MaxPush, lane : Lanes]

VARIABLES
    m_tag,      \* "open", "blocked" or "closed"
    m_stack,    \* the LIFO list, newest first (<<>> unless m_tag = "open")
    m_cache,    \* m_calls and m_others, oldest first; owner only
    m_count,    \* m_call_count and m_other_count
    node,       \* fetch_more(): the part of the taken list not yet split
    batch,      \* fetch_more(): the split part, lane by lane, oldest first
    pc,         \* producer -> step of push()
    sent,       \* producer -> messages it has started to push
    msg,        \* producer -> the message being pushed
    head,       \* producer -> the stack word its next CAS expects
    owner,      \* step of the owner
    queued,     \* how often the owner is on its worker's ready queue
    stopper,    \* step of a stop_actor() call
    drain,      \* what close() still has to drop, in the order it drops it
    landed,     \* history: every message a push put on the stack, in CAS order
    delivered,  \* history: every message pop() returned
    dropped,    \* history: every message close() handed to on_dropped
    rejected    \* history: every message a push handed back

shared == <<m_tag, m_stack, m_count>>
prod   == <<pc, sent, msg, head>>
hist   == <<landed, delivered, dropped, rejected>>
split  == <<node, batch>>
vars   == <<shared, m_cache, split, prod, owner, queued, stopper, drain, hist>>

\* The value of the stack word: a sentinel, or (the address of) the top node.
Word == <<m_tag, IF m_stack = <<>> THEN <<>> ELSE <<Head(m_stack)>> >>
ClosedWord  == <<"closed", <<>> >>
BlockedWord == <<"blocked", <<>> >>
EmptyWord   == <<"open", <<>> >>

\* The messages of lane l in s, in their order.
OfLane(s, l) ==
    LET kept[n \in 0..Len(s)] ==
            IF n = 0 THEN <<>>
            ELSE IF s[n].lane = l THEN Append(kept[n - 1], s[n])
            ELSE kept[n - 1]
    IN  kept[Len(s)]

Init ==
    /\ m_tag = "open"
    /\ m_stack = <<>>
    /\ m_cache = [l \in Lanes |-> <<>>]
    /\ m_count = [l \in Lanes |-> 0]
    /\ node = <<>>
    /\ batch = [l \in Lanes |-> <<>>]
    /\ pc = [p \in Producers |-> "ready"]
    /\ sent = [p \in Producers |-> 0]
    /\ msg = [p \in Producers |-> [from |-> p, seq |-> 1, lane |-> "other"]]
    /\ head = [p \in Producers |-> EmptyWord]
    /\ owner = "loop"
    /\ queued = 0
    /\ stopper = "ready"
    /\ drain = <<>>
    /\ landed = <<>>
    /\ delivered = <<>>
    /\ dropped = {}
    /\ rejected = {}

-----------------------------------------------------------------------------
(* push()                                                                  *)

\* count.fetch_add, before the message is published.
PushCount(p, l) ==
    /\ pc[p] = "ready"
    /\ sent[p] < MaxPush
    /\ sent' = [sent EXCEPT ![p] = @ + 1]
    /\ msg' = [msg EXCEPT ![p] = [from |-> p, seq |-> sent[p] + 1, lane |-> l]]
    /\ m_count' = [m_count EXCEPT ![l] = @ + 1]
    /\ pc' = [pc EXCEPT ![p] = "load"]
    /\ UNCHANGED <<m_tag, m_stack, m_cache, split, head, owner, queued, stopper, drain, hist>>

\* The first load of the word, and the reload of a failed CAS.
PushLoad(p) ==
    /\ \/ pc[p] = "load"
       \/ pc[p] = "cas" /\ head[p] # ClosedWord /\ head[p] # Word
    /\ head' = [head EXCEPT ![p] = Word]
    /\ pc' = [pc EXCEPT ![p] = "cas"]
    /\ UNCHANGED <<shared, m_cache, split, sent, msg, owner, queued, stopper, drain, hist>>

\* The CAS succeeds; the push returns unblocked if the word was wakeWord.
Publish(p, wakeWord) ==
    /\ pc[p] = "cas"
    /\ head[p] = Word
    /\ m_tag' = "open"
    /\ m_stack' = <<msg[p]>> \o m_stack
    /\ landed' = Append(landed, msg[p])
    /\ pc' = [pc EXCEPT ![p] = IF head[p] = wakeWord THEN "wake" ELSE "ready"]
    /\ UNCHANGED <<m_count, m_cache, split, sent, msg, head, owner, queued, stopper,
                   drain, delivered, dropped, rejected>>

\* Slip: the loop does not stop at closed_tag().
PushCasIntoClosed(p) == Publish(p, BlockedWord)

\* Slip: the result is computed from empty_tag() instead of blocked_tag().
PushCasWakesOnEmpty(p) == head[p] # ClosedWord /\ Publish(p, EmptyWord)

\* A push that replaced blocked_tag() returns unblocked, and its caller
\* schedules the owner.
PushCas(p) == head[p] # ClosedWord /\ Publish(p, BlockedWord)

\* The caller keeps msg.
GiveBack(p, uncount) ==
    /\ pc[p] = "cas"
    /\ head[p] = ClosedWord
    /\ m_count' = [m_count EXCEPT ![msg[p].lane] = @ - uncount]
    /\ rejected' = rejected \cup {msg[p]}
    /\ pc' = [pc EXCEPT ![p] = "ready"]
    /\ UNCHANGED <<m_tag, m_stack, m_cache, split, sent, msg, head, owner, queued,
                   stopper, drain, landed, delivered, dropped>>

\* Slip: the count is not taken back.
PushClosedKeepsCount(p) == GiveBack(p, 0)

\* The word was closed_tag(): the count is taken back.
PushClosed(p) == GiveBack(p, 1)

\* Slip: unblocked is taken for success.
PushWakeForgotten(p) ==
    /\ pc[p] = "wake"
    /\ pc' = [pc EXCEPT ![p] = "ready"]
    /\ UNCHANGED <<shared, m_cache, split, sent, msg, head, owner, queued, stopper,
                   drain, hist>>

\* The caller of a push that returned unblocked schedules the owner.
PushWake(p) ==
    /\ pc[p] = "wake"
    /\ pc' = [pc EXCEPT ![p] = "ready"]
    /\ queued' = queued + 1
    /\ UNCHANGED <<shared, m_cache, split, sent, msg, head, owner, stopper, drain, hist>>

-----------------------------------------------------------------------------
(* The owner's turn: has_messages() ? pop() : try_block()                  *)

\* The worker takes the owner from its ready queue and begins a turn.
TurnBegin ==
    /\ owner = "idle"
    /\ queued > 0
    /\ owner' = "loop"
    /\ queued' = queued - 1
    /\ UNCHANGED <<shared, m_cache, split, prod, stopper, drain, hist>>

\* size() reads the two counters one after the other.
LookCalls ==
    /\ owner = "loop"
    /\ owner' = IF m_count["call"] > 0 THEN "pop" ELSE "look"
    /\ UNCHANGED <<shared, m_cache, split, prod, queued, stopper, drain, hist>>

LookOthers ==
    /\ owner = "look"
    /\ owner' = IF m_count["other"] > 0 THEN "pop" ELSE "block"
    /\ UNCHANGED <<shared, m_cache, split, prod, queued, stopper, drain, hist>>

\* Slip: cached ordinary messages are served without looking for new calls.
PopCheckCacheFirst ==
    /\ owner = "pop"
    /\ owner' = IF m_cache["call"] # <<>> \/ m_cache["other"] # <<>> THEN "deliver"
                ELSE IF m_count["call"] > 0 THEN "fetch"
                ELSE "refetch"
    /\ UNCHANGED <<shared, m_cache, split, prod, queued, stopper, drain, hist>>

\* pop(), line 138: is there a call that is not cached yet?
PopCheck ==
    /\ owner = "pop"
    /\ owner' = IF m_cache["call"] # <<>> THEN "deliver"
                ELSE IF m_count["call"] > 0 THEN "fetch"
                ELSE IF m_cache["other"] # <<>> THEN "deliver"
                ELSE "refetch"
    /\ UNCHANGED <<shared, m_cache, split, prod, queued, stopper, drain, hist>>

\* take_head(empty_tag()): the whole stack, in one exchange.
TakeStack ==
    /\ m_tag' = "open"
    /\ m_stack' = <<>>
    /\ node' = m_stack

\* The fetch of line 139, whose result is ignored.
PopFetch ==
    /\ owner = "fetch"
    /\ TakeStack
    /\ owner' = IF m_stack # <<>> THEN "split"
                ELSE IF m_cache["other"] # <<>> THEN "deliver"
                ELSE "refetch"
    /\ UNCHANGED <<m_count, m_cache, batch, prod, queued, stopper, drain, hist>>

\* The fetch of line 141: pop() returns nullptr if it finds nothing.
PopRefetch ==
    /\ owner = "refetch"
    /\ TakeStack
    /\ owner' = IF m_stack # <<>> THEN "split" ELSE "loop"
    /\ UNCHANGED <<m_count, m_cache, batch, prod, queued, stopper, drain, hist>>

\* fetch_more(), the loop: the newest remaining node n goes to lane.
SplitOff(n, lane) ==
    /\ owner = "split"
    /\ node # <<>>
    /\ batch' = [batch EXCEPT ![n.lane] = lane]
    /\ node' = Tail(node)
    /\ UNCHANGED <<shared, m_cache, prod, owner, queued, stopper, drain, hist>>

\* It goes to the front of its lane, which reverses the list lane by lane.
SplitNode ==
    SplitOff(Head(node), <<Head(node)>> \o batch[Head(node).lane])

\* fetch_more(), the two appends.
SplitAppend ==
    /\ owner = "split"
    /\ node = <<>>
    /\ m_cache' = [l \in Lanes |-> m_cache[l] \o batch[l]]
    /\ batch' = [l \in Lanes |-> <<>>]
    /\ owner' = "deliver"
    /\ UNCHANGED <<shared, node, prod, queued, stopper, drain, hist>>

\* Calls first, then other messages.
ServedLane == IF m_cache["call"] # <<>> THEN "call" ELSE "other"

\* Unlink the head of the served cache and return it.
Serve(uncount) ==
    /\ owner = "deliver"
    /\ delivered' = Append(delivered, Head(m_cache[ServedLane]))
    /\ m_cache' = [m_cache EXCEPT ![ServedLane] = Tail(@)]
    /\ m_count' = [m_count EXCEPT ![ServedLane] = @ - uncount]
    /\ owner' = "loop"
    /\ UNCHANGED <<m_tag, m_stack, split, prod, queued, stopper, drain, landed,
                   dropped, rejected>>

PopDeliver == Serve(1)

\* try_block(): fails if a message is cached, else CAS empty -> blocked.  The
\* owner gives up the turn, after one more look for a stop request.
TryBlock ==
    /\ owner = "block"
    /\ \/ /\ m_cache = [l \in Lanes |-> <<>>]
          /\ Word = EmptyWord
          /\ m_tag' = "blocked"
          /\ owner' = "blocked"
       \/ /\ m_cache # [l \in Lanes |-> <<>>] \/ Word # EmptyWord
          /\ owner' = "loop"
          /\ UNCHANGED m_tag
    /\ UNCHANGED <<m_stack, m_count, m_cache, split, prod, queued, stopper, drain, hist>>

\* try_unblock(): CAS blocked -> empty.
TryUnblock(success) ==
    /\ success <=> m_tag = "blocked"
    /\ m_tag' = IF success THEN "open" ELSE m_tag

\* The owner has blocked.  With a stop request pending it tries to take the
\* mailbox back (run_actor line 609); otherwise it leaves the turn.
OwnerLeave ==
    /\ owner = "blocked"
    /\ \/ /\ stopper = "ready"
          /\ owner' = "idle"
          /\ UNCHANGED m_tag
       \/ /\ stopper # "ready"
          /\ \E success \in BOOLEAN :
                /\ TryUnblock(success)
                /\ owner' = IF success THEN "loop" ELSE "idle"
    /\ UNCHANGED <<m_stack, m_count, m_cache, split, prod, queued, stopper, drain, hist>>

\* close(): take_head(closed_tag()), then drain list.
CloseAndDrain(list) ==
    /\ owner = "loop"
    /\ stopper # "ready"
    /\ m_tag' = "closed"
    /\ m_stack' = <<>>
    /\ m_cache' = [l \in Lanes |-> <<>>]
    /\ drain' = list
    /\ owner' = "drain"
    /\ UNCHANGED <<m_count, split, prod, queued, stopper, hist>>

\* Slip: the cached calls are not drained.
CloseForgetsCalls == CloseAndDrain(m_cache["other"] \o m_stack)

\* Cached calls, cached others, then the stack, newest first.
Close == CloseAndDrain(m_cache["call"] \o m_cache["other"] \o m_stack)

\* drain(): decrement, on_dropped, delete.
CloseDrop ==
    /\ owner = "drain"
    /\ drain # <<>>
    /\ m_count' = [m_count EXCEPT ![Head(drain).lane] = @ - 1]
    /\ dropped' = dropped \cup {Head(drain)}
    /\ drain' = Tail(drain)
    /\ UNCHANGED <<m_tag, m_stack, m_cache, split, prod, owner, queued, stopper, landed,
                   delivered, rejected>>

CloseDone ==
    /\ owner = "drain"
    /\ drain = <<>>
    /\ owner' = "closed"
    /\ UNCHANGED <<shared, m_cache, split, prod, queued, stopper, drain, hist>>

-----------------------------------------------------------------------------
(* stop_actor(): publish the request, then try_unblock() and schedule      *)

StopRequest ==
    /\ stopper = "ready"
    /\ stopper' = "requested"
    /\ UNCHANGED <<shared, m_cache, split, prod, owner, queued, drain, hist>>

StopUnblock ==
    /\ stopper = "requested"
    /\ \E success \in BOOLEAN :
          /\ TryUnblock(success)
          /\ stopper' = IF success THEN "wake" ELSE "done"
    /\ UNCHANGED <<m_stack, m_count, m_cache, split, prod, owner, queued, drain, hist>>

StopWake ==
    /\ stopper = "wake"
    /\ stopper' = "done"
    /\ queued' = queued + 1
    /\ UNCHANGED <<shared, m_cache, split, prod, owner, drain, hist>>

-----------------------------------------------------------------------------
Push(p) ==
    \/ \E l \in Lanes : PushCount(p, l)
    \/ PushLoad(p)
    \/ PushCas(p)
    \/ PushClosed(p)
    \/ PushWake(p)

Owner ==
    \/ TurnBegin
    \/ LookCalls
    \/ LookOthers
    \/ PopCheck
    \/ PopFetch
    \/ PopRefetch
    \/ SplitNode
    \/ SplitAppend
    \/ PopDeliver
    \/ TryBlock
    \/ OwnerLeave
    \/ Close
    \/ CloseDrop
    \/ CloseDone

Stop == StopRequest \/ StopUnblock \/ StopWake

Next == (\E p \in Producers : Push(p)) \/ Owner \/ Stop

\* A thread inside push(), in the turn loop or in stop_actor() keeps running;
\* nobody has to start a push, request a stop or close the mailbox.
Fairness ==
    /\ \A p \in Producers :
          WF_vars(PushLoad(p) \/ PushCas(p) \/ PushClosed(p) \/ PushWake(p))
    /\ WF_vars(Owner)
    /\ WF_vars(StopUnblock \/ StopWake)

Spec == Init /\ [][Next]_vars /\ Fairness

-----------------------------------------------------------------------------
(* Properties                                                              *)

Words == {ClosedWord, BlockedWord, EmptyWord} \cup {<<"open", <<m>> >> : m \in Message}

MailboxType ==
    /\ m_tag \in {"open", "blocked", "closed"}
    /\ m_stack \in Seq(Message)
    /\ m_cache \in [Lanes -> Seq(Message)]
    /\ m_count \in [Lanes -> Int]
    /\ node \in Seq(Message)
    /\ batch \in [Lanes -> Seq(Message)]

ProducerType ==
    /\ pc \in [Producers -> {"ready", "load", "cas", "wake"}]
    /\ sent \in [Producers -> 0..MaxPush]
    /\ msg \in [Producers -> Message]
    /\ head \in [Producers -> Words]

OwnerType ==
    /\ owner \in {"loop", "look", "pop", "fetch", "refetch", "split", "deliver",
                  "block", "blocked", "idle", "drain", "closed"}
    /\ queued \in Nat
    /\ stopper \in {"ready", "requested", "wake", "done"}
    /\ drain \in Seq(Message)

HistoryType ==
    /\ landed \in Seq(Message)
    /\ delivered \in Seq(Message)
    /\ dropped \subseteq Message
    /\ rejected \subseteq Message

\* Every variable has its type; in particular the word a push expects in its CAS
\* is a sentinel or the top of a list, never a list under a sentinel.
TypeOK == MailboxType /\ ProducerType /\ OwnerType /\ HistoryType

\* Somebody was told to schedule the owner and has not done it yet.
Waking == stopper = "wake" \/ \E p \in Producers : pc[p] = "wake"

\* The owner gave up its turn (or is about to return from it).
Resting == owner \in {"blocked", "idle"}

\* The right to run the owner exists exactly once (what run_actor, schedule()
\* and the intrusive ready queue rely on): the owner is in its turn, or the
\* mailbox is blocked, or one client is about to schedule the owner, or the
\* owner is queued.  So it is never queued twice, and never forgotten.
OneTurn ==
    /\ m_tag = "blocked" => Resting
    /\ queued + (IF Waking THEN 1 ELSE 0) = IF Resting /\ m_tag # "blocked" THEN 1 ELSE 0
    /\ \A p, q \in Producers : pc[p] = "wake" /\ pc[q] = "wake" => p = q
    /\ stopper = "wake" => \A p \in Producers : pc[p] # "wake"

InPush(l) == {p \in Producers : pc[p] \in {"load", "cas"} /\ msg[p].lane = l}

\* Each counter is the number of messages in its lane plus the pushes that have
\* counted and not yet published (mailbox.cpp:58): it is never below the
\* contents, so has_messages() never overlooks a message and the size_t never
\* wraps below zero.
CountExact ==
    \A l \in Lanes :
        m_count[l] = Len(m_cache[l]) + Len(OfLane(node, l)) + Len(batch[l])
                     + Len(OfLane(m_stack, l)) + Len(OfLane(drain, l))
                     + Cardinality(InPush(l))

\* What the owner has taken of a lane, oldest first, finished splitting or not.
Taken(l) == m_cache[l] \o OfLane(Reverse(node), l) \o batch[l]

\* Closing loses nothing: once close() has returned every message that ever
\* landed was delivered or dropped, never both, never twice; and a message was
\* handed back to its sender only if it never landed.
ClosedAccounting ==
    /\ rejected \cap ToSet(landed) = {}
    /\ dropped \cap ToSet(delivered) = {}
    /\ owner = "closed" => /\ ToSet(landed) = ToSet(delivered) \cup dropped
                           /\ Len(landed) = Len(delivered) + Cardinality(dropped)

\* A closed mailbox stays closed: nothing lands in it and nothing is popped
\* from it again (the guarantee service_stop() needs, system.cpp:897).
ClosedIsFinal ==
    [][m_tag = "closed" => m_tag' = "closed" /\ landed' = landed
                           /\ delivered' = delivered]_vars

\* Every message that landed is eventually delivered or dropped: again and again
\* none is left waiting, so none waits for ever in a mailbox whose owner went
\* idle (pushes are bounded, and what was consumed stays consumed).
AllConsumed == []<>(ToSet(landed) = ToSet(delivered) \cup dropped)

-----------------------------------------------------------------------------
(* Refinement                                                              *)

\* pop() takes effect when it has decided to serve what it has taken: from there
\* on the message it will return is no longer queued.
Serving   == owner \in {"split", "deliver"}
AbsServed == IF Taken("call") # <<>> THEN "call" ELSE "other"

AbsQueue ==
    [l \in Lanes |->
        (IF Serving /\ l = AbsServed THEN Tail(Taken(l)) ELSE Taken(l))
        \o OfLane(Reverse(m_stack), l)]

AbsGot == IF Serving THEN Append(delivered, Head(Taken(AbsServed))) ELSE delivered

AbsTurn == IF m_tag = "blocked" THEN "idle"
           ELSE IF Resting THEN "granted"
           ELSE "active"

Abs == INSTANCE MailboxAbs WITH
    queue   <- AbsQueue,
    open    <- m_tag # "closed",
    turn    <- AbsTurn,
    got     <- AbsGot,
    refused <- rejected \cup dropped \cup ToSet(drain)

\* The lock-free mailbox implements the two-lane queue: in particular a pop
\* that serves an ordinary message took effect when no call was queued
\* (mailbox.cpp:134), and the owner goes idle only when nothing is queued.
ImplementsAbs == Abs!ASpec
=============================================================================
