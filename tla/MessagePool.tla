---------------------------- MODULE MessagePool ----------------------------
(***************************************************************************)
(* The pool messages are allocated from: per thread a private cache of     *)
(* free blocks, behind the caches one shared free list with a counter that *)
(* limits it.  A message is usually allocated by its sender's thread and   *)
(* freed by the receiver's, so blocks travel from cache to cache in        *)
(* batches; a thread that exits hands its cache back and from then on uses *)
(* the shared list directly.                                               *)
(*                                                                         *)
(* One size class: the classes share nothing but the limit, and the size   *)
(* stored in front of a message leads its delete to the class of its new.  *)
(* Blocks are addresses.  The order within a cache and within the shared   *)
(* list is left open, and so is how many blocks try_dequeue_bulk() finds.  *)
(***************************************************************************)
EXTENDS Naturals, FiniteSets

CONSTANTS
    Threads,
    Blocks,     \* addresses the heap can return
    Capacity,   \* k_cache_capacity
    Batch,      \* k_transfer_batch
    Limits,     \* values of set_max_pool_size(); 0 is no limit
    Header      \* HEADER_OVERHEAD: sizeof(size_t) padded to the alignment

\* What the code's constants satisfy.
PoolConstants ==
    /\ IsFiniteSet(Blocks)
    /\ Capacity \in Nat /\ Batch \in 1..Capacity
    /\ Limits \subseteq Nat
    /\ Header \in 1..63

----------------------------------------------------------------------------
(* Size classes: the one a block comes from, and what message_pool.h tells  *)
(* the author of a message                                                  *)

SizeClasses   == <<64, 128, 256, 512, 1024>>
MaxPooledSize == 1024
None          == 6

\* The loop of size_class_index() stops at i (counted from 1; None: at no class).
StopsAt(size, i) ==
    /\ i # None => size <= SizeClasses[i]
    /\ \A j \in 1..5 : j < i => size > SizeClasses[j]

SizeClassIndex(size) == CHOOSE i \in 1..6 : StopsAt(size, i)

\* The class allocate() takes a block from for a message of this size, with its
\* header; 0 when it goes to the heap.
ClassOf(payload) ==
    IF Header + payload > MaxPooledSize THEN 0
    ELSE SizeClasses[SizeClassIndex(Header + payload)]

SizeClassForPayload(payload) ==
    CASE payload + Header > MaxPooledSize -> 0
      [] payload + Header <= 64 -> 64
      [] payload + Header > 64 /\ payload + Header <= 128 -> 128
      [] payload + Header > 128 /\ payload + Header <= 256 -> 256
      [] payload + Header > 256 /\ payload + Header <= 512 -> 512
      [] payload + Header > 512 /\ payload + Header <= 1024 -> 1024

MaxPayloadForClass(class) == IF class > Header THEN class - Header ELSE 0

----------------------------------------------------------------------------
(* The pool of one class *)

VARIABLES
    heap,       \* blocks the pool does not have
    user,       \* blocks handed out by allocate()
    large,      \* oversized allocations, which bypass the pool
    shared,     \* free_blocks
    count,      \* blocks in free_blocks, for the limit
    limit,      \* max_blocks_per_class
    t_cache,    \* thread -> its class_cache
    released,   \* the threads whose t_cache_released is set
    phase,      \* thread -> where it is in allocate() or release_to_shared()
    moving,     \* thread -> blocks on their way to or from the shared list
    kept,       \* thread -> those of them there is room for
    seen,       \* thread -> the limit it read
    hand        \* thread -> the block deallocate() is still to store

sharedVars == <<heap, user, large, shared, count, limit>>
threadVars == <<t_cache, released, phase, moving, kept, seen, hand>>
poolVars   == <<sharedVars, threadVars>>

PoolInit ==
    /\ heap = Blocks /\ user = {} /\ large = {}
    /\ shared = {} /\ count = 0 /\ limit \in Limits
    /\ t_cache = [t \in Threads |-> {}] /\ released = {}
    /\ phase = [t \in Threads |-> "idle"]
    /\ moving = [t \in Threads |-> {}] /\ kept = [t \in Threads |-> {}]
    /\ seen = [t \in Threads |-> limit]
    /\ hand = [t \in Threads |-> {}]

----------------------------------------------------------------------------
(* allocate() *)

\* A hit in the thread's own cache.
AllocateCached(t, b) ==
    /\ phase[t] = "idle" /\ b \in t_cache[t]
    /\ t_cache' = [t_cache EXCEPT ![t] = @ \ {b}]
    /\ user' = user \cup {b}
    /\ UNCHANGED <<heap, large, shared, count, limit, released, phase, moving, kept, seen, hand>>

\* The cache is empty: up to a batch is dequeued, or one block by a thread
\* that has no cache any more.
Refill(t, S) ==
    /\ phase[t] = "idle" /\ t_cache[t] = {}
    /\ S \subseteq shared
    /\ Cardinality(S) <= IF t \in released THEN 1 ELSE Batch
    /\ shared' = shared \ S
    /\ moving' = [moving EXCEPT ![t] = S]
    /\ phase' = [phase EXCEPT ![t] = "refill"]
    /\ UNCHANGED <<heap, user, large, count, limit, t_cache, released, kept, seen, hand>>

\* The count follows; one of the blocks is handed out.
RefillDone(t, b) ==
    /\ phase[t] = "refill" /\ b \in moving[t]
    /\ count' = count - Cardinality(moving[t])
    /\ user' = user \cup {b}
    /\ t_cache' = [t_cache EXCEPT ![t] = moving[t] \ {b}]
    /\ moving' = [moving EXCEPT ![t] = {}]
    /\ phase' = [phase EXCEPT ![t] = "idle"]
    /\ UNCHANGED <<heap, large, shared, limit, released, kept, seen, hand>>

\* Nothing was found: a new block from the heap.
AllocateNew(t, b) ==
    /\ phase[t] = "refill" /\ moving[t] = {} /\ b \in heap
    /\ heap' = heap \ {b}
    /\ user' = user \cup {b}
    /\ phase' = [phase EXCEPT ![t] = "idle"]
    /\ UNCHANGED <<large, shared, count, limit, t_cache, released, moving, kept, seen, hand>>

\* More than MAX_POOLED_SIZE.
AllocateLarge(t, b) ==
    /\ phase[t] = "idle" /\ b \in heap
    /\ heap' = heap \ {b} /\ large' = large \cup {b}
    /\ UNCHANGED <<user, shared, count, limit, threadVars>>

DeallocateLarge(t, b) ==
    /\ phase[t] = "idle" /\ b \in large
    /\ large' = large \ {b} /\ heap' = heap \cup {b}
    /\ UNCHANGED <<user, shared, count, limit, threadVars>>

----------------------------------------------------------------------------
(* deallocate(), on whatever thread the message ends *)

\* Into the cache.
Deallocate(t, b) ==
    /\ phase[t] = "idle" /\ b \in user /\ t \notin released
    /\ Cardinality(t_cache[t]) # Capacity
    /\ user' = user \ {b}
    /\ t_cache' = [t_cache EXCEPT ![t] = @ \cup {b}]
    /\ UNCHANGED <<heap, large, shared, count, limit, released, phase, moving, kept, seen, hand>>

\* A full cache flushes a batch first.
Flush(t, b, S) ==
    /\ phase[t] = "idle" /\ b \in user /\ t \notin released
    /\ Cardinality(t_cache[t]) = Capacity
    /\ S \subseteq t_cache[t] /\ Cardinality(S) = Batch
    /\ user' = user \ {b}
    /\ hand' = [hand EXCEPT ![t] = {b}]
    /\ t_cache' = [t_cache EXCEPT ![t] = @ \ S]
    /\ moving' = [moving EXCEPT ![t] = S]
    /\ phase' = [phase EXCEPT ![t] = "limit"]
    /\ UNCHANGED <<heap, large, shared, count, limit, released, kept, seen>>

Store(t) ==
    /\ phase[t] = "store"
    /\ t_cache' = [t_cache EXCEPT ![t] = @ \cup hand[t]]
    /\ hand' = [hand EXCEPT ![t] = {}]
    /\ phase' = [phase EXCEPT ![t] = "idle"]
    /\ UNCHANGED <<sharedVars, released, moving, kept, seen>>

\* A thread that is exiting has no cache.
DeallocateShared(t, b) ==
    /\ phase[t] = "idle" /\ b \in user /\ t \in released
    /\ user' = user \ {b}
    /\ moving' = [moving EXCEPT ![t] = {b}]
    /\ phase' = [phase EXCEPT ![t] = "limit"]
    /\ UNCHANGED <<heap, large, shared, count, limit, t_cache, released, kept, seen, hand>>

\* ~thread_cache_release(): marked before the cache is handed back.
ThreadExit(t) ==
    /\ phase[t] = "idle" /\ t \notin released
    /\ released' = released \cup {t}
    /\ moving' = [moving EXCEPT ![t] = t_cache[t]]
    /\ t_cache' = [t_cache EXCEPT ![t] = {}]
    /\ phase' = [phase EXCEPT ![t] = IF t_cache[t] = {} THEN "idle" ELSE "limit"]
    /\ UNCHANGED <<sharedVars, kept, seen, hand>>

\* prewarm(): a batch of new blocks goes to the shared list.
Prewarm(t, S) ==
    /\ phase[t] = "idle"
    /\ S \subseteq heap /\ S # {} /\ Cardinality(S) <= Batch
    /\ heap' = heap \ S
    /\ moving' = [moving EXCEPT ![t] = S]
    /\ phase' = [phase EXCEPT ![t] = "limit"]
    /\ UNCHANGED <<user, large, shared, count, limit, t_cache, released, kept, seen, hand>>

SetMaxPoolSize(l) ==
    /\ limit' = l
    /\ UNCHANGED <<heap, user, large, shared, count, threadVars>>

----------------------------------------------------------------------------
(* release_to_shared() *)

ReadLimit(t) ==
    /\ phase[t] = "limit"
    /\ seen' = [seen EXCEPT ![t] = limit]
    /\ phase' = [phase EXCEPT ![t] = "reserve"]
    /\ UNCHANGED <<sharedVars, t_cache, released, moving, kept, hand>>

\* How many of n blocks there is room for, given the count before they were added.
Keep(max, previous, n) ==
    IF max > 0 /\ previous + n > max
    THEN IF previous >= max THEN 0 ELSE max - previous
    ELSE n

\* All are counted, then the surplus K leaves out is given up.
Reserve(t, K) ==
    LET n == Cardinality(moving[t]) IN
    /\ phase[t] = "reserve"
    /\ K \subseteq moving[t] /\ Cardinality(K) = Keep(seen[t], count, n)
    /\ count' = count + n
    /\ kept' = [kept EXCEPT ![t] = K]
    /\ phase' = [phase EXCEPT ![t] = IF K = moving[t] THEN "enqueue" ELSE "surplus"]
    /\ UNCHANGED <<heap, user, large, shared, limit, t_cache, released, moving, seen, hand>>

Returned(t) == IF hand[t] = {} THEN "idle" ELSE "store"

Surplus(t) ==
    LET surplus == moving[t] \ kept[t] IN
    /\ phase[t] = "surplus"
    /\ count' = count - Cardinality(surplus)
    /\ heap' = heap \cup surplus
    /\ moving' = [moving EXCEPT ![t] = kept[t]]
    /\ phase' = [phase EXCEPT ![t] = IF kept[t] = {} THEN Returned(t) ELSE "enqueue"]
    /\ UNCHANGED <<user, large, shared, limit, t_cache, released, kept, seen, hand>>

Enqueue(t) ==
    /\ phase[t] = "enqueue"
    /\ shared' = shared \cup moving[t]
    /\ moving' = [moving EXCEPT ![t] = {}]
    /\ kept' = [kept EXCEPT ![t] = {}]
    /\ phase' = [phase EXCEPT ![t] = Returned(t)]
    /\ UNCHANGED <<heap, user, large, count, limit, t_cache, released, seen, hand>>

\* enqueue_bulk() could not grow the queue.
EnqueueFails(t) ==
    /\ phase[t] = "enqueue"
    /\ count' = count - Cardinality(moving[t])
    /\ heap' = heap \cup moving[t]
    /\ moving' = [moving EXCEPT ![t] = {}]
    /\ kept' = [kept EXCEPT ![t] = {}]
    /\ phase' = [phase EXCEPT ![t] = Returned(t)]
    /\ UNCHANGED <<user, large, shared, limit, t_cache, released, seen, hand>>

----------------------------------------------------------------------------
OfBlock(t, b) ==
    \/ AllocateCached(t, b) \/ RefillDone(t, b) \/ AllocateNew(t, b)
    \/ AllocateLarge(t, b) \/ DeallocateLarge(t, b)
    \/ Deallocate(t, b) \/ DeallocateShared(t, b)

OfBlocks(t, S) ==
    \/ Refill(t, S) \/ Prewarm(t, S) \/ Reserve(t, S)
    \/ \E b \in Blocks : Flush(t, b, S)

OfThread(t) ==
    \/ Store(t) \/ ThreadExit(t) \/ ReadLimit(t)
    \/ Surplus(t) \/ Enqueue(t) \/ EnqueueFails(t)

PoolNext ==
    \/ \E t \in Threads :
          \/ \E b \in Blocks : OfBlock(t, b)
          \/ \E S \in SUBSET Blocks : OfBlocks(t, S)
          \/ OfThread(t)
    \/ \E l \in Limits : SetMaxPoolSize(l)

PoolSpec == PoolInit /\ [][PoolNext]_poolVars

----------------------------------------------------------------------------
(* Properties *)

\* The blocks, limits and program counters are in their places.
PlaceType ==
    /\ heap \subseteq Blocks /\ user \subseteq Blocks /\ large \subseteq Blocks
    /\ shared \subseteq Blocks
    /\ limit \in Limits
    /\ t_cache \in [Threads -> SUBSET Blocks] /\ moving \in [Threads -> SUBSET Blocks]
    /\ kept \in [Threads -> SUBSET Blocks] /\ hand \in [Threads -> SUBSET Blocks]
    /\ released \subseteq Threads
    /\ seen \in [Threads -> Limits]
    /\ phase \in [Threads -> {"idle", "refill", "limit", "reserve", "surplus", "enqueue", "store"}]

\* Every variable has its type.
PoolTypeOK == PlaceType /\ count \in Nat

\* The blocks only thread t can reach.
Own(t) == t_cache[t] \cup moving[t] \cup hand[t]

\* A block is never handed to two owners and never lost: it is with the heap,
\* with a user, on the shared list or with one thread, in one place.
OneHolder ==
    /\ heap \cap (user \cup large \cup shared) = {}
    /\ user \cap (large \cup shared) = {} /\ large \cap shared = {}
    /\ \A t \in Threads :
          /\ Own(t) \cap (heap \cup user \cup large \cup shared) = {}
          /\ t_cache[t] \cap (moving[t] \cup hand[t]) = {} /\ moving[t] \cap hand[t] = {}
          /\ \A u \in Threads \ {t} : Own(t) \cap Own(u) = {}
    /\ \A b \in Blocks :
          b \in heap \cup user \cup large \cup shared \/ \E t \in Threads : b \in Own(t)

\* The count is raised before blocks are enqueued and lowered after they are
\* dequeued, so that it never falls short of the list or below zero.
CountCovers == count \in Nat /\ Cardinality(shared) <= count

\* However releases interleave, the shared list stays within the largest limit
\* that was ever set, unless there was none at some time.
Capped ==
    \A m \in Nat : (\A l \in Limits : l \in 1..m) => Cardinality(shared) <= m

\* message_pool.h computes at compile time the class a message really lands in,
\* and the largest message of a class: one byte more and it leaves the class.
ClassesAgree ==
    /\ \A payload \in Nat : SizeClassForPayload(payload) = ClassOf(payload)
    /\ \A i \in 1..5 :
          /\ ClassOf(MaxPayloadForClass(SizeClasses[i])) = SizeClasses[i]
          /\ ClassOf(MaxPayloadForClass(SizeClasses[i]) + 1) # SizeClasses[i]

\* A cache never holds more than its array, and a thread that has given up its
\* cache leaves nothing behind in it.
CacheBound ==
    \A t \in Threads :
        /\ Cardinality(t_cache[t]) <= Capacity
        /\ t \in released => t_cache[t] = {}
=============================================================================
