------------------------------ MODULE Delivery ------------------------------
(***************************************************************************)
(* What becomes of the messages and calls sent to one actor that does not  *)
(* simply consume its mailbox: a stateful actor, which holds back what its *)
(* filter does not accept, or an inline actor, which handles a message on  *)
(* its sender's thread.  tell(), call() with and without a timeout,        *)
(* handlers that change the filter, throw, stop their actor, send to it or *)
(* call it, stop_actor() at any time, the end of the system, dead letters  *)
(* and broken promises.                                                    *)
(*                                                                         *)
(* Each sender works through a script.  The mailbox is the abstract one of *)
(* MailboxAbs: two lanes, calls first, and closed in the end.              *)
(***************************************************************************)
EXTENDS Naturals, Sequences, FiniteSets, SequencesExt, FiniteSetsExt

CONSTANTS
    Kinds,      \* kinds of actor to look at: "stateful", "inline"
    Senders,    \* threads
    Role,       \* sender -> for each entry of its script, what it is sent from: see Roles
    Script,     \* sender -> sequence of message types, "call" and "timed" calls
    Types,      \* message types
    MaxSelf,    \* bound: messages the inline actor sends itself
    NoSender

\* A client; a handler, or an on_start(), of another actor on the actor's worker;
\* a handler of the actor itself, or of an inline actor that such a handler sent
\* to, in the middle of it.
Roles == {"client", "worker", "on_start", "self", "nested"}

ASSUME DeliveryAssumption ==
    /\ Kinds \subseteq {"stateful", "inline"}
    /\ Script \in [Senders -> Seq(Types \cup {"call", "timed"})]
    /\ {"call", "timed"} \cap Types = {} /\ Types # {}
    /\ Role \in [Senders -> Seq(Roles)]
    /\ \A c \in Senders : /\ Len(Role[c]) = Len(Script[c])
                          /\ \A i \in DOMAIN Script[c] : Role[c][i] \in {"self", "nested"}
                                                         => Script[c][i] \in {"call", "timed"}
    /\ MaxSelf \in Nat /\ NoSender \notin Senders

Sent    == UNION {{<<c, i>> : i \in DOMAIN Script[c]} : c \in Senders}
SelfMsg == {<<NoSender, i>> : i \in 1..MaxSelf}
Msgs    == Sent \cup SelfMsg

TypeOf(m) == IF m \in SelfMsg THEN CHOOSE t \in Types : TRUE ELSE Script[m[1]][m[2]]
RoleOf(m) == Role[m[1]][m[2]]
IsCall(m) == TypeOf(m) \in {"call", "timed"}
Calls     == {m \in Sent : IsCall(m)}

VARIABLES
    kind,
    m_state,            \* "running"; "stopping" and "stopped" by stop_actor(), "draining" by
                        \* system_shutdown and "ended" by wait_for_shutdown()
    m_stop_discard,     \* the stop requested is in discard mode
    m_stop_entered,     \* service_stop() has been entered
    m_workers_active,
    pc, next,           \* sender -> where it is, and how much of its script is done
    promise,            \* call -> "pending", "value", "error", "broken"
    calls, others,      \* the lanes of the mailbox
    opc,                \* where the thread of a stateful actor is
    m_held, m_accept_all, m_accepted, m_acceptable_count,
    m_dispatching,      \* sender whose thread runs the inline actor, under its mutex
    current,            \* the message it handles
    m_deferred, selfs,  \* what the actor sent itself meanwhile, and how many so far
    m_dead_letter_tell, m_dead_letter_ask,
    handled, dead,      \* history
    refused             \* history: calls that were not allowed

stopV == <<m_state, m_stop_discard, m_stop_entered, m_workers_active>>
mailV == <<calls, others>>
filtV == <<m_accept_all, m_accepted>>
stash == <<m_held, m_acceptable_count>>
turn  == <<m_dispatching, current, m_deferred, selfs>>
deadV == <<m_dead_letter_tell, m_dead_letter_ask, dead>>
vars  == <<kind, stopV, pc, next, promise, mailV, opc, filtV, stash, turn, deadV, handled, refused>>

Init ==
    /\ kind \in Kinds
    /\ m_state = "running" /\ m_stop_discard = FALSE /\ m_stop_entered = FALSE
    /\ m_workers_active = TRUE
    /\ pc = [c \in Senders |-> "idle"] /\ next = [c \in Senders |-> 1]
    /\ promise = [m \in Calls |-> "pending"]
    /\ calls = <<>> /\ others = <<>> /\ opc = "top"
    /\ m_held = <<>> /\ m_accept_all = TRUE /\ m_accepted = {} /\ m_acceptable_count = 0
    /\ m_dispatching = NoSender /\ current = <<NoSender, 0>>
    /\ m_deferred = <<>> /\ selfs = 0
    /\ m_dead_letter_tell = 0 /\ m_dead_letter_ask = 0
    /\ handled = {} /\ dead = {} /\ refused = {}

Running == m_state = "running"

----------------------------------------------------------------------------
(* Dead letters and promises *)

\* report_dead_letter() for each; a call request that is destroyed breaks its
\* promise.
DeadLetters(ms) ==
    LET asked == {m \in ms : IsCall(m)} IN
    /\ dead' = dead \cup ms
    /\ m_dead_letter_tell' = m_dead_letter_tell + Cardinality(ms \ asked)
    /\ m_dead_letter_ask' = m_dead_letter_ask + Cardinality(asked)

Promise(ms, how) == promise' = [m \in Calls |-> IF m \in ms THEN how ELSE promise[m]]

Drop(ms) == DeadLetters(ms) /\ Promise(ms, "broken")

----------------------------------------------------------------------------
(* Senders *)

Msg(c) == <<c, next[c]>>

\* The sender of a call waits for the future, the sender of a message goes on.
Leave(c) ==
    IF IsCall(Msg(c))
    THEN pc' = [pc EXCEPT ![c] = "waiting"] /\ UNCHANGED next
    ELSE pc' = [pc EXCEPT ![c] = "idle"] /\ next' = [next EXCEPT ![c] = @ + 1]

\* A sender at work in one of these roles keeps the thread, or the handler.
Busy(roles) == \E c \in Senders : pc[c] # "idle" /\ RoleOf(Msg(c)) \in roles

\* The worker runs one handler at a time: the actor's or another one's.
WorkerFree  == ~Busy({"worker", "on_start"})
HandlerFree == ~Busy({"self", "nested"})

Accepts(all, set, m) == all \/ TypeOf(m) \in set

AcceptedAt == {i \in DOMAIN m_held : Accepts(m_accept_all, m_accepted, m_held[i])}

\* A handler of the actor runs.
InHandler == IF kind = "inline" THEN m_dispatching # NoSender
             ELSE (opc = "fill" /\ calls # <<>>) \/ (opc = "run" /\ AcceptedAt # {})

MaySend(c) ==
    /\ pc[c] = "idle" /\ next[c] <= Len(Script[c])
    /\ RoleOf(Msg(c)) \in {"worker", "on_start"} => m_workers_active /\ opc = "top" /\ WorkerFree
    /\ RoleOf(Msg(c)) \in {"self", "nested"} => InHandler /\ HandlerFree

\* Slip: decided by the calling actor and its worker, not by the thread.
CallAllowedByActor(c) ==
    RoleOf(Msg(c)) \notin {"on_start", "self"} /\ (kind = "inline" \/ RoleOf(Msg(c)) # "worker")

\* check_call_allowed(): not from on_start(), not from the actor itself, and not
\* from the thread that would have to handle the call, unless the actor is
\* inline and handles it on that very thread.  An inline actor that is handling
\* a message there already refuses it (enqueue_call_message()).
CallAllowed(c) ==
    /\ RoleOf(Msg(c)) \notin {"on_start", "self"}
    /\ RoleOf(Msg(c)) \notin (IF kind = "inline" THEN {"nested"} ELSE {"worker", "nested"})

CallRefused(c) ==
    /\ MaySend(c) /\ IsCall(Msg(c)) /\ ~CallAllowed(c)
    /\ next' = [next EXCEPT ![c] = @ + 1]
    /\ refused' = refused \cup {Msg(c)}
    /\ UNCHANGED <<kind, stopV, pc, promise, mailV, opc, filtV, stash, turn, deadV, handled>>

\* enqueue_message(), enqueue_call_message(), dispatch_inline(): the first check.
Send(c) ==
    /\ MaySend(c)
    /\ IsCall(Msg(c)) => CallAllowed(c)
    /\ IF Running
       THEN pc' = [pc EXCEPT ![c] = "push"] /\ UNCHANGED <<next, promise, deadV>>
       ELSE Drop({Msg(c)}) /\ Leave(c)
    /\ UNCHANGED <<kind, stopV, mailV, opc, filtV, stash, turn, handled, refused>>

\* A push to a mailbox that was closed meanwhile is a dead letter.
Push(c) ==
    /\ kind = "stateful" /\ pc[c] = "push"
    /\ Leave(c)
    /\ IF m_state = "stopped"
       THEN Drop({Msg(c)}) /\ UNCHANGED mailV
       ELSE /\ IF IsCall(Msg(c))
               THEN calls' = Append(calls, Msg(c)) /\ UNCHANGED others
               ELSE others' = Append(others, Msg(c)) /\ UNCHANGED calls
            /\ UNCHANGED <<promise, deadV>>
    /\ UNCHANGED <<kind, stopV, opc, filtV, stash, turn, handled, refused>>

\* future.get(): a value, the handler's exception, or a broken promise.
CallReturns(c) ==
    /\ pc[c] = "waiting" /\ promise[Msg(c)] # "pending"
    /\ pc' = [pc EXCEPT ![c] = "idle"] /\ next' = [next EXCEPT ![c] = @ + 1]
    /\ UNCHANGED <<kind, stopV, promise, mailV, opc, filtV, stash, turn, deadV, handled, refused>>

\* wait_for() gives up; the request stays where it is.
CallTimesOut(c) ==
    /\ pc[c] = "waiting" /\ TypeOf(Msg(c)) = "timed" /\ promise[Msg(c)] = "pending"
    /\ pc' = [pc EXCEPT ![c] = "idle"] /\ next' = [next EXCEPT ![c] = @ + 1]
    /\ UNCHANGED <<kind, stopV, promise, mailV, opc, filtV, stash, turn, deadV, handled, refused>>

\* stop_actor(), from anywhere; the mode counts for a stateful actor.
StopActor(discard) ==
    /\ Running
    /\ m_state' = "stopping" /\ m_stop_discard' = discard
    /\ UNCHANGED <<kind, m_stop_entered, m_workers_active, pc, next, promise, mailV, opc, filtV, stash, turn, deadV,
                   handled, refused>>

----------------------------------------------------------------------------
(* The stateful actor: selective_stash *)

Acceptable(all, set, q) == Cardinality({i \in DOMAIN q : Accepts(all, set, q[i])})

\* Slip: no recount, only the message just taken out is subtracted.
FilterForward(all, set, q) ==
    m_accept_all' = all /\ m_accepted' = set /\ m_acceptable_count' = m_acceptable_count - 1

\* accept(), reject(), accept_all(), reject_all(): with a recount of what is held.
Filter(all, set, q) ==
    m_accept_all' = all /\ m_accepted' = set /\ m_acceptable_count' = Acceptable(all, set, q)

\* What a handler may do to the filter; rejecting in accept-all mode does nothing.
FilterChange(q) ==
    \/ Filter(TRUE, {}, q)
    \/ Filter(FALSE, {}, q)
    \/ \E t \in Types : Filter(FALSE, m_accepted \cup {t}, q)
    \/ \E t \in Types : ~m_accept_all /\ Filter(FALSE, m_accepted \ {t}, q)
    \/ UNCHANGED filtV /\ m_acceptable_count' = Acceptable(m_accept_all, m_accepted, q)

\* handle_handler_exception(): resume, or a stop in discard mode.
HandlerThrows ==
    \/ UNCHANGED stopV
    \/ /\ Running
       /\ m_state' = "stopping" /\ m_stop_discard' = TRUE
       /\ UNCHANGED <<m_stop_entered, m_workers_active>>

HasWork == calls # <<>> \/ others # <<>> \/ m_acceptable_count > 0

\* A message is taken while the actor runs, or while a stop or a shutdown drains.
ProcessNext ==
    /\ kind = "stateful" /\ opc = "top" /\ WorkerFree /\ HasWork
    /\ \/ m_state \in {"running", "draining"} /\ m_workers_active
       \/ m_state = "stopping" /\ ~m_stop_discard
    /\ opc' = "fill"
    /\ UNCHANGED <<kind, stopV, pc, next, promise, mailV, filtV, stash, turn, deadV, handled, refused>>

\* A call request is handled at once, whatever the filter says; its handler may
\* change the filter as any other may.
FillCall ==
    /\ opc = "fill" /\ calls # <<>> /\ HandlerFree
    /\ opc' = "top"
    /\ calls' = Tail(calls)
    /\ handled' = handled \cup {Head(calls)}
    /\ \E how \in {"value", "error"} : Promise({Head(calls)}, how)
    /\ FilterChange(m_held)
    /\ UNCHANGED <<kind, stopV, pc, next, others, m_held, turn, deadV, refused>>

FillHeld ==
    /\ opc = "fill" /\ calls = <<>> /\ others # <<>>
    /\ others' = Tail(others)
    /\ m_held' = Append(m_held, Head(others))
    /\ m_acceptable_count' = m_acceptable_count +
                                (IF Accepts(m_accept_all, m_accepted, Head(others)) THEN 1 ELSE 0)
    /\ UNCHANGED <<kind, stopV, pc, next, promise, calls, opc, filtV, turn, deadV, handled, refused>>

FillDone ==
    /\ opc = "fill" /\ calls = <<>> /\ others = <<>>
    /\ opc' = "run"
    /\ UNCHANGED <<kind, stopV, pc, next, promise, mailV, filtV, stash, turn, deadV, handled, refused>>

\* Slip: the newest message that is accepted.
PickNewest == Max(AcceptedAt)

\* The oldest held message that is accepted.
Pick == Min(AcceptedAt)

RunHeld ==
    /\ opc = "run" /\ HandlerFree
    /\ opc' = "top"
    /\ IF AcceptedAt = {}
       THEN UNCHANGED <<stopV, filtV, stash, handled>>
       ELSE LET q == RemoveAt(m_held, Pick) IN
            /\ m_held' = q
            /\ handled' = handled \cup {m_held[Pick]}
            /\ FilterChange(q)
            /\ HandlerThrows
    /\ UNCHANGED <<kind, pc, next, promise, mailV, turn, deadV, refused>>

Queued == ToSet(calls) \cup ToSet(others) \cup ToSet(m_held)

DiscardAll ==
    /\ Drop(Queued)
    /\ calls' = <<>> /\ others' = <<>> /\ m_held' = <<>> /\ m_acceptable_count' = 0

\* service_stop() in discard mode, first entry.
StopDiscards ==
    /\ kind = "stateful" /\ opc = "top" /\ WorkerFree
    /\ m_state = "stopping" /\ m_stop_discard /\ ~m_stop_entered
    /\ m_stop_entered' = TRUE
    /\ DiscardAll
    /\ UNCHANGED <<kind, m_state, m_stop_discard, m_workers_active, pc, next, opc, filtV, turn, handled, refused>>

\* Slip: what the filter held back is not dropped.
StopFinishKeepsHeld ==
    /\ kind = "stateful" /\ opc = "top" /\ WorkerFree /\ m_state = "stopping"
    /\ m_stop_discard => m_stop_entered
    /\ m_state' = "stopped"
    /\ Drop(ToSet(calls) \cup ToSet(others))
    /\ calls' = <<>> /\ others' = <<>>
    /\ UNCHANGED <<kind, m_stop_discard, m_stop_entered, m_workers_active, pc, next, opc, filtV, stash, turn,
                   handled, refused>>

\* The hooks, then everything still queued or held is dropped and the mailbox
\* closed.  A drain is over when nothing is left or its deadline has passed.
StopFinish ==
    /\ kind = "stateful" /\ opc = "top" /\ WorkerFree /\ m_state = "stopping"
    /\ m_stop_discard => m_stop_entered
    /\ m_state' = "stopped"
    /\ DiscardAll
    /\ UNCHANGED <<kind, m_stop_discard, m_stop_entered, m_workers_active, pc, next, opc, filtV, turn, handled, refused>>

----------------------------------------------------------------------------
(* The inline actor *)

\* Slip: the state is not read again under the mutex.
LockUnchecked(c) ==
    /\ kind = "inline" /\ pc[c] = "push" /\ m_dispatching = NoSender
    /\ pc' = [pc EXCEPT ![c] = "turn"]
    /\ m_dispatching' = c /\ current' = Msg(c)
    /\ UNCHANGED <<kind, stopV, next, promise, mailV, opc, filtV, stash, m_deferred, selfs, deadV, handled, refused>>

\* dispatch_inline(): the mutex, and the state once more.
Lock(c) ==
    /\ kind = "inline" /\ pc[c] = "push" /\ m_dispatching = NoSender
    /\ IF Running
       THEN /\ pc' = [pc EXCEPT ![c] = "turn"]
            /\ m_dispatching' = c /\ current' = Msg(c)
            /\ UNCHANGED <<next, promise, m_deferred, selfs, deadV>>
       ELSE Drop({Msg(c)}) /\ Leave(c) /\ UNCHANGED turn
    /\ UNCHANGED <<kind, stopV, mailV, opc, filtV, stash, handled, refused>>

\* run_turn() after a handler: the next deferred message, or the end.
TurnGoesOn(c, q) ==
    IF q # <<>>
    THEN /\ current' = Head(q) /\ m_deferred' = Tail(q)
         /\ UNCHANGED <<pc, next, m_dispatching>>
    ELSE /\ Leave(c)
         /\ m_dispatching' = NoSender /\ current' = <<NoSender, 0>> /\ m_deferred' = <<>>

InlineHandled == handled' = handled \cup {current}

InlineReturns(c) ==
    /\ pc[c] = "turn" /\ HandlerFree
    /\ InlineHandled
    /\ Promise({current}, "value")
    /\ TurnGoesOn(c, m_deferred)
    /\ UNCHANGED <<kind, stopV, mailV, opc, filtV, stash, selfs, deadV, refused>>

\* The handler sends to its own actor, which must not nest: deferred, or a
\* dead letter once the actor is not running.
InlineTellsItself(c) ==
    LET m == <<NoSender, selfs + 1>> IN
    /\ pc[c] = "turn" /\ selfs < MaxSelf
    /\ selfs' = selfs + 1
    /\ IF Running THEN m_deferred' = Append(m_deferred, m) /\ UNCHANGED deadV
                  ELSE DeadLetters({m}) /\ UNCHANGED m_deferred
    /\ UNCHANGED <<kind, stopV, pc, next, promise, mailV, opc, filtV, stash, m_dispatching, current, handled, refused>>

\* An exception of a call handler goes into the promise; any other one ends the
\* turn, and what was deferred behind it is rejected.
InlineThrows(c) ==
    /\ pc[c] = "turn" /\ HandlerFree
    /\ InlineHandled
    /\ Promise({current}, "error")
    /\ IF IsCall(current)
       THEN TurnGoesOn(c, m_deferred) /\ UNCHANGED deadV
       ELSE DeadLetters(ToSet(m_deferred)) /\ TurnGoesOn(c, <<>>)
    /\ UNCHANGED <<kind, stopV, mailV, opc, filtV, stash, selfs, refused>>

\* A handler's stop_actor() of its own actor is StopActor; the stop is carried
\* out by its worker, under the mutex.
InlineStop ==
    /\ kind = "inline" /\ m_state = "stopping" /\ m_dispatching = NoSender /\ WorkerFree
    /\ m_state' = "stopped"
    /\ UNCHANGED <<kind, m_stop_discard, m_stop_entered, m_workers_active, pc, next, promise, mailV, opc, filtV, stash,
                   turn, deadV, handled, refused>>

----------------------------------------------------------------------------
(* The end of the system *)

\* dispatch_message() of system_shutdown: a framework message, never held back.
\* An inline actor handles it on the thread of shutdown().
SystemShutdown ==
    /\ Running /\ m_workers_active
    /\ IF kind = "inline" THEN m_dispatching = NoSender ELSE opc # "run" /\ WorkerFree
    /\ opc' = "top" /\ m_state' = "draining"
    /\ UNCHANGED <<kind, m_stop_discard, m_stop_entered, m_workers_active, pc, next, promise, mailV, filtV, stash,
                   turn, deadV, handled, refused>>

\* shutdown() has run out of patience, or of work: the worker exits and is joined.
WorkersExit ==
    /\ m_workers_active /\ opc = "top" /\ WorkerFree
    /\ m_workers_active' = FALSE
    /\ UNCHANGED <<kind, m_state, m_stop_discard, m_stop_entered, pc, next, promise, mailV, opc, filtV, stash, turn,
                   deadV, handled, refused>>

\* The last loop of wait_for_shutdown(): on_stop() of every actor still listed,
\* without an inline actor's mutex, and with the mailbox left open.
MarkStopped ==
    /\ ~m_workers_active /\ opc = "top" /\ m_state \notin {"stopped", "ended"}
    /\ m_state' = "ended"
    /\ UNCHANGED <<kind, m_stop_discard, m_stop_entered, m_workers_active, pc, next, promise, mailV, opc, filtV,
                   stash, turn, deadV, handled, refused>>

----------------------------------------------------------------------------

Owner == ProcessNext \/ FillCall \/ FillHeld \/ FillDone \/ RunHeld \/ StopDiscards \/ StopFinish \/ InlineStop

Ending == SystemShutdown \/ WorkersExit \/ MarkStopped

\* What a sender's thread does inside tell() or call(), handlers included.
Inside(c) == Push(c) \/ CallReturns(c) \/ Lock(c) \/ InlineReturns(c) \/ InlineThrows(c)

Next ==
    \/ Owner
    \/ \E c \in Senders : Inside(c) \/ Send(c) \/ CallRefused(c) \/ CallTimesOut(c) \/ InlineTellsItself(c)
    \/ \E discard \in BOOLEAN : StopActor(discard)
    \/ Ending

\* The actor's worker runs until it exits, handlers return, and a free mutex is
\* given to a thread that waits for it; scripts are finite, so that no sender is
\* passed over for ever.
Fairness == WF_vars(m_workers_active /\ Owner) /\ WF_vars(\E c \in Senders : Inside(c))

Spec == Init /\ [][Next]_vars /\ Fairness

----------------------------------------------------------------------------
(* Properties *)

StopType == /\ kind \in Kinds /\ m_state \in {"running", "stopping", "draining", "stopped", "ended"}
            /\ m_stop_discard \in BOOLEAN /\ m_stop_entered \in BOOLEAN /\ m_workers_active \in BOOLEAN

SenderType == /\ pc \in [Senders -> {"idle", "push", "turn", "waiting"}]
              /\ next \in [Senders -> Nat \ {0}] /\ refused \subseteq Sent

QueueType == /\ calls \in Seq(Calls) /\ others \in Seq(Sent \ Calls) /\ m_held \in Seq(Sent \ Calls)
             /\ opc \in {"top", "fill", "run"} /\ m_acceptable_count \in Nat
             /\ m_accept_all \in BOOLEAN /\ m_accepted \subseteq Types

TurnType == /\ m_dispatching \in Senders \cup {NoSender} /\ current \in Msgs \cup {<<NoSender, 0>>}
            /\ m_deferred \in Seq(SelfMsg) /\ selfs \in 0..MaxSelf

FateType == /\ promise \in [Calls -> {"pending", "value", "error", "broken"}]
            /\ handled \subseteq Msgs /\ dead \subseteq Msgs
            /\ m_dead_letter_tell \in Nat /\ m_dead_letter_ask \in Nat

TypeOK == StopType /\ SenderType /\ QueueType /\ TurnType /\ FateType

\* Sent so far, with the one a sender is about to push or lock for left out.
Accepted == {m \in Sent \ refused : m[2] < next[m[1]] \/ (m[2] = next[m[1]] /\ pc[m[1]] \in {"turn", "waiting"})}
            \cup {m \in SelfMsg : m[2] <= selfs}

\* Everything sent is in exactly one place: queued, held, deferred, being
\* handled, handled, or a dead letter that was counted once; a promise is kept
\* or broken exactly when its request is handled or dropped.
OnePlace ==
    LET places == <<ToSet(calls), ToSet(others), ToSet(m_held), ToSet(m_deferred),
                    {current} \ {<<NoSender, 0>>}, handled, dead>>
    IN  /\ \A i, j \in DOMAIN places : i # j => places[i] \cap places[j] = {}
        /\ UNION {places[i] : i \in DOMAIN places} = Accepted
        /\ m_dead_letter_tell + m_dead_letter_ask = Cardinality(dead)
        /\ m_state = "stopped" => Accepted \subseteq handled \cup dead
        /\ \A m \in Calls : /\ promise[m] \in {"value", "error"} <=> m \in handled
                            /\ promise[m] = "broken" <=> m \in dead

\* Messages of one type from one sender are handled in the order they were
\* sent, held back, deferred or not.
SenderOrder ==
    [][\A m \in handled' \ handled, e \in Accepted :
           e[1] = m[1] /\ e[2] < m[2] /\ TypeOf(e) = TypeOf(m) => e \in handled \cup dead]_vars

\* No handler starts, on whatever thread, once a stop has run on_stop(); on the
\* inline actor that is the second check of dispatch_inline().  After the
\* on_stop() of wait_for_shutdown(), which takes no mutex, no handler runs but
\* those of an inline actor's turn that was under way.
NoneAfterStop ==
    [][handled' # handled => m_state # "stopped" /\ (m_state = "ended" => m_dispatching # NoSender)]_vars

\* A call without a timeout returns, with a value, an exception or a broken
\* promise, whatever the actor or a stop of it does, and a call that never
\* could is refused: but one queued when the system's workers exit stays in a
\* mailbox that nobody reads or closes.
CallAnswered ==
    \A c \in Senders : pc[c] = "waiting" ~> \/ pc[c] # "waiting"
                                            \/ ~m_workers_active /\ Msg(c) \in ToSet(calls)

\* Held messages that the filter accepts do not stay held while the worker
\* lives: the actor knows that it has work (m_acceptable_count), although
\* nothing new arrives.
NoneForgotten == AcceptedAt # {} ~> AcceptedAt = {} \/ ~m_workers_active

=============================================================================
