------------------------------- MODULE Relay -------------------------------
(***************************************************************************)
(* The ZeroMQ relay: a fast actor that owns a transport.  Its thread loops *)
(* over stop requests, messages and wait_for_work(); idle, it blocks its   *)
(* mailbox and waits in the transport, so that a tell() or a stop_actor()  *)
(* has to end the wait with wake().  Sends a slow peer cannot take are     *)
(* held per peer and retried; requests that went out are remembered until  *)
(* their reply comes or they expire.                                       *)
(*                                                                         *)
(* A send is a number in the order of the pushes to the mailbox.  Time is  *)
(* reduced to one bit per held send and per pending request: its deadline  *)
(* passed.                                                                 *)
(***************************************************************************)
EXTENDS Naturals, Sequences, FiniteSets, SequencesExt, FiniteSetsExt

CONSTANTS
    Peers,      \* identities a send may name
    MaxSends,   \* bound: zeromq_send messages told to the relay
    Corr,       \* send -> the correlation id its sender chose, or 0: no reply wanted
    Configs,    \* zeromq_config messages: [policy, max, spin]
    Hwm,        \* send_hwm: messages the transport queues per peer
    MaxRecv,    \* k_max_recv_per_poll
    MaxIn,      \* bound: inbound messages waiting in the transport
    MaxQueue,   \* bound: messages in the relay's mailbox
    MaxOthers,  \* bound: other messages told
    Tellers     \* threads that tell or stop the relay at a time

Sends    == 1..MaxSends
Requests == {s \in Sends : Corr[s] # 0}
Policies == {"queue", "fail", "drop"}

\* Inbound messages are the number of the send they reply to, or one of these.
Other     == 0
Malformed == MaxSends + 1

ASSUME RelayAssumption ==
    /\ {MaxSends, MaxOthers} \subseteq Nat
    /\ {Hwm, MaxRecv, MaxIn, MaxQueue, Tellers} \subseteq Nat \ {0}
    /\ Corr \in [Sends -> Nat]
    /\ Configs \subseteq [policy : Policies, max : Nat, spin : {"none", "some", "always"}]

Send   == [op : {"send"}, id : Sends, peer : Peers]
Config == [op : {"config"}, to : Configs]
Ctl    == [op : {"bind", "shutdown"}]

VARIABLES
    m_queue,          \* mailbox, oldest first
    m_tag,            \* "open", or "blocked" while the relay waits
    m_phase,          \* m_stop_phase: "none", "requested", "shutdown"
    pc,               \* where the relay's thread is
    unvisited,        \* peers flush_outbound() has still to visit
    overdue,          \* held sends past their deadline when it read the clock
    owed,             \* wake() calls that a tell() or stop_actor() is about to make
    wakes,            \* TRUE: a wake frame is queued in the transport
    m_connected,      \* bound, with a socket
    m_config,         \* send policy, queue limit and spin in force
    wire,             \* peer -> sends in the transport, not yet taken by the peer
    known,            \* peers with a connection
    inbound,          \* replies and other messages waiting in the transport
    m_outbound,       \* peer -> held sends, oldest first
    m_queued_sends,
    m_dropped_sends,
    m_pending,        \* m_pending_requests: the sends that made the entries, one per id
    late,             \* held sends and pending requests past their deadline
    told, others,     \* sends and other messages told so far (bounds)
    sent,             \* history: peer -> sends handed to the transport
    failed,           \* history: send -> zeromq_error reports to its sender
    dead,             \* history: sends that became dead letters
    answered,         \* history: send -> the sends whose replies its requester got
    forgotten,        \* history: requests that expired
    replaced          \* history: requests whose entry was overwritten

mbox  == <<m_queue, m_tag>>
round == <<unvisited, overdue>>
loop  == <<pc, round>>
wakeV == <<owed, wakes>>
net   == <<wire, known, inbound>>
held  == <<m_outbound, m_queued_sends, m_dropped_sends>>
reqs  == <<m_pending, late>>
hist  == <<sent, failed, dead, answered, forgotten, replaced>>
bound == <<told, others>>
vars  == <<mbox, m_phase, loop, wakeV, m_connected, m_config, net, held, reqs, bound, hist>>

HeldSends == UNION {ToSet(m_outbound[p]) : p \in Peers}
Ids(q)    == {m.id : m \in {x \in ToSet(q) : x.op = "send"}}

Init ==
    /\ m_queue = <<>> /\ m_tag = "open"
    /\ m_phase = "none"
    /\ pc = "top" /\ unvisited = {} /\ overdue = {} /\ owed = 0 /\ wakes = FALSE
    /\ m_connected = FALSE
    /\ m_config = [policy |-> "queue", max |-> MaxSends + 1, spin |-> "none"]
    /\ wire = [p \in Peers |-> <<>>] /\ known = {} /\ inbound = <<>>
    /\ m_outbound = [p \in Peers |-> <<>>]
    /\ m_queued_sends = 0 /\ m_dropped_sends = 0
    /\ m_pending = {} /\ late = {}
    /\ told = 0 /\ others = 0
    /\ sent = [p \in Peers |-> <<>>]
    /\ failed = [s \in Sends |-> 0]
    /\ answered = [s \in Sends |-> <<>>]
    /\ dead = {} /\ forgotten = {} /\ replaced = {}

----------------------------------------------------------------------------
(* Other threads: tell() and stop_actor(), then wake() *)

Running == m_phase = "none"

\* A stop closes the mailbox; the end after system_shutdown does not.
Closed == pc = "ended" /\ m_phase = "requested"

\* A push to a blocked mailbox opens it, and schedule() then calls wake().
Enqueue(m) ==
    /\ ~Closed /\ Len(m_queue) < MaxQueue /\ owed < Tellers
    /\ m_queue' = Append(m_queue, m)
    /\ m_tag' = "open"
    /\ owed' = owed + (IF m_tag = "blocked" THEN 1 ELSE 0)
    /\ UNCHANGED <<m_phase, loop, wakes, m_connected, m_config, net, held, reqs>>

\* enqueue_message() checks the state first and pushes later.  The check leaves
\* no trace, and any thread may have passed it while the relay was running: so a
\* push may come at any time, after a stop or the end of the thread as well.  A
\* dead letter comes of a check made too late, or a push to a closed mailbox.
TellSend(p) ==
    /\ told < MaxSends
    /\ told' = told + 1
    /\ \/ Enqueue([op |-> "send", id |-> told', peer |-> p]) /\ UNCHANGED dead
       \/ /\ ~Running
          /\ dead' = dead \cup {told'}
          /\ UNCHANGED <<mbox, m_phase, loop, wakeV, m_connected, m_config, net, held, reqs>>
    /\ UNCHANGED <<others, sent, failed, answered, forgotten, replaced>>

\* zeromq_config and zeromq_bind from the application, system_shutdown from
\* system::shutdown().  After the end of the thread they change nothing.
TellOther(m) ==
    /\ others < MaxOthers /\ pc # "ended"
    /\ others' = others + 1
    /\ Enqueue(m)
    /\ UNCHANGED <<told, hist>>

\* Slip: the waiting relay is not woken.
StopActorSilent ==
    /\ m_phase = "none"
    /\ m_phase' = "requested"
    /\ UNCHANGED <<mbox, loop, wakeV, m_connected, m_config, net, held, reqs, bound, hist>>

\* stop_actor(): intake ends, the phase is published, then wake() is called.
StopActor ==
    /\ m_phase = "none" /\ owed < Tellers
    /\ m_phase' = "requested"
    /\ owed' = owed + 1
    /\ UNCHANGED <<mbox, loop, wakes, m_connected, m_config, net, held, reqs, bound, hist>>

\* zeromq_transport::wake(): one frame more; any frame makes wait() return.
Wake ==
    /\ owed > 0
    /\ owed' = owed - 1
    /\ wakes' = TRUE
    /\ UNCHANGED <<mbox, m_phase, loop, m_connected, m_config, net, held, reqs, bound, hist>>

----------------------------------------------------------------------------
(* The peers and the clock *)

PeerConnect(p) ==
    /\ p \notin known /\ m_connected
    /\ known' = known \cup {p}
    /\ UNCHANGED <<mbox, m_phase, loop, wakeV, m_connected, m_config, wire, inbound, held, reqs, bound, hist>>

PeerLost(p) ==
    /\ p \in known
    /\ known' = known \ {p}
    /\ wire' = [wire EXCEPT ![p] = <<>>]
    /\ UNCHANGED <<mbox, m_phase, loop, wakeV, m_connected, m_config, inbound, held, reqs, bound, hist>>

PeerTakes(p) ==
    /\ wire[p] # <<>>
    /\ wire' = [wire EXCEPT ![p] = Tail(@)]
    /\ UNCHANGED <<mbox, m_phase, loop, wakeV, m_connected, m_config, known, inbound, held, reqs, bound, hist>>

\* Something arrives: an answer to a send a peer took (perhaps a second one),
\* a message that answers nothing, a malformed one.
Arrives(what) ==
    /\ m_connected /\ Len(inbound) < MaxIn
    /\ what \in Requests => \E p \in known : what \in ToSet(sent[p]) \ ToSet(wire[p])
    /\ inbound' = Append(inbound, what)
    /\ UNCHANGED <<mbox, m_phase, loop, wakeV, m_connected, m_config, wire, known, held, reqs, bound, hist>>

DeadlinePasses(s) ==
    /\ s \in (HeldSends \cup m_pending) \ late
    /\ late' = late \cup {s}
    /\ UNCHANGED <<mbox, m_phase, loop, wakeV, m_connected, m_config, net, held, m_pending, bound, hist>>

----------------------------------------------------------------------------
(* Sending *)

\* Errors are reported to the sender of the message concerned.
Report(ss) == failed' = [s \in Sends |-> failed[s] + (IF s \in ss THEN 1 ELSE 0)]

\* track_request(): only a request sent from inside an actor gets a reply.  The
\* entry of an earlier request with the same correlation id is overwritten.
Overwritten(s) == {r \in m_pending : s \in Requests /\ Corr[r] = Corr[s]}

Track(s) ==
    /\ m_pending' = (m_pending \ Overwritten(s)) \cup ({s} \cap Requests)
    /\ late' = late \ (Overwritten(s) \cup {s})
    /\ replaced' = replaced \cup Overwritten(s)

\* try_send(): with router_mandatory an unknown peer is an error, a full one refuses.
Refused(p)     == p \in known /\ Len(wire[p]) >= Hwm
Unreachable(p) == p \notin known

HandOver(s, p) ==
    /\ wire' = [wire EXCEPT ![p] = Append(@, s)]
    /\ sent' = [sent EXCEPT ![p] = Append(@, s)]

\* on_config(): a limit of 0 is none.
QueueFull == m_config.max # 0 /\ m_queued_sends >= m_config.max

\* send_or_hold(): a send the peer cannot take now is dropped, reported or held.
Hold(s, p) ==
    \/ /\ m_config.policy = "drop"
       /\ m_dropped_sends' = m_dropped_sends + 1
       /\ UNCHANGED <<m_outbound, m_queued_sends, failed>>
    \/ /\ m_config.policy = "fail" \/ (m_config.policy = "queue" /\ QueueFull)
       /\ Report({s})
       /\ UNCHANGED held
    \/ /\ m_config.policy = "queue" /\ ~QueueFull
       /\ m_outbound' = [m_outbound EXCEPT ![p] = Append(@, s)]
       /\ m_queued_sends' = m_queued_sends + 1
       /\ UNCHANGED <<m_dropped_sends, failed>>

\* What is behind held sends is not tried.
SendOrHold(s, p, behind) ==
    \/ /\ ~m_connected \/ (~behind /\ Unreachable(p))
       /\ Report({s})
       /\ UNCHANGED <<net, held, reqs, sent, replaced>>
    \/ /\ m_connected /\ ~behind /\ ~Unreachable(p) /\ ~Refused(p)
       /\ HandOver(s, p) /\ Track(s)
       /\ UNCHANGED <<known, inbound, held, failed>>
    \/ /\ m_connected /\ (behind \/ Refused(p))
       /\ Hold(s, p)
       /\ UNCHANGED <<net, reqs, sent, replaced>>

\* Slip: a send does not look for sends held for its peer.
OnSendOvertakes(s, p) == SendOrHold(s, p, FALSE)

\* on_send(): never overtake the sends held for the peer.
OnSend(s, p) == SendOrHold(s, p, m_outbound[p] # <<>>)

Goto(l) == pc' = l

\* flush_outbound() reads the clock once and visits the peers with held sends in
\* some order.  For each the loop goes on from the oldest held send up to the
\* first one that the peer cannot take; peers take and leave meanwhile.
Flush(at, next) ==
    /\ unvisited' = {p \in Peers : m_queued_sends > 0 /\ m_outbound[p] # <<>>}
    /\ overdue' = IF unvisited' = {} THEN {} ELSE late \cap HeldSends
    /\ Goto(IF unvisited' = {} THEN next ELSE at)

\* The oldest send held for p: whether it expired, and whether it has to stay.
Expired(p) == Head(m_outbound[p]) \in overdue
Stays(p)   == ~Expired(p) /\ Refused(p)

FlushPops(p) ==
    /\ m_outbound' = [m_outbound EXCEPT ![p] = Tail(@)]
    /\ m_queued_sends' = m_queued_sends - 1
    /\ UNCHANGED <<loop, m_dropped_sends, known, inbound>>

FlushFails(s) == late' = late \ {s} /\ UNCHANGED <<wire, sent, m_pending, replaced>>

\* Slips: a held request is not remembered; an expired send is not reported.
FlushOneUntracked(p) ==
    /\ FlushPops(p)
    /\ LET s == Head(m_outbound[p]) IN
       IF Expired(p) \/ Unreachable(p)
       THEN Report({s}) /\ FlushFails(s)
       ELSE HandOver(s, p) /\ late' = late \ {s} /\ UNCHANGED <<m_pending, replaced, failed>>

FlushOneSilent(p) ==
    /\ FlushPops(p)
    /\ LET s == Head(m_outbound[p]) IN
       IF Expired(p) \/ Unreachable(p)
       THEN FlushFails(s) /\ UNCHANGED failed
       ELSE HandOver(s, p) /\ Track(s) /\ UNCHANGED failed

FlushOne(p) ==
    /\ FlushPops(p)
    /\ LET s == Head(m_outbound[p]) IN
       IF Expired(p) \/ Unreachable(p)
       THEN Report({s}) /\ FlushFails(s)
       ELSE HandOver(s, p) /\ Track(s) /\ UNCHANGED failed

FlushLeaves(p) ==
    /\ unvisited' = unvisited \ {p}
    /\ overdue' = IF unvisited' = {} THEN {} ELSE overdue
    /\ Goto(IF unvisited' # {} THEN pc ELSE IF pc = "flush" THEN "pop" ELSE "idle_poll")
    /\ UNCHANGED <<net, held, reqs, sent, failed, replaced>>

Visit(p) == IF m_outbound[p] = <<>> \/ Stays(p) THEN FlushLeaves(p) ELSE FlushOne(p)

----------------------------------------------------------------------------
(* Receiving *)

\* poll(): up to a budget.  A message goes to the requester of the pending
\* request with its correlation id and ends that request; one without is routed
\* or dropped.
Taken        == SubSeq(inbound, 1, Min({Len(inbound), MaxRecv}))
RepliesTo(e) == {i \in DOMAIN Taken : Taken[i] \in Requests /\ Corr[Taken[i]] = Corr[e]}
Replied      == {e \in m_pending : RepliesTo(e) # {}}

Poll ==
    /\ inbound' = SubSeq(inbound, Len(Taken) + 1, Len(inbound))
    /\ answered' = [s \in Sends |-> IF s \in Replied THEN Append(answered[s], Taken[Min(RepliesTo(s))])
                                                     ELSE answered[s]]
    /\ m_pending' = m_pending \ Replied
    /\ late' = late \ Replied
    /\ UNCHANGED <<wire, known>>

\* receive() counts well-formed messages only.
Received == \E i \in DOMAIN Taken : Taken[i] # Malformed

----------------------------------------------------------------------------
(* The relay's thread *)

\* fail_all_outbound(): every held send is reported.
FailAllOutbound ==
    /\ Report(HeldSends)
    /\ m_outbound' = [p \in Peers |-> <<>>]
    /\ m_queued_sends' = 0

\* close() drops the socket with all it holds; the wake-up side stays.
TransportClose == wire' = [p \in Peers |-> <<>>] /\ known' = {} /\ inbound' = <<>>

\* cleanup_socket(): pending requests are forgotten.
Cleanup ==
    /\ FailAllOutbound
    /\ TransportClose
    /\ m_connected' = FALSE
    /\ m_pending' = {} /\ late' = {}
    /\ UNCHANGED <<m_dropped_sends, m_config, sent, answered, forgotten, replaced>>

\* The fast_actor loop with a message queued: process_next_message() polls and
\* flushes first, when connected.  A stop that drains comes here as well.
TopProcess ==
    /\ pc = "top" /\ m_queue # <<>>
    /\ IF m_connected THEN Poll /\ Flush("flush", "pop")
                      ELSE Goto("pop") /\ UNCHANGED <<round, net, reqs, answered>>
    /\ UNCHANGED <<mbox, m_phase, wakeV, m_connected, m_config, held, bound, sent, failed, dead, forgotten, replaced>>

\* The loop with nothing to do: wait_for_work() retries what is held, then polls.
TopIdle ==
    /\ pc = "top" /\ m_queue = <<>> /\ m_phase = "none"
    /\ IF m_connected THEN Flush("idle_flush", "idle_poll")
                      ELSE Goto("block") /\ UNCHANGED round
    /\ UNCHANGED <<mbox, m_phase, wakeV, m_connected, m_config, net, held, reqs, bound, hist>>

FlushVisit ==
    /\ pc \in {"flush", "idle_flush"}
    /\ \E p \in unvisited : Visit(p)
    /\ UNCHANGED <<mbox, m_phase, wakeV, m_connected, m_config, bound, dead, answered, forgotten>>

IdlePoll ==
    /\ pc = "idle_poll"
    /\ Poll
    /\ Goto(IF Received THEN "top" ELSE "block")
    /\ UNCHANGED <<mbox, m_phase, round, wakeV, m_connected, m_config, held, bound, sent, failed, dead, forgotten, replaced>>

\* service_stop() on this thread, or the end of the loop after system_shutdown:
\* on_stop() cleans up.  A requested stop may find messages queued: in discard
\* mode, or when the drain deadline has passed; they become dead letters.
TopStop ==
    /\ pc = "top" /\ m_phase # "none"
    /\ m_queue = <<>> \/ m_phase = "requested"
    /\ Cleanup
    /\ dead' = dead \cup Ids(m_queue)
    /\ m_queue' = <<>>
    /\ Goto("ended")
    /\ UNCHANGED <<m_tag, m_phase, round, wakeV, bound>>

Pop(op) ==
    /\ pc = "pop" /\ Head(m_queue).op = op
    /\ m_queue' = Tail(m_queue)
    /\ Goto("top")
    /\ UNCHANGED <<m_tag, round, wakeV, bound, dead, answered, forgotten>>

PopSend ==
    /\ Pop("send")
    /\ OnSend(Head(m_queue).id, Head(m_queue).peer)
    /\ UNCHANGED <<m_phase, m_connected, m_config>>

\* A send that is too large or names no peer is reported at once.
PopInvalid ==
    /\ Pop("send")
    /\ m_connected
    /\ Report({Head(m_queue).id})
    /\ UNCHANGED <<m_phase, m_connected, m_config, net, held, reqs, sent, replaced>>

PopConfig ==
    /\ Pop("config")
    /\ m_config' = Head(m_queue).to
    /\ UNCHANGED <<m_phase, m_connected, net, held, reqs, sent, failed, replaced>>

\* zeromq_transport::bind(): a socket, or an error and none.
TransportBind == m_connected' \in BOOLEAN

\* on_bind(): refused when connected already.  A failed bind cleans up, but
\* without a connection nothing is held or pending.
PopBind ==
    /\ Pop("bind")
    /\ IF m_connected THEN UNCHANGED m_connected ELSE TransportBind
    /\ UNCHANGED <<m_phase, m_config, net, held, reqs, sent, failed, replaced>>

\* system_shutdown, unless a stop was first: on_shutdown(), then the state that
\* tell() checks.
PopShutdown ==
    /\ Pop("shutdown")
    /\ m_phase' = IF m_phase = "none" THEN "shutdown" ELSE m_phase
    /\ UNCHANGED <<m_connected, m_config, net, held, reqs, sent, failed, replaced>>

\* expire_pending_requests().
Expire ==
    /\ forgotten' = forgotten \cup (m_pending \cap late)
    /\ m_pending' = m_pending \ late
    /\ late' = late \ m_pending
    /\ UNCHANGED <<net, held, bound, sent, failed, dead, answered, replaced>>

\* Slip: the mailbox is marked blocked whatever it holds.
TryBlockBlind == m_tag' = "blocked" /\ Goto("check")

\* try_block(): fails when a message slipped in.
TryBlock ==
    IF m_queue = <<>> THEN m_tag' = "blocked" /\ Goto("check")
                      ELSE UNCHANGED m_tag /\ Goto("top")

Block ==
    /\ pc = "block"
    /\ Expire
    /\ IF m_config.spin = "none" THEN TryBlock ELSE UNCHANGED m_tag /\ Goto("spin")
    /\ UNCHANGED <<m_queue, m_phase, round, wakeV, m_connected, m_config>>

\* The spin ends with a message, a stop, something received, or its time, which
\* blocks; "always" returns to the loop instead.
Spin ==
    /\ pc = "spin"
    /\ IF m_queue # <<>> \/ m_phase # "none"
       THEN Goto("top") /\ UNCHANGED <<m_tag, net, reqs, answered>>
       ELSE /\ IF m_connected THEN Poll ELSE UNCHANGED <<net, reqs, answered>>
            /\ IF m_config.spin = "always" \/ (m_connected /\ Received)
               THEN Goto("top") /\ UNCHANGED m_tag
               ELSE TryBlock
    /\ UNCHANGED <<m_queue, m_phase, round, wakeV, m_connected, m_config, held, bound, sent, failed, dead, forgotten, replaced>>

\* The stop phase once more, now that wake() would be heard.
Check ==
    /\ pc = "check"
    /\ IF m_phase # "none" THEN m_tag' = "open" /\ Goto("top")
                           ELSE UNCHANGED m_tag /\ Goto("wait")
    /\ UNCHANGED <<m_queue, m_phase, round, wakeV, m_connected, m_config, net, held, reqs, bound, hist>>

\* transport::wait() returns, consuming every wake frame, and try_unblock().
Return ==
    /\ pc = "wait"
    /\ wakes' = FALSE
    /\ m_tag' = "open"
    /\ Goto("top")
    /\ UNCHANGED <<m_queue, m_phase, round, owed, m_connected, m_config, net, held, reqs, bound, hist>>

WaitEnds  == (wakes \/ inbound # <<>>) /\ Return
RetryTime == m_queued_sends > 0 /\ Return       \* k_send_retry_interval
Backstop  == m_queued_sends = 0 /\ Return       \* k_idle_backstop

Thread ==
    \/ TopProcess \/ FlushVisit \/ PopSend \/ PopInvalid \/ PopConfig \/ PopBind \/ PopShutdown
    \/ TopIdle \/ IdlePoll \/ Block \/ Spin \/ Check \/ WaitEnds \/ TopStop

Environment ==
    \/ \E p \in Peers : TellSend(p) \/ PeerConnect(p) \/ PeerLost(p) \/ PeerTakes(p)
    \/ \E m \in Config \cup Ctl : TellOther(m)
    \/ StopActor
    \/ \E what \in Requests \cup {Other, Malformed} : Arrives(what)

Next == Thread \/ Wake \/ RetryTime \/ Backstop \/ Environment \/ \E s \in Sends : DeadlinePasses(s)

\* The relay's thread keeps running, out of a wait with held sends after the
\* retry interval; so do the threads that owe it a wake(), and the clock.
\* Nothing is assumed of the idle backstop, the peers or the application.
Fairness ==
    /\ WF_vars(Thread \/ RetryTime) /\ WF_vars(Wake)
    /\ WF_vars(\E s \in HeldSends : DeadlinePasses(s))

Spec == Init /\ [][Next]_vars /\ Fairness

----------------------------------------------------------------------------
(* Properties *)

Labels == {"top", "flush", "idle_flush", "pop", "idle_poll", "block", "spin", "check", "wait", "ended"}

LoopType ==
    /\ m_queue \in Seq(Send \cup Config \cup Ctl)
    /\ m_tag \in {"open", "blocked"}
    /\ m_phase \in {"none", "requested", "shutdown"}
    /\ pc \in Labels /\ unvisited \subseteq Peers /\ overdue \subseteq Sends
    /\ owed \in Nat /\ wakes \in BOOLEAN /\ others \in Nat

NetType ==
    /\ m_connected \in BOOLEAN
    /\ m_config \in [policy : Policies, max : Nat, spin : {"none", "some", "always"}]
    /\ wire \in [Peers -> Seq(Sends)] /\ known \subseteq Peers
    /\ inbound \in Seq(Requests \cup {Other, Malformed})

SendType ==
    /\ m_outbound \in [Peers -> Seq(Sends)] /\ sent \in [Peers -> Seq(Sends)]
    /\ m_queued_sends \in Nat /\ m_dropped_sends \in Nat /\ told \in 0..MaxSends
    /\ failed \in [Sends -> Nat] /\ dead \subseteq Sends

RequestType ==
    /\ m_pending \subseteq Requests /\ late \subseteq Sends
    /\ forgotten \subseteq Requests /\ replaced \subseteq Requests
    /\ answered \in [Sends -> Seq(Requests)]

TypeOK == LoopType /\ NetType /\ SendType /\ RequestType

\* Every send told to the relay is in exactly one place: queued, a dead letter,
\* handed to the transport, held for its peer, reported to its sender, or
\* counted as dropped; and m_queued_sends is the number held (send_or_hold(),
\* flush_outbound(), fail_all_outbound(): none is lost, sent or reported twice).
SendFate ==
    LET out      == UNION {ToSet(sent[p]) : p \in Peers}
        reported == {s \in Sends : failed[s] > 0}
        parts    == <<Ids(m_queue), dead, out, HeldSends, reported>>
    IN  /\ \A i, j \in DOMAIN parts : i # j => parts[i] \cap parts[j] = {}
        /\ \A s \in Sends : failed[s] <= 1
        /\ Cardinality(UNION {parts[i] : i \in DOMAIN parts}) + m_dropped_sends = told
        /\ m_queued_sends = Cardinality(HeldSends)

\* What a peer gets is in the order in which it was told to the relay, held or
\* not ("never overtake them", and the break at the first refused send).
PeerOrder ==
    \A p \in Peers : \A i, j \in DOMAIN sent[p] : i < j => sent[p][i] < sent[p][j]

\* A request that went out is known until its reply has come, it expired, or a
\* later one with the same correlation id took its entry.  Its requester gets one
\* reply at most, only for a request that went out, and its own: a reply to
\* another one carries the same id, and that one is not known any more.
Known(s) == s \in m_pending \cup forgotten \cup replaced \/ answered[s] # <<>>

RequestsMatched ==
    LET out == UNION {ToSet(sent[p]) : p \in Peers} IN
    \A s \in Sends :
        /\ Len(answered[s]) <= 1
        /\ s \in m_pending \/ answered[s] # <<>> => s \in out
        /\ s \in out \cap Requests /\ m_connected => Known(s)
        /\ s \in replaced => \E r \in out : r # s /\ Corr[r] = Corr[s]
        /\ \A r \in ToSet(answered[s]) :
               r # s => Corr[r] = Corr[s] /\ Known(r) /\ r \notin m_pending

\* The sends told to the relay do not stay in its mailbox or on hold for ever,
\* although the relay may be blocked in the transport when they are told; the
\* idle backstop is not needed for it.  Only pushes that follow the last drain
\* after system_shutdown, their checks made before it, stay: nobody closes the
\* mailbox.
SendSettles ==
    Ids(m_queue) \cup HeldSends # {} ~>
        HeldSends = {} /\ (Ids(m_queue) = {} \/ (pc = "ended" /\ m_phase = "shutdown"))

\* A stop ends the relay's thread wherever it is, waiting included.
StopServed == m_phase # "none" ~> pc = "ended"

=============================================================================
