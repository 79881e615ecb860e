---------------------------- MODULE RelayProofs ----------------------------
(***************************************************************************)
(* Theorems about the relay, for any peers, sends, limits, policies and    *)
(* correlation ids: the fate of every send, its order, and its replies.    *)
(***************************************************************************)
EXTENDS Relay, FiniteSetTheorems, WellFoundedInduction, SequenceTheorems, TLAPS

\* What is in a sequence of sends, and its order.
Has(q, s)     == \E i \in DOMAIN q : q[i] = s
Increasing(q) == \A i, j \in DOMAIN q : i < j => q[i] < q[j]

\* The sends in a mailbox, and their order.
IsSend(q, i)     == q[i].op = "send"
HasSend(q, s)    == \E i \in DOMAIN q : IsSend(q, i) /\ q[i].id = s
IncreasingIds(q) == \A i, j \in DOMAIN q : i < j /\ IsSend(q, i) /\ IsSend(q, j) => q[i].id < q[j].id

\* Where the sends are.
mail    == Ids(m_queue)
heldAt  == [p \in Peers |-> ToSet(m_outbound[p])]
outAt   == [p \in Peers |-> ToSet(sent[p])]
HeldSet == {s \in Sends : \E p \in Peers : s \in heldAt[p]}
OutSet  == {s \in Sends : \E p \in Peers : s \in outAt[p]}

\* Queued, held, out, reported and dead exclude each other, and begin with tell().
PlaceOf(s) ==
    /\ s \in mail => s \notin HeldSet /\ s \notin OutSet /\ failed[s] = 0 /\ s \notin dead
    /\ s \in HeldSet => s \notin OutSet /\ failed[s] = 0 /\ s \notin dead
    /\ s \in OutSet => failed[s] = 0 /\ s \notin dead
    /\ failed[s] = 1 => s \notin dead
    /\ failed[s] \in {0, 1}
    /\ \A p, r \in Peers : s \in heldAt[p] /\ s \in heldAt[r] => p = r
    /\ s \in mail \cup HeldSet \cup OutSet \cup dead \/ failed[s] = 1 => s <= told

Places == \A s \in Sends : PlaceOf(s)

\* The mailbox is in the order of the tell() calls; what is held or out was
\* told before what is queued, and what is out before what is held for its peer.
MailInOrder == IncreasingIds(m_queue)
SeqsInOrder == \A p \in Peers : Increasing(m_outbound[p]) /\ Increasing(sent[p])

OrderOf(p) ==
    /\ \A s \in outAt[p], t \in heldAt[p] : s < t
    /\ \A s \in outAt[p] \cup heldAt[p], t \in mail : s < t

Order == MailInOrder /\ SeqsInOrder /\ \A p \in Peers : OrderOf(p)

\* The thread pops only from a mailbox with something in it, and without a
\* connection it has sent and held nothing, until it ends.
AtPop == pc \in {"flush", "pop"} => m_queue # <<>>
Unconnected ==
    ~m_connected /\ pc # "ended" => \A p \in Peers : m_outbound[p] = <<>> /\ sent[p] = <<>>
Ended == pc = "ended" => ~m_connected

\* A request is over when it was answered, expired or was overwritten.
Gone(s) == s \in forgotten \cup replaced \/ answered[s] # <<>>

\* A requester that got the reply to another request: that one had the same
\* correlation id, went out, and is over for good.
AnswerOf(s) ==
    \A r \in Sends : Has(answered[s], r) /\ r # s =>
        Corr[r] = Corr[s] /\ r \in OutSet /\ Gone(r) /\ r \notin m_pending

\* The life of a request.
RequestOf(s) ==
    /\ Len(answered[s]) <= 1
    /\ s \in m_pending => s \in OutSet /\ answered[s] = <<>>
    /\ answered[s] # <<>> => s \in OutSet
    /\ s \in OutSet \cap Requests /\ m_connected => s \in m_pending \/ Gone(s)
    /\ s \in replaced => \E r \in OutSet : r # s /\ Corr[r] = Corr[s]
    /\ AnswerOf(s)

\* m_pending_requests has one entry per correlation id; what has arrived for a
\* request came after it went out.
OneEach == \A r, s \in m_pending : Corr[r] = Corr[s] => r = s
FromOut == \A i \in DOMAIN inbound : m_connected /\ (inbound[i] \in Requests => inbound[i] \in OutSet)

Matched == OneEach /\ FromOut /\ \A s \in Sends : RequestOf(s)

\* The counters.
Placed    == {s \in Sends : s \in mail \cup HeldSet \cup OutSet \cup dead \/ failed[s] = 1}
HeldCount == m_queued_sends = Cardinality(HeldSet)
ToldCount == m_dropped_sends + Cardinality(Placed) = told
Counts    == HeldCount /\ ToldCount

RelayInv == AtPop /\ Ended /\ Unconnected /\ Places /\ Order /\ Matched /\ Counts

-----------------------------------------------------------------------------
(* Sequences *)

\* The constants, and the numbers of the sends.
LEMMA SendsNat ==
    /\ MaxSends \in Nat /\ MaxOthers \in Nat
    /\ Hwm \in Nat /\ MaxRecv \in Nat \ {0}
    /\ Sends \subseteq Nat /\ Requests \subseteq Sends
    /\ \A s \in Nat : s \in Sends <=> 1 <= s /\ s <= MaxSends
<1>1. /\ MaxSends \in Nat /\ MaxOthers \in Nat
      /\ Hwm \in Nat /\ MaxRecv \in Nat \ {0} /\ Requests \subseteq Sends
  BY RelayAssumption DEF Requests
<1>2. QED
  BY <1>1 DEF Sends

\* A send that is put behind others.
LEMMA AppendSeq ==
    ASSUME NEW q \in Seq(Sends), NEW x \in Sends
    PROVE  /\ Append(q, x) \in Seq(Sends)
           /\ \A s : Has(Append(q, x), s) <=> Has(q, s) \/ s = x
           /\ Increasing(q) /\ (\A s \in Sends : Has(q, s) => s < x) => Increasing(Append(q, x))
<1> DEFINE r == Append(q, x)
<1>1. /\ r \in Seq(Sends)
      /\ DOMAIN r = DOMAIN q \cup {Len(q) + 1}
      /\ \A i \in DOMAIN q : r[i] = q[i] /\ i \in Nat /\ i < Len(q) + 1 /\ q[i] \in Sends
      /\ r[Len(q) + 1] = x /\ Len(q) \in Nat
  OBVIOUS
<1> HIDE DEF r
<1>2. ASSUME NEW s PROVE Has(r, s) <=> Has(q, s) \/ s = x
  BY <1>1 DEF Has
<1>3. ASSUME Increasing(q), \A s \in Sends : Has(q, s) => s < x,
             NEW i \in DOMAIN r, NEW j \in DOMAIN r, i < j
      PROVE  r[i] < r[j]
  <2>1. i \in DOMAIN q
    BY <1>1, <1>3
  <2>2. CASE j \in DOMAIN q
    BY <1>1, <1>3, <2>1, <2>2 DEF Increasing
  <2>3. CASE j = Len(q) + 1
    BY <1>1, <1>3, <2>1, <2>3 DEF Has
  <2>4. QED
    BY <1>1, <2>2, <2>3
<1>4. QED
  BY <1>1, <1>2, <1>3 DEF r, Increasing

\* The oldest of the held sends is taken.
LEMMA TailSeq ==
    ASSUME NEW q \in Seq(Sends), q # <<>>, Increasing(q)
    PROVE  /\ Head(q) \in Sends /\ Has(q, Head(q))
           /\ Tail(q) \in Seq(Sends) /\ Increasing(Tail(q))
           /\ \A s : Has(Tail(q), s) <=> Has(q, s) /\ s # Head(q)
           /\ \A s \in Sends : Has(Tail(q), s) => Head(q) < s
<1> DEFINE r == Tail(q)
           h == Head(q)
<1>1. /\ r \in Seq(Sends) /\ h \in Sends
      /\ 1 \in DOMAIN q /\ q[1] = h
      /\ \A i \in DOMAIN r : i \in Nat /\ i + 1 \in DOMAIN q /\ r[i] = q[i + 1] /\ 1 < i + 1
      /\ \A i \in DOMAIN q : i # 1 => i - 1 \in DOMAIN r /\ r[i - 1] = q[i]
  OBVIOUS
<1>2. Sends \subseteq Nat /\ \A i \in DOMAIN q : q[i] \in Sends
  BY SendsNat
<1> HIDE DEF r, h
<1>3. ASSUME NEW i \in DOMAIN r PROVE h < r[i] /\ r[i] # h
  <2>1. i + 1 \in DOMAIN q /\ 1 < i + 1 /\ r[i] = q[i + 1] /\ q[i + 1] \in Nat /\ h \in Nat
    BY <1>2, <1>1
  <2>2. h < r[i]
    BY <1>1, <2>1 DEF Increasing
  <2>3. QED
    BY <2>1, <2>2
<1>4. ASSUME NEW s PROVE Has(r, s) <=> Has(q, s) /\ s # h
  <2>1. ASSUME Has(r, s) PROVE Has(q, s) /\ s # h
    BY <1>1, <1>3, <2>1 DEF Has
  <2>2. ASSUME Has(q, s), s # h PROVE Has(r, s)
    <3>1. PICK i \in DOMAIN q : q[i] = s
      BY <2>2 DEF Has
    <3>2. i - 1 \in DOMAIN r /\ r[i - 1] = s
      BY <1>1, <2>2, <3>1
    <3>3. QED
      BY <3>2 DEF Has
  <2>3. QED
    BY <2>1, <2>2
<1>5. ASSUME NEW i \in DOMAIN r, NEW j \in DOMAIN r, i < j PROVE r[i] < r[j]
  <2>1. i + 1 \in DOMAIN q /\ j + 1 \in DOMAIN q /\ i + 1 < j + 1
    BY <1>1, <1>5
  <2>2. QED
    BY <1>1, <2>1 DEF Increasing
<1>6. Has(q, h)
  BY <1>1 DEF Has
<1>7. QED
  BY <1>1, <1>3, <1>4, <1>5, <1>6 DEF r, h, Increasing, Has

Message == Send \cup Config \cup Ctl

\* A message with the operation of a send is one.
LEMMA SendIs ==
    ASSUME NEW m \in Message, m.op = "send"
    PROVE  m \in Send /\ m.id \in Sends /\ m.peer \in Peers
BY DEF Message, Send, Config, Ctl

\* A message is put into the mailbox.
LEMMA AppendMail ==
    ASSUME NEW q \in Seq(Message), NEW m \in Message
    PROVE  /\ Append(q, m) \in Seq(Message)
           /\ \A s : HasSend(Append(q, m), s) <=> HasSend(q, s) \/ (m.op = "send" /\ s = m.id)
           /\ IncreasingIds(q) /\ (m.op = "send" => \A s \in Sends : HasSend(q, s) => s < m.id)
                 => IncreasingIds(Append(q, m))
<1> DEFINE r == Append(q, m)
<1>1. /\ r \in Seq(Message)
      /\ DOMAIN r = DOMAIN q \cup {Len(q) + 1}
      /\ \A i \in DOMAIN q : r[i] = q[i] /\ i \in Nat /\ i < Len(q) + 1 /\ q[i] \in Message
      /\ r[Len(q) + 1] = m /\ Len(q) \in Nat
  OBVIOUS
<1> HIDE DEF r
<1>2. ASSUME NEW s PROVE HasSend(r, s) <=> HasSend(q, s) \/ (m.op = "send" /\ s = m.id)
  BY <1>1 DEF HasSend, IsSend
<1>3. ASSUME IncreasingIds(q), m.op = "send" => \A s \in Sends : HasSend(q, s) => s < m.id,
             NEW i \in DOMAIN r, NEW j \in DOMAIN r, i < j, IsSend(r, i), IsSend(r, j)
      PROVE  r[i].id < r[j].id
  <2>1. i \in DOMAIN q
    BY <1>1, <1>3
  <2>2. CASE j \in DOMAIN q
    BY <1>1, <1>3, <2>1, <2>2 DEF IncreasingIds, IsSend
  <2>3. CASE j = Len(q) + 1
    <3>1. q[i].id \in Sends /\ HasSend(q, q[i].id) /\ m.op = "send"
      BY <1>1, <1>3, <2>1, <2>3, SendIs DEF IsSend, HasSend
    <3>2. QED
      BY <1>1, <1>3, <2>1, <2>3, <3>1
  <2>4. QED
    BY <1>1, <2>2, <2>3
<1>4. QED
  BY <1>1, <1>2, <1>3 DEF r, IncreasingIds

\* A message is taken from the mailbox.
LEMMA TailMail ==
    ASSUME NEW q \in Seq(Message), q # <<>>, IncreasingIds(q)
    PROVE  /\ Head(q) \in Message
           /\ Tail(q) \in Seq(Message) /\ IncreasingIds(Tail(q))
           /\ Head(q).op # "send" => \A s : HasSend(Tail(q), s) <=> HasSend(q, s)
           /\ Head(q).op = "send" =>
                 /\ Head(q).id \in Sends /\ Head(q).peer \in Peers /\ HasSend(q, Head(q).id)
                 /\ \A s : HasSend(Tail(q), s) <=> HasSend(q, s) /\ s # Head(q).id
                 /\ \A s \in Sends : HasSend(Tail(q), s) => Head(q).id < s
<1> DEFINE r == Tail(q)
           h == Head(q)
<1>1. /\ r \in Seq(Message) /\ h \in Message
      /\ 1 \in DOMAIN q /\ q[1] = h
      /\ \A i \in DOMAIN r : i \in Nat /\ i + 1 \in DOMAIN q /\ r[i] = q[i + 1] /\ 1 < i + 1
      /\ \A i \in DOMAIN q : i # 1 => i - 1 \in DOMAIN r /\ r[i - 1] = q[i]
      /\ \A i \in DOMAIN q : q[i] \in Message
  OBVIOUS
<1> HIDE DEF r, h
<1>2. ASSUME NEW i \in DOMAIN r, h.op = "send", IsSend(r, i) PROVE h.id < r[i].id /\ r[i].id # h.id
  <2>1. i + 1 \in DOMAIN q /\ 1 < i + 1 /\ r[i] = q[i + 1] /\ q[i + 1] \in Message
    BY <1>1
  <2>2. r[i].id \in Nat /\ h.id \in Nat
    BY <1>1, <1>2, <2>1, SendIs, SendsNat DEF IsSend
  <2>3. h.id < r[i].id
    BY <1>1, <1>2, <2>1 DEF IncreasingIds, IsSend
  <2>4. QED
    BY <2>2, <2>3
<1>3. ASSUME NEW s, HasSend(r, s) PROVE HasSend(q, s) /\ (h.op = "send" => s # h.id)
  BY <1>1, <1>2, <1>3 DEF HasSend, IsSend
<1>4. ASSUME NEW s, HasSend(q, s), h.op = "send" => s # h.id PROVE HasSend(r, s)
  <2>1. PICK i \in DOMAIN q : q[i].op = "send" /\ q[i].id = s
    BY <1>4 DEF HasSend, IsSend
  <2>2. i - 1 \in DOMAIN r /\ r[i - 1] = q[i]
    BY <1>1, <1>4, <2>1
  <2>3. QED
    BY <2>1, <2>2 DEF HasSend, IsSend
<1>5. ASSUME NEW i \in DOMAIN r, NEW j \in DOMAIN r, i < j, IsSend(r, i), IsSend(r, j)
      PROVE  r[i].id < r[j].id
  <2>1. i + 1 \in DOMAIN q /\ j + 1 \in DOMAIN q /\ i + 1 < j + 1
    BY <1>1, <1>5
  <2>2. QED
    BY <1>1, <1>5, <2>1 DEF IncreasingIds, IsSend
<1>6. h.op = "send" => HasSend(q, h.id)
  BY <1>1 DEF HasSend, IsSend
<1>7. h.op = "send" => h.id \in Sends /\ h.peer \in Peers
  BY <1>1, SendIs
<1>8. h.op = "send" => \A s \in Sends : HasSend(r, s) => h.id < s
  BY <1>2 DEF HasSend
<1>9. IncreasingIds(r)
  BY <1>5 DEF IncreasingIds
<1>10. QED
  BY <1>1, <1>3, <1>4, <1>6, <1>7, <1>8, <1>9 DEF r, h

-----------------------------------------------------------------------------
(* Types *)

\* What is put into the mailbox.
LEMMA EnqueueLoop ==
    ASSUME LoopType, AtPop, NEW m \in Message, Enqueue(m)
    PROVE  /\ m_queue' \in Seq(Message) /\ m_queue' # <<>> /\ m_tag' \in {"open", "blocked"}
           /\ owed' \in Nat /\ UNCHANGED <<m_phase, loop, wakes>>
BY DEF LoopType, Enqueue, Message

\* The messages that are told.
LEMMA ToldMessage ==
    /\ \A s \in Sends, p \in Peers : [op |-> "send", id |-> s, peer |-> p] \in Message
    /\ \A m \in Config \cup Ctl : m \in Message /\ m.op # "send"
BY DEF Message, Send, Config, Ctl

\* The number of the next send.
LEMMA NextSend ==
    ASSUME SendType, told < MaxSends
    PROVE  told + 1 \in Sends /\ told + 1 \in 0..MaxSends
BY SendsNat DEF SendType

\* The mailbox, the thread and the wake-ups.
LEMMA LoopStep ==
    ASSUME TypeOK, AtPop, [Next]_vars
    PROVE  LoopType' /\ AtPop'
<1> USE DEF Message, round
<1>1. LoopType /\ SendType /\ AtPop /\ late \subseteq Sends
  BY DEF TypeOK, RequestType
<1>2. ASSUME NEW p \in Peers, TellSend(p) PROVE LoopType' /\ AtPop'
  <2>1. CASE Enqueue([op |-> "send", id |-> told', peer |-> p])
    <3>1. told' = told + 1 /\ told + 1 \in Sends
      BY <1>1, <1>2, NextSend DEF TellSend
    <3>2. Enqueue([op |-> "send", id |-> told + 1, peer |-> p])
      BY <2>1, <3>1
    <3>3. QED
      BY <1>1, <1>2, <3>1, <3>2, ToldMessage, EnqueueLoop DEF TellSend, LoopType, AtPop, loop
  <2>2. CASE UNCHANGED <<mbox, m_phase, loop, wakeV>>
    BY <1>1, <1>2, <2>2 DEF TellSend, LoopType, AtPop, loop, mbox, wakeV
  <2>3. QED
    BY <1>2, <2>1, <2>2 DEF TellSend
<1>3. ASSUME NEW m \in Config \cup Ctl, TellOther(m) PROVE LoopType' /\ AtPop'
  <2>1. Enqueue(m) /\ others' = others + 1
    BY <1>3 DEF TellOther
  <2>2. QED
    BY <1>1, <1>3, <2>1, ToldMessage, EnqueueLoop DEF LoopType, AtPop, loop
<1>5. CASE StopActor \/ Wake \/ WaitEnds \/ RetryTime \/ Backstop \/ Check
  <2>1. CASE StopActor
    BY <1>1, <2>1 DEF StopActor, LoopType, AtPop, loop, mbox, bound
  <2>2. CASE Wake
    BY <1>1, <2>2 DEF Wake, LoopType, AtPop, loop, mbox, bound
  <2>3. CASE Return \/ Check
    BY <1>1, <2>3 DEF Return, Check, Goto, Labels, LoopType, AtPop, wakeV, bound
  <2>4. QED
    BY <1>5, <2>1, <2>2, <2>3 DEF WaitEnds, RetryTime, Backstop
<1>6. ASSUME NEW p \in Peers, PeerConnect(p) \/ PeerLost(p) \/ PeerTakes(p) PROVE LoopType' /\ AtPop'
  BY <1>1, <1>6 DEF PeerConnect, PeerLost, PeerTakes, LoopType, AtPop, loop, mbox, wakeV, bound
<1>7. ASSUME NEW what, Arrives(what) \/ DeadlinePasses(what) PROVE LoopType' /\ AtPop'
  BY <1>1, <1>7 DEF Arrives, DeadlinePasses, LoopType, AtPop, loop, mbox, wakeV, bound
<1>8. CASE TopProcess \/ TopIdle \/ IdlePoll
  BY <1>1, <1>8 DEF TopProcess, TopIdle, IdlePoll, Flush, Goto, Labels, LoopType, AtPop, mbox, wakeV, bound
<1>9. CASE Block \/ Spin
  BY <1>1, <1>9 DEF Block, Spin, TryBlock, Expire, Goto, Labels, LoopType, AtPop, wakeV, bound
<1>10. CASE TopStop
  BY <1>1, <1>10 DEF TopStop, Goto, Labels, LoopType, AtPop, wakeV, bound
<1>11. CASE FlushVisit
  <2>1. PICK p \in unvisited : Visit(p)
    BY <1>11 DEF FlushVisit
  <2>2. CASE FlushLeaves(p)
    BY <1>1, <1>11, <2>2 DEF FlushVisit, FlushLeaves, Goto, Labels, LoopType, AtPop, mbox, wakeV, bound
  <2>3. CASE FlushOne(p)
    BY <1>1, <1>11, <2>3 DEF FlushVisit, FlushOne, FlushPops, LoopType, AtPop, mbox, wakeV, bound, loop
  <2>4. QED
    BY <2>1, <2>2, <2>3 DEF Visit
<1>12. ASSUME NEW op, Pop(op), m_phase' \in {m_phase, "shutdown"} PROVE LoopType' /\ AtPop'
  <2>1. m_queue # <<>>
    BY <1>1, <1>12 DEF Pop, AtPop
  <2>2. QED
    BY <1>1, <1>12, <2>1 DEF Pop, Goto, Labels, LoopType, AtPop, wakeV, bound
<1>13. CASE PopSend \/ PopInvalid \/ PopConfig \/ PopBind \/ PopShutdown
  BY <1>12, <1>13 DEF PopSend, PopInvalid, PopConfig, PopBind, PopShutdown
<1>14. CASE UNCHANGED vars
  BY <1>1, <1>14 DEF vars, LoopType, AtPop, loop, mbox, wakeV, bound
<1>15. QED
  BY <1>2, <1>3, <1>5, <1>6, <1>7, <1>8, <1>9, <1>10, <1>11, <1>13, <1>14
     DEF Next, Thread, Environment

\* The first k of the n elements of a sequence, and the others.
SplitAt(S, q, n, k) ==
    /\ SubSeq(q, 1, k) \in Seq(S) /\ Len(SubSeq(q, 1, k)) = k
    /\ \A i \in DOMAIN SubSeq(q, 1, k) : i \in Nat /\ i \in DOMAIN q /\ SubSeq(q, 1, k)[i] = q[i]
    /\ SubSeq(q, k + 1, n) \in Seq(S)
    /\ \A i \in DOMAIN SubSeq(q, k + 1, n) : \E j \in DOMAIN q : SubSeq(q, k + 1, n)[i] = q[j]

\* A prefix of a sequence and what follows it are made of its elements.
LEMMA FrontRest ==
    ASSUME NEW S, NEW q \in Seq(S), NEW n \in Nat, n = Len(q), NEW k \in Nat, k <= n
    PROVE  SplitAt(S, q, n, k)
<1> DEFINE front == SubSeq(q, 1, k)
           rest  == SubSeq(q, k + 1, n)
<1>1. DOMAIN q = 1..n /\ \A i \in 1..n : q[i] \in S
  OBVIOUS
<1>2. front \in Seq(S) /\ Len(front) = k /\ \A i \in 1..k : front[i] = q[i]
  <2>1. \A i \in 1..k : q[i] \in S
    BY <1>1
  <2>2. QED
    BY <2>1, SubSeqProperties
<1>3. rest \in Seq(S) /\ Len(rest) = n - k /\ \A i \in 1..(n - k) : rest[i] = q[i + k]
  <2>1. \A i \in (k + 1)..n : q[i] \in S
    BY <1>1
  <2>2. /\ rest \in Seq(S)
        /\ Len(rest) = IF k + 1 <= n THEN n - (k + 1) + 1 ELSE 0
        /\ \A i \in 1..(n - (k + 1) + 1) : rest[i] = q[(k + 1) + i - 1]
    BY <2>1, SubSeqProperties
  <2> HIDE DEF rest
  <2>3. QED
    BY <2>2
<1> HIDE DEF front, rest
<1>4. \A i \in DOMAIN front : i \in Nat /\ i \in DOMAIN q /\ front[i] = q[i]
  BY <1>1, <1>2
<1>5. ASSUME NEW i \in DOMAIN rest PROVE \E j \in DOMAIN q : rest[i] = q[j]
  <2>1. i \in 1..(n - k)
    BY <1>3
  <2>2. i + k \in DOMAIN q /\ rest[i] = q[i + k]
    BY <1>1, <1>3, <2>1
  <2>3. QED
    BY <2>2
<1>6. QED
  BY <1>2, <1>3, <1>4, <1>5 DEF front, rest, SplitAt

\* What poll() takes is the front of what has arrived.
LEMMA TakenFront ==
    ASSUME NEW S, inbound \in Seq(S)
    PROVE  /\ Taken \in Seq(S)
           /\ \A i \in DOMAIN Taken : i \in Nat /\ i \in DOMAIN inbound /\ Taken[i] = inbound[i]
           /\ SubSeq(inbound, Len(Taken) + 1, Len(inbound)) \in Seq(S)
           /\ \A i \in DOMAIN SubSeq(inbound, Len(Taken) + 1, Len(inbound)) :
                 \E j \in DOMAIN inbound : SubSeq(inbound, Len(Taken) + 1, Len(inbound))[i] = inbound[j]
<1>1. Len(inbound) \in Nat /\ MaxRecv \in Nat
  BY SendsNat
<1>2. \E x \in {Len(inbound), MaxRecv} : \A y \in {Len(inbound), MaxRecv} : x <= y
  BY <1>1
<1>3. PICK k \in {Len(inbound), MaxRecv} : k = Min({Len(inbound), MaxRecv}) /\ k <= Len(inbound)
  BY <1>2 DEF Min
<1>4. k \in Nat /\ Taken = SubSeq(inbound, 1, k)
  BY <1>1, <1>3 DEF Taken
<1> DEFINE n == Len(inbound)
<1>5. n \in Nat /\ n = Len(inbound) /\ k <= n
  BY <1>1, <1>3
<1> HIDE DEF n
<1>6. SplitAt(S, inbound, n, k)
  BY <1>4, <1>5, FrontRest
<1>7. QED
  BY <1>4, <1>5, <1>6, Zenon DEF SplitAt

\* poll() leaves the types of the connection.
LEMMA PollNet ==
    ASSUME NetType, Poll, UNCHANGED <<m_connected, m_config>>
    PROVE  NetType'
BY TakenFront DEF NetType, Poll

\* The configuration and the transport.
LEMMA NetStep ==
    ASSUME TypeOK, AtPop, Order, [Next]_vars
    PROVE  NetType'
<1>1. NetType /\ LoopType /\ SendType /\ IncreasingIds(m_queue) /\ m_queue \in Seq(Message)
  BY DEF TypeOK, Order, MailInOrder, LoopType, Message
<1>2. ASSUME NEW p \in Peers, TellSend(p) PROVE NetType'
  BY <1>1, <1>2 DEF TellSend, Enqueue, NetType, net
<1>3. ASSUME NEW m, TellOther(m) PROVE NetType'
  BY <1>1, <1>3 DEF TellOther, Enqueue, NetType, net
<1>5. CASE StopActor \/ Wake \/ WaitEnds \/ RetryTime \/ Backstop \/ Check \/ TopIdle
  BY <1>1, <1>5 DEF StopActor, Wake, WaitEnds, RetryTime, Backstop, Return, Check, TopIdle, NetType, net
<1>6. ASSUME NEW p \in Peers, PeerConnect(p) \/ PeerLost(p) \/ PeerTakes(p) PROVE NetType'
  <2>1. CASE PeerConnect(p)
    BY <1>1, <2>1 DEF PeerConnect, NetType
  <2>2. CASE PeerLost(p)
    BY <1>1, <2>2 DEF PeerLost, NetType
  <2>3. CASE PeerTakes(p)
    <3>1. Tail(wire[p]) \in Seq(Sends)
      BY <1>1, <2>3 DEF PeerTakes, NetType
    <3>2. QED
      BY <1>1, <2>3, <3>1 DEF PeerTakes, NetType
  <2>4. QED
    BY <1>6, <2>1, <2>2, <2>3
<1>7. ASSUME NEW what, Arrives(what), what \in Requests \cup {Other, Malformed} PROVE NetType'
  BY <1>1, <1>7 DEF Arrives, NetType
<1>8. ASSUME NEW s, DeadlinePasses(s) PROVE NetType'
  BY <1>1, <1>8 DEF DeadlinePasses, NetType, net
<1>9. CASE TopProcess \/ IdlePoll \/ Spin
  <2>1. CASE Poll
    BY <1>1, <1>9, <2>1, PollNet DEF TopProcess, IdlePoll, Spin
  <2>2. CASE UNCHANGED net
    BY <1>1, <1>9, <2>2 DEF TopProcess, IdlePoll, Spin, NetType, net
  <2>3. QED
    BY <1>9, <2>1, <2>2 DEF TopProcess, IdlePoll, Spin
<1>10. CASE Block
  BY <1>1, <1>10 DEF Block, Expire, NetType, net
<1>11. CASE TopStop
  <2>1. /\ wire' = [p \in Peers |-> <<>>] /\ known' = {} /\ inbound' = <<>>
        /\ m_connected' = FALSE /\ m_config' = m_config
    BY <1>11 DEF TopStop, Cleanup, TransportClose
  <2>2. wire' \in [Peers -> Seq(Sends)] /\ inbound' \in Seq(Requests \cup {Other, Malformed})
    BY <2>1
  <2>3. known' \subseteq Peers /\ m_connected' \in BOOLEAN
    BY <2>1
  <2>4. QED
    BY <1>1, <2>1, <2>2, <2>3 DEF NetType
<1>12. ASSUME NEW s \in Sends, NEW p \in Peers, HandOver(s, p),
              UNCHANGED <<known, inbound, m_connected, m_config>>
       PROVE  NetType'
  BY <1>1, <1>12 DEF HandOver, NetType
<1>13. CASE FlushVisit
  <2>1. PICK p \in unvisited : Visit(p)
    BY <1>13 DEF FlushVisit
  <2>2. CASE FlushLeaves(p)
    BY <1>1, <1>13, <2>2 DEF FlushVisit, FlushLeaves, NetType, net
  <2>3. CASE FlushOne(p) /\ m_outbound[p] # <<>>
    <3>1. p \in Peers /\ Head(m_outbound[p]) \in Sends
      BY <1>1, <2>3 DEF LoopType, SendType
    <3>2. CASE HandOver(Head(m_outbound[p]), p)
      BY <1>12, <1>13, <2>3, <3>1, <3>2 DEF FlushVisit, FlushOne, FlushPops
    <3>3. CASE UNCHANGED wire
      BY <1>1, <1>13, <2>3, <3>3 DEF FlushVisit, FlushOne, FlushPops, NetType
    <3>4. QED
      BY <2>3, <3>2, <3>3 DEF FlushOne, FlushFails
  <2>4. QED
    BY <2>1, <2>2, <2>3 DEF Visit
<1>14. CASE PopSend
  <2> DEFINE s == Head(m_queue).id
             p == Head(m_queue).peer
  <2>1. s \in Sends /\ p \in Peers
    BY <1>1, <1>14, TailMail DEF PopSend, Pop, AtPop
  <2> HIDE DEF s, p
  <2>2. OnSend(s, p) /\ UNCHANGED <<m_connected, m_config>>
    BY <1>14 DEF PopSend, s, p
  <2>3. CASE HandOver(s, p) /\ UNCHANGED <<known, inbound>>
    BY <1>12, <2>1, <2>2, <2>3
  <2>4. CASE UNCHANGED net
    BY <1>1, <2>2, <2>4 DEF NetType, net
  <2>5. QED
    BY <2>2, <2>3, <2>4 DEF OnSend, SendOrHold
<1>15. CASE PopConfig
  <2>1. Head(m_queue) \in Message /\ Head(m_queue).op = "config"
    BY <1>1, <1>15, TailMail DEF PopConfig, Pop, AtPop
  <2>2. Head(m_queue).to \in Configs
    BY <2>1 DEF Message, Send, Config, Ctl
  <2>3. QED
    BY <1>1, <1>15, <2>2, RelayAssumption DEF PopConfig, NetType, net
<1>16. CASE PopInvalid \/ PopBind \/ PopShutdown
  BY <1>1, <1>16 DEF PopInvalid, PopBind, PopShutdown, TransportBind, NetType, net
<1>17. CASE UNCHANGED vars
  BY <1>1, <1>17 DEF vars, NetType, net
<1>18. QED
  BY <1>2, <1>3, <1>5, <1>6, <1>7, <1>8, <1>9, <1>10, <1>11, <1>13, <1>14, <1>15, <1>16, <1>17
     DEF Next, Thread, Environment

-----------------------------------------------------------------------------
(* Places and order *)

\* The views of the mailbox and of the queues of sends.
LEMMA Views ==
    /\ \A q \in Seq(Message) : \A s : s \in Ids(q) <=> HasSend(q, s)
    /\ \A q \in Seq(Message) : Ids(q) \subseteq Sends
    /\ \A q \in Seq(Sends) : \A s : s \in ToSet(q) <=> Has(q, s)
    /\ \A q \in Seq(Sends) : ToSet(q) \subseteq Sends
<1>1. ASSUME NEW q \in Seq(Message), NEW s PROVE s \in Ids(q) <=> HasSend(q, s)
  BY DEF Ids, ToSet, HasSend, IsSend
<1>2. ASSUME NEW q \in Seq(Message), NEW s \in Ids(q) PROVE s \in Sends
  BY SendIs DEF Ids, ToSet
<1>3. ASSUME NEW q \in Seq(Sends), NEW s PROVE s \in ToSet(q) <=> Has(q, s)
  BY DEF ToSet, Has
<1>4. ASSUME NEW q \in Seq(Sends), NEW s \in ToSet(q) PROVE s \in Sends
  BY DEF ToSet
<1>5. QED
  BY <1>1, <1>2, <1>3, <1>4

\* After a step the views are those of the sequences after it.
LEMMA Primed ==
    /\ mail' = Ids(m_queue')
    /\ heldAt' = [p \in Peers |-> ToSet(m_outbound'[p])]
    /\ outAt' = [p \in Peers |-> ToSet(sent'[p])]
    /\ MailInOrder' <=> IncreasingIds(m_queue')
    /\ SeqsInOrder' <=> \A p \in Peers : Increasing(m_outbound'[p]) /\ Increasing(sent'[p])
<1>1. mail' = Ids(m_queue')
  BY DEF mail, Ids, ToSet
<1>2. heldAt' = [p \in Peers |-> ToSet(m_outbound'[p])]
  BY DEF heldAt, ToSet
<1>3. outAt' = [p \in Peers |-> ToSet(sent'[p])]
  BY DEF outAt, ToSet
<1>4. MailInOrder' <=> IncreasingIds(m_queue')
  BY DEF MailInOrder, IncreasingIds, IsSend
<1>5. SeqsInOrder' <=> \A p \in Peers : Increasing(m_outbound'[p]) /\ Increasing(sent'[p])
  BY DEF SeqsInOrder, Increasing
<1>6. QED
  BY <1>1, <1>2, <1>3, <1>4, <1>5

\* Nothing is in an empty sequence.
LEMMA NothingIn ==
    ASSUME NEW q, q = <<>>
    PROVE  ToSet(q) = {} /\ Ids(q) = {} /\ Increasing(q) /\ IncreasingIds(q)
<1>1. DOMAIN q = {}
  OBVIOUS
<1>2. ToSet(q) = {}
  BY <1>1 DEF ToSet
<1>3. Ids(q) = {}
  BY <1>2 DEF Ids
<1>4. Increasing(q)
  BY <1>1 DEF Increasing
<1>5. IncreasingIds(q)
  BY <1>1 DEF IncreasingIds
<1>6. QED
  BY <1>2, <1>3, <1>4, <1>5

\* Sets of sends are finite.
LEMMA SendsFinite ==
    /\ IsFiniteSet(HeldSet) /\ IsFiniteSet(Placed)
    /\ IsFiniteSet(HeldSet') /\ IsFiniteSet(Placed')
    /\ Cardinality(HeldSet) \in Nat /\ Cardinality(Placed) \in Nat
<1>1. IsFiniteSet(Sends)
  BY SendsNat, FS_Interval DEF Sends
<1>2. HeldSet \subseteq Sends /\ Placed \subseteq Sends /\ HeldSet' \subseteq Sends /\ Placed' \subseteq Sends
  BY DEF HeldSet, Placed
<1>3. QED
  BY <1>1, <1>2, FS_Subset, FS_CardinalityType

SendInv == Places /\ Order /\ Counts

sendV == <<m_queue, m_outbound, m_queued_sends, m_dropped_sends, told, sent, failed, dead>>

\* The views of the queues are sets of sends.
LEMMA ViewTypes ==
    ASSUME TypeOK
    PROVE  /\ m_queue \in Seq(Message) /\ mail \subseteq Sends
           /\ heldAt \in [Peers -> SUBSET Sends] /\ outAt \in [Peers -> SUBSET Sends]
           /\ \A p \in Peers : heldAt[p] \subseteq HeldSet /\ outAt[p] \subseteq OutSet
<1>1. m_queue \in Seq(Message) /\ m_outbound \in [Peers -> Seq(Sends)] /\ sent \in [Peers -> Seq(Sends)]
  BY DEF TypeOK, LoopType, SendType, Message
<1>2. mail \subseteq Sends
  BY <1>1, Views DEF mail
<1>3. heldAt \in [Peers -> SUBSET Sends] /\ outAt \in [Peers -> SUBSET Sends]
  BY <1>1, Views DEF heldAt, outAt
<1>4. QED
  BY <1>1, <1>2, <1>3 DEF HeldSet, OutSet

\* A step that touches no send.
LEMMA QuietSends ==
    ASSUME SendType, SendInv, UNCHANGED sendV
    PROVE  SendType' /\ SendInv'
<1>1. SendType'
  BY DEF SendType, sendV
<1>2. mail' = mail /\ heldAt' = heldAt /\ outAt' = outAt /\ MailInOrder' /\ SeqsInOrder'
  BY Primed DEF sendV, mail, heldAt, outAt, SendInv, Order, MailInOrder, SeqsInOrder
<1>3. HeldSet' = HeldSet /\ OutSet' = OutSet
  BY <1>2 DEF HeldSet, OutSet
<1>4. Placed' = Placed
  BY <1>2, <1>3 DEF Placed, sendV
<1>5. ASSUME NEW s \in Sends PROVE PlaceOf(s)'
  BY <1>2, <1>3 DEF SendInv, Places, PlaceOf, sendV
<1>6. ASSUME NEW p \in Peers PROVE OrderOf(p)'
  BY <1>2 DEF SendInv, Order, OrderOf
<1>7. Counts'
  BY <1>3, <1>4 DEF SendInv, Counts, HeldCount, ToldCount, sendV
<1>8. QED
  BY <1>1, <1>2, <1>5, <1>6, <1>7 DEF SendInv, Places, Order

\* A send is told and queued, or told and dead.
LEMMA TellPlaces ==
    ASSUME TypeOK, SendInv, NEW p \in Peers, TellSend(p)
    PROVE  SendType' /\ SendInv'
<1> DEFINE x == told + 1
<1>1. SendType /\ Places /\ Order /\ Counts
  BY DEF TypeOK, SendInv
<1>2. /\ x \in Sends /\ x \in 0..MaxSends /\ told' = x /\ told \in Nat /\ x \in Nat
      /\ UNCHANGED <<m_outbound, m_queued_sends, m_dropped_sends, sent, failed>>
  BY <1>1, NextSend DEF TellSend, Enqueue, held, SendType
<1>3. x \notin mail /\ x \notin HeldSet /\ x \notin OutSet /\ failed[x] = 0 /\ x \notin dead
  BY <1>1, <1>2 DEF Places, PlaceOf
<1>4. \A s \in Sends : s \in mail \cup HeldSet \cup OutSet => s < x
  BY <1>1, <1>2, SendsNat DEF Places, PlaceOf
<1>5. heldAt' = heldAt /\ outAt' = outAt /\ SeqsInOrder'
  BY <1>1, <1>2, Primed DEF heldAt, outAt, Order, SeqsInOrder
<1>6. /\ MailInOrder'
      /\ \/ dead' = dead /\ mail' = mail \cup {x}
         \/ dead' = dead \cup {x} /\ mail' = mail
  <2>1. CASE Enqueue([op |-> "send", id |-> told', peer |-> p]) /\ dead' = dead
    <3> DEFINE m == [op |-> "send", id |-> x, peer |-> p]
    <3>1. m \in Message /\ m.op = "send" /\ m.id = x
      BY <1>2, ToldMessage
    <3> HIDE DEF m
    <3>2. m_queue' = Append(m_queue, m) /\ dead' = dead
      BY <1>2, <2>1 DEF Enqueue, m
    <3>3. m_queue \in Seq(Message)
      BY ViewTypes
    <3>4. \A s \in Sends : HasSend(m_queue, s) => s < x
      BY <1>4, <3>3, Views DEF mail
    <3> HIDE DEF x
    <3>5. /\ m_queue' \in Seq(Message)
          /\ \A s : HasSend(m_queue', s) <=> HasSend(m_queue, s) \/ s = x
          /\ IncreasingIds(m_queue')
      BY <1>1, <3>1, <3>2, <3>3, <3>4, AppendMail DEF Order, MailInOrder
    <3>6. Ids(m_queue') = Ids(m_queue) \cup {x}
      BY <3>3, <3>5, Views
    <3>7. QED
      BY <3>2, <3>5, <3>6, Primed DEF mail
  <2>2. CASE UNCHANGED mbox /\ dead' = dead \cup {told'}
    <3>1. m_queue' = m_queue /\ dead' = dead \cup {x}
      BY <1>2, <2>2 DEF mbox
    <3>2. QED
      BY <1>1, <3>1, Primed DEF Order, MailInOrder, mail
  <2>3. QED
    BY <2>1, <2>2 DEF TellSend
<1>7. HeldSet' = HeldSet /\ OutSet' = OutSet
  BY <1>5 DEF HeldSet, OutSet
<1> HIDE DEF x
<1>8. ASSUME NEW s \in Sends PROVE PlaceOf(s)'
  <2>1. PlaceOf(s) /\ failed'[s] = failed[s] /\ s \in Nat
    BY <1>1, <1>2, SendsNat DEF Places
  <2>2. s <= told => s <= told'
    BY <1>2, <2>1 DEF x
  <2>3. QED
    BY <1>2, <1>3, <1>5, <1>6, <1>7, <2>1, <2>2 DEF PlaceOf
<1>9. ASSUME NEW r \in Peers PROVE OrderOf(r)'
  <2>1. OrderOf(r) /\ outAt[r] \subseteq OutSet /\ heldAt[r] \subseteq HeldSet /\ OutSet \cup HeldSet \subseteq Sends
    BY <1>1, ViewTypes DEF Order, OutSet, HeldSet
  <2>2. \A s \in outAt[r] \cup heldAt[r] : s < x
    BY <1>4, <2>1
  <2>3. QED
    BY <1>5, <1>6, <2>1, <2>2 DEF OrderOf
<1>10. Placed' = Placed \cup {x} /\ x \notin Placed
  BY <1>2, <1>3, <1>6, <1>7 DEF Placed
<1>11. Cardinality(Placed') = Cardinality(Placed) + 1
  BY <1>10, SendsFinite, FS_AddElement
<1>12. Counts'
  BY <1>1, <1>2, <1>7, <1>11, SendsFinite DEF Counts, HeldCount, ToldCount, SendType, x
<1>13. dead' \subseteq Sends
  BY <1>1, <1>2, <1>6 DEF SendType
<1>14. SendType'
  BY <1>1, <1>2, <1>13 DEF SendType
<1>15. QED
  BY <1>5, <1>6, <1>8, <1>9, <1>12, <1>14 DEF SendInv, Places, Order

\* A send leaves the mailbox, or the queue of its peer, for one other place or
\* none: the places still exclude each other.
LEMMA MovePlaces ==
    ASSUME Places, NEW x \in Sends, told' = told, dead' = dead,
           x \in mail \cup HeldSet,
           mail' \subseteq mail, x \notin mail',
           \A s \in Sends : s # x => /\ (s \in HeldSet' <=> s \in HeldSet) /\ (s \in OutSet' <=> s \in OutSet)
                                     /\ failed'[s] = failed[s]
                                     /\ \A p \in Peers : s \in heldAt'[p] => s \in heldAt[p],
           \A p, r \in Peers : x \in heldAt'[p] /\ x \in heldAt'[r] => p = r,
           x \in HeldSet' => x \notin OutSet' /\ failed'[x] = failed[x],
           x \in OutSet' => failed'[x] = failed[x],
           failed'[x] \in {failed[x], failed[x] + 1}
    PROVE  Places'
<1> SUFFICES ASSUME NEW s \in Sends PROVE PlaceOf(s)'
  BY DEF Places
<1>1. PlaceOf(s) /\ PlaceOf(x)
  BY DEF Places
<1>2. CASE s = x
  <2>1. failed[x] = 0 /\ x \notin dead /\ x <= told
    BY <1>1 DEF PlaceOf
  <2>2. QED
    BY <1>2, <2>1 DEF PlaceOf
<1>3. CASE s # x
  <2>1. /\ (s \in HeldSet' <=> s \in HeldSet) /\ (s \in OutSet' <=> s \in OutSet)
        /\ failed'[s] = failed[s] /\ \A p \in Peers : s \in heldAt'[p] => s \in heldAt[p]
        /\ s \in mail' => s \in mail
    BY <1>3
  <2>2. QED
    BY <1>1, <2>1 DEF PlaceOf
<1>4. QED
  BY <1>2, <1>3

\* Another message is put into the mailbox, or taken from it.
LEMMA OtherMail ==
    ASSUME TypeOK, SendInv, m_queue' \in Seq(Message), IncreasingIds(m_queue'),
           \A s : HasSend(m_queue', s) <=> HasSend(m_queue, s),
           UNCHANGED <<m_outbound, m_queued_sends, m_dropped_sends, told, sent, failed, dead>>
    PROVE  SendType' /\ SendInv'
<1>1. SendType /\ Places /\ Order /\ Counts /\ m_queue \in Seq(Message)
  BY ViewTypes DEF TypeOK, SendInv
<1>2. Ids(m_queue') = Ids(m_queue)
  BY <1>1, Views
<1>3. mail' = mail /\ heldAt' = heldAt /\ outAt' = outAt /\ MailInOrder' /\ SeqsInOrder'
  BY <1>1, <1>2, Primed DEF mail, heldAt, outAt, Order, MailInOrder, SeqsInOrder
<1>4. HeldSet' = HeldSet /\ OutSet' = OutSet
  BY <1>3 DEF HeldSet, OutSet
<1>5. Placed' = Placed
  BY <1>3, <1>4 DEF Placed
<1>6. ASSUME NEW s \in Sends PROVE PlaceOf(s)'
  BY <1>1, <1>3, <1>4 DEF Places, PlaceOf
<1>7. ASSUME NEW p \in Peers PROVE OrderOf(p)'
  BY <1>1, <1>3 DEF Order, OrderOf
<1>8. Counts'
  BY <1>1, <1>4, <1>5 DEF Counts, HeldCount, ToldCount
<1>9. SendType'
  BY <1>1 DEF SendType
<1>10. QED
  BY <1>3, <1>6, <1>7, <1>8, <1>9 DEF SendInv, Places, Order

\* A configuration, a bind or a shutdown is told.
LEMMA OtherTold ==
    ASSUME TypeOK, SendInv, NEW m \in Message, m.op # "send", Enqueue(m), UNCHANGED <<told, hist>>
    PROVE  SendType' /\ SendInv'
<1>1. m_queue \in Seq(Message) /\ IncreasingIds(m_queue) /\ m_queue' = Append(m_queue, m)
  BY ViewTypes DEF SendInv, Order, MailInOrder, Enqueue
<1>2. /\ m_queue' \in Seq(Message) /\ IncreasingIds(m_queue')
      /\ \A s : HasSend(m_queue', s) <=> HasSend(m_queue, s)
  BY <1>1, AppendMail
<1>3. QED
  BY <1>2, OtherMail DEF Enqueue, held, hist

\* A configuration, a bind or a shutdown is popped.
LEMMA PopOther ==
    ASSUME TypeOK, AtPop, SendInv, NEW op, op # "send", Pop(op), UNCHANGED <<held, sent, failed>>
    PROVE  SendType' /\ SendInv'
<1>1. /\ m_queue \in Seq(Message) /\ IncreasingIds(m_queue) /\ m_queue' = Tail(m_queue)
      /\ m_queue # <<>> /\ Head(m_queue).op # "send"
  BY ViewTypes DEF SendInv, Order, MailInOrder, Pop, AtPop
<1>2. /\ m_queue' \in Seq(Message) /\ IncreasingIds(m_queue')
      /\ \A s : HasSend(m_queue', s) <=> HasSend(m_queue, s)
  BY <1>1, TailMail
<1>3. QED
  BY <1>2, OtherMail DEF Pop, held, bound

\* The oldest message is a send: it leaves the mailbox, and all others are younger.
LEMMA PopFirst ==
    ASSUME TypeOK, AtPop, SendInv, Pop("send")
    PROVE  /\ Head(m_queue).id \in mail /\ Head(m_queue).id \in Sends /\ Head(m_queue).peer \in Peers
           /\ m_queue' \in Seq(Message) /\ MailInOrder'
           /\ mail' = mail \ {Head(m_queue).id}
           /\ \A t \in mail' : Head(m_queue).id < t
           /\ told' = told /\ dead' = dead
<1> DEFINE x == Head(m_queue).id
<1>1. /\ m_queue \in Seq(Message) /\ IncreasingIds(m_queue) /\ m_queue' = Tail(m_queue)
      /\ m_queue # <<>> /\ Head(m_queue).op = "send" /\ told' = told /\ dead' = dead
  BY ViewTypes DEF SendInv, Order, MailInOrder, Pop, AtPop, bound
<1>2. /\ x \in Sends /\ Head(m_queue).peer \in Peers /\ HasSend(m_queue, x)
      /\ m_queue' \in Seq(Message) /\ IncreasingIds(m_queue')
      /\ \A s : HasSend(m_queue', s) <=> HasSend(m_queue, s) /\ s # x
      /\ \A s \in Sends : HasSend(m_queue', s) => x < s
  BY <1>1, TailMail
<1> HIDE DEF x
<1>3. Ids(m_queue') = Ids(m_queue) \ {x} /\ Ids(m_queue') \subseteq Sends /\ x \in Ids(m_queue)
  BY <1>1, <1>2, Views
<1>4. mail' = mail \ {x} /\ x \in mail /\ MailInOrder'
  BY <1>2, <1>3, Primed DEF mail
<1>5. \A t \in mail' : x < t
  BY <1>1, <1>2, <1>3, Views, Primed
<1>6. QED
  BY <1>1, <1>2, <1>4, <1>5 DEF x

\* A send is added to the sequence of a peer.
LEMMA AppendView ==
    ASSUME NEW q \in Seq(Sends), NEW x \in Sends, Increasing(q), \A s \in ToSet(q) : s < x
    PROVE  /\ Append(q, x) \in Seq(Sends) /\ Increasing(Append(q, x))
           /\ ToSet(Append(q, x)) = ToSet(q) \cup {x}
<1>1. \A s \in Sends : Has(q, s) => s < x
  BY Views
<1>2. /\ Append(q, x) \in Seq(Sends) /\ Increasing(Append(q, x))
      /\ \A s : Has(Append(q, x), s) <=> Has(q, s) \/ s = x
  BY <1>1, AppendSeq
<1>3. ToSet(Append(q, x)) = ToSet(q) \cup {x}
  BY <1>2, Views
<1>4. QED
  BY <1>2, <1>3

\* The oldest send of a peer is taken.
LEMMA TailView ==
    ASSUME NEW q \in Seq(Sends), q # <<>>, Increasing(q)
    PROVE  /\ Tail(q) \in Seq(Sends) /\ Increasing(Tail(q))
           /\ Head(q) \in ToSet(q) /\ Head(q) \in Sends
           /\ ToSet(Tail(q)) = ToSet(q) \ {Head(q)}
           /\ \A s \in ToSet(Tail(q)) : Head(q) < s
<1>1. /\ Head(q) \in Sends /\ Has(q, Head(q))
      /\ Tail(q) \in Seq(Sends) /\ Increasing(Tail(q))
      /\ \A s : Has(Tail(q), s) <=> Has(q, s) /\ s # Head(q)
      /\ \A s \in Sends : Has(Tail(q), s) => Head(q) < s
  BY TailSeq
<1>2. QED
  BY <1>1, Views

\* A report.
LEMMA ReportOne ==
    ASSUME SendType, NEW x \in Sends, Report({x})
    PROVE  /\ failed' \in [Sends -> Nat] /\ failed'[x] = failed[x] + 1
           /\ \A s \in Sends : s # x => failed'[s] = failed[s]
<1>1. failed \in [Sends -> Nat] /\ failed' = [s \in Sends |-> failed[s] + (IF s \in {x} THEN 1 ELSE 0)]
  BY DEF SendType, Report
<1>2. \A s \in Sends : failed'[s] = failed[s] + (IF s = x THEN 1 ELSE 0) /\ failed[s] \in Nat
  BY <1>1
<1>3. QED
  BY <1>1, <1>2

\* A popped send is reported, or dropped.
LEMMA PopGone ==
    ASSUME TypeOK, AtPop, SendInv, Pop("send"),
           UNCHANGED <<m_outbound, m_queued_sends, sent>>,
           \/ Report({Head(m_queue).id}) /\ m_dropped_sends' = m_dropped_sends
           \/ failed' = failed /\ m_dropped_sends' = m_dropped_sends + 1
    PROVE  SendType' /\ SendInv'
<1> DEFINE x == Head(m_queue).id
<1>1. SendType /\ Places /\ Order /\ Counts
  BY DEF TypeOK, SendInv
<1>2. /\ x \in mail /\ x \in Sends /\ mail' = mail \ {x} /\ MailInOrder'
      /\ told' = told /\ dead' = dead
  BY PopFirst
<1>3. \/ failed' \in [Sends -> Nat] /\ failed'[x] = failed[x] + 1 /\ m_dropped_sends' = m_dropped_sends
      \/ failed' = failed /\ m_dropped_sends' = m_dropped_sends + 1
  BY <1>1, <1>2, ReportOne
<1>4. \A s \in Sends : s # x => failed'[s] = failed[s]
  BY <1>1, <1>2, ReportOne
<1> HIDE DEF x
<1>5. heldAt' = heldAt /\ outAt' = outAt /\ SeqsInOrder'
  BY <1>1, Primed DEF heldAt, outAt, Order, SeqsInOrder
<1>6. HeldSet' = HeldSet /\ OutSet' = OutSet
  BY <1>5 DEF HeldSet, OutSet
<1>7. x \notin HeldSet /\ x \notin OutSet /\ failed[x] = 0 /\ x \notin dead
  BY <1>1, <1>2 DEF Places, PlaceOf
<1>8. Places'
  <2>1. \A p \in Peers : x \notin heldAt[p]
    BY <1>2, <1>7 DEF HeldSet
  <2>2. failed'[x] \in {failed[x], failed[x] + 1}
    BY <1>3
  <2>3. QED
    BY <1>1, <1>2, <1>4, <1>5, <1>6, <1>7, <2>1, <2>2, MovePlaces
<1>9. ASSUME NEW p \in Peers PROVE OrderOf(p)'
  BY <1>1, <1>2, <1>5 DEF Order, OrderOf
<1>10. failed \in [Sends -> Nat] /\ m_dropped_sends \in Nat /\ told \in Nat
  BY <1>1 DEF SendType
<1>11. m_dropped_sends' + Cardinality(Placed') = told /\ failed' \in [Sends -> Nat] /\ m_dropped_sends' \in Nat
  <2>1. x \in Placed
    BY <1>2 DEF Placed
  <2>2. CASE failed'[x] = failed[x] + 1 /\ m_dropped_sends' = m_dropped_sends /\ failed' \in [Sends -> Nat]
    <3>1. failed'[x] = 1
      BY <1>7, <2>2
    <3>2. ASSUME NEW s \in Sends PROVE s \in Placed' <=> s \in Placed
      <4>1. CASE s = x
        BY <2>1, <3>1, <4>1 DEF Placed
      <4>2. CASE s # x
        BY <1>2, <1>4, <1>6, <4>2 DEF Placed
      <4>3. QED
        BY <4>1, <4>2
    <3>3. Placed' = Placed
      BY <3>2 DEF Placed
    <3>4. QED
      BY <1>1, <1>10, <2>2, <3>3 DEF Counts, ToldCount
  <2>3. CASE failed' = failed /\ m_dropped_sends' = m_dropped_sends + 1
    <3>1. Placed' = Placed \ {x}
      BY <1>2, <1>6, <1>7, <2>3 DEF Placed
    <3>2. Cardinality(Placed') = Cardinality(Placed) - 1
      BY <2>1, <3>1, SendsFinite, FS_RemoveElement
    <3>3. QED
      BY <1>1, <1>10, <2>3, <3>2, SendsFinite DEF Counts, ToldCount
  <2>4. QED
    BY <1>3, <2>2, <2>3
<1>12. Counts'
  BY <1>1, <1>2, <1>6, <1>11 DEF Counts, HeldCount, ToldCount
<1>13. SendType'
  BY <1>1, <1>2, <1>11 DEF SendType
<1>14. QED
  BY <1>2, <1>5, <1>8, <1>9, <1>12, <1>13 DEF SendInv, Places, Order

\* What a step that moves one send leaves of the others.
LEMMA PlacedSame ==
    ASSUME NEW x \in Sends, x \in Placed, x \in HeldSet' \cup OutSet' \/ failed'[x] = 1,
           mail' \cup {x} = mail \cup {x}, dead' = dead,
           \A s \in Sends : s # x => /\ (s \in HeldSet' <=> s \in HeldSet) /\ (s \in OutSet' <=> s \in OutSet)
                                     /\ failed'[s] = failed[s]
    PROVE  Placed' = Placed
<1>1. ASSUME NEW s \in Sends PROVE s \in Placed' <=> s \in Placed
  <2>1. CASE s = x
    BY <2>1 DEF Placed
  <2>2. CASE s # x
    <3>1. s \in mail' <=> s \in mail
      BY <2>2
    <3>2. QED
      BY <2>2, <3>1 DEF Placed
  <2>3. QED
    BY <2>1, <2>2
<1>2. QED
  BY <1>1 DEF Placed

\* The held sends and those that went out, when one is added for a peer.
LEMMA AddedTo ==
    ASSUME NEW x \in Sends, NEW p \in Peers
    PROVE  /\ (\A r \in Peers : heldAt'[r] = IF r = p THEN heldAt[r] \cup {x} ELSE heldAt[r]) =>
                 HeldSet' = HeldSet \cup {x}
           /\ (\A r \in Peers : outAt'[r] = IF r = p THEN outAt[r] \cup {x} ELSE outAt[r]) =>
                 OutSet' = OutSet \cup {x}
BY DEF HeldSet, OutSet

\* A popped send goes out: nothing is held for its peer.
LEMMA PopOut ==
    ASSUME TypeOK, AtPop, SendInv, Pop("send"), NEW p \in Peers, m_outbound[p] = <<>>,
           HandOver(Head(m_queue).id, p), UNCHANGED <<held, failed>>
    PROVE  SendType' /\ SendInv'
<1> DEFINE x == Head(m_queue).id
<1>1. SendType /\ Places /\ Order /\ Counts /\ sent \in [Peers -> Seq(Sends)]
  BY DEF TypeOK, SendInv, SendType
<1>2. /\ x \in mail /\ x \in Sends /\ mail' = mail \ {x} /\ MailInOrder'
      /\ told' = told /\ dead' = dead /\ \A t \in mail' : x < t
  BY PopFirst
<1>3. sent' = [sent EXCEPT ![p] = Append(@, x)]
  BY DEF HandOver
<1> HIDE DEF x
<1>4. UNCHANGED <<m_outbound, m_queued_sends, m_dropped_sends, failed>>
  BY DEF held
<1>5. heldAt' = heldAt
  BY <1>4, Primed DEF heldAt
<1>6. heldAt[p] = {} /\ \A r \in Peers : outAt[r] = ToSet(sent[r])
  BY NothingIn DEF heldAt, outAt
<1>7. \A s \in ToSet(sent[p]) : s < x
  BY <1>1, <1>2, <1>6 DEF Order, OrderOf
<1>8. \A r \in Peers : Increasing(sent[r]) /\ Increasing(m_outbound[r])
  BY <1>1 DEF Order, SeqsInOrder
<1>9. /\ sent'[p] = Append(sent[p], x) /\ (\A r \in Peers : r # p => sent'[r] = sent[r])
      /\ DOMAIN sent' = Peers /\ sent' = [r \in Peers |-> sent'[r]]
  BY <1>1, <1>3
<1>10. /\ sent'[p] \in Seq(Sends) /\ Increasing(sent'[p])
       /\ ToSet(sent'[p]) = ToSet(sent[p]) \cup {x}
  <2>1. sent[p] \in Seq(Sends) /\ Increasing(sent[p])
    BY <1>1, <1>8
  <2>2. QED
    BY <1>2, <1>7, <1>9, <2>1, AppendView
<1>11. sent' \in [Peers -> Seq(Sends)] /\ \A r \in Peers : Increasing(sent'[r])
  BY <1>1, <1>8, <1>9, <1>10
<1>12. \A r \in Peers : outAt'[r] = IF r = p THEN outAt[r] \cup {x} ELSE outAt[r]
  BY <1>6, <1>9, <1>10, Primed
<1>13. OutSet' = OutSet \cup {x} /\ HeldSet' = HeldSet
  BY <1>2, <1>5, <1>12, AddedTo DEF HeldSet
<1>14. x \notin HeldSet /\ x \notin OutSet /\ failed[x] = 0 /\ x \notin dead
  BY <1>1, <1>2 DEF Places, PlaceOf
<1>15. Places'
  <2>1. \A r \in Peers : x \notin heldAt[r]
    BY <1>2, <1>14 DEF HeldSet
  <2>2. QED
    BY <1>1, <1>2, <1>4, <1>5, <1>13, <1>14, <2>1, MovePlaces
<1>16. ASSUME NEW r \in Peers PROVE OrderOf(r)'
  <2>1. OrderOf(r)
    BY <1>1 DEF Order
  <2>2. CASE r = p
    <3>1. outAt'[r] = outAt[r] \cup {x} /\ heldAt'[r] = {} /\ mail' \subseteq mail
      BY <1>2, <1>5, <1>6, <1>12, <2>2
    <3>2. \A s \in outAt'[r], t \in mail' : s < t
      BY <1>2, <2>1, <3>1 DEF OrderOf
    <3>3. QED
      BY <3>1, <3>2 DEF OrderOf
  <2>3. CASE r # p
    BY <1>2, <1>5, <1>12, <2>1, <2>3 DEF OrderOf
  <2>4. QED
    BY <2>2, <2>3
<1>17. Placed' = Placed
  <2>1. x \in Placed
    BY <1>2 DEF Placed
  <2>2. mail' \cup {x} = mail \cup {x}
    BY <1>2
  <2>3. QED
    BY <1>2, <1>4, <1>13, <2>1, <2>2, PlacedSame
<1>18. Counts'
  BY <1>1, <1>2, <1>4, <1>13, <1>17 DEF Counts, HeldCount, ToldCount, HeldSet
<1>19. SeqsInOrder'
  BY <1>4, <1>8, <1>11, Primed
<1>20. SendType'
  BY <1>1, <1>2, <1>4, <1>11 DEF SendType
<1>21. QED
  BY <1>2, <1>15, <1>16, <1>18, <1>19, <1>20 DEF SendInv, Places, Order

\* A popped send is held for its peer.
LEMMA PopHeld ==
    ASSUME TypeOK, AtPop, SendInv, Pop("send"), NEW p \in Peers,
           m_outbound' = [m_outbound EXCEPT ![p] = Append(@, Head(m_queue).id)],
           m_queued_sends' = m_queued_sends + 1,
           UNCHANGED <<m_dropped_sends, sent, failed>>
    PROVE  SendType' /\ SendInv'
<1> DEFINE x == Head(m_queue).id
<1>1. SendType /\ Places /\ Order /\ Counts /\ m_outbound \in [Peers -> Seq(Sends)]
  BY DEF TypeOK, SendInv, SendType
<1>2. /\ x \in mail /\ x \in Sends /\ mail' = mail \ {x} /\ MailInOrder'
      /\ told' = told /\ dead' = dead /\ \A t \in mail' : x < t
  BY PopFirst
<1>3. m_outbound' = [m_outbound EXCEPT ![p] = Append(@, x)]
  OBVIOUS
<1> HIDE DEF x
<1>4. outAt' = outAt
  BY Primed DEF outAt
<1>5. \A r \in Peers : heldAt[r] = ToSet(m_outbound[r])
  BY DEF heldAt
<1>6. (\A s \in ToSet(m_outbound[p]) : s < x) /\ (\A s \in outAt[p] : s < x)
  BY <1>1, <1>2, <1>5 DEF Order, OrderOf
<1>7. \A r \in Peers : Increasing(sent[r]) /\ Increasing(m_outbound[r])
  BY <1>1 DEF Order, SeqsInOrder
<1>8. /\ m_outbound'[p] = Append(m_outbound[p], x) /\ (\A r \in Peers : r # p => m_outbound'[r] = m_outbound[r])
      /\ DOMAIN m_outbound' = Peers /\ m_outbound' = [r \in Peers |-> m_outbound'[r]]
  BY <1>1, <1>3
<1>9. /\ m_outbound'[p] \in Seq(Sends) /\ Increasing(m_outbound'[p])
       /\ ToSet(m_outbound'[p]) = ToSet(m_outbound[p]) \cup {x}
  <2>1. m_outbound[p] \in Seq(Sends) /\ Increasing(m_outbound[p])
    BY <1>1, <1>7
  <2>2. QED
    BY <1>2, <1>6, <1>8, <2>1, AppendView
<1>10. m_outbound' \in [Peers -> Seq(Sends)] /\ \A r \in Peers : Increasing(m_outbound'[r])
  BY <1>1, <1>7, <1>8, <1>9
<1>11. \A r \in Peers : heldAt'[r] = IF r = p THEN heldAt[r] \cup {x} ELSE heldAt[r]
  BY <1>5, <1>8, <1>9, Primed
<1>12. HeldSet' = HeldSet \cup {x} /\ OutSet' = OutSet
  BY <1>2, <1>4, <1>11, AddedTo DEF OutSet
<1>13. x \notin HeldSet /\ x \notin OutSet /\ failed[x] = 0 /\ x \notin dead
  BY <1>1, <1>2 DEF Places, PlaceOf
<1>14. Places'
  <2>1. \A r \in Peers : x \notin heldAt[r]
    BY <1>2, <1>13 DEF HeldSet
  <2>2. \A s \in Sends : s # x => \A r \in Peers : s \in heldAt'[r] => s \in heldAt[r]
    BY <1>11
  <2>3. \A r \in Peers : x \in heldAt'[r] => r = p
    BY <1>11, <2>1
  <2>4. QED
    BY <1>1, <1>2, <1>12, <1>13, <2>2, <2>3, MovePlaces
<1>15. ASSUME NEW r \in Peers PROVE OrderOf(r)'
  <2>1. OrderOf(r)
    BY <1>1 DEF Order
  <2>2. CASE r = p
    <3>1. outAt'[r] = outAt[r] /\ heldAt'[r] = heldAt[r] \cup {x} /\ mail' \subseteq mail
      BY <1>2, <1>4, <1>11, <2>2
    <3>2. \A s \in outAt'[r] \cup heldAt'[r], t \in mail' : s < t
      BY <1>2, <2>1, <3>1 DEF OrderOf
    <3>3. \A s \in outAt'[r], t \in heldAt'[r] : s < t
      BY <1>6, <2>1, <2>2, <3>1 DEF OrderOf
    <3>4. QED
      BY <3>2, <3>3 DEF OrderOf
  <2>3. CASE r # p
    BY <1>2, <1>4, <1>11, <2>1, <2>3 DEF OrderOf
  <2>4. QED
    BY <2>2, <2>3
<1>16. Placed' = Placed
  <2>1. x \in Placed
    BY <1>2 DEF Placed
  <2>2. mail' \cup {x} = mail \cup {x}
    BY <1>2
  <2>3. QED
    BY <1>2, <1>12, <2>1, <2>2, PlacedSame
<1>17. Counts'
  <2>1. Cardinality(HeldSet') = Cardinality(HeldSet) + 1
    BY <1>12, <1>13, SendsFinite, FS_AddElement
  <2>2. QED
    BY <1>1, <1>2, <1>16, <2>1 DEF Counts, HeldCount, ToldCount
<1>18. SeqsInOrder'
  BY <1>7, <1>10, Primed
<1>19. SendType'
  BY <1>1, <1>2, <1>10 DEF SendType
<1>20. QED
  BY <1>2, <1>14, <1>15, <1>17, <1>18, <1>19 DEF SendInv, Places, Order

\* The oldest send held for a peer goes out or is reported.
LEMMA FlushOneSends ==
    ASSUME TypeOK, SendInv, NEW p \in Peers, m_outbound[p] # <<>>, FlushOne(p),
           UNCHANGED <<m_queue, told, dead>>
    PROVE  SendType' /\ SendInv'
<1> DEFINE x == Head(m_outbound[p])
<1>1. /\ SendType /\ Places /\ Order /\ Counts
      /\ m_outbound \in [Peers -> Seq(Sends)] /\ sent \in [Peers -> Seq(Sends)]
  BY DEF TypeOK, SendInv, SendType
<1>2. \A r \in Peers : Increasing(sent[r]) /\ Increasing(m_outbound[r])
  BY <1>1 DEF Order, SeqsInOrder
<1>3. /\ m_outbound' = [m_outbound EXCEPT ![p] = Tail(@)] /\ m_queued_sends' = m_queued_sends - 1
      /\ m_dropped_sends' = m_dropped_sends
      /\ \/ Report({x}) /\ sent' = sent
         \/ sent' = [sent EXCEPT ![p] = Append(@, x)] /\ failed' = failed
  BY DEF FlushOne, FlushPops, FlushFails, HandOver
<1>4. /\ m_outbound'[p] = Tail(m_outbound[p]) /\ (\A r \in Peers : r # p => m_outbound'[r] = m_outbound[r])
      /\ DOMAIN m_outbound' = Peers /\ m_outbound' = [r \in Peers |-> m_outbound'[r]]
  BY <1>1, <1>3
<1>5. m_outbound[p] \in Seq(Sends) /\ m_outbound[p] # <<>> /\ Increasing(m_outbound[p])
  BY <1>1, <1>2
<1>6. /\ m_outbound'[p] \in Seq(Sends) /\ Increasing(m_outbound'[p])
      /\ x \in ToSet(m_outbound[p]) /\ x \in Sends
      /\ ToSet(m_outbound'[p]) = ToSet(m_outbound[p]) \ {x}
      /\ \A s \in ToSet(m_outbound'[p]) : x < s
  BY <1>4, <1>5, TailView
<1> HIDE DEF x
<1>7. m_outbound' \in [Peers -> Seq(Sends)] /\ \A r \in Peers : Increasing(m_outbound'[r])
  BY <1>1, <1>2, <1>4, <1>6
<1>8. /\ \A r \in Peers : heldAt[r] = ToSet(m_outbound[r]) /\ outAt[r] = ToSet(sent[r])
      /\ \A r \in Peers : heldAt'[r] = ToSet(m_outbound'[r]) /\ outAt'[r] = ToSet(sent'[r])
  BY Primed DEF heldAt, outAt
<1>9. /\ \A r \in Peers : heldAt'[r] = IF r = p THEN heldAt[r] \ {x} ELSE heldAt[r]
      /\ x \in heldAt[p] /\ \A s \in heldAt'[p] : x < s
  <2>1. heldAt'[p] = heldAt[p] \ {x} /\ x \in heldAt[p] /\ \A s \in heldAt'[p] : x < s
    BY <1>6, <1>8
  <2>2. ASSUME NEW r \in Peers, r # p PROVE heldAt'[r] = heldAt[r]
    BY <1>4, <1>8, <2>2
  <2>3. QED
    BY <2>1, <2>2
<1>10. mail' = mail /\ MailInOrder'
  BY <1>1, Primed DEF mail, Order, MailInOrder
<1>11. x \in HeldSet /\ x \notin mail /\ x \notin OutSet /\ failed[x] = 0 /\ x \notin dead
  <2>1. x \in HeldSet
    BY <1>6, <1>9 DEF HeldSet
  <2>2. QED
    BY <1>1, <1>6, <2>1 DEF Places, PlaceOf
<1>12. \A r \in Peers : x \in heldAt[r] => r = p
  BY <1>1, <1>6, <1>9 DEF Places, PlaceOf
<1>13. \A r \in Peers : x \notin heldAt'[r]
  BY <1>9, <1>12
<1>14. HeldSet' = HeldSet \ {x}
  <2>1. ASSUME NEW s \in Sends, s # x PROVE s \in HeldSet' <=> s \in HeldSet
    BY <1>9, <2>1 DEF HeldSet
  <2>2. x \notin HeldSet'
    BY <1>13 DEF HeldSet
  <2>3. QED
    BY <2>1, <2>2 DEF HeldSet
<1>15. /\ sent' \in [Peers -> Seq(Sends)] /\ failed' \in [Sends -> Nat]
       /\ \A r \in Peers : Increasing(sent'[r])
       /\ \A s \in Sends : s # x => (s \in OutSet' <=> s \in OutSet) /\ failed'[s] = failed[s]
       /\ \/ failed'[x] = 1 /\ x \notin OutSet' /\ \A r \in Peers : outAt'[r] = outAt[r]
          \/ /\ failed'[x] = 0 /\ x \in OutSet'
             /\ \A r \in Peers : outAt'[r] = IF r = p THEN outAt[r] \cup {x} ELSE outAt[r]
  <2>1. CASE Report({x}) /\ sent' = sent
    <3>1. outAt' = outAt
      BY <2>1, Primed DEF outAt
    <3>2. OutSet' = OutSet
      BY <3>1 DEF OutSet
    <3>3. /\ failed' \in [Sends -> Nat] /\ failed'[x] = failed[x] + 1
          /\ \A s \in Sends : s # x => failed'[s] = failed[s]
      BY <1>1, <1>6, <2>1, ReportOne
    <3>4. failed'[x] = 1
      BY <1>11, <3>3
    <3>5. QED
      BY <1>1, <1>2, <1>11, <2>1, <3>1, <3>2, <3>3, <3>4
  <2>2. CASE sent' = [sent EXCEPT ![p] = Append(@, x)] /\ failed' = failed
    <3>1. /\ sent'[p] = Append(sent[p], x) /\ (\A r \in Peers : r # p => sent'[r] = sent[r])
          /\ DOMAIN sent' = Peers /\ sent' = [r \in Peers |-> sent'[r]]
      BY <1>1, <2>2
    <3>2. \A s \in ToSet(sent[p]) : s < x
      BY <1>1, <1>8, <1>9 DEF Order, OrderOf
    <3>3. sent[p] \in Seq(Sends) /\ Increasing(sent[p])
      BY <1>1, <1>2
    <3>4. sent'[p] \in Seq(Sends) /\ Increasing(sent'[p]) /\ ToSet(sent'[p]) = ToSet(sent[p]) \cup {x}
      BY <1>6, <3>1, <3>2, <3>3, AppendView
    <3>5. sent' \in [Peers -> Seq(Sends)] /\ \A r \in Peers : Increasing(sent'[r])
      BY <1>1, <1>2, <3>1, <3>4
    <3>6. \A r \in Peers : outAt'[r] = IF r = p THEN outAt[r] \cup {x} ELSE outAt[r]
      <4>1. outAt'[p] = outAt[p] \cup {x}
        BY <1>8, <3>4
      <4>2. ASSUME NEW r \in Peers, r # p PROVE outAt'[r] = outAt[r]
        BY <1>8, <3>1, <4>2
      <4>3. QED
        BY <4>1, <4>2
    <3>7. OutSet' = OutSet \cup {x}
      BY <1>6, <3>6, AddedTo
    <3>8. failed' \in [Sends -> Nat] /\ failed'[x] = 0 /\ \A s \in Sends : failed'[s] = failed[s]
      BY <1>1, <1>11, <2>2 DEF SendType
    <3>9. QED
      BY <3>5, <3>6, <3>7, <3>8
  <2>3. QED
    BY <1>3, <2>1, <2>2
<1>16. Places'
  <2>1. failed'[x] \in {failed[x], failed[x] + 1} /\ (x \in OutSet' => failed'[x] = failed[x])
    BY <1>11, <1>15
  <2>2. \A s \in Sends : s # x => \A r \in Peers : s \in heldAt'[r] => s \in heldAt[r]
    BY <1>9
  <2>3. x \notin HeldSet' /\ \A s \in Sends : s # x => (s \in HeldSet' <=> s \in HeldSet)
    BY <1>14
  <2>4. x \notin mail' /\ mail' \subseteq mail /\ x \in mail \cup HeldSet
    BY <1>10, <1>11
  <2>5. QED
    BY <1>1, <1>6, <1>13, <1>15, <2>1, <2>2, <2>3, <2>4, MovePlaces
<1>17. ASSUME NEW r \in Peers PROVE OrderOf(r)'
  <2>1. OrderOf(r) /\ heldAt'[r] \subseteq heldAt[r] /\ mail' = mail
    BY <1>1, <1>9, <1>10 DEF Order
  <2>2. CASE outAt'[r] = outAt[r]
    BY <2>1, <2>2 DEF OrderOf
  <2>3. CASE r = p /\ outAt'[r] = outAt[r] \cup {x}
    <3>1. x \in heldAt[r] /\ \A s \in heldAt'[r] : x < s
      BY <1>9, <2>3
    <3>2. \A s \in outAt'[r], t \in heldAt'[r] : s < t
      BY <2>1, <2>3, <3>1 DEF OrderOf
    <3>3. \A s \in outAt'[r] \cup heldAt'[r], t \in mail' : s < t
      BY <2>1, <2>3, <3>1 DEF OrderOf
    <3>4. QED
      BY <3>2, <3>3 DEF OrderOf
  <2>4. QED
    BY <1>15, <2>2, <2>3
<1>18. Placed' = Placed
  <2>1. x \in Placed
    BY <1>6, <1>11 DEF Placed
  <2>2. mail' \cup {x} = mail \cup {x} /\ \A s \in Sends : s # x => (s \in HeldSet' <=> s \in HeldSet)
    BY <1>10, <1>14
  <2>3. QED
    BY <1>6, <1>15, <2>1, <2>2, PlacedSame
<1>19. m_queued_sends' = Cardinality(HeldSet') /\ m_queued_sends' \in Nat
  <2>1. Cardinality(HeldSet') = Cardinality(HeldSet) - 1 /\ Cardinality(HeldSet') \in Nat
    BY <1>11, <1>14, SendsFinite, FS_RemoveElement, FS_CardinalityType
  <2>2. QED
    BY <1>1, <1>3, <2>1 DEF Counts, HeldCount
<1>20. Counts'
  BY <1>1, <1>3, <1>18, <1>19 DEF Counts, HeldCount, ToldCount
<1>21. SeqsInOrder'
  BY <1>7, <1>15, Primed
<1>22. SendType'
  BY <1>1, <1>3, <1>7, <1>15, <1>19 DEF SendType
<1>23. QED
  BY <1>10, <1>16, <1>17, <1>20, <1>21, <1>22 DEF SendInv, Places, Order

\* The end of the relay: what is queued is dead, what is held is reported.
LEMMA StopSends ==
    ASSUME TypeOK, SendInv, TopStop
    PROVE  SendType' /\ SendInv'
<1>1. /\ SendType /\ Places /\ Order /\ Counts /\ failed \in [Sends -> Nat]
      /\ m_outbound \in [Peers -> Seq(Sends)] /\ sent \in [Peers -> Seq(Sends)]
  BY DEF TypeOK, SendInv, SendType
<1>2. /\ m_queue' = <<>> /\ dead' = dead \cup mail /\ m_outbound' = [p \in Peers |-> <<>>]
      /\ Report(HeldSends) /\ m_queued_sends' = 0
      /\ UNCHANGED <<m_dropped_sends, sent, told>>
  BY DEF TopStop, Cleanup, FailAllOutbound, mail, bound
<1>3. HeldSends = HeldSet
  <2>1. \A p \in Peers : heldAt[p] = ToSet(m_outbound[p]) /\ heldAt[p] \subseteq Sends
    BY ViewTypes DEF heldAt
  <2>2. QED
    BY <2>1 DEF HeldSends, HeldSet
<1>4. /\ failed' \in [Sends -> Nat]
      /\ \A s \in Sends : failed'[s] = IF s \in HeldSet THEN failed[s] + 1 ELSE failed[s]
  <2>1. failed' = [s \in Sends |-> failed[s] + (IF s \in HeldSet THEN 1 ELSE 0)]
    BY <1>2, <1>3 DEF Report
  <2>2. \A s \in Sends : failed[s] \in Nat
    BY <1>1
  <2>3. QED
    BY <2>1, <2>2
<1>5. mail' = {} /\ MailInOrder'
  BY <1>2, NothingIn, Primed
<1>6. /\ m_outbound' \in [Peers -> Seq(Sends)] /\ \A p \in Peers : m_outbound'[p] = <<>>
      /\ \A p \in Peers : Increasing(m_outbound'[p]) /\ heldAt'[p] = {}
  BY <1>2, NothingIn, Primed
<1>7. HeldSet' = {}
  BY <1>6 DEF HeldSet
<1>8. outAt' = outAt /\ OutSet' = OutSet
  <2>1. outAt' = outAt
    BY <1>2, Primed DEF outAt
  <2>2. QED
    BY <2>1 DEF OutSet
<1>9. ASSUME NEW s \in Sends PROVE PlaceOf(s)'
  <2>1. PlaceOf(s)
    BY <1>1 DEF Places
  <2>2. CASE s \in HeldSet
    <3>1. failed'[s] = 1 /\ s \notin mail /\ s \notin OutSet /\ s \notin dead /\ s <= told
      BY <1>4, <2>1, <2>2 DEF PlaceOf
    <3>2. QED
      BY <1>2, <1>5, <1>6, <1>7, <1>8, <3>1 DEF PlaceOf
  <2>3. CASE s \notin HeldSet
    BY <1>2, <1>4, <1>5, <1>6, <1>7, <1>8, <2>1, <2>3 DEF PlaceOf
  <2>4. QED
    BY <2>2, <2>3
<1>10. ASSUME NEW p \in Peers PROVE OrderOf(p)'
  BY <1>5, <1>6 DEF OrderOf
<1>11. Placed' = Placed
  <2>1. ASSUME NEW s \in Sends PROVE s \in Placed' <=> s \in Placed
    <3>1. PlaceOf(s)
      BY <1>1 DEF Places
    <3>2. CASE s \in HeldSet
      <4>1. failed'[s] = 1
        BY <1>4, <3>1, <3>2 DEF PlaceOf
      <4>2. QED
        BY <3>2, <4>1 DEF Placed
    <3>3. CASE s \notin HeldSet
      BY <1>2, <1>4, <1>5, <1>7, <1>8, <3>3 DEF Placed
    <3>4. QED
      BY <3>2, <3>3
  <2>2. QED
    BY <2>1 DEF Placed
<1>12. Counts'
  <2>1. Cardinality(HeldSet') = 0
    BY <1>7, FS_EmptySet
  <2>2. QED
    BY <1>1, <1>2, <1>11, <2>1 DEF Counts, HeldCount, ToldCount
<1>13. SeqsInOrder'
  BY <1>1, <1>2, <1>6, Primed DEF Order, SeqsInOrder
<1>14. dead' \subseteq Sends
  BY <1>1, <1>2, ViewTypes DEF SendType
<1>15. SendType'
  BY <1>1, <1>2, <1>4, <1>6, <1>14 DEF SendType
<1>16. QED
  BY <1>5, <1>9, <1>10, <1>12, <1>13, <1>15 DEF SendInv, Places, Order

\* A popped send has one of these outcomes.
LEMMA SendOutcome ==
    ASSUME TypeOK, AtPop, SendInv, PopSend
    PROVE  SendType' /\ SendInv'
<1> DEFINE x == Head(m_queue).id
           p == Head(m_queue).peer
<1>1. Pop("send") /\ OnSend(x, p) /\ x \in Sends /\ p \in Peers
  BY PopFirst DEF PopSend
<1>2. CASE Report({x}) /\ UNCHANGED <<held, sent>>
  BY <1>1, <1>2, PopGone DEF held
<1>3. CASE HandOver(x, p) /\ m_outbound[p] = <<>> /\ UNCHANGED <<held, failed>>
  BY <1>1, <1>3, PopOut
<1>4. CASE Hold(x, p) /\ UNCHANGED sent
  <2>1. CASE m_dropped_sends' = m_dropped_sends + 1 /\ UNCHANGED <<m_outbound, m_queued_sends, failed>>
    BY <1>1, <1>4, <2>1, PopGone
  <2>2. CASE Report({x}) /\ UNCHANGED held
    BY <1>2, <1>4, <2>2
  <2>3. CASE /\ m_outbound' = [m_outbound EXCEPT ![p] = Append(@, x)] /\ m_queued_sends' = m_queued_sends + 1
             /\ UNCHANGED <<m_dropped_sends, failed>>
    BY <1>1, <1>4, <2>3, PopHeld
  <2>4. QED
    BY <1>4, <2>1, <2>2, <2>3 DEF Hold
<1>5. QED
  BY <1>1, <1>2, <1>3, <1>4 DEF OnSend, SendOrHold

\* Every step keeps the places, the order and the counters.
LEMMA SendStep ==
    ASSUME TypeOK, AtPop, SendInv, [Next]_vars
    PROVE  SendType' /\ SendInv'
<1>1. SendType
  BY DEF TypeOK
<1>2. ASSUME NEW p \in Peers, TellSend(p) PROVE SendType' /\ SendInv'
  BY <1>2, TellPlaces
<1>3. ASSUME NEW m \in Config \cup Ctl, TellOther(m) PROVE SendType' /\ SendInv'
  <2>1. m \in Message /\ m.op # "send"
    BY ToldMessage
  <2>2. Enqueue(m) /\ UNCHANGED <<told, hist>>
    BY <1>3 DEF TellOther
  <2>3. QED
    BY <2>1, <2>2, OtherTold
<1>5. CASE StopActor \/ Wake \/ WaitEnds \/ RetryTime \/ Backstop \/ Check
  <2>1. UNCHANGED sendV
    BY <1>5 DEF StopActor, Wake, WaitEnds, RetryTime, Backstop, Return, Check, sendV, mbox, held, bound, hist
  <2>2. QED
    BY <1>1, <2>1, QuietSends
<1>6. ASSUME NEW p \in Peers, PeerConnect(p) \/ PeerLost(p) \/ PeerTakes(p) PROVE SendType' /\ SendInv'
  <2>1. UNCHANGED sendV
    BY <1>6 DEF PeerConnect, PeerLost, PeerTakes, sendV, mbox, held, bound, hist
  <2>2. QED
    BY <1>1, <2>1, QuietSends
<1>7. ASSUME NEW what, Arrives(what) \/ DeadlinePasses(what) PROVE SendType' /\ SendInv'
  <2>1. UNCHANGED sendV
    BY <1>7 DEF Arrives, DeadlinePasses, sendV, mbox, held, bound, hist
  <2>2. QED
    BY <1>1, <2>1, QuietSends
<1>8. CASE TopProcess \/ TopIdle \/ IdlePoll \/ Block \/ Spin
  <2>1. UNCHANGED sendV
    BY <1>8 DEF TopProcess, TopIdle, IdlePoll, Block, Spin, Expire, sendV, mbox, held, bound, hist
  <2>2. QED
    BY <1>1, <2>1, QuietSends
<1>9. CASE TopStop
  BY <1>9, StopSends
<1>10. CASE FlushVisit
  <2>1. PICK p \in unvisited : Visit(p)
    BY <1>10 DEF FlushVisit
  <2>2. p \in Peers /\ UNCHANGED <<m_queue, told, dead>>
    BY <1>10 DEF FlushVisit, mbox, bound, TypeOK, LoopType
  <2>3. CASE FlushLeaves(p)
    <3>1. UNCHANGED sendV
      BY <2>2, <2>3 DEF FlushLeaves, sendV, held
    <3>2. QED
      BY <1>1, <3>1, QuietSends
  <2>4. CASE FlushOne(p) /\ m_outbound[p] # <<>>
    BY <2>2, <2>4, FlushOneSends
  <2>5. QED
    BY <2>1, <2>3, <2>4 DEF Visit
<1>11. CASE PopSend
  BY <1>11, SendOutcome
<1>12. CASE PopInvalid
  BY <1>12, PopGone DEF PopInvalid, held
<1>13. CASE PopConfig \/ PopBind \/ PopShutdown
  <2>1. PICK op \in {"config", "bind", "shutdown"} : Pop(op)
    BY <1>13 DEF PopConfig, PopBind, PopShutdown
  <2>2. op # "send" /\ UNCHANGED <<held, sent, failed>>
    BY <1>13 DEF PopConfig, PopBind, PopShutdown
  <2>3. QED
    BY <2>1, <2>2, PopOther
<1>14. CASE UNCHANGED vars
  <2>1. UNCHANGED sendV
    BY <1>14 DEF vars, sendV, mbox, held, bound, hist
  <2>2. QED
    BY <1>1, <2>1, QuietSends
<1>15. QED
  BY <1>2, <1>3, <1>5, <1>6, <1>7, <1>8, <1>9, <1>10, <1>11, <1>12, <1>13, <1>14
     DEF Next, Thread, Environment

-----------------------------------------------------------------------------
(* Requests *)

\* The connection: before it nothing is held or sent, and it ends with the thread.
LEMMA ConnectStep ==
    ASSUME TypeOK, AtPop, Ended, Unconnected, [Next]_vars
    PROVE  Ended' /\ Unconnected'
<1>1. SendType /\ LoopType /\ NetType
  BY DEF TypeOK
<1>2. CASE UNCHANGED <<m_connected, m_outbound, sent>> /\ (pc' = "ended" <=> pc = "ended")
  BY <1>2 DEF Ended, Unconnected
<1>3. ASSUME NEW p \in Peers, TellSend(p) \/ PeerConnect(p) \/ PeerLost(p) \/ PeerTakes(p)
      PROVE  Ended' /\ Unconnected'
  BY <1>2, <1>3 DEF TellSend, Enqueue, PeerConnect, PeerLost, PeerTakes, loop, held, hist
<1>4. ASSUME NEW c, TellOther(c) \/ Arrives(c) \/ DeadlinePasses(c) PROVE Ended' /\ Unconnected'
  BY <1>2, <1>4 DEF TellOther, Enqueue, Arrives, DeadlinePasses, loop, held, hist
<1>5. CASE StopActor \/ Wake \/ WaitEnds \/ RetryTime \/ Backstop \/ Check
  BY <1>2, <1>5 DEF StopActor, Wake, WaitEnds, RetryTime, Backstop, Return, Check, Goto, loop, held, hist
<1>6. CASE TopProcess \/ TopIdle \/ IdlePoll \/ Block \/ Spin
  BY <1>2, <1>6 DEF TopProcess, TopIdle, IdlePoll, Block, Spin, TryBlock, Expire, Flush, Goto, held, hist
<1>7. CASE TopStop
  BY <1>7 DEF TopStop, Cleanup, Goto, Ended, Unconnected
<1>8. CASE FlushVisit
  <2>1. PICK p \in unvisited : Visit(p)
    BY <1>8 DEF FlushVisit
  <2>2. pc # "ended" /\ pc' # "ended" /\ m_connected' = m_connected /\ p \in Peers
    BY <1>1, <1>8, <2>1 DEF FlushVisit, Visit, FlushLeaves, FlushOne, FlushPops, Goto, loop, LoopType
  <2>3. CASE FlushLeaves(p)
    BY <1>2, <2>2, <2>3 DEF FlushLeaves, held
  <2>4. CASE FlushOne(p) /\ m_outbound[p] # <<>>
    BY <2>2, <2>4 DEF Ended, Unconnected
  <2>5. QED
    BY <2>1, <2>3, <2>4 DEF Visit
<1>9. CASE PopSend
  <2>1. pc # "ended" /\ pc' # "ended" /\ m_connected' = m_connected
    BY <1>9 DEF PopSend, Pop, Goto
  <2>2. CASE m_connected
    BY <2>1, <2>2 DEF Ended, Unconnected
  <2>3. CASE ~m_connected
    <3>1. UNCHANGED <<held, sent>>
      BY <1>9, <2>3 DEF PopSend, OnSend, SendOrHold
    <3>2. QED
      BY <1>2, <2>1, <3>1 DEF held
  <2>4. QED
    BY <2>2, <2>3
<1>10. CASE PopInvalid \/ PopConfig \/ PopShutdown
  BY <1>2, <1>10 DEF PopInvalid, PopConfig, PopShutdown, Pop, Goto, held
<1>11. CASE PopBind
  BY <1>11 DEF PopBind, Pop, Goto, held, Ended, Unconnected
<1>12. CASE UNCHANGED vars
  BY <1>2, <1>12 DEF vars, loop, held, hist
<1>13. QED
  BY <1>3, <1>4, <1>5, <1>6, <1>7, <1>8, <1>9, <1>10, <1>11, <1>12 DEF Next, Thread, Environment

\* A send that is handed over joins those that went out.
LEMMA OutGrows ==
    ASSUME SendType, NEW x \in Sends, NEW p \in Peers, HandOver(x, p)
    PROVE  OutSet' = OutSet \cup {x}
<1>1. sent \in [Peers -> Seq(Sends)] /\ sent' = [sent EXCEPT ![p] = Append(@, x)]
  BY DEF SendType, HandOver
<1>2. sent'[p] = Append(sent[p], x) /\ (\A r \in Peers : r # p => sent'[r] = sent[r]) /\ sent[p] \in Seq(Sends)
  BY <1>1
<1>3. ToSet(sent'[p]) = ToSet(sent[p]) \cup {x}
  <2>1. /\ Append(sent[p], x) \in Seq(Sends)
        /\ \A s : Has(Append(sent[p], x), s) <=> Has(sent[p], s) \/ s = x
    BY <1>2, AppendSeq
  <2>2. QED
    BY <1>2, <2>1, Views
<1>4. /\ \A r \in Peers : outAt[r] = ToSet(sent[r])
      /\ \A r \in Peers : outAt'[r] = ToSet(sent'[r])
  BY Primed DEF outAt
<1>5. \A r \in Peers : outAt'[r] = IF r = p THEN outAt[r] \cup {x} ELSE outAt[r]
  <2>1. outAt'[p] = outAt[p] \cup {x}
    BY <1>3, <1>4
  <2>2. ASSUME NEW r \in Peers, r # p PROVE outAt'[r] = outAt[r]
    BY <1>2, <1>4, <2>2
  <2>3. QED
    BY <2>1, <2>2
<1>6. QED
  BY <1>5, AddedTo

\* Nothing goes out.
LEMMA OutSame == ASSUME sent' = sent PROVE OutSet' = OutSet
<1>1. outAt' = outAt
  BY Primed DEF outAt
<1>2. QED
  BY <1>1 DEF OutSet

RequestInv == RequestType /\ Matched

\* A least number, from a well-founded relation that holds between smaller and greater.
LEMMA LeastOf ==
    ASSUME NEW R, IsWellFoundedOn(R, Nat), \A x, y \in Nat : x < y => <<x, y>> \in R,
           NEW T, T \subseteq Nat, T # {}
    PROVE  Min(T) \in T
<1>1. PICK x \in T : \A y \in T : ~(<<y, x>> \in R)
  BY WFMin
<1>2. ASSUME NEW y \in T PROVE x <= y
  <2>1. x \in Nat /\ y \in Nat /\ ~(y < x)
    BY <1>1
  <2>2. QED
    BY <2>1
<1>3. QED
  BY <1>2 DEF Min

\* Every set of natural numbers that is not empty has one.
LEMMA Least ==
    ASSUME NEW T, T \subseteq Nat, T # {}
    PROVE  Min(T) \in T
<1>1. \A x, y \in Nat : x < y => <<x, y>> \in OpToRel(<, Nat)
  BY Zenon DEF OpToRel
<1>2. QED
  BY <1>1, NatLessThanWellFounded, LeastOf, Zenon

\* What a requester got of other requests stays so: what is over is over.
LEMMA AnswersKept ==
    ASSUME OutSet \subseteq OutSet', \A r \in Sends : Gone(r) => Gone(r)',
           m_pending' \cap OutSet \subseteq m_pending,
           NEW s \in Sends, answered'[s] = answered[s], AnswerOf(s)
    PROVE  AnswerOf(s)'
<1>1. ASSUME NEW r \in Sends PROVE Has(answered[s], r)' <=> Has(answered[s], r)
  BY DEF Has
<1>2. ASSUME NEW r \in Sends, Has(answered[s], r)', r # s
      PROVE  Corr[r] = Corr[s] /\ r \in OutSet' /\ Gone(r)' /\ r \notin m_pending'
  <2>1. Corr[r] = Corr[s] /\ r \in OutSet /\ Gone(r) /\ r \notin m_pending
    BY <1>1, <1>2 DEF AnswerOf
  <2>2. QED
    BY <2>1
<1>3. QED
  BY <1>2 DEF AnswerOf

\* What has arrived stays so.
LEMMA ArrivedKept ==
    ASSUME FromOut, OutSet \subseteq OutSet', UNCHANGED <<inbound, m_connected>>
    PROVE  FromOut'
BY DEF FromOut

\* A step after which the requests are as before, but for those that expired.
LEMMA QuietRequests ==
    ASSUME RequestInv, UNCHANGED <<sent, answered, replaced>>,
           m_pending' \subseteq m_pending, forgotten \subseteq forgotten', forgotten' \subseteq Requests,
           m_connected' => m_connected /\ m_pending \subseteq m_pending' \cup forgotten',
           FromOut', late' \subseteq Sends
    PROVE  RequestInv'
<1>1. OutSet' = OutSet
  BY OutSame
<1>2. \A r \in Sends : Gone(r) => Gone(r)'
  BY DEF Gone
<1>3. ASSUME NEW s \in Sends PROVE RequestOf(s)'
  <2>1. RequestOf(s)
    BY DEF RequestInv, Matched
  <2>2. AnswerOf(s)'
    BY <1>1, <1>2, <2>1, AnswersKept DEF RequestOf
  <2>3. s \in OutSet \cap Requests /\ m_connected' => s \in m_pending' \/ Gone(s)'
    BY <1>2, <2>1 DEF RequestOf, Gone
  <2>4. QED
    BY <1>1, <2>1, <2>2, <2>3 DEF RequestOf
<1>4. OneEach'
  BY DEF RequestInv, Matched, OneEach
<1>5. QED
  BY <1>3, <1>4 DEF RequestInv, Matched, RequestType

\* The reply a requester gets: one to a request that went out with the id of its own.
LEMMA ReplyGot ==
    ASSUME RequestInv, NetType, NEW s \in Replied
    PROVE  /\ s \in m_pending /\ s \in Requests
           /\ Taken[Min(RepliesTo(s))] \in Requests
           /\ Corr[Taken[Min(RepliesTo(s))]] = Corr[s]
           /\ Taken[Min(RepliesTo(s))] \in OutSet /\ m_connected
<1>1. s \in m_pending /\ s \in Requests /\ RepliesTo(s) # {}
  BY DEF Replied, RequestInv, RequestType
<1>2. \A i \in DOMAIN Taken : i \in Nat /\ i \in DOMAIN inbound /\ Taken[i] = inbound[i]
  BY TakenFront DEF NetType
<1>3. RepliesTo(s) \subseteq Nat
  BY <1>2 DEF RepliesTo
<1>4. Min(RepliesTo(s)) \in RepliesTo(s)
  BY <1>1, <1>3, Least
<1>5. PICK i \in DOMAIN Taken : i = Min(RepliesTo(s)) /\ Taken[i] \in Requests /\ Corr[Taken[i]] = Corr[s]
  BY <1>4 DEF RepliesTo
<1>6. Taken[i] \in OutSet /\ m_connected
  BY <1>2, <1>5 DEF RequestInv, Matched, FromOut
<1>7. QED
  BY <1>1, <1>5, <1>6

\* A first reply.
LEMMA FirstAnswer ==
    \A q : \A x \in Requests : q = <<>> =>
        /\ Append(q, x) \in Seq(Requests) /\ Len(Append(q, x)) = 1 /\ Append(q, x) # <<>>
        /\ \A r : Has(Append(q, x), r) <=> r = x
<1> SUFFICES ASSUME NEW q, q = <<>>, NEW x \in Requests
             PROVE  /\ Append(q, x) \in Seq(Requests) /\ Len(Append(q, x)) = 1 /\ Append(q, x) # <<>>
                    /\ \A r : Has(Append(q, x), r) <=> r = x
  OBVIOUS
<1> DEFINE a == Append(q, x)
<1>1. a \in Seq(Requests) /\ Len(a) = 1 /\ DOMAIN a = {1} /\ a[1] = x
  OBVIOUS
<1> HIDE DEF a
<1>2. a # <<>>
  BY <1>1
<1>3. QED
  BY <1>1, <1>2 DEF a, Has

\* poll() hands a reply to the requester of the pending request with its id, once.
LEMMA PollRequests ==
    ASSUME RequestInv, NetType, Poll, UNCHANGED <<sent, forgotten, replaced, m_connected>>
    PROVE  RequestInv'
<1> DEFINE got(s) == Taken[Min(RepliesTo(s))]
<1>1. OutSet' = OutSet
  BY OutSame
<1>2. Replied \subseteq m_pending /\ m_pending \subseteq Sends /\ answered \in [Sends -> Seq(Requests)]
  BY SendsNat DEF Replied, RequestInv, RequestType
<1>3. \A s \in Sends : answered'[s] = IF s \in Replied THEN Append(answered[s], got(s)) ELSE answered[s]
  BY DEF Poll
<1>4. m_pending' = m_pending \ Replied /\ late' = late \ Replied
  BY DEF Poll
<1>5. \A s \in Replied : /\ got(s) \in Requests /\ Corr[got(s)] = Corr[s]
                         /\ got(s) \in OutSet /\ m_connected
  BY ReplyGot
<1>6. answered' = [s \in Sends |-> answered'[s]] /\ DOMAIN answered' = Sends
  BY DEF Poll
<1> HIDE DEF got
<1>7. \A s \in Replied : answered[s] = <<>>
  BY <1>2 DEF RequestInv, Matched, RequestOf
<1>8. ASSUME NEW s \in Replied
      PROVE  /\ answered'[s] \in Seq(Requests) /\ Len(answered'[s]) = 1 /\ answered'[s] # <<>>
             /\ \A r : Has(answered'[s], r) <=> r = got(s)
  <2>1. answered'[s] = Append(answered[s], got(s)) /\ answered[s] = <<>> /\ got(s) \in Requests
    BY <1>2, <1>3, <1>5, <1>7
  <2> DEFINE q == answered[s]
             y == got(s)
  <2>2. answered'[s] = Append(q, y) /\ q = <<>> /\ y \in Requests
    BY <2>1
  <2> HIDE DEF q, y
  <2>3. /\ Append(q, y) \in Seq(Requests) /\ Len(Append(q, y)) = 1 /\ Append(q, y) # <<>>
        /\ \A r : Has(Append(q, y), r) <=> r = y
    BY <2>2, FirstAnswer, Zenon
  <2>4. QED
    BY <2>2, <2>3, Zenon DEF y
<1>9. answered' \in [Sends -> Seq(Requests)]
  <2>1. ASSUME NEW s \in Sends PROVE answered'[s] \in Seq(Requests)
    BY <1>2, <1>3, <1>8
  <2>2. QED
    BY <1>6, <2>1
<1>10. \A r \in Sends : Gone(r) => Gone(r)'
  <2>1. ASSUME NEW r \in Sends, Gone(r) PROVE Gone(r)'
    <3>1. CASE r \in Replied
      BY <1>8, <3>1 DEF Gone
    <3>2. CASE r \notin Replied
      BY <1>3, <2>1, <3>2 DEF Gone
    <3>3. QED
      BY <3>1, <3>2
  <2>2. QED
    BY <2>1
<1>11. ASSUME NEW s \in Sends PROVE RequestOf(s)'
  <2>1. RequestOf(s)
    BY DEF RequestInv, Matched
  <2>2. CASE s \in Replied
    <3>1. s \in OutSet /\ s \notin m_pending' /\ Gone(s)'
      BY <1>2, <1>4, <1>8, <2>1, <2>2 DEF RequestOf, Gone
    <3>2. ASSUME NEW r \in Sends, Has(answered[s], r)', r # s
          PROVE  Corr[r] = Corr[s] /\ r \in OutSet' /\ Gone(r)' /\ r \notin m_pending'
      <4>0. Has(answered'[s], r)
        BY <3>2 DEF Has
      <4>1. r \in Requests /\ Corr[r] = Corr[s] /\ r \in OutSet /\ m_connected
        BY <1>5, <1>8, <2>2, <4>0
      <4>2. r \notin m_pending
        BY <1>2, <2>2, <3>2, <4>1 DEF RequestInv, Matched, OneEach
      <4>3. Gone(r)
        BY <4>1, <4>2 DEF RequestInv, Matched, RequestOf
      <4>4. QED
        BY <1>1, <1>4, <1>10, <4>1, <4>2, <4>3
    <3>3. AnswerOf(s)'
      BY <3>2 DEF AnswerOf
    <3>4. Len(answered'[s]) <= 1
      <4>1. Len(answered'[s]) = 1
        BY <1>8, <2>2, Zenon
      <4>2. QED
        BY <4>1
    <3>5. s \in replaced' => \E r \in OutSet' : r # s /\ Corr[r] = Corr[s]
      BY <1>1, <2>1 DEF RequestOf
    <3>6. QED
      BY <1>1, <3>1, <3>3, <3>4, <3>5 DEF RequestOf
  <2>3. CASE s \notin Replied
    <3>1. AnswerOf(s)'
      <4>1. answered'[s] = answered[s] /\ AnswerOf(s) /\ m_pending' \cap OutSet \subseteq m_pending
        BY <1>3, <1>4, <2>1, <2>3 DEF RequestOf
      <4>2. QED
        BY <1>1, <1>10, <4>1, AnswersKept
    <3>2. s \in OutSet \cap Requests /\ m_connected' => s \in m_pending' \/ Gone(s)'
      BY <1>4, <1>10, <2>1, <2>3 DEF RequestOf
    <3>3. QED
      BY <1>1, <1>3, <1>4, <2>1, <2>3, <3>1, <3>2 DEF RequestOf
  <2>4. QED
    BY <2>2, <2>3
<1>12. OneEach'
  BY <1>4 DEF RequestInv, Matched, OneEach
<1>13. FromOut'
  <2>1. \A i \in DOMAIN inbound' : \E j \in DOMAIN inbound : inbound'[i] = inbound[j]
    BY TakenFront DEF NetType, Poll
  <2>2. QED
    BY <1>1, <2>1 DEF RequestInv, Matched, FromOut
<1>14. QED
  BY <1>4, <1>9, <1>11, <1>12, <1>13 DEF RequestInv, Matched, RequestType

\* A request goes out for the first time, and is remembered: in the entry of an
\* earlier one, perhaps, that is not pending any more.
LEMMA TrackRequests ==
    ASSUME RequestInv, SendType, NEW x \in Sends, x \notin OutSet, NEW p \in Peers, HandOver(x, p), Track(x),
           UNCHANGED <<answered, forgotten, m_connected, inbound>>
    PROVE  RequestInv'
<1>1. OutSet' = OutSet \cup {x}
  BY OutGrows
<1>2. /\ m_pending' = (m_pending \ Overwritten(x)) \cup ({x} \cap Requests)
      /\ late' = late \ (Overwritten(x) \cup {x})
      /\ replaced' = replaced \cup Overwritten(x)
  BY DEF Track
<1>3. /\ Overwritten(x) \subseteq m_pending /\ m_pending \subseteq Requests /\ m_pending \subseteq OutSet
      /\ \A r \in Overwritten(x) : Corr[r] = Corr[x] /\ r # x
  BY SendsNat DEF Overwritten, RequestInv, RequestType, Matched, RequestOf
<1>4. \A r \in m_pending : x \in Requests /\ Corr[r] = Corr[x] => r \in Overwritten(x)
  BY DEF Overwritten
<1>5. \A r \in Sends : Gone(r) => Gone(r)'
  BY <1>2 DEF Gone
<1>6. m_pending' \cap OutSet \subseteq m_pending
  BY <1>2
<1>7. ASSUME NEW s \in Sends PROVE RequestOf(s)'
  <2>1. RequestOf(s)
    BY DEF RequestInv, Matched
  <2>2. AnswerOf(s)'
    BY <1>1, <1>5, <1>6, <2>1, AnswersKept DEF RequestOf
  <2>3. s \in replaced' => \E r \in OutSet' : r # s /\ Corr[r] = Corr[s]
    <3>1. CASE s \in replaced
      BY <1>1, <2>1, <3>1 DEF RequestOf
    <3>2. CASE s \in Overwritten(x)
      BY <1>1, <1>3, <3>2
    <3>3. QED
      BY <1>2, <3>1, <3>2
  <2>4. s \in m_pending' => s \in OutSet' /\ answered'[s] = <<>>
    <3>1. CASE s = x
      BY <1>1, <2>1, <3>1 DEF RequestOf
    <3>2. CASE s # x
      BY <1>1, <1>2, <2>1, <3>2 DEF RequestOf
    <3>3. QED
      BY <3>1, <3>2
  <2>5. s \in OutSet' \cap Requests /\ m_connected' => s \in m_pending' \/ Gone(s)'
    <3>1. CASE s = x
      BY <1>2, <3>1
    <3>2. CASE s # x
      <4>1. s \in Overwritten(x) => Gone(s)'
        BY <1>2 DEF Gone
      <4>2. QED
        BY <1>1, <1>2, <1>5, <2>1, <3>2, <4>1 DEF RequestOf
    <3>3. QED
      BY <3>1, <3>2
  <2>6. QED
    BY <1>1, <2>1, <2>2, <2>3, <2>4, <2>5 DEF RequestOf
<1>8. OneEach'
  BY <1>2, <1>4 DEF RequestInv, Matched, OneEach
<1>9. FromOut'
  BY <1>1, ArrivedKept DEF RequestInv, Matched
<1>10. QED
  BY <1>2, <1>3, <1>7, <1>8, <1>9 DEF RequestInv, Matched, RequestType

\* What arrives for a request comes from a peer that took it.
LEMMA ArrivesOut ==
    ASSUME NetType, SendType, FromOut, NEW what, Arrives(what)
    PROVE  FromOut'
<1>1. inbound' = Append(inbound, what) /\ m_connected /\ UNCHANGED <<m_connected, sent>>
  BY DEF Arrives, hist
<1>2. OutSet' = OutSet
  BY <1>1, OutSame
<1>3. what \in Requests => what \in OutSet
  <2>1. ASSUME what \in Requests PROVE what \in OutSet
    <3>1. PICK p \in known : what \in ToSet(sent[p])
      BY <2>1 DEF Arrives
    <3>2. p \in Peers /\ what \in Sends
      BY <2>1, <3>1, SendsNat DEF NetType
    <3>3. QED
      BY <3>1, <3>2 DEF OutSet, outAt
  <2>2. QED
    BY <2>1
<1>4. inbound \in Seq(Requests \cup {Other, Malformed})
  BY DEF NetType
<1>5. ASSUME NEW i \in DOMAIN inbound' PROVE inbound'[i] = what \/ (i \in DOMAIN inbound /\ inbound'[i] = inbound[i])
  BY <1>1, <1>4
<1>6. QED
  BY <1>1, <1>2, <1>3, <1>5 DEF FromOut

\* Every step keeps what is known of the requests.
LEMMA RequestStep ==
    ASSUME TypeOK, AtPop, SendInv, Unconnected, Matched, [Next]_vars
    PROVE  RequestInv'
<1>1. RequestInv /\ SendType /\ LoopType /\ NetType /\ late \subseteq Sends /\ forgotten \subseteq Requests
  BY DEF RequestInv, TypeOK, RequestType
<1>2. ASSUME UNCHANGED <<sent, m_pending, answered, forgotten, replaced, m_connected, inbound>>, late' \subseteq Sends
      PROVE  RequestInv'
  <2>1. OutSet' = OutSet
    BY <1>2, OutSame
  <2>2. FromOut'
    BY <1>2, <2>1, ArrivedKept DEF Matched
  <2>3. QED
    BY <1>1, <1>2, <2>2, QuietRequests
<1>3. ASSUME NEW p \in Peers, TellSend(p) \/ PeerConnect(p) \/ PeerLost(p) \/ PeerTakes(p)
      PROVE  RequestInv'
  BY <1>1, <1>2, <1>3 DEF TellSend, Enqueue, PeerConnect, PeerLost, PeerTakes, reqs, hist, net
<1>4. ASSUME NEW m, TellOther(m) PROVE RequestInv'
  BY <1>1, <1>2, <1>4 DEF TellOther, Enqueue, reqs, hist, net
<1>5. ASSUME NEW s \in Sends, DeadlinePasses(s) PROVE RequestInv'
  BY <1>1, <1>2, <1>5 DEF DeadlinePasses, hist, net
<1>6. CASE StopActor \/ Wake \/ WaitEnds \/ RetryTime \/ Backstop \/ Check \/ TopIdle
  BY <1>1, <1>2, <1>6 DEF StopActor, Wake, WaitEnds, RetryTime, Backstop, Return, Check, TopIdle, reqs, hist, net
<1>7. CASE TopProcess \/ IdlePoll \/ Spin
  <2>1. CASE Poll
    BY <1>1, <1>7, <2>1, PollRequests DEF TopProcess, IdlePoll, Spin
  <2>2. CASE UNCHANGED <<reqs, answered, net>>
    BY <1>1, <1>2, <1>7, <2>2 DEF TopProcess, IdlePoll, Spin, reqs, net
  <2>3. QED
    BY <1>7, <2>1, <2>2 DEF TopProcess, IdlePoll, Spin
<1>8. CASE Block
  <2>1. /\ forgotten' = forgotten \cup (m_pending \cap late) /\ m_pending' = m_pending \ late
        /\ late' = late \ m_pending /\ UNCHANGED <<sent, answered, m_connected, replaced, inbound>>
    BY <1>8 DEF Block, Expire, net
  <2>2. OutSet' = OutSet
    BY <2>1, OutSame
  <2>3. FromOut'
    BY <2>1, <2>2, ArrivedKept DEF Matched
  <2>4. m_pending \subseteq Requests
    BY <1>1 DEF RequestInv, RequestType
  <2>5. QED
    BY <1>1, <2>1, <2>3, <2>4, QuietRequests
<1>9. CASE TopStop
  <2>1. /\ m_pending' = {} /\ late' = {} /\ m_connected' = FALSE /\ inbound' = <<>>
        /\ UNCHANGED <<sent, answered, forgotten, replaced>>
    BY <1>9 DEF TopStop, Cleanup, TransportClose
  <2>2. FromOut'
    BY <2>1 DEF FromOut
  <2>3. QED
    BY <1>1, <2>1, <2>2, QuietRequests
<1>10. CASE FlushVisit
  <2>1. PICK p \in unvisited : Visit(p)
    BY <1>10 DEF FlushVisit
  <2>2. p \in Peers /\ UNCHANGED <<m_connected, answered, forgotten>>
    BY <1>1, <1>10 DEF FlushVisit, LoopType
  <2>3. CASE FlushLeaves(p)
    BY <1>1, <1>2, <2>2, <2>3 DEF FlushLeaves, reqs, net
  <2>4. CASE FlushOne(p) /\ m_outbound[p] # <<>>
    <3> DEFINE x == Head(m_outbound[p])
    <3>1. m_outbound[p] \in Seq(Sends) /\ Increasing(m_outbound[p])
      BY <1>1, <2>2 DEF SendType, SendInv, Order, SeqsInOrder
    <3>2. x \in ToSet(m_outbound[p]) /\ x \in Sends
      BY <2>4, <3>1, TailView
    <3>3. inbound' = inbound
      BY <2>4 DEF FlushOne, FlushPops
    <3>4. \/ late' = late \ {x} /\ UNCHANGED <<sent, m_pending, replaced>>
          \/ HandOver(x, p) /\ Track(x)
      BY <2>4 DEF FlushOne, FlushFails
    <3> HIDE DEF x
    <3>5. x \in HeldSet
      BY <2>2, <3>2 DEF HeldSet, heldAt
    <3>6. x \notin OutSet
      BY <3>2, <3>5 DEF SendInv, Places, PlaceOf
    <3>7. CASE late' = late \ {x} /\ UNCHANGED <<sent, m_pending, replaced>>
      BY <1>1, <1>2, <2>2, <3>3, <3>7
    <3>8. CASE HandOver(x, p) /\ Track(x)
      BY <1>1, <2>2, <3>2, <3>3, <3>6, <3>8, TrackRequests
    <3>9. QED
      BY <3>4, <3>7, <3>8
  <2>5. QED
    BY <2>1, <2>3, <2>4 DEF Visit
<1>11. CASE PopSend
  <2> DEFINE x == Head(m_queue).id
             p == Head(m_queue).peer
  <2>1. /\ Pop("send") /\ OnSend(x, p) /\ x \in Sends /\ p \in Peers /\ x \in mail
        /\ UNCHANGED <<m_connected, answered, forgotten>>
    BY <1>11, PopFirst DEF PopSend, Pop
  <2> HIDE DEF x, p
  <2>2. x \notin OutSet
    BY <2>1 DEF SendInv, Places, PlaceOf
  <2>3. CASE UNCHANGED <<net, reqs, sent, replaced>>
    BY <1>1, <1>2, <2>1, <2>3 DEF reqs, net
  <2>4. CASE HandOver(x, p) /\ Track(x) /\ inbound' = inbound
    BY <1>1, <2>1, <2>2, <2>4, TrackRequests
  <2>5. QED
    BY <2>1, <2>3, <2>4 DEF OnSend, SendOrHold
<1>12. CASE PopInvalid \/ PopConfig \/ PopShutdown
  BY <1>1, <1>2, <1>12 DEF PopInvalid, PopConfig, PopShutdown, Pop, reqs, net
<1>13. CASE PopBind
  <2>1. /\ UNCHANGED <<sent, m_pending, late, answered, forgotten, replaced, inbound>> /\ pc = "pop"
        /\ m_connected => m_connected' = m_connected
    BY <1>13 DEF PopBind, Pop, reqs, net
  <2>2. CASE m_connected
    BY <1>1, <1>2, <2>1, <2>2
  <2>3. CASE ~m_connected
    <3>1. OutSet = {}
      <4>1. \A r \in Peers : outAt[r] = {}
        BY <2>1, <2>3, NothingIn DEF Unconnected, outAt
      <4>2. QED
        BY <4>1 DEF OutSet
    <3>2. OutSet' = OutSet
      BY <2>1, OutSame
    <3>3. FromOut' /\ OneEach'
      BY <2>1, <2>3 DEF Matched, FromOut, OneEach
    <3>4. ASSUME NEW s \in Sends PROVE RequestOf(s)'
      <4>1. RequestOf(s)
        BY DEF Matched
      <4>2. AnswerOf(s)'
        <5>1. \A r \in Sends : Gone(r) => Gone(r)'
          BY <2>1 DEF Gone
        <5>2. QED
          BY <2>1, <3>2, <4>1, <5>1, AnswersKept DEF RequestOf
      <4>3. QED
        BY <2>1, <3>1, <3>2, <4>1, <4>2 DEF RequestOf
    <3>5. QED
      BY <1>1, <2>1, <3>3, <3>4 DEF RequestInv, Matched, RequestType
  <2>4. QED
    BY <2>2, <2>3
<1>14. CASE UNCHANGED vars
  BY <1>1, <1>2, <1>14 DEF vars, reqs, hist, net
<1>15. ASSUME NEW what, Arrives(what) PROVE RequestInv'
  <2>1. FromOut'
    BY <1>1, <1>15, ArrivesOut DEF Matched
  <2>2. UNCHANGED <<sent, m_pending, late, answered, forgotten, replaced, m_connected>>
    BY <1>15 DEF Arrives, reqs, hist
  <2>3. QED
    BY <1>1, <2>1, <2>2, QuietRequests
<1>16. QED
  BY <1>3, <1>4, <1>5, <1>6, <1>7, <1>8, <1>9, <1>10, <1>11, <1>12, <1>13, <1>14, <1>15
     DEF Next, Thread, Environment

-----------------------------------------------------------------------------
(* Theorems *)

\* The relay is created with an empty mailbox and no connection.
LEMMA RelayInit ==
    ASSUME Init
    PROVE  TypeOK /\ RelayInv
<1>1. LoopType
  <2>1. <<>> \in Seq(Send \cup Config \cup Ctl)
    OBVIOUS
  <2>2. QED
    BY <2>1 DEF Init, LoopType, Labels
<1>2. NetType
  <2>1. <<>> \in Seq(Requests \cup {Other, Malformed}) /\ <<>> \in Seq(Sends)
    OBVIOUS
  <2>2. MaxSends + 1 \in Nat
    BY SendsNat
  <2>3. QED
    BY <2>1, <2>2 DEF Init, NetType, Policies
<1>3. SendType
  BY SendsNat DEF Init, SendType
<1>4. RequestType
  BY DEF Init, RequestType
<1>5. mail = {} /\ MailInOrder
  BY NothingIn DEF Init, mail, MailInOrder
<1>6. \A p \in Peers : heldAt[p] = {} /\ outAt[p] = {} /\ Increasing(m_outbound[p]) /\ Increasing(sent[p])
  <2>1. ASSUME NEW p \in Peers
        PROVE  heldAt[p] = {} /\ outAt[p] = {} /\ Increasing(m_outbound[p]) /\ Increasing(sent[p])
    <3>1. m_outbound[p] = <<>> /\ sent[p] = <<>>
      BY DEF Init
    <3>2. QED
      BY <3>1, NothingIn DEF heldAt, outAt
  <2>2. QED
    BY <2>1
<1>7. HeldSet = {} /\ OutSet = {}
  BY <1>6 DEF HeldSet, OutSet
<1>8. Placed = {}
  BY <1>5, <1>7 DEF Init, Placed
<1>9. Places
  BY <1>5, <1>6, <1>7 DEF Init, Places, PlaceOf
<1>10. Order
  BY <1>5, <1>6 DEF Order, SeqsInOrder, OrderOf
<1>11. Counts
  BY <1>7, <1>8, FS_EmptySet DEF Init, Counts, HeldCount, ToldCount
<1>12. Matched
  <2>1. \A s \in Sends : answered[s] = <<>> /\ s \notin m_pending /\ s \notin replaced
    BY DEF Init
  <2>2. ASSUME NEW s \in Sends PROVE RequestOf(s)
    BY <1>7, <2>1 DEF RequestOf, AnswerOf, Has
  <2>3. OneEach /\ FromOut
    BY DEF Init, OneEach, FromOut
  <2>4. QED
    BY <2>2, <2>3 DEF Matched
<1>13. AtPop /\ Ended /\ Unconnected
  BY DEF Init, AtPop, Ended, Unconnected
<1>14. QED
  BY <1>1, <1>2, <1>3, <1>4, <1>9, <1>10, <1>11, <1>12, <1>13 DEF TypeOK, RelayInv

\* The inductive invariant.
LEMMA RelayInvariant == Spec => [](TypeOK /\ RelayInv)
<1>1. ASSUME TypeOK, RelayInv, [Next]_vars
      PROVE  TypeOK' /\ RelayInv'
  <2>1. AtPop /\ Ended /\ Unconnected /\ Order /\ Matched /\ SendInv
    BY <1>1 DEF RelayInv, SendInv
  <2>2. LoopType' /\ AtPop' /\ NetType' /\ SendType' /\ SendInv'
    BY <1>1, <2>1, LoopStep, NetStep, SendStep
  <2>3. Ended' /\ Unconnected' /\ RequestInv'
    BY <1>1, <2>1, ConnectStep, RequestStep
  <2>4. QED
    BY <2>2, <2>3 DEF TypeOK, RelayInv, SendInv, RequestInv
<1>2. QED
  BY <1>1, RelayInit, PTL DEF Spec

\* The relay, its transport and its counters keep their types; m_queued_sends,
\* an unsigned counter, is never decremented below zero by flush_outbound().
THEOREM TypeCorrect == Spec => []TypeOK
BY RelayInvariant, PTL

\* Every send told to the relay is in one place, whatever the peers, the limits
\* and the policy do (send_or_hold(), flush_outbound(), fail_all_outbound()).
THEOREM SendsPlaced == Spec => []SendFate
<1>1. ASSUME TypeOK, RelayInv PROVE SendFate
  <2> DEFINE out      == UNION {ToSet(sent[p]) : p \in Peers}
             reported == {s \in Sends : failed[s] > 0}
             parts    == <<Ids(m_queue), dead, out, HeldSends, reported>>
  <2>1. /\ mail \subseteq Sends /\ dead \subseteq Sends
        /\ heldAt \in [Peers -> SUBSET Sends] /\ outAt \in [Peers -> SUBSET Sends]
    BY <1>1, ViewTypes DEF TypeOK, SendType
  <2>2. out = OutSet
    <3>1. out = UNION {outAt[p] : p \in Peers}
      BY DEF outAt
    <3>2. QED
      BY <2>1, <3>1 DEF OutSet
  <2>3. HeldSends = HeldSet
    <3>1. HeldSends = UNION {heldAt[p] : p \in Peers}
      BY DEF heldAt, HeldSends
    <3>2. QED
      BY <2>1, <3>1 DEF HeldSet
  <2>4. \A s \in Sends : failed[s] \in {0, 1} /\ (s \in reported <=> failed[s] = 1)
    BY <1>1 DEF RelayInv, Places, PlaceOf
  <2> HIDE DEF out, reported
  <2>5. parts = <<mail, dead, OutSet, HeldSet, reported>> /\ DOMAIN parts = 1..5
    BY <2>2, <2>3 DEF mail
  <2>6. /\ reported \subseteq Sends /\ OutSet \subseteq Sends /\ HeldSet \subseteq Sends
    BY DEF reported, OutSet, HeldSet
  <2>7. /\ mail \cap dead = {} /\ mail \cap OutSet = {} /\ mail \cap HeldSet = {} /\ mail \cap reported = {}
        /\ dead \cap OutSet = {} /\ dead \cap HeldSet = {} /\ dead \cap reported = {}
        /\ OutSet \cap HeldSet = {} /\ OutSet \cap reported = {} /\ HeldSet \cap reported = {}
    BY <1>1, <2>1, <2>4, <2>6 DEF RelayInv, Places, PlaceOf
  <2>8. UNION {parts[i] : i \in DOMAIN parts} = mail \cup dead \cup OutSet \cup HeldSet \cup reported
    BY <2>5
  <2>9. mail \cup dead \cup OutSet \cup HeldSet \cup reported = Placed
    BY <2>1, <2>4, <2>6 DEF Placed
  <2>10. \A i, j \in DOMAIN parts : i # j => parts[i] \cap parts[j] = {}
    BY <2>5, <2>7
  <2>11. Cardinality(UNION {parts[i] : i \in DOMAIN parts}) + m_dropped_sends = told
    <3>1. m_dropped_sends + Cardinality(Placed) = told /\ m_dropped_sends \in Nat
      BY <1>1 DEF RelayInv, Counts, ToldCount, TypeOK, SendType
    <3>2. Cardinality(UNION {parts[i] : i \in DOMAIN parts}) = Cardinality(Placed)
      BY <2>8, <2>9
    <3>3. QED
      <4> DEFINE c == Cardinality(UNION {parts[i] : i \in DOMAIN parts})
      <4>1. c \in Nat /\ m_dropped_sends + c = told
        BY <3>1, <3>2, SendsFinite
      <4> HIDE DEF c
      <4>2. c + m_dropped_sends = told
        BY <3>1, <4>1
      <4>3. QED
        BY <4>2 DEF c
  <2>12. m_queued_sends = Cardinality(HeldSends)
    BY <1>1, <2>3 DEF RelayInv, Counts, HeldCount
  <2>13. \A s \in Sends : failed[s] <= 1
    BY <2>4
  <2>14. /\ \A i, j \in DOMAIN parts : i # j => parts[i] \cap parts[j] = {}
         /\ \A s \in Sends : failed[s] <= 1
         /\ Cardinality(UNION {parts[i] : i \in DOMAIN parts}) + m_dropped_sends = told
         /\ m_queued_sends = Cardinality(HeldSends)
    BY <2>10, <2>11, <2>12, <2>13
  <2> HIDE DEF parts
  <2>15. QED
    BY <2>14, Zenon DEF SendFate, out, reported, parts
<1>2. QED
  BY <1>1, RelayInvariant, PTL

\* A peer gets its sends in the order of the tell() calls: on_send() does not
\* overtake the held ones and flush_outbound() goes on from the oldest.
THEOREM PeersInOrder == Spec => []PeerOrder
<1>1. ASSUME RelayInv PROVE PeerOrder
  BY <1>1 DEF RelayInv, Order, SeqsInOrder, Increasing, PeerOrder
<1>2. QED
  BY <1>1, RelayInvariant, PTL

\* A request is known from the moment it goes out until it is answered, once,
\* expires, or is overwritten by a later one with its correlation id; a reply to
\* another request comes only from one with the same id that is over
\* (track_request(), poll()).
THEOREM RepliesMatched == Spec => []RequestsMatched
<1>1. ASSUME TypeOK, RelayInv PROVE RequestsMatched
  <2> DEFINE out == UNION {ToSet(sent[p]) : p \in Peers}
  <2>1. outAt \in [Peers -> SUBSET Sends] /\ \A p \in Peers : outAt[p] = ToSet(sent[p])
    BY <1>1, ViewTypes DEF outAt
  <2>2. out = OutSet
    BY <2>1 DEF OutSet
  <2>3. ASSUME NEW s \in Sends
        PROVE  /\ Len(answered[s]) <= 1
               /\ s \in m_pending \/ answered[s] # <<>> => s \in OutSet
               /\ s \in OutSet \cap Requests /\ m_connected => Known(s)
               /\ s \in replaced => \E r \in OutSet : r # s /\ Corr[r] = Corr[s]
               /\ \A r \in ToSet(answered[s]) :
                      r # s => Corr[r] = Corr[s] /\ Known(r) /\ r \notin m_pending
    <3>1. RequestOf(s) /\ answered[s] \in Seq(Requests)
      BY <1>1 DEF RelayInv, Matched, TypeOK, RequestType
    <3>2. ASSUME NEW r \in ToSet(answered[s]), r # s
          PROVE  Corr[r] = Corr[s] /\ Known(r) /\ r \notin m_pending
      <4>0. PICK i \in DOMAIN answered[s] : r = answered[s][i]
        BY <3>2, Zenon DEF ToSet
      <4>1. Has(answered[s], r)
        BY <4>0, Zenon DEF Has
      <4>2. r \in Requests
        BY <3>1, <4>0
      <4>3. r \in Sends
        BY <4>2, SendsNat
      <4>4. QED
        BY <3>1, <3>2, <4>1, <4>3 DEF RequestOf, AnswerOf, Gone, Known
    <3>3. QED
      BY <3>1, <3>2 DEF RequestOf, Gone, Known
  <2>4. \A s \in Sends :
            /\ Len(answered[s]) <= 1
            /\ s \in m_pending \/ answered[s] # <<>> => s \in out
            /\ s \in out \cap Requests /\ m_connected => Known(s)
            /\ s \in replaced => \E r \in out : r # s /\ Corr[r] = Corr[s]
            /\ \A r \in ToSet(answered[s]) :
                   r # s => Corr[r] = Corr[s] /\ Known(r) /\ r \notin m_pending
    <3> HIDE DEF out
    <3>1. QED
      BY <2>2, <2>3
  <2>5. QED
    BY <2>4, Zenon DEF RequestsMatched
<1>2. QED
  BY <1>1, RelayInvariant, PTL

=============================================================================
