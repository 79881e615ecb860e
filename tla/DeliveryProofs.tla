--------------------------- MODULE DeliveryProofs ---------------------------
(***************************************************************************)
(* What becomes of every message and call, for any number of senders, any  *)
(* scripts and any sequence of accept-set changes, stops and exceptions.   *)
(***************************************************************************)
EXTENDS Delivery, FiniteSetTheorems, WellFoundedInduction, TLAPS

NoMsg == <<NoSender, 0>>

\* Messages of one sender stand in a queue in the order of their numbers, hence
\* no message stands in it twice.
Ordered(s) == \A i, j \in DOMAIN s : i < j /\ s[i][1] = s[j][1] => s[i][2] < s[j][2]

\* Where the messages are that wait.
InCalls    == ToSet(calls)
InOthers   == ToSet(others)
InHeld     == ToSet(m_held)
InDeferred == ToSet(m_deferred)

Waits(m) == m \in InCalls \/ m \in InOthers \/ m \in InHeld \/ m \in InDeferred \/ m = current

\* A sender inside tell() or call() has a message, and its thread runs the inline
\* actor while it is the dispatching one.
SenderInv(c) ==
    /\ pc[c] # "idle" => next[c] \in DOMAIN Script[c]
    /\ pc[c] = "turn" <=> m_dispatching = c
    /\ \A m \in refused : m[1] = c => m[2] < next[c]

\* The stash thread is inside its loop only of a stateful actor, a sender only of
\* an inline one, neither once the actor is stopped.
ModeInv ==
    /\ opc # "top" => kind = "stateful" /\ m_state \notin {"stopped", "ended"}
    /\ m_dispatching # NoSender => /\ kind = "inline" /\ m_state # "stopped"
                                   /\ current \in Msgs
    /\ m_dispatching = NoSender => current = NoMsg

OrderInv ==
    /\ Ordered(calls) /\ Ordered(others) /\ Ordered(m_held) /\ Ordered(m_deferred)
    /\ \A h \in InHeld, o \in InOthers : h[1] = o[1] => h[2] < o[2]
    /\ current \in SelfMsg => \A d \in InDeferred : current[2] < d[2]

AcceptedOf(m) ==
    IF m \in SelfMsg THEN m[2] <= selfs
    ELSE /\ m \notin refused
         /\ m[2] < next[m[1]] \/ (m[2] = next[m[1]] /\ pc[m[1]] \in {"turn", "waiting"})

\* One message: in one place, if it was accepted; where it cannot be; and its
\* promise.
Exclusive(m) ==
    /\ m \in InHeld => m \notin InOthers
    /\ m = current => m \notin InDeferred
    /\ Waits(m) => m \notin handled /\ m \notin dead
    /\ m \in handled => m \notin dead

MsgInv(m) ==
    /\ Exclusive(m)
    /\ AcceptedOf(m) <=> Waits(m) \/ m \in handled \/ m \in dead
    /\ kind = "inline" \/ m_state = "stopped" => m \notin InCalls /\ m \notin InOthers /\ m \notin InHeld
    /\ m_dispatching = NoSender => m \notin InDeferred

PromiseInv(m) ==
    /\ promise[m] \in {"value", "error"} <=> m \in handled
    /\ promise[m] = "broken" <=> m \in dead

CountInv == IsFiniteSet(dead) /\ m_dead_letter_tell + m_dead_letter_ask = Cardinality(dead)

DeliveryInv ==
    /\ \A c \in Senders : SenderInv(c)
    /\ ModeInv /\ OrderInv
    /\ \A m \in Msgs : MsgInv(m)
    /\ \A m \in Calls : PromiseInv(m)

-----------------------------------------------------------------------------
(* Sequences *)

Numbered(S) == \A x \in S : x[2] \in Nat

\* Two entries of an ordered queue are two messages.
LEMMA Distinct ==
    ASSUME NEW S, Numbered(S), NEW s \in Seq(S), Ordered(s),
           NEW i \in DOMAIN s, NEW j \in DOMAIN s, s[i] = s[j]
    PROVE  i = j
<1>1. i \in Nat /\ j \in Nat /\ s[i] \in S /\ s[i][2] \in Nat
  BY DEF Numbered
<1>2. ~(s[i][2] < s[i][2])
  BY <1>1
<1>3. ~(i < j) /\ ~(j < i)
  BY <1>2 DEF Ordered
<1>4. QED
  BY <1>1, <1>3

\* An empty queue.
LEMMA EmptyQueue == ToSet(<<>>) = {} /\ Ordered(<<>>)
BY DEF ToSet, Ordered

\* A push behind everything its sender has in the queue.
LEMMA AppendQueue ==
    ASSUME NEW S, NEW s \in Seq(S), NEW x \in S, Ordered(s),
           \A y \in ToSet(s) : y[1] = x[1] => y[2] < x[2]
    PROVE  /\ Append(s, x) \in Seq(S)
           /\ ToSet(Append(s, x)) = ToSet(s) \cup {x}
           /\ Ordered(Append(s, x))
<1> DEFINE r == Append(s, x)
<1>1. /\ r \in Seq(S)
      /\ DOMAIN r = DOMAIN s \cup {Len(s) + 1}
      /\ \A i \in DOMAIN s : r[i] = s[i] /\ i \in Nat /\ i < Len(s) + 1
      /\ r[Len(s) + 1] = x
  OBVIOUS
<1> HIDE DEF r
<1>2. ToSet(r) = ToSet(s) \cup {x}
  <2>1. ASSUME NEW m \in ToSet(r) PROVE m \in ToSet(s) \cup {x}
    BY <1>1 DEF ToSet
  <2>2. ASSUME NEW m \in ToSet(s) \cup {x} PROVE m \in ToSet(r)
    BY <1>1 DEF ToSet
  <2>3. QED
    BY <2>1, <2>2
<1>3. ASSUME NEW i \in DOMAIN r, NEW j \in DOMAIN r, i < j, r[i][1] = r[j][1]
      PROVE  r[i][2] < r[j][2]
  <2>1. CASE j \in DOMAIN s
    <3>1. i \in DOMAIN s
      BY <1>1, <1>3, <2>1
    <3>2. QED
      BY <1>1, <1>3, <2>1, <3>1 DEF Ordered
  <2>2. CASE j = Len(s) + 1
    <3>1. i \in DOMAIN s
      BY <1>1, <1>3, <2>2
    <3>2. s[i] \in ToSet(s)
      BY <3>1 DEF ToSet
    <3>3. QED
      BY <1>1, <1>3, <2>2, <3>1, <3>2
  <2>3. QED
    BY <1>1, <2>1, <2>2
<1>4. QED
  BY <1>1, <1>2, <1>3 DEF r, Ordered

\* A pop takes the oldest message of its sender.
LEMMA TailQueue ==
    ASSUME NEW S, Numbered(S), NEW s \in Seq(S), s # <<>>, Ordered(s)
    PROVE  /\ Head(s) \in ToSet(s) /\ Head(s) \in S
           /\ Tail(s) \in Seq(S)
           /\ ToSet(Tail(s)) = ToSet(s) \ {Head(s)}
           /\ Ordered(Tail(s))
           /\ \A x \in ToSet(Tail(s)) : x[1] = Head(s)[1] => Head(s)[2] < x[2]
<1> DEFINE r == Tail(s)
           h == Head(s)
<1>1. /\ r \in Seq(S) /\ h \in S
      /\ 1 \in DOMAIN s /\ s[1] = h
      /\ \A i \in DOMAIN r : i \in Nat /\ i + 1 \in DOMAIN s /\ r[i] = s[i + 1] /\ 1 < i + 1
      /\ \A i \in DOMAIN s : i # 1 => i - 1 \in DOMAIN r /\ r[i - 1] = s[i]
  OBVIOUS
<1> HIDE DEF r, h
<1>2. h \in ToSet(s)
  BY <1>1 DEF ToSet
<1>3. ASSUME NEW i \in DOMAIN r PROVE r[i] # h
  <2>1. 1 # i + 1 /\ i + 1 \in DOMAIN s /\ r[i] = s[i + 1]
    BY <1>1
  <2>2. s[i + 1] # s[1]
    BY <1>1, <2>1, Distinct
  <2>3. QED
    BY <1>1, <2>1, <2>2
<1>4. ToSet(r) = ToSet(s) \ {h}
  <2>1. ASSUME NEW m \in ToSet(r) PROVE m \in ToSet(s) \ {h}
    BY <1>1, <1>3 DEF ToSet
  <2>2. ASSUME NEW m \in ToSet(s) \ {h} PROVE m \in ToSet(r)
    <3>1. PICK i \in DOMAIN s : s[i] = m
      BY DEF ToSet
    <3>2. i - 1 \in DOMAIN r /\ r[i - 1] = m
      BY <1>1, <3>1, <2>2
    <3>3. QED
      BY <3>2 DEF ToSet
  <2>3. QED
    BY <2>1, <2>2
<1>5. ASSUME NEW i \in DOMAIN r, NEW j \in DOMAIN r, i < j, r[i][1] = r[j][1]
      PROVE  r[i][2] < r[j][2]
  <2>1. i + 1 \in DOMAIN s /\ j + 1 \in DOMAIN s /\ i + 1 < j + 1
    BY <1>1, <1>5
  <2>2. QED
    BY <1>1, <1>5, <2>1 DEF Ordered
<1>6. ASSUME NEW x \in ToSet(r), x[1] = h[1] PROVE h[2] < x[2]
  <2>1. PICK i \in DOMAIN r : r[i] = x
    BY DEF ToSet
  <2>2. i + 1 \in DOMAIN s /\ 1 < i + 1 /\ s[i + 1] = x
    BY <1>1, <2>1
  <2>3. QED
    BY <1>1, <1>6, <2>2 DEF Ordered
<1>7. QED
  BY <1>1, <1>2, <1>4, <1>5, <1>6 DEF r, h, Ordered

\* The length of a concatenation.
LEMMA ConcatLen ==
    ASSUME NEW S, NEW a \in Seq(S), NEW b \in Seq(S)
    PROVE  Len(a \o b) = Len(a) + Len(b)
OBVIOUS

\* The stash takes a message out of the middle.
LEMMA RemoveQueue ==
    ASSUME NEW S, Numbered(S), NEW s \in Seq(S), Ordered(s), NEW k \in DOMAIN s
    PROVE  /\ s[k] \in ToSet(s) /\ s[k] \in S
           /\ RemoveAt(s, k) \in Seq(S)
           /\ ToSet(RemoveAt(s, k)) = ToSet(s) \ {s[k]}
           /\ Ordered(RemoveAt(s, k))
<1> DEFINE r == RemoveAt(s, k)
           a == SubSeq(s, 1, k - 1)
           b == SubSeq(s, k + 1, Len(s))
           n == Len(s)
<1>1. /\ n \in Nat /\ k \in 1..n /\ DOMAIN s = 1..n
      /\ \A i \in 1..n : s[i] \in S
  OBVIOUS
<1>2. /\ a \in Seq(S) /\ Len(a) = k - 1
      /\ \A i \in 1..(k - 1) : a[i] = s[i]
  BY <1>1
<1>3a. b \in Seq(S)
  OBVIOUS
<1>3b. Len(b) = n - k
  BY <1>1
<1>3c. \A i \in 1..(n - k) : b[i] = s[k + i]
  BY <1>1, <1>3b, <1>3a
<1>4. r = a \o b
  BY DEF RemoveAt
<1> HIDE DEF a, b, n
<1>5a. r \in Seq(S) 
  BY <1>2, <1>3a, <1>4
<1>5e. Len(a \o b) = Len(a) + Len(b)
  BY <1>2, <1>3a, ConcatLen
<1>5b. Len(r) = n - 1
  BY <1>1, <1>2, <1>3b, <1>4, <1>5e
<1>5d. DOMAIN r = 1..(n - 1)
  BY <1>1, <1>5a, <1>5b
<1>5c. \A i \in 1..(n - 1) : r[i] = IF i < k THEN a[i] ELSE b[i - (k - 1)]
  BY <1>1, <1>2, <1>3a, <1>3b, <1>4
<1>6. \A i \in 1..(n - 1) : r[i] = IF i < k THEN s[i] ELSE s[i + 1]
  <2> SUFFICES ASSUME NEW i \in 1..(n - 1) PROVE r[i] = IF i < k THEN s[i] ELSE s[i + 1]
    OBVIOUS
  <2>1. CASE i < k
    BY <1>1, <1>2, <1>5c, <2>1
  <2>2. CASE ~(i < k)
    <3>1. i - (k - 1) \in 1..(n - k) /\ k + (i - (k - 1)) = i + 1
      BY <1>1, <2>2
    <3>2. QED
      BY <1>1, <1>3c, <1>5c, <2>2, <3>1
  <2>3. QED
    BY <2>1, <2>2
<1> HIDE DEF r
<1>5. DOMAIN r = 1..(n - 1)
  BY <1>5d
<1>7. ASSUME NEW i \in DOMAIN r PROVE r[i] # s[k]
  <2>1. CASE i < k
    <3>1. i \in DOMAIN s /\ i # k /\ r[i] = s[i]
      BY <1>1, <1>5, <1>6, <2>1
    <3>2. QED
      BY <3>1, Distinct
  <2>2. CASE ~(i < k)
    <3>1. i + 1 \in DOMAIN s /\ i + 1 # k /\ r[i] = s[i + 1]
      BY <1>1, <1>5, <1>6, <2>2
    <3>2. QED
      BY <3>1, Distinct
  <2>3. QED
    BY <2>1, <2>2
<1>8. ASSUME NEW i \in DOMAIN r PROVE \E j \in DOMAIN s : r[i] = s[j]
  <2>1. i \in DOMAIN s /\ i + 1 \in DOMAIN s
    BY <1>1, <1>5
  <2>2. r[i] = s[i] \/ r[i] = s[i + 1]
    BY <1>5, <1>6
  <2>3. QED
    BY <2>1, <2>2
<1>9. ASSUME NEW j \in DOMAIN s, j # k PROVE \E i \in DOMAIN r : r[i] = s[j]
  <2>1. CASE j < k
    <3>1. j \in DOMAIN r /\ r[j] = s[j]
      BY <1>1, <1>5, <1>6, <2>1
    <3>2. QED
      BY <3>1
  <2>2. CASE j > k
    <3>1. j - 1 \in DOMAIN r /\ r[j - 1] = s[j]
      BY <1>1, <1>5, <1>6, <2>2
    <3>2. QED
      BY <3>1
  <2>3. QED
    BY <1>1, <1>9, <2>1, <2>2
<1>10. ToSet(r) = ToSet(s) \ {s[k]}
  <2>1. ASSUME NEW m \in ToSet(r) PROVE m \in ToSet(s) \ {s[k]}
    BY <1>7, <1>8 DEF ToSet
  <2>2. ASSUME NEW m \in ToSet(s) \ {s[k]} PROVE m \in ToSet(r)
    BY <1>9 DEF ToSet
  <2>3. QED
    BY <2>1, <2>2
<1>11. ASSUME NEW i \in DOMAIN r, NEW j \in DOMAIN r, i < j, r[i][1] = r[j][1]
       PROVE  r[i][2] < r[j][2]
  <2>1. PICK p \in DOMAIN s : r[i] = s[p] /\ p = IF i < k THEN i ELSE i + 1
    BY <1>1, <1>5, <1>6
  <2>2. PICK q \in DOMAIN s : r[j] = s[q] /\ q = IF j < k THEN j ELSE j + 1
    BY <1>1, <1>5, <1>6
  <2>3. p < q
    BY <1>1, <1>5, <1>11, <2>1, <2>2
  <2>4. QED
    BY <1>11, <2>1, <2>2, <2>3 DEF Ordered
<1>12. QED
  BY <1>1, <1>5a, <1>10, <1>11 DEF r, Ordered, ToSet

\* A queue holds finitely many messages.
LEMMA QueueFinite == ASSUME NEW S, NEW s \in Seq(S) PROVE IsFiniteSet(ToSet(s))
<1>1. DOMAIN s = 1..Len(s) /\ Len(s) \in Nat
  OBVIOUS
<1>2. IsFiniteSet(DOMAIN s)
  BY <1>1, FS_Interval
<1>3. s \in [DOMAIN s -> ToSet(s)]
  BY DEF ToSet
<1>4. s \in Surjection(DOMAIN s, ToSet(s))
  BY <1>3 DEF ToSet, Surjection
<1>5. QED
  BY <1>2, <1>4, FS_Surjection

\* A set of numbers that is not empty has a smallest one.
LEMMA SmallestOf ==
    ASSUME NEW R, IsWellFoundedOn(R, Nat), \A x, y \in Nat : x < y => <<x, y>> \in R,
           NEW T, T \subseteq Nat, T # {}
    PROVE  Min(T) \in T /\ \A y \in T : Min(T) <= y
<1>1. PICK x \in T : \A y \in T : ~(<<y, x>> \in R)
  BY WFMin
<1>2. ASSUME NEW y \in T PROVE x <= y
  <2>1. x \in Nat /\ y \in Nat /\ ~(<<y, x>> \in R)
    BY <1>1
  <2>2. ~(y < x)
    BY <2>1
  <2>3. QED
    BY <2>1, <2>2
<1>3. QED
  BY <1>2 DEF Min

\* The smallest number of a set, as Min gives it.
LEMMA Smallest ==
    ASSUME NEW T, T \subseteq Nat, T # {}
    PROVE  Min(T) \in T /\ \A y \in T : Min(T) <= y
<1>1. \A x, y \in Nat : x < y => <<x, y>> \in OpToRel(<, Nat)
  BY Zenon DEF OpToRel
<1>2. QED
  BY <1>1, NatLessThanWellFounded, SmallestOf, Zenon

-----------------------------------------------------------------------------
(* Messages *)

\* What a message of a sender's script looks like, and one the actor sends itself.
LEMMA SentMsg ==
    ASSUME NEW m \in Sent
    PROVE  /\ m[1] \in Senders /\ m[2] \in DOMAIN Script[m[1]] /\ m = <<m[1], m[2]>>
           /\ m[2] \in Nat \ {0} /\ m[1] # NoSender
<1>1. PICK c \in Senders : m \in {<<c, i>> : i \in DOMAIN Script[c]}
  BY DEF Sent
<1>2. PICK i \in DOMAIN Script[c] : m = <<c, i>>
  BY <1>1
<1>3. Script[c] \in Seq(Types \cup {"call", "timed"}) /\ c # NoSender
  BY DeliveryAssumption
<1>4. i \in Nat \ {0}
  BY <1>3
<1>5. QED
  BY <1>2, <1>3, <1>4

\* What is in a script is sent.
LEMMA SentIs == ASSUME NEW c \in Senders, NEW i \in DOMAIN Script[c] PROVE <<c, i>> \in Sent
<1>1. <<c, i>> \in {<<c, j>> : j \in DOMAIN Script[c]}
  OBVIOUS
<1>2. QED
  BY <1>1 DEF Sent

\* What a message to oneself looks like.
LEMMA SelfIs == ASSUME NEW m \in SelfMsg
                PROVE  m[1] = NoSender /\ m[2] \in 1..MaxSelf /\ m = <<m[1], m[2]>> /\ m[2] \in Nat
BY DeliveryAssumption DEF SelfMsg

\* Its numbers are bounded.
LEMMA SelfIn == ASSUME NEW i \in 1..MaxSelf PROVE <<NoSender, i>> \in SelfMsg
BY DEF SelfMsg

\* The kinds of messages do not overlap.
LEMMA Apart ==
    /\ \A m \in Sent : m \notin SelfMsg
    /\ \A m \in Calls : m \in Sent /\ m \in Msgs
    /\ \A m \in Sent : m \in Calls <=> IsCall(m)
    /\ NoMsg \notin Msgs
    /\ Numbered(Calls) /\ Numbered(Sent \ Calls) /\ Numbered(SelfMsg)
<1>1. \A m \in Sent : m \notin SelfMsg
  BY SentMsg, SelfIs
<1>2. \A m \in Calls : m \in Sent /\ m \in Msgs
  BY DEF Calls, Msgs
<1>3. \A m \in Sent : m \in Calls <=> IsCall(m)
  BY DEF Calls
<1>4. NoMsg \notin Sent
  <2>1. NoMsg[1] = NoSender
    BY DEF NoMsg
  <2>2. QED
    BY <2>1, SentMsg
<1>5. NoMsg \notin SelfMsg
  <2>1. NoMsg[2] = 0
    BY DEF NoMsg
  <2>2. QED
    BY <2>1, SelfIs
<1>6. Numbered(Calls) /\ Numbered(Sent \ Calls) /\ Numbered(SelfMsg)
  BY <1>2, SentMsg, SelfIs DEF Numbered
<1>7. QED
  BY <1>1, <1>2, <1>3, <1>4, <1>5, <1>6 DEF Msgs

\* The message of a sender that has one.
LEMMA MsgOf ==
    ASSUME SenderType, NEW c \in Senders, next[c] \in DOMAIN Script[c], SenderInv(c)
    PROVE  /\ Msg(c) \in Sent /\ Msg(c) \in Msgs /\ Msg(c)[1] = c /\ Msg(c)[2] = next[c]
           /\ Msg(c) \notin refused
<1>1. Msg(c) \in Sent /\ Msg(c)[1] = c /\ Msg(c)[2] = next[c]
  BY SentIs DEF Msg
<1>2. Msg(c) \notin refused
  BY <1>1 DEF SenderInv, SenderType
<1>3. QED
  BY <1>1, <1>2 DEF Msgs

\* A sender that may send has a message.
LEMMA HasMsg ==
    ASSUME SenderType, NEW c \in Senders, MaySend(c)
    PROVE  next[c] \in DOMAIN Script[c]
<1>1. Script[c] \in Seq(Types \cup {"call", "timed"})
  BY DeliveryAssumption
<1>2. QED
  BY <1>1 DEF MaySend, SenderType

\* tell() that returns and call() that waits: the message counts as accepted now.
LEMMA LeaveAccepts ==
    ASSUME SenderType, NEW c \in Senders, Leave(c), next[c] \in DOMAIN Script[c], SenderInv(c),
           UNCHANGED <<refused, selfs>>, NEW m \in Msgs
    PROVE  AcceptedOf(m)' <=> AcceptedOf(m) \/ m = Msg(c)
<1>1. /\ Msg(c) \in Sent /\ Msg(c)[1] = c /\ Msg(c)[2] = next[c]
      /\ Msg(c) \notin refused /\ Msg(c) \notin SelfMsg
  BY MsgOf, Apart
<1>2. CASE m \in SelfMsg
  BY <1>1, <1>2 DEF AcceptedOf
<1>3. CASE m \in Sent /\ m \notin SelfMsg
  <2>1. m[1] \in Senders /\ m[2] \in Nat /\ m = <<m[1], m[2]>> /\ next[m[1]] \in Nat
    BY <1>3, SentMsg DEF SenderType
  <2>2. m = Msg(c) <=> m[1] = c /\ m[2] = next[c]
    BY <1>1, <2>1 DEF Msg
  <2>3. \/ pc' = [pc EXCEPT ![c] = "waiting"] /\ next' = next
        \/ pc' = [pc EXCEPT ![c] = "idle"] /\ next' = [next EXCEPT ![c] = @ + 1]
    BY DEF Leave
  <2>4. CASE m[1] = c
    <3>1. \/ pc'[c] = "waiting" /\ next'[c] = next[c]
          \/ pc'[c] = "idle" /\ next'[c] = next[c] + 1
      BY <2>3 DEF SenderType
    <3>2. QED
      BY <1>1, <1>3, <2>1, <2>2, <2>4, <3>1 DEF AcceptedOf
  <2>5. CASE m[1] # c
    <3>1. pc'[m[1]] = pc[m[1]] /\ next'[m[1]] = next[m[1]]
      BY <2>1, <2>3, <2>5 DEF SenderType
    <3>2. QED
      BY <1>3, <2>1, <2>2, <2>5, <3>1 DEF AcceptedOf
  <2>6. QED
    BY <2>4, <2>5
<1>4. QED
  BY <1>2, <1>3, Apart DEF Msgs

\* The other steps of a sender: into tell() or call(), to its turn with an inline
\* actor, out of a call, a call refused.
Begins(c)   == pc[c] = "idle" /\ pc' = [pc EXCEPT ![c] = "push"] /\ UNCHANGED <<next, refused>>
Enters(c)   == pc[c] = "push" /\ pc' = [pc EXCEPT ![c] = "turn"] /\ UNCHANGED <<next, refused>>
Resumes(c)  == /\ pc[c] = "waiting" /\ pc' = [pc EXCEPT ![c] = "idle"]
               /\ next' = [next EXCEPT ![c] = @ + 1] /\ UNCHANGED refused
Refuses(c)  == /\ pc[c] = "idle" /\ UNCHANGED pc
               /\ next' = [next EXCEPT ![c] = @ + 1] /\ refused' = refused \cup {Msg(c)}

\* Only the turn with an inline actor accepts a message here.
LEMMA SenderAccepts ==
    ASSUME SenderType, NEW c \in Senders, next[c] \in DOMAIN Script[c], SenderInv(c),
           UNCHANGED selfs, NEW m \in Msgs
    PROVE  /\ Begins(c) \/ Resumes(c) \/ Refuses(c) => (AcceptedOf(m)' <=> AcceptedOf(m))
           /\ Enters(c) => (AcceptedOf(m)' <=> AcceptedOf(m) \/ m = Msg(c))
<1>1. /\ Msg(c) \in Sent /\ Msg(c)[1] = c /\ Msg(c)[2] = next[c]
      /\ Msg(c) \notin refused /\ Msg(c) \notin SelfMsg
  BY MsgOf, Apart
<1>2. CASE m \in SelfMsg
  <2>1. m # Msg(c) /\ (AcceptedOf(m)' <=> AcceptedOf(m))
    BY <1>1, <1>2 DEF AcceptedOf
  <2>2. QED
    BY <2>1
<1>3. CASE m \in Sent /\ m \notin SelfMsg
  <2>1. m[1] \in Senders /\ m[2] \in Nat /\ m = <<m[1], m[2]>> /\ next[m[1]] \in Nat
    BY <1>3, SentMsg DEF SenderType
  <2>2. m = Msg(c) <=> m[1] = c /\ m[2] = next[c]
    BY <1>1, <2>1 DEF Msg
  <2>3. ASSUME Begins(c) PROVE AcceptedOf(m)' <=> AcceptedOf(m)
    BY <1>3, <2>1, <2>3 DEF AcceptedOf, SenderType, Begins
  <2>4. ASSUME Enters(c) PROVE AcceptedOf(m)' <=> AcceptedOf(m) \/ m = Msg(c)
    BY <1>1, <1>3, <2>1, <2>2, <2>4 DEF AcceptedOf, SenderType, Enters
  <2>5. ASSUME Resumes(c) PROVE AcceptedOf(m)' <=> AcceptedOf(m)
    BY <1>3, <2>1, <2>5 DEF AcceptedOf, SenderType, Resumes
  <2>6. ASSUME Refuses(c) PROVE AcceptedOf(m)' <=> AcceptedOf(m)
    BY <1>3, <2>1, <2>2, <2>6 DEF AcceptedOf, SenderType, Refuses
  <2>7. QED
    BY <2>3, <2>4, <2>5, <2>6
<1>4. QED
  BY <1>2, <1>3, Apart DEF Msgs

\* Nothing is accepted without a sender's step.
LEMMA AcceptFrame ==
    ASSUME UNCHANGED <<pc, next, refused, selfs>>, NEW m
    PROVE  AcceptedOf(m)' <=> AcceptedOf(m)
BY DEF AcceptedOf

-----------------------------------------------------------------------------
(* Types *)

\* The types of what senders do.
LEMMA SenderTypeStep == TypeOK /\ (\A c \in Senders : SenderInv(c)) /\ [Next]_vars => SenderType'
<1> SUFFICES ASSUME TypeOK, \A c \in Senders : SenderInv(c), [Next]_vars PROVE SenderType'
  OBVIOUS
<1> USE DEF SenderType, TypeOK
<1>1. CASE Owner
  BY <1>1 DEF Owner, ProcessNext, FillCall, FillHeld, FillDone, RunHeld, StopDiscards, StopFinish, InlineStop
<1>2. ASSUME NEW c \in Senders, Leave(c) PROVE (pc \in [Senders -> {"idle", "push", "turn", "waiting"}]
              /\ next \in [Senders -> Nat \ {0}])'
  <2>1. next[c] + 1 \in Nat \ {0}
    OBVIOUS
  <2>2. QED
    BY <1>2, <2>1 DEF Leave
<1>3. ASSUME NEW c \in Senders, Inside(c) PROVE SenderType'
  <2>1. CASE Push(c)
    BY <1>2, <2>1 DEF Push
  <2>2. CASE CallReturns(c)
    BY <2>2 DEF CallReturns
  <2>3. CASE Lock(c)
    BY <1>2, <2>3 DEF Lock
  <2>4. CASE InlineReturns(c)
    BY <1>2, <2>4 DEF InlineReturns, TurnGoesOn
  <2>5. CASE InlineThrows(c)
    BY <1>2, <2>5 DEF InlineThrows, TurnGoesOn
  <2>6. QED
    BY <1>3, <2>1, <2>2, <2>3, <2>4, <2>5 DEF Inside
<1>4. ASSUME NEW c \in Senders, Send(c) PROVE SenderType'
  BY <1>2, <1>4 DEF Send
<1>5. ASSUME NEW c \in Senders, CallRefused(c) PROVE SenderType'
  <2>1. Msg(c) \in Sent
    BY <1>5, HasMsg, MsgOf DEF CallRefused
  <2>2. QED
    BY <1>5, <2>1 DEF CallRefused
<1>6. ASSUME NEW c \in Senders, CallTimesOut(c) PROVE SenderType'
  BY <1>6 DEF CallTimesOut
<1>7. ASSUME NEW c \in Senders, InlineTellsItself(c) PROVE SenderType'
  BY <1>7 DEF InlineTellsItself
<1>8. ASSUME NEW d \in BOOLEAN, StopActor(d) PROVE SenderType'
  BY <1>8 DEF StopActor
<1>9. CASE UNCHANGED vars
  BY <1>9 DEF vars
<1>10. CASE Ending
  BY <1>10 DEF Ending, SystemShutdown, WorkersExit, MarkStopped
<1>11. QED
  BY <1>1, <1>3, <1>4, <1>5, <1>6, <1>7, <1>8, <1>9, <1>10 DEF Next

\* The types of the stop.
LEMMA StopTypeStep == StopType /\ [Next]_vars => StopType'
<1> SUFFICES ASSUME StopType, [Next]_vars PROVE StopType'
  OBVIOUS
<1> USE DEF StopType
<1>1. CASE Owner
  BY <1>1 DEF Owner, ProcessNext, FillCall, FillHeld, FillDone, RunHeld, StopDiscards, StopFinish,
     InlineStop, HandlerThrows, stopV
<1>2. ASSUME NEW c \in Senders, Inside(c) PROVE StopType'
  BY <1>2 DEF Inside, Push, CallReturns, Lock, InlineReturns, InlineThrows, stopV
<1>3. ASSUME NEW c \in Senders, Send(c) \/ CallRefused(c) \/ CallTimesOut(c) \/ InlineTellsItself(c)
      PROVE  StopType'
  BY <1>3 DEF Send, CallRefused, CallTimesOut, InlineTellsItself, stopV
<1>4. ASSUME NEW d \in BOOLEAN, StopActor(d) PROVE StopType'
  BY <1>4 DEF StopActor
<1>5. CASE UNCHANGED vars
  BY <1>5 DEF vars, stopV
<1>6. CASE Ending
  BY <1>6 DEF Ending, SystemShutdown, WorkersExit, MarkStopped
<1>7. QED
  BY <1>1, <1>2, <1>3, <1>4, <1>5, <1>6 DEF Next

\* The stash has an oldest message among those accepted, and counts them.
LEMMA PickIs ==
    ASSUME QueueType, AcceptedAt # {}
    PROVE  /\ Pick \in DOMAIN m_held /\ Pick \in AcceptedAt
           /\ \A j \in AcceptedAt : Pick <= j
<1>1. AcceptedAt \subseteq DOMAIN m_held /\ DOMAIN m_held \subseteq Nat
  BY DEF AcceptedAt, QueueType
<1>2. Min(AcceptedAt) \in AcceptedAt /\ \A j \in AcceptedAt : Min(AcceptedAt) <= j
  BY <1>1, Smallest
<1>3. QED
  BY <1>1, <1>2 DEF Pick

\* The stash counts finitely many.
LEMMA AcceptableType ==
    ASSUME NEW all, NEW set, NEW S, NEW s \in Seq(S)
    PROVE  Acceptable(all, set, s) \in Nat
<1> DEFINE A == {i \in DOMAIN s : Accepts(all, set, s[i])}
<1>1. DOMAIN s = 1..Len(s) /\ Len(s) \in Nat
  OBVIOUS
<1>2. IsFiniteSet(DOMAIN s) /\ A \in SUBSET DOMAIN s
  BY <1>1, FS_Interval
<1>3. IsFiniteSet(A)
  BY <1>2, FS_Subset
<1>4. Cardinality(A) \in Nat
  BY <1>3, FS_CardinalityType
<1>5. QED
  BY <1>4 DEF Acceptable

\* accept(), reject() and their variants keep the types of the filter.
LEMMA FilterType ==
    ASSUME QueueType, NEW S, NEW q \in Seq(S), FilterChange(q)
    PROVE  m_acceptable_count' \in Nat /\ m_accept_all' \in BOOLEAN /\ m_accepted' \subseteq Types
<1>1. m_acceptable_count' \in Nat
  <2>1. \A all, set : Acceptable(all, set, q) \in Nat
    BY AcceptableType
  <2>2. QED
    BY <2>1 DEF FilterChange, Filter
<1>2. m_accept_all' \in BOOLEAN
  BY DEF FilterChange, Filter, QueueType, filtV
<1>3. m_accepted' \subseteq Types
  BY DEF FilterChange, Filter, QueueType, filtV
<1>4. QED
  BY <1>1, <1>2, <1>3

\* The types of mailbox and stash.
LEMMA QueueTypeStep ==
    TypeOK /\ (\A c \in Senders : SenderInv(c)) /\ OrderInv /\ [Next]_vars => QueueType'
<1> SUFFICES ASSUME TypeOK, \A c \in Senders : SenderInv(c), OrderInv, [Next]_vars PROVE QueueType'
  OBVIOUS
<1>1. QueueType /\ SenderType
  BY DEF TypeOK
<1>2. ASSUME UNCHANGED <<mailV, opc, filtV, stash>> PROVE QueueType'
  BY <1>1, <1>2 DEF QueueType, mailV, filtV, stash
<1>3. CASE ProcessNext \/ FillDone
  BY <1>1, <1>3 DEF ProcessNext, FillDone, QueueType, mailV, filtV, stash
<1>4. CASE FillCall
  <2>1. Tail(calls) \in Seq(Calls)
    BY <1>1, <1>4 DEF FillCall, QueueType
  <2>2. m_acceptable_count' \in Nat /\ m_accept_all' \in BOOLEAN /\ m_accepted' \subseteq Types
    BY <1>1, <1>4, FilterType DEF FillCall, QueueType
  <2>3. QED
    BY <1>1, <1>4, <2>1, <2>2 DEF FillCall, QueueType
<1>5. CASE FillHeld
  <2>1. Head(others) \in Sent \ Calls /\ Tail(others) \in Seq(Sent \ Calls)
    BY <1>1, <1>5 DEF FillHeld, QueueType
  <2>2. Append(m_held, Head(others)) \in Seq(Sent \ Calls)
    BY <1>1, <2>1 DEF QueueType
  <2>3. m_acceptable_count' \in Nat
    BY <1>1, <1>5 DEF FillHeld, QueueType
  <2>4. QED
    BY <1>1, <1>5, <2>1, <2>2, <2>3 DEF FillHeld, QueueType, filtV
<1>6. CASE RunHeld
  <2>1. CASE AcceptedAt = {}
    BY <1>1, <1>6, <2>1 DEF RunHeld, QueueType, filtV, stash, mailV
  <2>2. CASE AcceptedAt # {}
    <3>1. RemoveAt(m_held, Pick) \in Seq(Sent \ Calls)
      BY <1>1, <2>2, PickIs, RemoveQueue, Apart DEF QueueType, OrderInv
    <3>2. m_acceptable_count' \in Nat /\ m_accept_all' \in BOOLEAN /\ m_accepted' \subseteq Types
      BY <1>1, <1>6, <2>2, <3>1, FilterType DEF RunHeld
    <3>3. m_held' = RemoveAt(m_held, Pick) /\ opc' = "top" /\ calls' = calls /\ others' = others
      BY <1>6, <2>2 DEF RunHeld, mailV
    <3>4. QED
      BY <1>1, <3>1, <3>2, <3>3 DEF QueueType
  <2>3. QED
    BY <2>1, <2>2
<1>7. CASE StopDiscards \/ StopFinish
  <2>1. <<>> \in Seq(Calls) /\ <<>> \in Seq(Sent \ Calls)
    OBVIOUS
  <2>2. /\ calls' = <<>> /\ others' = <<>> /\ m_held' = <<>> /\ m_acceptable_count' = 0
        /\ UNCHANGED <<opc, m_accept_all, m_accepted>>
    BY <1>7 DEF StopDiscards, StopFinish, DiscardAll, filtV
  <2>3. QED
    BY <1>1, <2>1, <2>2 DEF QueueType
<1>8. CASE InlineStop
  BY <1>2, <1>8 DEF InlineStop
<1>9. ASSUME NEW c \in Senders, Push(c) PROVE QueueType'
  <2>1. Msg(c) \in Sent /\ (Msg(c) \in Calls <=> IsCall(Msg(c)))
    BY <1>1, <1>9, MsgOf, Apart DEF Push, SenderInv
  <2>2. CASE UNCHANGED mailV
    BY <1>2, <1>9, <2>2 DEF Push
  <2>3. CASE IsCall(Msg(c)) /\ calls' = Append(calls, Msg(c)) /\ UNCHANGED others
    <3>1. calls' \in Seq(Calls)
      BY <1>1, <2>1, <2>3 DEF QueueType
    <3>2. QED
      BY <1>1, <1>9, <2>3, <3>1 DEF Push, QueueType, filtV, stash
  <2>4. CASE ~IsCall(Msg(c)) /\ others' = Append(others, Msg(c)) /\ UNCHANGED calls
    <3>1. others' \in Seq(Sent \ Calls)
      BY <1>1, <2>1, <2>4 DEF QueueType
    <3>2. QED
      BY <1>1, <1>9, <2>4, <3>1 DEF Push, QueueType, filtV, stash
  <2>5. QED
    BY <1>9, <2>2, <2>3, <2>4 DEF Push
<1>10. ASSUME NEW c \in Senders, CallReturns(c) \/ Lock(c) \/ InlineReturns(c) \/ InlineThrows(c)
       PROVE  QueueType'
  BY <1>2, <1>10 DEF CallReturns, Lock, InlineReturns, InlineThrows
<1>11. ASSUME NEW c \in Senders, Send(c) \/ CallRefused(c) \/ CallTimesOut(c) \/ InlineTellsItself(c)
       PROVE  QueueType'
  BY <1>2, <1>11 DEF Send, CallRefused, CallTimesOut, InlineTellsItself
<1>12. ASSUME NEW d \in BOOLEAN, StopActor(d) PROVE QueueType'
  BY <1>2, <1>12 DEF StopActor
<1>13. CASE UNCHANGED vars
  BY <1>2, <1>13 DEF vars
<1>14. CASE Ending
  BY <1>1, <1>14 DEF Ending, SystemShutdown, WorkersExit, MarkStopped, QueueType, mailV, filtV, stash
<1>15. QED
  BY <1>3, <1>4, <1>5, <1>6, <1>7, <1>8, <1>9, <1>10, <1>11, <1>12, <1>13, <1>14 DEF Next, Owner, Inside

\* The types of an inline turn.
LEMMA TurnTypeStep ==
    TypeOK /\ (\A c \in Senders : SenderInv(c)) /\ [Next]_vars => TurnType'
<1> SUFFICES ASSUME TypeOK, \A c \in Senders : SenderInv(c), [Next]_vars PROVE TurnType'
  OBVIOUS
<1>1. TurnType /\ SenderType /\ MaxSelf \in Nat
  BY DeliveryAssumption DEF TypeOK
<1>2. ASSUME UNCHANGED turn PROVE TurnType'
  BY <1>1, <1>2 DEF TurnType, turn
<1>3. CASE Owner
  BY <1>2, <1>3 DEF Owner, ProcessNext, FillCall, FillHeld, FillDone, RunHeld, StopDiscards, StopFinish,
     InlineStop
<1>4. ASSUME NEW c \in Senders, NEW q \in Seq(SelfMsg), TurnGoesOn(c, q), UNCHANGED selfs PROVE TurnType'
  <2>1. CASE q # <<>>
    <3>1. Head(q) \in Msgs /\ Tail(q) \in Seq(SelfMsg)
      BY <2>1 DEF Msgs
    <3>2. QED
      BY <1>1, <1>4, <2>1, <3>1 DEF TurnGoesOn, TurnType
  <2>2. CASE q = <<>>
    <3>1. <<>> \in Seq(SelfMsg)
      OBVIOUS
    <3>2. QED
      BY <1>1, <1>4, <2>2, <3>1 DEF TurnGoesOn, TurnType
  <2>3. QED
    BY <2>1, <2>2
<1>5. ASSUME NEW c \in Senders, InlineReturns(c) \/ InlineThrows(c) PROVE TurnType'
  <2>1. m_deferred \in Seq(SelfMsg) /\ <<>> \in Seq(SelfMsg)
    BY <1>1 DEF TurnType
  <2>2. UNCHANGED selfs /\ (TurnGoesOn(c, m_deferred) \/ TurnGoesOn(c, <<>>))
    BY <1>5 DEF InlineReturns, InlineThrows
  <2>3. QED
    BY <1>4, <2>1, <2>2
<1>6. ASSUME NEW c \in Senders, Lock(c) PROVE TurnType'
  <2>1. Msg(c) \in Msgs
    BY <1>1, <1>6, MsgOf DEF Lock, SenderInv
  <2>2. QED
    BY <1>1, <1>2, <1>6, <2>1 DEF Lock, TurnType
<1>7. ASSUME NEW c \in Senders, InlineTellsItself(c) PROVE TurnType'
  <2>1. selfs + 1 \in 1..MaxSelf /\ selfs + 1 \in 0..MaxSelf
    BY <1>1, <1>7 DEF InlineTellsItself, TurnType
  <2>2. <<NoSender, selfs + 1>> \in SelfMsg
    BY <2>1, SelfIn
  <2>3. Append(m_deferred, <<NoSender, selfs + 1>>) \in Seq(SelfMsg)
    BY <1>1, <2>2 DEF TurnType
  <2>4. m_deferred' \in Seq(SelfMsg)
    BY <1>1, <1>7, <2>3 DEF InlineTellsItself, TurnType
  <2>5. QED
    BY <1>1, <1>7, <2>1, <2>4 DEF InlineTellsItself, TurnType
<1>8. ASSUME NEW c \in Senders,
             \/ Push(c) \/ CallReturns(c) \/ Send(c) \/ CallRefused(c) \/ CallTimesOut(c)
      PROVE  TurnType'
  BY <1>2, <1>8 DEF Push, CallReturns, Send, CallRefused, CallTimesOut
<1>9. ASSUME NEW d \in BOOLEAN, StopActor(d) PROVE TurnType'
  BY <1>2, <1>9 DEF StopActor
<1>10. CASE UNCHANGED vars
  BY <1>2, <1>10 DEF vars
<1>11. CASE Ending
  BY <1>2, <1>11 DEF Ending, SystemShutdown, WorkersExit, MarkStopped
<1>12. QED
  BY <1>3, <1>5, <1>6, <1>7, <1>8, <1>9, <1>10, <1>11 DEF Next, Inside

-----------------------------------------------------------------------------
(* Dead letters *)

\* A message that its sender has not handed over yet is nowhere.
LEMMA Fresh ==
    ASSUME SenderType, NEW c \in Senders, next[c] \in DOMAIN Script[c], SenderInv(c),
           pc[c] \in {"idle", "push"}, \A m \in Msgs : MsgInv(m)
    PROVE  /\ ~AcceptedOf(Msg(c)) /\ ~Waits(Msg(c))
           /\ Msg(c) \notin handled /\ Msg(c) \notin dead
<1>1. /\ Msg(c) \in Msgs /\ Msg(c) \notin SelfMsg /\ Msg(c)[1] = c /\ Msg(c)[2] = next[c]
  BY MsgOf, Apart
<1>2. ~AcceptedOf(Msg(c))
  BY <1>1 DEF AcceptedOf, SenderType
<1>3. QED
  BY <1>1, <1>2 DEF MsgInv

\* Nor is the next message of the actor to itself anywhere yet.
LEMMA FreshSelf ==
    ASSUME TurnType, selfs < MaxSelf, \A m \in Msgs : MsgInv(m)
    PROVE  LET x == <<NoSender, selfs + 1>> IN
               /\ x \in SelfMsg /\ x \in Msgs /\ x[1] = NoSender /\ x[2] = selfs + 1
               /\ ~AcceptedOf(x) /\ ~Waits(x) /\ x \notin handled /\ x \notin dead
<1> DEFINE x == <<NoSender, selfs + 1>>
<1>1. selfs \in Nat /\ selfs + 1 \in 1..MaxSelf
  BY DeliveryAssumption DEF TurnType
<1>2. x \in SelfMsg /\ x \in Msgs /\ x[1] = NoSender /\ x[2] = selfs + 1
  BY <1>1, SelfIn DEF Msgs
<1> HIDE DEF x
<1>3. ~AcceptedOf(x)
  BY <1>1, <1>2 DEF AcceptedOf
<1>4. /\ ~Waits(x) /\ x \notin handled /\ x \notin dead
  BY <1>2, <1>3 DEF MsgInv
<1>5. QED
  BY <1>2, <1>3, <1>4 DEF x

\* Every dead letter is counted once, as a message or as a call.
LEMMA DeadCount ==
    ASSUME FateType, CountInv, NEW ms, IsFiniteSet(ms), ms \cap dead = {}, DeadLetters(ms)
    PROVE  /\ m_dead_letter_tell' \in Nat /\ m_dead_letter_ask' \in Nat
           /\ CountInv'
<1> DEFINE asked == {m \in ms : IsCall(m)}
           told  == ms \ asked
<1>1. /\ dead' = dead \cup ms
      /\ m_dead_letter_tell' = m_dead_letter_tell + Cardinality(told)
      /\ m_dead_letter_ask' = m_dead_letter_ask + Cardinality(asked)
  BY DEF DeadLetters
<1>2. asked \in SUBSET ms /\ told \in SUBSET ms /\ asked \cup told = ms /\ asked \cap told = {}
  OBVIOUS
<1> HIDE DEF asked, told
<1>3. IsFiniteSet(asked) /\ IsFiniteSet(told)
  BY <1>2, FS_Subset
<1>4. Cardinality(asked) \in Nat /\ Cardinality(told) \in Nat /\ Cardinality(dead) \in Nat
  BY <1>3, FS_CardinalityType DEF CountInv
<1>5. Cardinality({}) = 0
  BY FS_EmptySet
<1>6. Cardinality(ms) = Cardinality(asked) + Cardinality(told)
  <2>1. Cardinality(asked \cup told) =
            Cardinality(asked) + Cardinality(told) - Cardinality(asked \cap told)
    BY <1>3, FS_Union
  <2>2. Cardinality(asked \cup told) = Cardinality(ms)
    BY <1>2, Zenon
  <2>3. Cardinality(asked \cap told) = 0
    BY <1>2, <1>5, Zenon
  <2>4. QED
    BY <1>4, <2>1, <2>2, <2>3
<1>7. IsFiniteSet(dead \cup ms) /\ Cardinality(dead \cup ms) = Cardinality(dead) + Cardinality(ms)
  <2>1. Cardinality(dead \cap ms) = 0
    BY <1>5
  <2>2. /\ IsFiniteSet(dead \cup ms)
        /\ Cardinality(dead \cup ms) = Cardinality(dead) + Cardinality(ms) - Cardinality(dead \cap ms)
    BY FS_Union DEF CountInv
  <2>3. QED
    BY <1>4, <1>6, <2>1, <2>2
<1>8. CountInv'
  BY <1>1, <1>4, <1>6, <1>7 DEF CountInv, FateType
<1>9. QED
  BY <1>1, <1>4, <1>8 DEF FateType

\* A promise is kept or broken.
LEMMA PromiseType ==
    ASSUME FateType, NEW ms, NEW how \in {"value", "error", "broken"}, Promise(ms, how)
    PROVE  promise' \in [Calls -> {"pending", "value", "error", "broken"}]
BY DEF Promise, FateType

\* The types of the histories, and the count of dead letters.
LEMMA FateStep ==
    TypeOK /\ DeliveryInv /\ CountInv /\ [Next]_vars => FateType' /\ CountInv'
<1> SUFFICES ASSUME TypeOK, DeliveryInv, CountInv, [Next]_vars PROVE FateType' /\ CountInv'
  OBVIOUS
<1>1. /\ SenderType /\ QueueType /\ TurnType /\ FateType
      /\ \A c \in Senders : SenderInv(c)
      /\ \A m \in Msgs : MsgInv(m)
      /\ ModeInv /\ OrderInv
  BY DEF TypeOK, DeliveryInv
<1>2. ASSUME UNCHANGED deadV PROVE /\ CountInv' /\ dead' \subseteq Msgs
                                   /\ m_dead_letter_tell' \in Nat /\ m_dead_letter_ask' \in Nat
  BY <1>1, <1>2 DEF deadV, CountInv, FateType
<1>3. ASSUME NEW ms \in SUBSET Msgs, DeadLetters(ms), IsFiniteSet(ms), ms \cap dead = {}
      PROVE  /\ CountInv' /\ dead' \subseteq Msgs
             /\ m_dead_letter_tell' \in Nat /\ m_dead_letter_ask' \in Nat
  <2>1. dead' \subseteq Msgs
    BY <1>1, <1>3 DEF DeadLetters, FateType
  <2>2. QED
    BY <1>1, <1>3, <2>1, DeadCount
<1>4. ASSUME NEW ms \in SUBSET Msgs, Drop(ms), IsFiniteSet(ms), ms \cap dead = {}, UNCHANGED handled
      PROVE  FateType' /\ CountInv'
  <2>1. promise' \in [Calls -> {"pending", "value", "error", "broken"}]
    BY <1>1, <1>4, PromiseType DEF Drop
  <2>2. QED
    BY <1>1, <1>3, <1>4, <2>1 DEF Drop, FateType
<1>5. ASSUME UNCHANGED <<promise, deadV, handled>> PROVE FateType' /\ CountInv'
  BY <1>1, <1>2, <1>5 DEF FateType
<1>6. ASSUME NEW c \in Senders, next[c] \in DOMAIN Script[c], pc[c] \in {"idle", "push"},
             Drop({Msg(c)}), UNCHANGED handled
      PROVE  FateType' /\ CountInv'
  <2>1. Msg(c) \in Msgs /\ Msg(c) \notin dead
    BY <1>1, <1>6, Fresh, MsgOf
  <2>2. IsFiniteSet({Msg(c)})
    BY FS_Singleton
  <2>3. QED
    BY <1>4, <1>6, <2>1, <2>2
<1>7. CASE StopDiscards \/ StopFinish
  <2>1. Queued \subseteq Msgs
    BY <1>1 DEF Queued, ToSet, QueueType, Calls, Msgs
  <2>2. IsFiniteSet(Queued)
    BY <1>1, QueueFinite, FS_Union DEF Queued, QueueType
  <2>3. Queued \cap dead = {}
    BY <1>1, <2>1 DEF Queued, MsgInv, Exclusive, Waits, InCalls, InOthers, InHeld
  <2>4. Drop(Queued) /\ UNCHANGED handled
    BY <1>7 DEF StopDiscards, StopFinish, DiscardAll
  <2>5. QED
    BY <1>4, <2>1, <2>2, <2>3, <2>4
<1>8. ASSUME NEW x \in Msgs, handled' = handled \cup {x}, NEW ms, NEW how \in {"value", "error"},
             Promise(ms, how), UNCHANGED deadV
      PROVE  FateType' /\ CountInv'
  <2>1. promise' \in [Calls -> {"pending", "value", "error", "broken"}]
    BY <1>1, <1>8, PromiseType
  <2>2. QED
    BY <1>1, <1>2, <1>8, <2>1 DEF FateType
<1>9. CASE FillCall
  <2>1. Head(calls) \in Msgs
    BY <1>1, <1>9 DEF FillCall, QueueType, Calls, Msgs
  <2>2. QED
    BY <1>8, <1>9, <2>1 DEF FillCall
<1>10. CASE RunHeld
  <2>1. handled' \subseteq Msgs
    <3>1. CASE AcceptedAt = {}
      BY <1>1, <1>10, <3>1 DEF RunHeld, FateType
    <3>2. CASE AcceptedAt # {}
      <4>1. m_held[Pick] \in Msgs
        BY <1>1, <3>2, PickIs DEF QueueType, Msgs
      <4>2. handled' = handled \cup {m_held[Pick]}
        BY <1>10, <3>2 DEF RunHeld
      <4>3. QED
        BY <1>1, <4>1, <4>2 DEF FateType
    <3>3. QED
      BY <3>1, <3>2
  <2>2. UNCHANGED <<promise, deadV>>
    BY <1>10 DEF RunHeld
  <2>3. QED
    BY <1>1, <1>2, <2>1, <2>2 DEF FateType
<1>11. CASE ProcessNext \/ FillHeld \/ FillDone \/ InlineStop
  BY <1>5, <1>11 DEF ProcessNext, FillHeld, FillDone, InlineStop
<1>12. ASSUME NEW c \in Senders, Push(c) \/ Lock(c) \/ Send(c) PROVE FateType' /\ CountInv'
  <2>1. next[c] \in DOMAIN Script[c] /\ pc[c] \in {"idle", "push"}
    BY <1>1, <1>12, HasMsg DEF Push, Lock, Send, SenderInv, MaySend
  <2>2. UNCHANGED handled /\ (Drop({Msg(c)}) \/ UNCHANGED <<promise, deadV>>)
    BY <1>12 DEF Push, Lock, Send
  <2>3. QED
    BY <1>5, <1>6, <2>1, <2>2
<1>13. ASSUME NEW c \in Senders, InlineReturns(c) \/ InlineThrows(c) PROVE FateType' /\ CountInv'
  <2>1. current \in Msgs /\ handled' = handled \cup {current}
    BY <1>1, <1>13, DeliveryAssumption DEF InlineReturns, InlineThrows, SenderInv, ModeInv, InlineHandled
  <2>2. PICK how \in {"value", "error"} : Promise({current}, how)
    BY <1>13 DEF InlineReturns, InlineThrows
  <2>3. CASE UNCHANGED deadV
    BY <1>8, <2>1, <2>2, <2>3
  <2>4. CASE DeadLetters(ToSet(m_deferred))
    <3>1. ToSet(m_deferred) \subseteq Msgs
      BY <1>1 DEF ToSet, TurnType, Msgs
    <3>2. IsFiniteSet(ToSet(m_deferred))
      BY <1>1, QueueFinite DEF TurnType
    <3>3. ToSet(m_deferred) \cap dead = {}
      BY <1>1, <3>1 DEF MsgInv, Exclusive, Waits, InDeferred
    <3>4. promise' \in [Calls -> {"pending", "value", "error", "broken"}]
      BY <1>1, <2>2, PromiseType
    <3>5. QED
      BY <1>1, <1>3, <2>1, <2>4, <3>1, <3>2, <3>3, <3>4 DEF FateType
  <2>5. QED
    BY <1>13, <2>3, <2>4 DEF InlineReturns, InlineThrows
<1>14. ASSUME NEW c \in Senders, InlineTellsItself(c) PROVE FateType' /\ CountInv'
  <2> DEFINE x == <<NoSender, selfs + 1>>
  <2>1. UNCHANGED <<promise, handled>> /\ (DeadLetters({x}) \/ UNCHANGED deadV)
    BY <1>14 DEF InlineTellsItself
  <2>2. x \in Msgs /\ x \notin dead
    BY <1>1, <1>14, FreshSelf DEF InlineTellsItself
  <2>3. IsFiniteSet({x})
    BY FS_Singleton
  <2> HIDE DEF x
  <2>4. QED
    BY <1>1, <1>3, <1>5, <2>1, <2>2, <2>3 DEF FateType
<1>15. ASSUME NEW c \in Senders, CallReturns(c) \/ CallRefused(c) \/ CallTimesOut(c)
       PROVE  FateType' /\ CountInv'
  BY <1>5, <1>15 DEF CallReturns, CallRefused, CallTimesOut
<1>16. ASSUME NEW d \in BOOLEAN, StopActor(d) PROVE FateType' /\ CountInv'
  BY <1>5, <1>16 DEF StopActor
<1>17. CASE UNCHANGED vars
  BY <1>5, <1>17 DEF vars
<1>18. CASE Ending
  BY <1>5, <1>18 DEF Ending, SystemShutdown, WorkersExit, MarkStopped
<1>19. QED
  BY <1>7, <1>9, <1>10, <1>11, <1>12, <1>13, <1>14, <1>15, <1>16, <1>17, <1>18 DEF Next, Owner, Inside

-----------------------------------------------------------------------------
(* Senders and the thread that runs the actor *)

\* No step but a sender's own moves it.
LEMMA SenderFrame ==
    ASSUME UNCHANGED <<pc, next, refused, m_dispatching>>, NEW c \in Senders, SenderInv(c)
    PROVE  SenderInv(c)'
BY DEF SenderInv

\* A sender that leaves tell() or enters the wait of call(), or moves on inside
\* without a turn, is none of the others' business.
Releases(d) == \/ m_dispatching' = m_dispatching /\ m_dispatching # d
               \/ m_dispatching' = NoSender /\ m_dispatching = d

\* Out of tell(), or into the wait of call().
LEMMA LeaveSender ==
    ASSUME SenderType, NEW d \in Senders, Leave(d), next[d] \in DOMAIN Script[d], UNCHANGED refused,
           Releases(d),
           NEW c \in Senders, SenderInv(c)
    PROVE  SenderInv(c)'
<1>1. c # NoSender /\ next[c] \in Nat /\ \A m \in refused : m[1] = c => m[2] \in Nat
  BY DeliveryAssumption, SentMsg DEF SenderType
<1>2. \/ pc' = [pc EXCEPT ![d] = "waiting"] /\ next' = next
      \/ pc' = [pc EXCEPT ![d] = "idle"] /\ next' = [next EXCEPT ![d] = @ + 1]
  BY DEF Leave
<1>3. CASE c = d
  <2>1. \/ pc'[c] = "waiting" /\ next'[c] = next[c]
        \/ pc'[c] = "idle" /\ next'[c] = next[c] + 1
    BY <1>2, <1>3 DEF SenderType
  <2>2. m_dispatching' # c
    BY <1>1, <1>3 DEF Releases
  <2>3. QED
    BY <1>1, <1>3, <2>1, <2>2 DEF SenderInv
<1>4. CASE c # d
  <2>1. pc'[c] = pc[c] /\ next'[c] = next[c]
    BY <1>2, <1>4 DEF SenderType
  <2>2. m_dispatching' = c <=> m_dispatching = c
    BY <1>1, <1>4 DEF Releases
  <2>3. QED
    BY <2>1, <2>2 DEF SenderInv
<1>5. QED
  BY <1>3, <1>4

\* The other steps of a sender.
LEMMA MoveSender ==
    ASSUME SenderType, NEW d \in Senders, next[d] \in DOMAIN Script[d], SenderInv(d),
           \/ Begins(d) /\ UNCHANGED m_dispatching
           \/ Enters(d) /\ m_dispatching = NoSender /\ m_dispatching' = d
           \/ Resumes(d) /\ UNCHANGED m_dispatching
           \/ Refuses(d) /\ UNCHANGED m_dispatching,
           NEW c \in Senders, SenderInv(c)
    PROVE  SenderInv(c)'
<1>1. c # NoSender /\ next[c] \in Nat /\ \A m \in refused : m[1] = c => m[2] \in Nat
  BY DeliveryAssumption, SentMsg DEF SenderType
<1>2. Msg(d)[1] = d /\ Msg(d)[2] = next[d]
  BY MsgOf
<1>3. CASE Begins(d) /\ UNCHANGED m_dispatching
  BY <1>3 DEF Begins, SenderInv, SenderType
<1>4. CASE Enters(d) /\ m_dispatching = NoSender /\ m_dispatching' = d
  BY <1>1, <1>4 DEF Enters, SenderInv, SenderType
<1>5. CASE Resumes(d) /\ UNCHANGED m_dispatching
  BY <1>1, <1>5 DEF Resumes, SenderInv, SenderType
<1>6. CASE Refuses(d) /\ UNCHANGED m_dispatching
  <2>1. pc'[c] = pc[c] /\ next'[c] = IF c = d THEN next[c] + 1 ELSE next[c]
    BY <1>6 DEF Refuses, SenderType
  <2>2. c = d => pc[c] = "idle"
    BY <1>6 DEF Refuses
  <2>3. ASSUME NEW m \in refused', m[1] = c PROVE m[2] < next'[c]
    BY <1>1, <1>2, <1>6, <2>1, <2>3 DEF Refuses, SenderInv
  <2>4. QED
    BY <1>6, <2>1, <2>2, <2>3 DEF SenderInv
<1>7. QED
  BY <1>3, <1>4, <1>5, <1>6

\* Every step keeps SenderInv.
LEMMA SenderStep ==
    TypeOK /\ DeliveryInv /\ [Next]_vars => (\A c \in Senders : SenderInv(c))'
<1> SUFFICES ASSUME TypeOK, DeliveryInv, [Next]_vars, NEW c \in Senders PROVE SenderInv(c)'
  OBVIOUS
<1>1. /\ SenderType /\ TurnType /\ \A d \in Senders : SenderInv(d)
      /\ NoSender \notin Senders
  BY DeliveryAssumption DEF TypeOK, DeliveryInv
<1>2. ASSUME UNCHANGED <<pc, next, refused, turn>> PROVE SenderInv(c)'
  BY <1>1, <1>2, SenderFrame DEF turn
<1>3. CASE Owner
  BY <1>2, <1>3 DEF Owner, ProcessNext, FillCall, FillHeld, FillDone, RunHeld, StopDiscards, StopFinish,
     InlineStop
<1>4. ASSUME NEW d \in Senders, Push(d) PROVE SenderInv(c)'
  <2>1. next[d] \in DOMAIN Script[d] /\ m_dispatching # d
    BY <1>1, <1>4 DEF Push, SenderInv
  <2>2. Leave(d) /\ UNCHANGED refused /\ Releases(d)
    BY <1>4, <2>1 DEF Push, turn, Releases
  <2>3. QED
    BY <1>1, <2>1, <2>2, LeaveSender
<1>5. ASSUME NEW d \in Senders, CallReturns(d) \/ CallTimesOut(d) PROVE SenderInv(c)'
  <2>1. next[d] \in DOMAIN Script[d] /\ Resumes(d) /\ UNCHANGED m_dispatching
    BY <1>1, <1>5 DEF CallReturns, CallTimesOut, SenderInv, Resumes, turn
  <2>2. QED
    BY <1>1, <2>1, MoveSender
<1>6. ASSUME NEW d \in Senders, Lock(d) PROVE SenderInv(c)'
  <2>1. next[d] \in DOMAIN Script[d] /\ m_dispatching # d
    BY <1>1, <1>6 DEF Lock, SenderInv
  <2>2. CASE Running
    <3>1. Enters(d) /\ m_dispatching = NoSender /\ m_dispatching' = d
      BY <1>6, <2>2 DEF Lock, Enters
    <3>2. QED
      BY <1>1, <2>1, <3>1, MoveSender
  <2>3. CASE ~Running
    <3>1. Leave(d) /\ UNCHANGED refused /\ Releases(d)
      BY <1>6, <2>1, <2>3 DEF Lock, turn, Releases
    <3>2. QED
      BY <1>1, <2>1, <3>1, LeaveSender
  <2>4. QED
    BY <2>2, <2>3
<1>7. ASSUME NEW d \in Senders, InlineReturns(d) \/ InlineThrows(d) PROVE SenderInv(c)'
  <2>1. next[d] \in DOMAIN Script[d] /\ m_dispatching = d
    BY <1>1, <1>7 DEF InlineReturns, InlineThrows, SenderInv
  <2>2. /\ UNCHANGED refused
        /\ \/ UNCHANGED <<pc, next, m_dispatching>>
           \/ Leave(d) /\ Releases(d)
    BY <1>7, <2>1 DEF InlineReturns, InlineThrows, TurnGoesOn, Releases
  <2>3. QED
    BY <1>1, <2>1, <2>2, SenderFrame, LeaveSender
<1>8. ASSUME NEW d \in Senders, Send(d) PROVE SenderInv(c)'
  <2>1. next[d] \in DOMAIN Script[d] /\ pc[d] = "idle" /\ m_dispatching # d
    BY <1>1, <1>8, HasMsg DEF Send, SenderInv, MaySend
  <2>2. CASE Running
    <3>1. Begins(d) /\ UNCHANGED m_dispatching
      BY <1>8, <2>1, <2>2 DEF Send, Begins, turn
    <3>2. QED
      BY <1>1, <2>1, <3>1, MoveSender
  <2>3. CASE ~Running
    <3>1. Leave(d) /\ UNCHANGED refused /\ Releases(d)
      BY <1>8, <2>1, <2>3 DEF Send, turn, Releases
    <3>2. QED
      BY <1>1, <2>1, <3>1, LeaveSender
  <2>4. QED
    BY <2>2, <2>3
<1>9. ASSUME NEW d \in Senders, CallRefused(d) PROVE SenderInv(c)'
  <2>1. next[d] \in DOMAIN Script[d] /\ Refuses(d) /\ UNCHANGED m_dispatching
    BY <1>1, <1>9, HasMsg DEF CallRefused, MaySend, Refuses, turn
  <2>2. QED
    BY <1>1, <2>1, MoveSender
<1>10. ASSUME NEW d \in Senders, InlineTellsItself(d) PROVE SenderInv(c)'
  BY <1>1, <1>10, SenderFrame DEF InlineTellsItself
<1>11. ASSUME NEW b \in BOOLEAN, StopActor(b) PROVE SenderInv(c)'
  BY <1>2, <1>11 DEF StopActor
<1>12. CASE UNCHANGED vars
  BY <1>2, <1>12 DEF vars
<1>13. CASE Ending
  BY <1>2, <1>13 DEF Ending, SystemShutdown, WorkersExit, MarkStopped
<1>14. QED
  BY <1>3, <1>4, <1>5, <1>6, <1>7, <1>8, <1>9, <1>10, <1>11, <1>12, <1>13 DEF Next, Inside

\* Every step keeps ModeInv.
LEMMA ModeStep == TypeOK /\ DeliveryInv /\ [Next]_vars => ModeInv'
<1> SUFFICES ASSUME TypeOK, DeliveryInv, [Next]_vars PROVE ModeInv'
  OBVIOUS
<1>1. /\ SenderType /\ TurnType /\ StopType /\ \A d \in Senders : SenderInv(d)
      /\ NoSender \notin Senders /\ ModeInv
  BY DeliveryAssumption DEF TypeOK, DeliveryInv
<1>2. ASSUME UNCHANGED <<kind, opc, turn>>, m_state' = m_state \/ m_state' = "stopping" PROVE ModeInv'
  BY <1>1, <1>2 DEF ModeInv, turn
<1>3. CASE ProcessNext \/ FillCall \/ FillHeld \/ FillDone
  BY <1>1, <1>3 DEF ProcessNext, FillCall, FillHeld, FillDone, ModeInv, turn, stopV, Running
<1>4. CASE RunHeld
  <2>1. m_state' = "stopped" => m_state = "stopped"
    BY <1>4 DEF RunHeld, HandlerThrows, stopV
  <2>2. QED
    BY <1>1, <1>4, <2>1 DEF RunHeld, ModeInv, turn
<1>5. CASE StopDiscards \/ StopFinish
  BY <1>1, <1>5 DEF StopDiscards, StopFinish, ModeInv, turn
<1>6. CASE InlineStop
  BY <1>1, <1>6 DEF InlineStop, ModeInv, turn
<1>7. ASSUME NEW d \in Senders, Push(d) \/ CallReturns(d) \/ Send(d) \/ CallRefused(d) \/ CallTimesOut(d)
      PROVE  ModeInv'
  BY <1>2, <1>7 DEF Push, CallReturns, Send, CallRefused, CallTimesOut, stopV
<1>8. ASSUME NEW d \in Senders, Lock(d) PROVE ModeInv'
  <2>1. CASE Running
    <3>1. Msg(d) \in Msgs /\ d # NoSender
      BY <1>1, <1>8, MsgOf DEF Lock, SenderInv
    <3>2. QED
      BY <1>1, <1>8, <2>1, <3>1 DEF Lock, ModeInv, Running, stopV
  <2>2. CASE ~Running
    BY <1>2, <1>8, <2>2 DEF Lock, stopV
  <2>3. QED
    BY <2>1, <2>2
<1>9. ASSUME NEW d \in Senders, NEW q \in Seq(SelfMsg), TurnGoesOn(d, q), pc[d] = "turn",
             UNCHANGED <<kind, stopV, opc>>
      PROVE  ModeInv'
  <2>1. q # <<>> => Head(q) \in Msgs
    BY DEF Msgs
  <2>2. m_dispatching = d
    BY <1>1, <1>9 DEF SenderInv
  <2>3. QED
    BY <1>1, <1>9, <2>1, <2>2 DEF TurnGoesOn, ModeInv, stopV, NoMsg
<1>10. ASSUME NEW d \in Senders, InlineReturns(d) \/ InlineThrows(d) PROVE ModeInv'
  <2>1. m_deferred \in Seq(SelfMsg) /\ <<>> \in Seq(SelfMsg)
    BY <1>1 DEF TurnType
  <2>2. /\ pc[d] = "turn" /\ UNCHANGED <<kind, stopV, opc>>
        /\ TurnGoesOn(d, m_deferred) \/ TurnGoesOn(d, <<>>)
    BY <1>10 DEF InlineReturns, InlineThrows
  <2>3. QED
    BY <1>9, <2>1, <2>2
<1>11. ASSUME NEW d \in Senders, InlineTellsItself(d) PROVE ModeInv'
  BY <1>1, <1>11 DEF InlineTellsItself, ModeInv, stopV
<1>12. ASSUME NEW b \in BOOLEAN, StopActor(b) PROVE ModeInv'
  BY <1>2, <1>12 DEF StopActor
<1>13. CASE UNCHANGED vars
  BY <1>2, <1>13 DEF vars, stopV
<1>14. CASE Ending
  BY <1>1, <1>14 DEF Ending, SystemShutdown, WorkersExit, MarkStopped, ModeInv, turn
<1>15. QED
  BY <1>3, <1>4, <1>5, <1>6, <1>7, <1>8, <1>10, <1>11, <1>12, <1>13, <1>14 DEF Next, Owner, Inside

-----------------------------------------------------------------------------
(* Order and places *)

\* The places after a step are those of the queues after it.
LEMMA Primed ==
    /\ InCalls' = ToSet(calls') /\ InOthers' = ToSet(others')
    /\ InHeld' = ToSet(m_held') /\ InDeferred' = ToSet(m_deferred')
    /\ Ordered(calls)' <=> Ordered(calls')
    /\ Ordered(others)' <=> Ordered(others')
    /\ Ordered(m_held)' <=> Ordered(m_held')
    /\ Ordered(m_deferred)' <=> Ordered(m_deferred')
BY DEF InCalls, InOthers, InHeld, InDeferred, ToSet, Ordered

\* What is in the queues was sent, and where.
LEMMA QueuesSent ==
    ASSUME QueueType, TurnType
    PROVE  /\ \A m \in InCalls : m \in Calls /\ m \in Sent /\ m \in Msgs
           /\ \A m \in InOthers : m \in Sent \ Calls /\ m \in Msgs
           /\ \A m \in InHeld : m \in Sent \ Calls /\ m \in Msgs
           /\ \A m \in InDeferred : m \in SelfMsg /\ m \in Msgs
BY Apart DEF QueueType, TurnType, InCalls, InOthers, InHeld, InDeferred, ToSet, Msgs

\* What a sender has waiting was sent before what it is about to push.
LEMMA Older ==
    ASSUME SenderType, NEW c \in Senders, pc[c] \in {"idle", "push"},
           NEW y \in Sent, MsgInv(y), Waits(y), y[1] = c
    PROVE  y[2] < next[c]
<1>1. y \notin SelfMsg /\ AcceptedOf(y)
  BY Apart DEF MsgInv
<1>2. QED
  BY <1>1 DEF AcceptedOf

Places ==
    /\ OrderInv
    /\ \A m \in Msgs : MsgInv(m)
    /\ \A m \in Calls : PromiseInv(m)

\* The queues, and what is handled, stay; no sender accepts anything.
LEMMA PlaceFrame ==
    ASSUME DeliveryInv, UNCHANGED <<kind, mailV, m_held, turn, handled, dead, promise>>,
           \A m \in Msgs : AcceptedOf(m)' <=> AcceptedOf(m),
           m_state' = "stopped" => m_state = "stopped"
    PROVE  Places'
<1>1. /\ calls' = calls /\ others' = others /\ m_held' = m_held /\ m_deferred' = m_deferred
      /\ current' = current /\ m_dispatching' = m_dispatching /\ handled' = handled /\ dead' = dead
      /\ promise' = promise /\ kind' = kind
  BY DEF mailV, turn
<1>2. /\ InCalls' = InCalls /\ InOthers' = InOthers /\ InHeld' = InHeld /\ InDeferred' = InDeferred
  BY <1>1 DEF InCalls, InOthers, InHeld, InDeferred, ToSet
<1>3. OrderInv'
  BY <1>1, <1>2, Primed DEF OrderInv, DeliveryInv
<1>4. ASSUME NEW m \in Msgs PROVE MsgInv(m)'
  <2>1. MsgInv(m) /\ (AcceptedOf(m)' <=> AcceptedOf(m))
    BY DEF DeliveryInv
  <2>2. QED
    BY <1>1, <1>2, <2>1 DEF MsgInv, Exclusive, Waits
<1>5. ASSUME NEW m \in Calls PROVE PromiseInv(m)'
  BY <1>1 DEF PromiseInv, DeliveryInv
<1>6. QED
  BY <1>3, <1>4, <1>5 DEF Places

\* A message becomes a dead letter instead of being queued.
LEMMA RejectPlaces ==
    ASSUME TypeOK, DeliveryInv, NEW x \in Msgs, ~AcceptedOf(x),
           DeadLetters({x}), \A m \in Calls : promise'[m] = IF m = x THEN "broken" ELSE promise[m],
           UNCHANGED <<kind, stopV, mailV, m_held, m_dispatching, current, m_deferred, handled>>,
           \A m \in Msgs : AcceptedOf(m)' <=> AcceptedOf(m) \/ m = x
    PROVE  Places'
<1>1. /\ calls' = calls /\ others' = others /\ m_held' = m_held /\ m_deferred' = m_deferred
      /\ current' = current /\ m_dispatching' = m_dispatching /\ handled' = handled
      /\ dead' = dead \cup {x} /\ kind' = kind /\ m_state' = m_state
  BY DEF mailV, stopV, DeadLetters
<1>2. /\ InCalls' = InCalls /\ InOthers' = InOthers /\ InHeld' = InHeld /\ InDeferred' = InDeferred
  BY <1>1 DEF InCalls, InOthers, InHeld, InDeferred, ToSet
<1>3. OrderInv'
  BY <1>1, <1>2, Primed DEF OrderInv, DeliveryInv
<1>4. ~Waits(x) /\ x \notin handled /\ x \notin dead
  BY DEF DeliveryInv, MsgInv
<1>5. ASSUME NEW m \in Msgs PROVE MsgInv(m)'
  <2>1. MsgInv(m) /\ (AcceptedOf(m)' <=> AcceptedOf(m) \/ m = x)
    BY DEF DeliveryInv
  <2>2. QED
    BY <1>1, <1>2, <1>4, <2>1 DEF MsgInv, Exclusive, Waits
<1>6. ASSUME NEW m \in Calls PROVE PromiseInv(m)'
  <2>1. PromiseInv(m) /\ promise'[m] = IF m = x THEN "broken" ELSE promise[m]
    BY DEF DeliveryInv
  <2>2. QED
    BY <1>1, <1>4, <2>1 DEF PromiseInv
<1>7. QED
  BY <1>3, <1>5, <1>6 DEF Places

\* tell() and call() of a queued actor.
LEMMA PushPlaces ==
    ASSUME TypeOK, DeliveryInv, NEW c \in Senders, Push(c)
    PROVE  Places'
<1>1. /\ SenderType /\ QueueType /\ TurnType /\ SenderInv(c) /\ OrderInv
      /\ \A m \in Msgs : MsgInv(m)
      /\ \A m \in Calls : PromiseInv(m)
      /\ next[c] \in DOMAIN Script[c] /\ pc[c] = "push" /\ kind = "stateful"
  BY DEF TypeOK, DeliveryInv, Push, SenderInv
<1> DEFINE x == Msg(c)
<1>2. x \in Sent /\ x \in Msgs /\ x[1] = c /\ x[2] = next[c] /\ (x \in Calls <=> IsCall(x))
  BY <1>1, MsgOf, Apart
<1>3. ~AcceptedOf(x) /\ ~Waits(x) /\ x \notin handled /\ x \notin dead
  BY <1>1, Fresh
<1>4. \A m \in Msgs : AcceptedOf(m)' <=> AcceptedOf(m) \/ m = x
  BY <1>1, LeaveAccepts DEF Push, turn
<1>5. CASE m_state = "stopped"
  <2>1. /\ DeadLetters({x}) /\ Promise({x}, "broken")
        /\ UNCHANGED <<kind, stopV, mailV, m_held, m_dispatching, current, m_deferred, handled>>
    BY <1>5 DEF Push, Drop, stash, turn
  <2>2. \A m \in Calls : promise'[m] = IF m = x THEN "broken" ELSE promise[m]
    BY <2>1 DEF Promise
  <2> HIDE DEF x
  <2>3. QED
    BY <1>2, <1>3, <1>4, <2>1, <2>2, RejectPlaces
<1>6. CASE m_state # "stopped"
  <2>1. /\ m_held' = m_held /\ m_deferred' = m_deferred /\ current' = current
        /\ m_dispatching' = m_dispatching /\ handled' = handled /\ dead' = dead
        /\ kind' = kind /\ m_state' = m_state /\ promise' = promise
        /\ \/ IsCall(x) /\ calls' = Append(calls, x) /\ others' = others
           \/ ~IsCall(x) /\ others' = Append(others, x) /\ calls' = calls
    BY <1>6 DEF Push, deadV, stash, turn, stopV
  <2> HIDE DEF x
  <2>2. /\ \A y \in InCalls : y[1] = x[1] => y[2] < x[2]
        /\ \A y \in InOthers : y[1] = x[1] => y[2] < x[2]
        /\ \A y \in InHeld : y[1] = x[1] => y[2] < x[2]
    BY <1>1, <1>2, QueuesSent, Older DEF Waits
  <2>3. /\ InHeld' = InHeld /\ InDeferred' = InDeferred
    BY <2>1 DEF InHeld, InDeferred, ToSet
  <2>4. CASE IsCall(x) /\ calls' = Append(calls, x) /\ others' = others
    <3>1. InCalls' = InCalls \cup {x} /\ Ordered(calls')
      BY <1>1, <1>2, <2>2, <2>4, AppendQueue, Primed DEF QueueType, OrderInv, InCalls
    <3>2. InOthers' = InOthers
      BY <2>4 DEF InOthers, ToSet
    <3>3. OrderInv'
      BY <1>1, <2>1, <2>3, <2>4, <3>1, <3>2, Primed DEF OrderInv
    <3>4. ASSUME NEW m \in Msgs PROVE MsgInv(m)'
      <4>1. MsgInv(m) /\ (AcceptedOf(m)' <=> AcceptedOf(m) \/ m = x)
        BY <1>1, <1>4
      <4>2. QED
        BY <1>1, <1>3, <1>6, <2>1, <2>3, <3>1, <3>2, <4>1 DEF MsgInv, Exclusive, Waits
    <3>5. QED
      BY <1>1, <2>1, <3>3, <3>4 DEF Places, PromiseInv
  <2>5. CASE ~IsCall(x) /\ others' = Append(others, x) /\ calls' = calls
    <3>1. InOthers' = InOthers \cup {x} /\ Ordered(others')
      BY <1>1, <1>2, <2>2, <2>5, AppendQueue, Primed DEF QueueType, OrderInv, InOthers
    <3>2. InCalls' = InCalls
      BY <2>5 DEF InCalls, ToSet
    <3>3. OrderInv'
      BY <1>1, <2>1, <2>2, <2>3, <2>5, <3>1, <3>2, Primed DEF OrderInv
    <3>4. ASSUME NEW m \in Msgs PROVE MsgInv(m)'
      <4>1. MsgInv(m) /\ (AcceptedOf(m)' <=> AcceptedOf(m) \/ m = x)
        BY <1>1, <1>4
      <4>2. QED
        BY <1>1, <1>3, <1>6, <2>1, <2>3, <3>1, <3>2, <4>1 DEF MsgInv, Exclusive, Waits
    <3>5. QED
      BY <1>1, <2>1, <3>3, <3>4 DEF Places, PromiseInv
  <2>6. QED
    BY <2>1, <2>4, <2>5
<1>7. QED
  BY <1>5, <1>6

\* The actor's thread takes a call request.
LEMMA FillCallPlaces ==
    ASSUME TypeOK, DeliveryInv, FillCall
    PROVE  Places'
<1>1. /\ QueueType /\ TurnType /\ OrderInv /\ ModeInv
      /\ \A m \in Msgs : MsgInv(m)
      /\ \A m \in Calls : PromiseInv(m)
  BY DEF TypeOK, DeliveryInv
<1> DEFINE x == Head(calls)
<1>2. /\ calls' = Tail(calls) /\ calls # <<>> /\ others' = others /\ m_held' = m_held
      /\ m_deferred' = m_deferred /\ current' = current /\ m_dispatching' = m_dispatching
      /\ handled' = handled \cup {x} /\ dead' = dead /\ kind' = kind /\ m_state' = m_state
  BY DEF FillCall, deadV, stash, turn, stopV
<1>3. \A m \in Calls : promise'[m] \in {"value", "error"} \/ m # x
  BY DEF FillCall, Promise
<1>4. \A m \in Calls : m # x => promise'[m] = promise[m]
  BY DEF FillCall, Promise
<1>5. /\ x \in InCalls /\ InCalls' = InCalls \ {x} /\ Ordered(calls')
  BY <1>1, <1>2, TailQueue, Apart, Primed DEF QueueType, OrderInv, InCalls
<1> HIDE DEF x
<1>6. /\ InOthers' = InOthers /\ InHeld' = InHeld /\ InDeferred' = InDeferred
  BY <1>2 DEF InOthers, InHeld, InDeferred, ToSet
<1>7. OrderInv'
  BY <1>1, <1>2, <1>5, <1>6, Primed DEF OrderInv
<1>8. x \in Calls /\ x \in Msgs /\ x \notin InOthers /\ x \notin InHeld /\ x \notin InDeferred
  BY <1>1, <1>5, QueuesSent, Apart
<1>9. x # current
  BY <1>1, <1>5, <1>8, Apart DEF MsgInv, ModeInv
<1>10. ASSUME NEW m \in Msgs PROVE MsgInv(m)'
  <2>1. MsgInv(m) /\ (AcceptedOf(m)' <=> AcceptedOf(m))
    BY <1>1, AcceptFrame DEF FillCall, turn
  <2>2. QED
    BY <1>2, <1>5, <1>6, <1>8, <1>9, <2>1 DEF MsgInv, Exclusive, Waits
<1>11. ASSUME NEW m \in Calls PROVE PromiseInv(m)'
  <2>1. MsgInv(m) /\ PromiseInv(m)
    BY <1>1, Apart
  <2>2. CASE m = x
    <3>1. m \notin dead /\ m \in handled' /\ m \notin dead' /\ promise'[m] \in {"value", "error"}
      BY <1>2, <1>3, <1>5, <2>1, <2>2 DEF MsgInv, Exclusive, Waits
    <3>2. QED
      BY <3>1 DEF PromiseInv
  <2>3. CASE m # x
    BY <1>2, <1>4, <2>1, <2>3 DEF PromiseInv
  <2>4. QED
    BY <2>2, <2>3
<1>12. QED
  BY <1>7, <1>10, <1>11 DEF Places

\* It moves a message from the mailbox into the stash.
LEMMA FillHeldPlaces ==
    ASSUME TypeOK, DeliveryInv, FillHeld
    PROVE  Places'
<1>1. /\ QueueType /\ TurnType /\ OrderInv /\ ModeInv
      /\ \A m \in Msgs : MsgInv(m)
      /\ \A m \in Calls : PromiseInv(m)
  BY DEF TypeOK, DeliveryInv
<1> DEFINE x == Head(others)
<1>2. /\ others' = Tail(others) /\ others # <<>> /\ m_held' = Append(m_held, x) /\ calls' = calls
      /\ m_deferred' = m_deferred /\ current' = current /\ m_dispatching' = m_dispatching
      /\ handled' = handled /\ dead' = dead /\ kind' = kind /\ m_state' = m_state /\ promise' = promise
  BY DEF FillHeld, deadV, turn, stopV
<1>3. /\ x \in InOthers /\ x \in Sent \ Calls /\ InOthers' = InOthers \ {x} /\ Ordered(others')
      /\ \A y \in InOthers' : y[1] = x[1] => x[2] < y[2]
  BY <1>1, <1>2, TailQueue, Apart, Primed DEF QueueType, OrderInv, InOthers
<1> HIDE DEF x
<1>4. \A y \in InHeld : y[1] = x[1] => y[2] < x[2]
  BY <1>1, <1>3 DEF OrderInv
<1>5. InHeld' = InHeld \cup {x} /\ Ordered(m_held')
  <2>1. m_held \in Seq(Sent \ Calls) /\ Ordered(m_held)
    BY <1>1 DEF QueueType, OrderInv
  <2>2. \A y \in ToSet(m_held) : y[1] = x[1] => y[2] < x[2]
    BY <1>4 DEF InHeld
  <2>3. ToSet(Append(m_held, x)) = ToSet(m_held) \cup {x} /\ Ordered(Append(m_held, x))
    BY <1>3, <2>1, <2>2, AppendQueue
  <2>4. QED
    BY <1>2, <2>3, Primed DEF InHeld
<1>6. /\ InCalls' = InCalls /\ InDeferred' = InDeferred
  BY <1>2 DEF InCalls, InDeferred, ToSet
<1>7. OrderInv'
  <2>1. ASSUME NEW h \in InHeld', NEW o \in InOthers', h[1] = o[1] PROVE h[2] < o[2]
    BY <1>1, <1>3, <1>5, <2>1 DEF OrderInv
  <2>2. QED
    BY <1>1, <1>2, <1>3, <1>5, <1>6, <2>1, Primed DEF OrderInv
<1>8. x \in Msgs /\ x \notin InCalls /\ x \notin InHeld /\ x \notin InDeferred
  BY <1>1, <1>3, QueuesSent, Apart DEF MsgInv, Exclusive
<1>9. x # current
  BY <1>1, <1>3, <1>8, Apart DEF MsgInv, ModeInv
<1>10. ASSUME NEW m \in Msgs PROVE MsgInv(m)'
  <2>1. MsgInv(m) /\ (AcceptedOf(m)' <=> AcceptedOf(m))
    BY <1>1, AcceptFrame DEF FillHeld, turn
  <2>2. QED
    BY <1>2, <1>3, <1>5, <1>6, <1>8, <1>9, <2>1 DEF MsgInv, Exclusive, Waits
<1>11. QED
  BY <1>1, <1>2, <1>7, <1>10 DEF Places, PromiseInv

\* A handler runs a message of the stash, and may change the filter or stop the actor.
LEMMA RunHeldPlaces ==
    ASSUME TypeOK, DeliveryInv, RunHeld
    PROVE  Places'
<1>1. /\ QueueType /\ TurnType /\ OrderInv /\ ModeInv
      /\ \A m \in Msgs : MsgInv(m)
      /\ \A m \in Calls : PromiseInv(m)
  BY DEF TypeOK, DeliveryInv
<1>2. \A m : AcceptedOf(m)' <=> AcceptedOf(m)
  BY AcceptFrame DEF RunHeld, turn
<1>3. CASE AcceptedAt = {}
  <2>1. UNCHANGED <<kind, mailV, m_held, turn, handled, dead, promise>> /\ m_state' = m_state
    BY <1>3 DEF RunHeld, stash, stopV, deadV
  <2>2. QED
    BY <1>2, <2>1, PlaceFrame
<1>4. CASE AcceptedAt # {}
  <2> DEFINE x == m_held[Pick]
  <2>1. /\ m_held' = RemoveAt(m_held, Pick) /\ calls' = calls /\ others' = others
        /\ m_deferred' = m_deferred /\ current' = current /\ m_dispatching' = m_dispatching
        /\ handled' = handled \cup {x} /\ dead' = dead /\ kind' = kind /\ promise' = promise
    BY <1>4 DEF RunHeld, mailV, deadV, turn
  <2>2. m_state' = "stopped" => m_state = "stopped"
    BY <1>4 DEF RunHeld, HandlerThrows, stopV
  <2>3. x \in InHeld /\ x \in Sent \ Calls /\ InHeld' = InHeld \ {x} /\ Ordered(m_held')
    BY <1>1, <1>4, <2>1, PickIs, RemoveQueue, Apart, Primed DEF QueueType, OrderInv, InHeld
  <2> HIDE DEF x
  <2>4. /\ InCalls' = InCalls /\ InOthers' = InOthers /\ InDeferred' = InDeferred
    BY <2>1 DEF InCalls, InOthers, InDeferred, ToSet
  <2>5. OrderInv'
    BY <1>1, <2>1, <2>3, <2>4, Primed DEF OrderInv
  <2>6. x \in Msgs /\ x \notin InCalls /\ x \notin InOthers /\ x \notin InDeferred
    BY <1>1, <2>3, QueuesSent, Apart DEF MsgInv, Exclusive
  <2>7. x # current
    BY <1>1, <2>3, <2>6, Apart DEF MsgInv, ModeInv
  <2>8. ASSUME NEW m \in Msgs PROVE MsgInv(m)'
    <3>1. MsgInv(m) /\ (AcceptedOf(m)' <=> AcceptedOf(m))
      BY <1>1, <1>2
    <3>2. QED
      BY <2>1, <2>2, <2>3, <2>4, <2>6, <2>7, <3>1 DEF MsgInv, Exclusive, Waits
  <2>9. ASSUME NEW m \in Calls PROVE PromiseInv(m)'
    BY <1>1, <2>1, <2>3, <2>9 DEF PromiseInv
  <2>10. QED
    BY <2>5, <2>8, <2>9 DEF Places
<1>5. QED
  BY <1>3, <1>4

\* A stop drops everything that is queued or held.
LEMMA DiscardPlaces ==
    ASSUME TypeOK, DeliveryInv, StopDiscards \/ StopFinish
    PROVE  Places'
<1>1. /\ QueueType /\ TurnType /\ OrderInv /\ ModeInv
      /\ \A m \in Msgs : MsgInv(m)
      /\ \A m \in Calls : PromiseInv(m)
  BY DEF TypeOK, DeliveryInv
<1>2. /\ calls' = <<>> /\ others' = <<>> /\ m_held' = <<>> /\ m_deferred' = m_deferred
      /\ current' = current /\ m_dispatching' = m_dispatching /\ handled' = handled
      /\ dead' = dead \cup Queued /\ kind' = kind /\ Promise(Queued, "broken")
      /\ UNCHANGED <<pc, next, refused, selfs>> /\ kind = "stateful"
  BY DEF StopDiscards, StopFinish, DiscardAll, Drop, DeadLetters, turn
<1>3. /\ \A m : m \notin InCalls' /\ m \notin InOthers' /\ m \notin InHeld'
      /\ Ordered(calls') /\ Ordered(others') /\ Ordered(m_held')
  BY <1>2, EmptyQueue, Primed
<1>4. InDeferred' = InDeferred
  BY <1>2 DEF InDeferred, ToSet
<1>5. OrderInv'
  BY <1>1, <1>2, <1>3, <1>4, Primed DEF OrderInv
<1>6. \A m : m \in Queued <=> m \in InCalls \/ m \in InOthers \/ m \in InHeld
  BY DEF Queued, InCalls, InOthers, InHeld
<1>7. \A m \in Msgs : m \notin InDeferred /\ m # current
  BY <1>1, <1>2, Apart DEF ModeInv, MsgInv
<1>8. ASSUME NEW m \in Msgs PROVE MsgInv(m)'
  <2>1. MsgInv(m) /\ (AcceptedOf(m)' <=> AcceptedOf(m)) /\ m \notin InDeferred /\ m # current
    BY <1>1, <1>2, <1>7, AcceptFrame
  <2>2. m \notin InCalls' /\ m \notin InOthers' /\ m \notin InHeld' /\ m \notin InDeferred' /\ m # current'
    BY <1>2, <1>3, <1>4, <2>1
  <2>3. m \in dead' <=> m \in dead \/ m \in InCalls \/ m \in InOthers \/ m \in InHeld
    BY <1>2, <1>6
  <2>4. QED
    BY <1>2, <2>1, <2>2, <2>3 DEF MsgInv, Exclusive, Waits
<1>9. ASSUME NEW m \in Calls PROVE PromiseInv(m)'
  <2>1. MsgInv(m) /\ PromiseInv(m)
    BY <1>1, Apart
  <2>2. promise'[m] = IF m \in Queued THEN "broken" ELSE promise[m]
    BY <1>2 DEF Promise
  <2>3. m \in Queued => m \notin handled
    BY <1>6, <2>1 DEF MsgInv, Exclusive, Waits
  <2>4. QED
    BY <1>2, <2>1, <2>2, <2>3 DEF PromiseInv
<1>10. QED
  BY <1>5, <1>8, <1>9 DEF Places

\* A sender gets the mutex of an inline actor, or is turned away under it.
LEMMA LockPlaces ==
    ASSUME TypeOK, DeliveryInv, NEW c \in Senders, Lock(c)
    PROVE  Places'
<1>1. /\ SenderType /\ QueueType /\ TurnType /\ SenderInv(c) /\ OrderInv /\ ModeInv
      /\ \A m \in Msgs : MsgInv(m)
      /\ \A m \in Calls : PromiseInv(m)
      /\ next[c] \in DOMAIN Script[c] /\ pc[c] = "push" /\ kind = "inline"
      /\ m_dispatching = NoSender /\ c # NoSender
  BY DeliveryAssumption DEF TypeOK, DeliveryInv, Lock, SenderInv
<1> DEFINE x == Msg(c)
<1>2. x \in Sent /\ x \in Msgs /\ x \notin SelfMsg
  BY <1>1, MsgOf, Apart
<1>3. ~AcceptedOf(x) /\ ~Waits(x) /\ x \notin handled /\ x \notin dead
  BY <1>1, Fresh
<1>4. CASE Running
  <2>1. /\ calls' = calls /\ others' = others /\ m_held' = m_held /\ m_deferred' = m_deferred
        /\ current' = x /\ m_dispatching' = c /\ handled' = handled /\ dead' = dead
        /\ promise' = promise /\ kind' = kind /\ m_state' = m_state
        /\ Enters(c) /\ UNCHANGED selfs
    BY <1>4 DEF Lock, mailV, stash, deadV, stopV, Enters
  <2>2. \A m \in Msgs : AcceptedOf(m)' <=> AcceptedOf(m) \/ m = x
    BY <1>1, <2>1, SenderAccepts
  <2> HIDE DEF x
  <2>3. /\ InCalls' = InCalls /\ InOthers' = InOthers /\ InHeld' = InHeld /\ InDeferred' = InDeferred
    BY <2>1 DEF InCalls, InOthers, InHeld, InDeferred, ToSet
  <2>4. OrderInv'
    BY <1>1, <1>2, <2>1, <2>3, Primed DEF OrderInv
  <2>5. ASSUME NEW m \in Msgs PROVE MsgInv(m)'
    <3>1. MsgInv(m) /\ (AcceptedOf(m)' <=> AcceptedOf(m) \/ m = x) /\ m # current
      BY <1>1, <2>2, Apart DEF ModeInv
    <3>2. QED
      BY <1>1, <1>3, <2>1, <2>3, <3>1 DEF MsgInv, Exclusive, Waits
  <2>6. QED
    BY <1>1, <2>1, <2>4, <2>5 DEF Places, PromiseInv
<1>5. CASE ~Running
  <2>1. /\ DeadLetters({x}) /\ Promise({x}, "broken")
        /\ UNCHANGED <<kind, stopV, mailV, m_held, m_dispatching, current, m_deferred, handled>>
        /\ Leave(c) /\ UNCHANGED <<refused, selfs>>
    BY <1>5 DEF Lock, Drop, stash, turn
  <2>2. \A m \in Calls : promise'[m] = IF m = x THEN "broken" ELSE promise[m]
    BY <2>1 DEF Promise
  <2>3. \A m \in Msgs : AcceptedOf(m)' <=> AcceptedOf(m) \/ m = x
    BY <1>1, <2>1, LeaveAccepts
  <2> HIDE DEF x
  <2>4. QED
    BY <1>2, <1>3, <2>1, <2>2, <2>3, RejectPlaces
<1>6. QED
  BY <1>4, <1>5

\* A tell() or call() that finds the actor not running.
LEMMA SendPlaces ==
    ASSUME TypeOK, DeliveryInv, NEW c \in Senders, Send(c)
    PROVE  Places'
<1>1. /\ SenderType /\ SenderInv(c)
      /\ \A m \in Msgs : MsgInv(m)
      /\ next[c] \in DOMAIN Script[c] /\ pc[c] = "idle"
  BY HasMsg DEF TypeOK, DeliveryInv, Send, MaySend
<1> DEFINE x == Msg(c)
<1>2. x \in Msgs /\ ~AcceptedOf(x)
  BY <1>1, MsgOf, Fresh
<1>3. CASE Running
  <2>1. /\ UNCHANGED <<kind, mailV, m_held, turn, handled, dead, promise>> /\ m_state' = m_state
        /\ Begins(c) /\ UNCHANGED selfs
    BY <1>1, <1>3 DEF Send, Begins, stash, deadV, stopV, turn
  <2>2. \A m \in Msgs : AcceptedOf(m)' <=> AcceptedOf(m)
    BY <1>1, <2>1, SenderAccepts
  <2>3. QED
    BY <2>1, <2>2, PlaceFrame
<1>4. CASE ~Running
  <2>1. /\ DeadLetters({x}) /\ Promise({x}, "broken")
        /\ UNCHANGED <<kind, stopV, mailV, m_held, m_dispatching, current, m_deferred, handled>>
        /\ Leave(c) /\ UNCHANGED <<refused, selfs>>
    BY <1>4 DEF Send, Drop, stash, turn
  <2>2. \A m \in Calls : promise'[m] = IF m = x THEN "broken" ELSE promise[m]
    BY <2>1 DEF Promise
  <2>3. \A m \in Msgs : AcceptedOf(m)' <=> AcceptedOf(m) \/ m = x
    BY <1>1, <2>1, LeaveAccepts
  <2> HIDE DEF x
  <2>4. QED
    BY <1>2, <2>1, <2>2, <2>3, RejectPlaces
<1>5. QED
  BY <1>3, <1>4

\* A handler of the inline actor sends to its own actor.
LEMMA SelfPlaces ==
    ASSUME TypeOK, DeliveryInv, NEW c \in Senders, InlineTellsItself(c)
    PROVE  Places'
<1>1. /\ SenderType /\ QueueType /\ TurnType /\ SenderInv(c) /\ OrderInv /\ ModeInv
      /\ \A m \in Msgs : MsgInv(m)
      /\ \A m \in Calls : PromiseInv(m)
      /\ pc[c] = "turn" /\ m_dispatching = c /\ c # NoSender /\ selfs < MaxSelf
      /\ selfs \in Nat
  BY DeliveryAssumption DEF TypeOK, DeliveryInv, InlineTellsItself, SenderInv, TurnType
<1> DEFINE x == <<NoSender, selfs + 1>>
<1>2. /\ x \in SelfMsg /\ x \in Msgs /\ x[1] = NoSender /\ x[2] = selfs + 1
      /\ ~AcceptedOf(x) /\ ~Waits(x) /\ x \notin handled /\ x \notin dead
  BY <1>1, FreshSelf
<1>3. /\ calls' = calls /\ others' = others /\ m_held' = m_held
      /\ current' = current /\ m_dispatching' = m_dispatching /\ handled' = handled
      /\ promise' = promise /\ kind' = kind /\ m_state' = m_state
      /\ UNCHANGED <<pc, next, refused, stopV, mailV>> /\ selfs' = selfs + 1
  BY DEF InlineTellsItself, mailV, stash, stopV
<1>4. \/ m_deferred' = Append(m_deferred, x) /\ dead' = dead
      \/ m_deferred' = m_deferred /\ DeadLetters({x})
  BY DEF InlineTellsItself, deadV
<1> HIDE DEF x
<1>5. ASSUME NEW m \in Msgs PROVE AcceptedOf(m)' <=> AcceptedOf(m) \/ m = x
  <2>1. CASE m \in SelfMsg
    <3>1. m = <<m[1], m[2]>> /\ m[1] = NoSender /\ m[2] \in Nat
      BY <2>1, SelfIs
    <3>2. m = x <=> m[2] = selfs + 1
      BY <1>2, <3>1 DEF x
    <3>3. QED
      BY <1>1, <1>3, <2>1, <3>1, <3>2 DEF AcceptedOf
  <2>2. CASE m \notin SelfMsg
    BY <1>2, <1>3, <2>2 DEF AcceptedOf
  <2>3. QED
    BY <2>1, <2>2
<1>6. CASE m_deferred' = Append(m_deferred, x) /\ dead' = dead
  <2>1. ASSUME NEW y \in SelfMsg, Waits(y) PROVE y[2] < x[2]
    <3>1. y \in Msgs /\ AcceptedOf(y) /\ y[2] \in Nat
      BY <1>1, <2>1, SelfIs DEF MsgInv, Msgs
    <3>2. QED
      BY <1>1, <1>2, <2>1, <3>1 DEF AcceptedOf
  <2>2. \A y \in InDeferred : y[1] = x[1] => y[2] < x[2]
    BY <1>1, <2>1, QueuesSent DEF Waits
  <2>3. InDeferred' = InDeferred \cup {x} /\ Ordered(m_deferred')
    BY <1>1, <1>2, <1>6, <2>2, AppendQueue, Primed DEF TurnType, OrderInv, InDeferred
  <2>4. /\ InCalls' = InCalls /\ InOthers' = InOthers /\ InHeld' = InHeld
    BY <1>3 DEF InCalls, InOthers, InHeld, ToSet
  <2>5. OrderInv'
    <3>1. ASSUME current' \in SelfMsg, NEW d \in InDeferred' PROVE current'[2] < d[2]
      BY <1>1, <1>3, <2>1, <2>3, <3>1 DEF OrderInv, Waits
    <3>2. QED
      BY <1>1, <1>3, <2>3, <2>4, <3>1, Primed DEF OrderInv
  <2>6. ASSUME NEW m \in Msgs PROVE MsgInv(m)'
    <3>1. MsgInv(m) /\ (AcceptedOf(m)' <=> AcceptedOf(m) \/ m = x)
      BY <1>1, <1>5
    <3>2. QED
      BY <1>1, <1>2, <1>3, <1>6, <2>3, <2>4, <3>1 DEF MsgInv, Exclusive, Waits
  <2>7. QED
    BY <1>1, <1>3, <1>6, <2>5, <2>6 DEF Places, PromiseInv
<1>7. CASE m_deferred' = m_deferred /\ DeadLetters({x})
  <2>1. \A m \in Calls : promise'[m] = IF m = x THEN "broken" ELSE promise[m]
    BY <1>2, <1>3, Apart
  <2>2. UNCHANGED <<kind, stopV, mailV, m_held, m_dispatching, current, m_deferred, handled>>
    BY <1>3, <1>7
  <2>3. QED
    BY <1>2, <1>5, <1>7, <2>1, <2>2, RejectPlaces
<1>8. QED
  BY <1>4, <1>6, <1>7

\* A handler of the inline actor ends: the next deferred message, or nothing more.
LEMMA TurnPlaces ==
    ASSUME TypeOK, DeliveryInv, NEW c \in Senders, InlineReturns(c) \/ InlineThrows(c)
    PROVE  Places'
<1>1. /\ SenderType /\ QueueType /\ TurnType /\ SenderInv(c) /\ OrderInv /\ ModeInv
      /\ \A m \in Msgs : MsgInv(m)
      /\ \A m \in Calls : PromiseInv(m)
      /\ pc[c] = "turn" /\ m_dispatching = c /\ c # NoSender
      /\ next[c] \in DOMAIN Script[c]
  BY DeliveryAssumption DEF TypeOK, DeliveryInv, InlineReturns, InlineThrows, SenderInv
<1>2. current \in Msgs /\ current # NoMsg /\ kind = "inline" /\ m_state # "stopped"
  BY <1>1, Apart DEF ModeInv
<1>3. /\ calls' = calls /\ others' = others /\ m_held' = m_held
      /\ handled' = handled \cup {current} /\ kind' = kind /\ m_state' = m_state
      /\ UNCHANGED <<refused, selfs>>
  BY DEF InlineReturns, InlineThrows, InlineHandled, mailV, stash, stopV
<1>4. /\ InCalls' = InCalls /\ InOthers' = InOthers /\ InHeld' = InHeld
  BY <1>3 DEF InCalls, InOthers, InHeld, ToSet
<1>5. \/ TurnGoesOn(c, m_deferred) /\ m_deferred # <<>> /\ dead' = dead
      \/ TurnGoesOn(c, <<>>) /\ dead' = dead /\ m_deferred = <<>>
      \/ TurnGoesOn(c, <<>>) /\ dead' = dead \cup InDeferred
  BY DEF InlineReturns, InlineThrows, deadV, DeadLetters, InDeferred
<1>6. ASSUME NEW m \in Msgs PROVE AcceptedOf(m)' <=> AcceptedOf(m)
  <2>1. Msg(c) \in Msgs /\ AcceptedOf(Msg(c))
    BY <1>1, MsgOf, Apart DEF AcceptedOf
  <2>2. UNCHANGED <<pc, next>> \/ Leave(c)
    BY <1>5 DEF TurnGoesOn
  <2>3. CASE UNCHANGED <<pc, next>>
    BY <1>3, <2>3, AcceptFrame
  <2>4. CASE Leave(c)
    BY <1>1, <1>3, <2>1, <2>4, LeaveAccepts
  <2>5. QED
    BY <2>2, <2>3, <2>4
<1>7. ASSUME NEW m \in Calls PROVE PromiseInv(m)'
  <2>1. MsgInv(m) /\ PromiseInv(m) /\ m \in Msgs /\ m \notin InDeferred
    BY <1>1, Apart, QueuesSent
  <2>2. m \in dead' <=> m \in dead
    BY <1>5, <2>1
  <2>3. IF m = current THEN promise'[m] \in {"value", "error"} ELSE promise'[m] = promise[m]
    BY DEF InlineReturns, InlineThrows, Promise
  <2>4. m = current => m \notin handled /\ m \notin dead
    BY <2>1 DEF MsgInv, Exclusive, Waits
  <2>5. QED
    BY <1>3, <2>1, <2>2, <2>3, <2>4 DEF PromiseInv
<1>8. CASE TurnGoesOn(c, m_deferred) /\ m_deferred # <<>> /\ dead' = dead
  <2> DEFINE x == Head(m_deferred)
  <2>1. current' = x /\ m_deferred' = Tail(m_deferred) /\ m_dispatching' = m_dispatching
    BY <1>8 DEF TurnGoesOn
  <2>2. /\ x \in InDeferred /\ x \in SelfMsg /\ InDeferred' = InDeferred \ {x} /\ Ordered(m_deferred')
        /\ \A y \in InDeferred' : y[1] = x[1] => x[2] < y[2]
    BY <1>1, <1>8, <2>1, TailQueue, Apart, Primed DEF TurnType, OrderInv, InDeferred
  <2> HIDE DEF x
  <2>3. \A y \in InDeferred' : x[2] < y[2]
    BY <1>1, <2>2, QueuesSent, SelfIs
  <2>4. OrderInv'
    BY <1>1, <1>3, <1>4, <2>1, <2>2, <2>3, Primed DEF OrderInv
  <2>5. x \in Msgs /\ x # current /\ x \notin handled /\ x \notin dead
    BY <1>1, <2>2, QueuesSent DEF MsgInv, Exclusive, Waits
  <2>6. ASSUME NEW m \in Msgs PROVE MsgInv(m)'
    <3>1. MsgInv(m) /\ (AcceptedOf(m)' <=> AcceptedOf(m))
      BY <1>1, <1>6
    <3>2. QED
      BY <1>1, <1>2, <1>3, <1>4, <1>8, <2>1, <2>2, <2>5, <3>1 DEF MsgInv, Exclusive, Waits
  <2>7. QED
    BY <1>7, <2>4, <2>6 DEF Places
<1>9. CASE TurnGoesOn(c, <<>>) /\ dead' = dead \cup InDeferred
  <2>1. current' = NoMsg /\ m_deferred' = <<>> /\ m_dispatching' = NoSender
    BY <1>9 DEF TurnGoesOn, NoMsg
  <2>2. Ordered(m_deferred') /\ \A m : m \notin InDeferred'
    BY <2>1, EmptyQueue, Primed
  <2>3. OrderInv'
    BY <1>1, <1>3, <1>4, <2>1, <2>2, Primed, Apart DEF OrderInv, Msgs
  <2>4. ASSUME NEW m \in Msgs PROVE MsgInv(m)'
    <3>1. MsgInv(m) /\ (AcceptedOf(m)' <=> AcceptedOf(m)) /\ m # current'
      BY <1>1, <1>6, <2>1, Apart
    <3>2. QED
      BY <1>1, <1>2, <1>3, <1>4, <1>9, <2>1, <2>2, <3>1 DEF MsgInv, Exclusive, Waits
  <2>5. QED
    BY <1>7, <2>3, <2>4 DEF Places
<1>10. CASE TurnGoesOn(c, <<>>) /\ dead' = dead /\ m_deferred = <<>>
  <2>1. InDeferred = {}
    BY <1>10, EmptyQueue DEF InDeferred
  <2>2. QED
    BY <1>9, <1>10, <2>1
<1>11. QED
  BY <1>5, <1>8, <1>9, <1>10

\* Every step keeps order, places and promises.
LEMMA PlaceStep == TypeOK /\ DeliveryInv /\ [Next]_vars => Places'
<1> SUFFICES ASSUME TypeOK, DeliveryInv, [Next]_vars PROVE Places'
  OBVIOUS
<1>1. SenderType /\ \A c \in Senders : SenderInv(c)
  BY DEF TypeOK, DeliveryInv
<1>2. ASSUME UNCHANGED <<kind, mailV, m_held, turn, handled, dead, promise>>,
             UNCHANGED <<pc, next, refused>>, m_state' = "stopped" => m_state = "stopped"
      PROVE  Places'
  <2>1. \A m \in Msgs : AcceptedOf(m)' <=> AcceptedOf(m)
    BY <1>2, AcceptFrame DEF turn
  <2>2. QED
    BY <1>2, <2>1, PlaceFrame
<1>3. CASE ProcessNext \/ FillDone
  BY <1>2, <1>3 DEF ProcessNext, FillDone, stopV, stash, deadV
<1>4. CASE InlineStop
  <2>1. /\ \A m \in Msgs : MsgInv(m) /\ (AcceptedOf(m)' <=> AcceptedOf(m))
        /\ \A m \in Calls : PromiseInv(m)
        /\ OrderInv
    BY <1>4, AcceptFrame DEF InlineStop, turn, DeliveryInv
  <2>2. /\ calls' = calls /\ others' = others /\ m_held' = m_held /\ m_deferred' = m_deferred
        /\ current' = current /\ m_dispatching' = m_dispatching /\ handled' = handled /\ dead' = dead
        /\ promise' = promise /\ kind' = kind /\ kind = "inline"
    BY <1>4 DEF InlineStop, mailV, stash, turn, deadV
  <2>3. /\ InCalls' = InCalls /\ InOthers' = InOthers /\ InHeld' = InHeld /\ InDeferred' = InDeferred
    BY <2>2 DEF InCalls, InOthers, InHeld, InDeferred, ToSet
  <2>4. OrderInv'
    BY <2>1, <2>2, <2>3, Primed DEF OrderInv
  <2>5. ASSUME NEW m \in Msgs PROVE MsgInv(m)'
    <3>1. MsgInv(m) /\ (AcceptedOf(m)' <=> AcceptedOf(m))
      BY <2>1
    <3>2. QED
      BY <2>2, <2>3, <3>1 DEF MsgInv, Exclusive, Waits
  <2>6. QED
    BY <2>1, <2>2, <2>4, <2>5 DEF Places, PromiseInv
<1>5. CASE FillCall \/ FillHeld \/ RunHeld \/ StopDiscards \/ StopFinish
  BY <1>5, FillCallPlaces, FillHeldPlaces, RunHeldPlaces, DiscardPlaces
<1>6. ASSUME NEW c \in Senders,
             \/ Push(c) \/ Lock(c) \/ Send(c) \/ InlineTellsItself(c) \/ InlineReturns(c) \/ InlineThrows(c)
      PROVE  Places'
  BY <1>6, PushPlaces, LockPlaces, SendPlaces, SelfPlaces, TurnPlaces
<1>7. ASSUME NEW c \in Senders, CallReturns(c) \/ CallTimesOut(c) \/ CallRefused(c) PROVE Places'
  <2>1. UNCHANGED <<kind, mailV, m_held, turn, handled, dead, promise>> /\ m_state' = m_state
    BY <1>7 DEF CallReturns, CallTimesOut, CallRefused, stash, deadV, stopV
  <2>2. next[c] \in DOMAIN Script[c] /\ UNCHANGED selfs /\ (Resumes(c) \/ Refuses(c))
    BY <1>1, <1>7, HasMsg DEF CallReturns, CallTimesOut, CallRefused, MaySend, SenderInv, Resumes, Refuses, turn
  <2>3. \A m \in Msgs : AcceptedOf(m)' <=> AcceptedOf(m)
    BY <1>1, <2>2, SenderAccepts
  <2>4. QED
    BY <2>1, <2>3, PlaceFrame
<1>8. ASSUME NEW d \in BOOLEAN, StopActor(d) PROVE Places'
  BY <1>2, <1>8 DEF StopActor, stash, deadV
<1>9. CASE UNCHANGED vars
  BY <1>2, <1>9 DEF vars, stopV, stash, deadV
<1>10. CASE Ending
  BY <1>2, <1>10 DEF Ending, SystemShutdown, WorkersExit, MarkStopped, stash, deadV
<1>11. QED
  BY <1>3, <1>4, <1>5, <1>6, <1>7, <1>8, <1>9, <1>10 DEF Next, Owner, Inside

\* The invariant holds at the start.
LEMMA DeliveryInit == Init => TypeOK /\ DeliveryInv /\ CountInv
<1> SUFFICES ASSUME Init PROVE TypeOK /\ DeliveryInv /\ CountInv
  OBVIOUS
<1>1. \A S : <<>> \in Seq(S)
  OBVIOUS
<1>2. StopType
  BY DEF Init, StopType
<1>3. SenderType
  BY DEF Init, SenderType
<1>4. QueueType
  <2>1. calls \in Seq(Calls) /\ others \in Seq(Sent \ Calls) /\ m_held \in Seq(Sent \ Calls)
    BY <1>1 DEF Init
  <2>2. QED
    BY <2>1 DEF Init, QueueType
<1>5. TurnType
  <2>1. m_deferred \in Seq(SelfMsg)
    BY <1>1 DEF Init
  <2>2. QED
    BY <2>1, DeliveryAssumption DEF Init, TurnType
<1>6. FateType
  BY DEF Init, FateType
<1>7. CountInv
  BY FS_EmptySet DEF Init, CountInv
<1>8. ASSUME NEW c \in Senders PROVE SenderInv(c)
  BY DeliveryAssumption DEF Init, SenderInv
<1>9. ModeInv
  BY DEF Init, ModeInv, NoMsg
<1>10. /\ InCalls = {} /\ InOthers = {} /\ InHeld = {} /\ InDeferred = {}
       /\ Ordered(calls) /\ Ordered(others) /\ Ordered(m_held) /\ Ordered(m_deferred)
  BY EmptyQueue DEF Init, InCalls, InOthers, InHeld, InDeferred
<1>11. OrderInv
  BY <1>10 DEF OrderInv
<1>12. ASSUME NEW m \in Msgs PROVE MsgInv(m)
  <2>1. m # current
    BY Apart DEF Init, NoMsg
  <2>2. ~AcceptedOf(m)
    <3>1. CASE m \in SelfMsg
      BY <3>1, SelfIs DEF Init, AcceptedOf
    <3>2. CASE m \in Sent /\ m \notin SelfMsg
      <4>1. m[1] \in Senders /\ m[2] \in Nat \ {0}
        BY <3>2, SentMsg
      <4>2. next[m[1]] = 1 /\ pc[m[1]] = "idle"
        BY <4>1 DEF Init
      <4>3. QED
        BY <3>2, <4>1, <4>2 DEF AcceptedOf
    <3>3. QED
      BY <3>1, <3>2 DEF Msgs
  <2>3. m \notin handled /\ m \notin dead
    BY DEF Init
  <2>4. QED
    BY <1>10, <2>1, <2>2, <2>3 DEF MsgInv, Exclusive, Waits
<1>13. ASSUME NEW m \in Calls PROVE PromiseInv(m)
  BY DEF Init, PromiseInv
<1>14. QED
  BY <1>2, <1>3, <1>4, <1>5, <1>6, <1>7, <1>8, <1>9, <1>11, <1>12, <1>13 DEF TypeOK, DeliveryInv

\* The inductive invariant holds throughout.
LEMMA DeliveryInvariant == Spec => [](TypeOK /\ DeliveryInv /\ CountInv)
<1>1. TypeOK /\ DeliveryInv /\ CountInv /\ [Next]_vars => (TypeOK /\ DeliveryInv /\ CountInv)'
  <2> SUFFICES ASSUME TypeOK, DeliveryInv, CountInv, [Next]_vars
               PROVE  (TypeOK /\ DeliveryInv /\ CountInv)'
    OBVIOUS
  <2>1. StopType /\ OrderInv /\ \A c \in Senders : SenderInv(c)
    BY DEF TypeOK, DeliveryInv
  <2>2. StopType' /\ SenderType' /\ QueueType' /\ TurnType'
    BY <2>1, StopTypeStep, SenderTypeStep, QueueTypeStep, TurnTypeStep
  <2>3. FateType' /\ CountInv'
    BY FateStep
  <2>4. (\A c \in Senders : SenderInv(c))' /\ ModeInv' /\ Places'
    BY SenderStep, ModeStep, PlaceStep
  <2>5. QED
    BY <2>2, <2>3, <2>4 DEF TypeOK, DeliveryInv, Places
<1>2. QED
  BY <1>1, DeliveryInit, PTL DEF Spec

-----------------------------------------------------------------------------
\* Type correctness, for any scripts, filters and kinds of actor.
THEOREM TypeCorrect == Spec => []TypeOK
BY DeliveryInvariant, PTL

\* Every message and call is in one place from the moment it is accepted until it
\* is handled or a counted dead letter, and a promise ends as its request does:
\* through stash, deferral, exceptions and stops, nothing is lost or done twice.
THEOREM EverythingPlaced == Spec => []OnePlace
<1>1. TypeOK /\ DeliveryInv /\ CountInv => OnePlace
  <2> SUFFICES ASSUME TypeOK, DeliveryInv, CountInv PROVE OnePlace
    OBVIOUS
  <2>1. /\ QueueType /\ TurnType /\ FateType /\ SenderType /\ ModeInv
        /\ \A m \in Msgs : MsgInv(m)
        /\ \A m \in Calls : PromiseInv(m)
    BY DEF TypeOK, DeliveryInv
  <2> DEFINE inHand == {current} \ {<<NoSender, 0>>}
             places == <<ToSet(calls), ToSet(others), ToSet(m_held), ToSet(m_deferred),
                         inHand, handled, dead>>
  <2>2. /\ InCalls = ToSet(calls) /\ InOthers = ToSet(others) /\ InHeld = ToSet(m_held)
        /\ InDeferred = ToSet(m_deferred)
    BY DEF InCalls, InOthers, InHeld, InDeferred
  <2>3. \A m \in inHand : m \in Msgs /\ m = current
    BY <2>1 DEF TurnType
  <2>4. /\ \A m \in Msgs : m \in inHand <=> m = current
        /\ \A m \in InCalls \cup InOthers \cup InHeld \cup InDeferred \cup inHand \cup handled \cup dead :
                m \in Msgs
    BY <2>1, <2>3, QueuesSent, Apart DEF FateType, NoMsg
  <2> HIDE DEF inHand
  <2>5. ASSUME NEW m \in Msgs
        PROVE  /\ ~(m \in InCalls /\ (m \in InOthers \/ m \in InHeld \/ m \in InDeferred \/ m \in inHand))
               /\ ~(m \in InOthers /\ (m \in InHeld \/ m \in InDeferred \/ m \in inHand))
               /\ ~(m \in InHeld /\ (m \in InDeferred \/ m \in inHand))
               /\ ~(m \in InDeferred /\ m \in inHand)
               /\ Waits(m) => m \notin handled /\ m \notin dead
               /\ ~(m \in handled /\ m \in dead)
    <3>1. MsgInv(m) /\ (m \in inHand <=> m = current)
      BY <2>1, <2>4
    <3>2. m = current => kind = "inline"
      BY <2>1, Apart DEF ModeInv
    <3>3. /\ ~(m \in InCalls /\ (m \in InOthers \/ m \in InHeld \/ m \in InDeferred))
          /\ ~(m \in InOthers /\ m \in InDeferred)
          /\ ~(m \in InHeld /\ m \in InDeferred)
      BY <2>1, QueuesSent, Apart
    <3>4. QED
      BY <3>1, <3>2, <3>3 DEF MsgInv, Exclusive, Waits
  <2>6. \A i, j \in DOMAIN places : i # j => places[i] \cap places[j] = {}
    <3>1. \A i, j \in 1..7 : i # j => places[i] \cap places[j] = {}
      BY <2>2, <2>4, <2>5 DEF Waits
    <3>2. QED
      BY <3>1
  <2>7. ASSUME NEW m \in Msgs PROVE m \in Accepted <=> AcceptedOf(m)
    BY Apart DEF Accepted, AcceptedOf, Msgs
  <2>8. Accepted \subseteq Msgs
    BY DEF Accepted, Msgs
  <2>9. UNION {places[i] : i \in DOMAIN places} = Accepted
    <3>1. UNION {places[i] : i \in DOMAIN places} =
              InCalls \cup InOthers \cup InHeld \cup InDeferred \cup inHand \cup handled \cup dead
      BY <2>2
    <3>2. ASSUME NEW m \in Msgs
          PROVE  m \in Accepted <=>
                 m \in InCalls \cup InOthers \cup InHeld \cup InDeferred \cup inHand \cup handled \cup dead
      BY <2>1, <2>4, <2>7 DEF MsgInv, Waits
    <3>3. QED
      BY <2>4, <2>8, <3>1, <3>2
  <2>10. m_state = "stopped" => Accepted \subseteq handled \cup dead
    <3>1. ASSUME m_state = "stopped", NEW m \in Accepted PROVE m \in handled \cup dead
      <4>1. m \in Msgs /\ MsgInv(m) /\ AcceptedOf(m) /\ m # current
        BY <2>1, <2>7, <2>8, <3>1, Apart DEF ModeInv
      <4>2. m_dispatching = NoSender
        BY <2>1, <3>1 DEF ModeInv
      <4>3. QED
        BY <3>1, <4>1, <4>2 DEF MsgInv, Waits
    <3>2. QED
      BY <3>1
  <2>11. QED
    BY <2>1, <2>6, <2>9, <2>10 DEF OnePlace, CountInv, PromiseInv, inHand
<1>2. QED
  BY <1>1, DeliveryInvariant, PTL

\* No handler starts on whatever thread once the actor is stopped; after the end of
\* the system, only those of an inline actor's turn that was under way.
THEOREM NoHandlerAfterStop == Spec => NoneAfterStop
<1> DEFINE Open == m_state # "stopped" /\ (m_state = "ended" => m_dispatching # NoSender)
<1>1. TypeOK /\ DeliveryInv /\ [Next]_vars => [handled' # handled => Open]_vars
  <2> SUFFICES ASSUME TypeOK, DeliveryInv, Next, handled' # handled PROVE Open
    OBVIOUS
  <2>1. ModeInv /\ (\A c \in Senders : SenderInv(c)) /\ NoSender \notin Senders
    BY DeliveryAssumption DEF DeliveryInv
  <2>2. CASE Owner
    BY <2>1, <2>2 DEF Owner, ProcessNext, FillCall, FillHeld, FillDone, RunHeld, StopDiscards, StopFinish,
       InlineStop, ModeInv
  <2>3. ASSUME NEW c \in Senders, Inside(c) PROVE Open
    <3>1. pc[c] = "turn" => Open
      BY <2>1 DEF SenderInv, ModeInv
    <3>2. QED
      BY <2>3, <3>1 DEF Inside, Push, CallReturns, Lock, InlineReturns, InlineThrows
  <2>4. QED
    BY <2>2, <2>3 DEF Next, Send, CallRefused, CallTimesOut, InlineTellsItself, StopActor, Ending,
       SystemShutdown, WorkersExit, MarkStopped
<1>2. QED
  BY <1>1, DeliveryInvariant, PTL DEF Spec, NoneAfterStop

\* What one step hands to a handler, and that nothing older of the same type and
\* sender waits anywhere.
Oldest(m) == \A e \in Msgs : Waits(e) /\ e[1] = m[1] /\ e[2] < m[2] => TypeOf(e) # TypeOf(m)

\* A handler gets the oldest message of its type and sender.
LEMMA HandledOldest ==
    ASSUME TypeOK, DeliveryInv, Next, NEW m \in handled' \ handled
    PROVE  Oldest(m)
<1>1. /\ SenderType /\ QueueType /\ TurnType /\ OrderInv /\ ModeInv
      /\ \A c \in Senders : SenderInv(c)
      /\ \A x \in Msgs : MsgInv(x)
  BY DEF TypeOK, DeliveryInv
<1>2. \A x \in Msgs : x = current => kind = "inline"
  BY <1>1, Apart DEF ModeInv
<1>3. CASE FillCall
  <2>1. m = Head(calls) /\ calls # <<>> /\ kind = "stateful"
    BY <1>1, <1>3 DEF FillCall, ModeInv
  <2>2. /\ m \in InCalls
        /\ \A x \in InCalls : x # m /\ x[1] = m[1] => m[2] < x[2]
    BY <1>1, <2>1, TailQueue, Apart DEF QueueType, OrderInv, InCalls
  <2>3. m \in Sent /\ m[2] \in Nat /\ m[1] # NoSender /\ IsCall(m)
    BY <1>1, <2>2, QueuesSent, SentMsg, Apart
  <2>4. ASSUME NEW e \in Msgs, Waits(e), e[1] = m[1], e[2] < m[2], TypeOf(e) = TypeOf(m) PROVE FALSE
    <3>1. e \in InCalls
      <4>1. e # current /\ e \notin InDeferred
        BY <1>1, <1>2, <2>1, <2>3, <2>4, QueuesSent, SelfIs
      <4>2. IsCall(e)
        BY <2>3, <2>4 DEF IsCall
      <4>3. QED
        BY <1>1, <2>4, <4>1, <4>2, QueuesSent, Apart DEF Waits
    <3>2. e[2] \in Nat /\ e # m
      BY <1>1, <2>3, <2>4, <3>1, QueuesSent, SentMsg
    <3>3. QED
      BY <2>2, <2>3, <2>4, <3>1, <3>2
  <2>5. QED
    BY <2>4 DEF Oldest
<1>4. CASE RunHeld
  <2>1. m = m_held[Pick] /\ AcceptedAt # {} /\ kind = "stateful"
    BY <1>1, <1>4 DEF RunHeld, ModeInv
  <2>2. /\ Pick \in DOMAIN m_held /\ Pick \in AcceptedAt /\ Pick \in Nat
        /\ \A j \in AcceptedAt : Pick <= j
    BY <1>1, <2>1, PickIs DEF QueueType
  <2>3. m \in InHeld /\ Accepts(m_accept_all, m_accepted, m)
    BY <2>1, <2>2 DEF InHeld, ToSet, AcceptedAt
  <2>4. m \in Sent \ Calls /\ m[2] \in Nat /\ m[1] # NoSender /\ ~IsCall(m)
    BY <1>1, <2>3, QueuesSent, SentMsg, Apart
  <2>5. ASSUME NEW e \in Msgs, Waits(e), e[1] = m[1], e[2] < m[2], TypeOf(e) = TypeOf(m) PROVE FALSE
    <3>1. e # current /\ e \notin InDeferred
      BY <1>1, <1>2, <2>1, <2>4, <2>5, QueuesSent, SelfIs
    <3>2. e \notin InCalls
      BY <1>1, <2>4, <2>5, QueuesSent, Apart DEF IsCall
    <3>3. e \notin InOthers
      <4>1. e \in InOthers => m[2] < e[2] /\ e[2] \in Nat
        BY <1>1, <2>3, <2>5, QueuesSent, SentMsg DEF OrderInv
      <4>2. QED
        BY <2>4, <2>5, <4>1
    <3>4. PICK j \in DOMAIN m_held : m_held[j] = e
      BY <2>5, <3>1, <3>2, <3>3 DEF Waits, InHeld, ToSet
    <3>5. e[2] \in Nat /\ j \in Nat
      BY <1>1, <3>4, SentMsg DEF QueueType
    <3>6. j \in AcceptedAt
      BY <2>3, <2>5, <3>4 DEF AcceptedAt, Accepts
    <3>7. Pick < j
      <4>1. Pick # j
        BY <2>1, <2>4, <2>5, <3>4, <3>5
      <4>2. QED
        BY <2>2, <3>5, <3>6, <4>1
    <3>8. m[2] < e[2]
      BY <1>1, <2>1, <2>2, <2>5, <3>4, <3>7 DEF OrderInv, Ordered
    <3>9. QED
      BY <2>4, <2>5, <3>5, <3>8
  <2>6. QED
    BY <2>5 DEF Oldest
<1>5. ASSUME NEW c \in Senders, InlineReturns(c) \/ InlineThrows(c) PROVE Oldest(m)
  <2>1. m = current
    BY <1>5 DEF InlineReturns, InlineThrows, InlineHandled
  <2>2. kind = "inline" /\ m \in Msgs
    BY <1>1, <1>5, <2>1, DeliveryAssumption DEF InlineReturns, InlineThrows, SenderInv, ModeInv
  <2>3. ASSUME NEW e \in Msgs, Waits(e), e[1] = m[1], e[2] < m[2] PROVE FALSE
    <3>1. e[2] \in Nat /\ m[2] \in Nat
      BY <2>2, SentMsg, SelfIs DEF Msgs
    <3>2. e # m
      BY <2>3, <3>1
    <3>3. e \in InDeferred
      BY <1>1, <2>1, <2>2, <2>3, <3>2 DEF Waits, MsgInv
    <3>4. e \in SelfMsg /\ e[1] = NoSender
      BY <1>1, <3>3, QueuesSent, SelfIs
    <3>5. m \in SelfMsg
      BY <2>2, <2>3, <3>4, SentMsg DEF Msgs
    <3>6. QED
      BY <1>1, <2>1, <2>3, <3>1, <3>3, <3>5 DEF OrderInv
  <2>4. QED
    BY <2>3 DEF Oldest
<1>6. handled' # handled
  OBVIOUS
<1>7. QED
  BY <1>3, <1>4, <1>5, <1>6
     DEF Next, Owner, Inside, ProcessNext, FillHeld, FillDone, StopDiscards, StopFinish, InlineStop,
         Push, CallReturns, Lock, Send, CallRefused, CallTimesOut, InlineTellsItself, StopActor,
         Ending, SystemShutdown, WorkersExit, MarkStopped

\* Messages of one type from one sender, and the calls of one sender, are handled in
\* the order they were sent, whatever the filter held back and released meanwhile.
THEOREM OrderKept == Spec => SenderOrder
<1>1. ASSUME TypeOK, DeliveryInv, Next,
             NEW m \in handled' \ handled, NEW e \in Accepted,
             e[1] = m[1], e[2] < m[2], TypeOf(e) = TypeOf(m)
      PROVE  e \in handled \cup dead
  <2>1. e \in Msgs /\ AcceptedOf(e)
    BY Apart DEF Accepted, AcceptedOf, Msgs
  <2>2. ~Waits(e)
    BY <1>1, <2>1, HandledOldest DEF Oldest
  <2>3. QED
    BY <1>1, <2>1, <2>2 DEF DeliveryInv, MsgInv
<1>2. TypeOK /\ DeliveryInv /\ [Next]_vars =>
          [\A m \in handled' \ handled, e \in Accepted :
               e[1] = m[1] /\ e[2] < m[2] /\ TypeOf(e) = TypeOf(m) => e \in handled \cup dead]_vars
  BY <1>1
<1>3. QED
  BY <1>2, DeliveryInvariant, PTL DEF Spec, SenderOrder

=============================================================================
