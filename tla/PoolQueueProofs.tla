-------------------------- MODULE PoolQueueProofs --------------------------
(***************************************************************************)
(* Two shared structures that every thread of the system uses.             *)
(*                                                                         *)
(* The ready queue, for any set of actors and of pushing threads: its      *)
(* links make up four lists, an actor holds a reference to itself exactly  *)
(* while it is pushed or on one of them, and the four read one after the   *)
(* other are the FIFO of module ReadyFifo.                                 *)
(*                                                                         *)
(* The message pool, for any number of threads and blocks and any sizes    *)
(* and limits: no block has two holders or none, the count covers the      *)
(* shared list, the list keeps within the limit and a cache within its     *)
(* array.                                                                  *)
(***************************************************************************)
EXTENDS ReadyQueue, MessagePool, FiniteSetTheorems, WellFoundedInduction,
        SequenceTheorems, TLAPS

-----------------------------------------------------------------------------
(* The ready queue *)

\* s is the list that starts at a: every entry links to the next, the last to
\* nullptr, and no actor is on it twice.
Path(s, nx, a) ==
    /\ s \in Seq(Actors)
    /\ IsInjective(s)
    /\ a = IF Len(s) = 0 THEN NoActor ELSE s[1]
    /\ \A i \in 1..Len(s) : nx[s[i]] = IF i = Len(s) THEN NoActor ELSE s[i + 1]

\* The last entry of a list.
EndOf(s) == IF Len(s) = 0 THEN NoActor ELSE s[Len(s)]

\* The four lists: the worker's cache c, the fetched list n still to be reversed,
\* its reversed part f, and the stack t.
Listed(c, n, f, t) ==
    /\ Path(c, m_ready_next, m_head)
    /\ Path(n, m_ready_next, node)
    /\ Path(f, m_ready_next, first)
    /\ Path(t, m_ready_next, m_stack)

\* They share no actor.
Disjoint(c, n, f, t) ==
    /\ ToSet(c) \cap (ToSet(n) \cup ToSet(f) \cup ToSet(t)) = {}
    /\ ToSet(n) \cap (ToSet(f) \cup ToSet(t)) = {}
    /\ ToSet(f) \cap ToSet(t) = {}

\* The actors on them and the actors being pushed are those that hold themselves.
Holds(c, n, f, t) ==
    /\ m_ready_self = Pushing \cup ToSet(c) \cup ToSet(n) \cup ToSet(f) \cup ToSet(t)
    /\ Pushing \cap (ToSet(c) \cup ToSet(n) \cup ToSet(f) \cup ToSet(t)) = {}

\* The ends of the cache and of the list being reversed.
Ends(c, n, f) ==
    /\ m_tail = EndOf(c)
    /\ worker = "fetch" => last = IF first = NoActor THEN node ELSE EndOf(f)

\* Two threads push two actors, and a thread about to CAS has linked its own to
\* the word it expects.
PushApart ==
    /\ \A p, q \in Pushers : pc[p] # "ready" /\ pc[q] # "ready" /\ item[p] = item[q] => p = q
    /\ \A p \in Pushers : pc[p] = "cas" => m_ready_next[item[p]] = head[p]

\* A list is being reversed only inside fetch_more(), which starts with an empty
\* cache.
WorkerShape ==
    /\ worker # "fetch" => node = NoActor /\ first = NoActor
    /\ worker = "fetch" => m_head = NoActor /\ (node # NoActor \/ first # NoActor)

\* What does not depend on the lists.
Shape == TypeOK /\ PushApart /\ WorkerShape

\* What ties the state to the lists.
Lists(c, n, f, t) ==
    /\ Listed(c, n, f, t)
    /\ Disjoint(c, n, f, t)
    /\ Holds(c, n, f, t)
    /\ Ends(c, n, f)

\* The inductive invariant: the pointers make up four lists.
QueueInv == Shape /\ \E c, n, f, t : Lists(c, n, f, t)

\* A set of numbers that is not empty has a least element.
LEMMA LeastOf ==
    ASSUME NEW R, IsWellFoundedOn(R, Nat), NEW T, T \subseteq Nat, T # {}
    PROVE  (\A x, y \in Nat : x < y => <<x, y>> \in R) => \E x \in T : \A y \in T : x <= y
<1>1. PICK x \in T : \A y \in T : ~(<<y, x>> \in R)
  BY WFMin, Zenon
<1>2. HAVE \A z, y \in Nat : z < y => <<z, y>> \in R
<1>3. ASSUME NEW y \in T PROVE x <= y
  <2>1. x \in Nat /\ y \in Nat /\ ~(<<y, x>> \in R)
    BY <1>1
  <2>2. ~(y < x)
    BY <1>2, <2>1
  <2>3. QED
    BY <2>1, <2>2
<1>4. QED
  BY <1>3

\* The same, without naming the well-founded relation.
LEMMA Least ==
    ASSUME NEW T, T \subseteq Nat, T # {}
    PROVE  \E x \in T : \A y \in T : x <= y
<1>1. \A x, y \in Nat : x < y => <<x, y>> \in OpToRel(<, Nat)
  BY Zenon DEF OpToRel
<1>2. QED
  BY <1>1, NatLessThanWellFounded, LeastOf, Zenon

\* Induction: a set with 0 in it that is closed under the successor has every
\* number in it.
LEMMA NatSetInduction ==
    ASSUME NEW T, 0 \in T, \A n \in Nat : n \in T => n + 1 \in T
    PROVE  Nat \subseteq T
<1> SUFFICES ASSUME Nat \ T # {} PROVE FALSE
  OBVIOUS
<1>1. PICK x \in Nat \ T : \A y \in Nat \ T : x <= y
  BY Least
<1>2. x # 0 /\ x - 1 \in Nat
  BY <1>1
<1>3. x - 1 \in T
  BY <1>1, <1>2
<1>4. (x - 1) + 1 \in T
  BY <1>2, <1>3
<1>5. QED
  BY <1>1, <1>4

\* The list operations, as relations.
IsEmpty(e) == e = <<>>
Longer(u, s, x) == u = Append(s, x)
Joined(w, s, v) == w = s \o v
Led(u, x, s) == u = <<x>> \o s

\* An entry put in front makes a longer list.
LEMMA LedType ==
    ASSUME NEW S, NEW s \in Seq(S), NEW x \in S, NEW u, Led(u, x, s)
    PROVE  u \in Seq(S) /\ Len(u) = Len(s) + 1 /\ ~IsEmpty(u)
BY DEF Led, IsEmpty

\* ... of the same entries and that one.
LEMMA LedSet ==
    ASSUME NEW S, NEW s \in Seq(S), NEW x \in S, NEW u, Led(u, x, s)
    PROVE  ToSet(u) = {x} \cup ToSet(s)
<1>1. u = <<x>> \o s /\ Len(s) \in Nat
  BY DEF Led
<1>2. DOMAIN u = 1..(Len(s) + 1) /\ DOMAIN s = 1..Len(s)
  BY <1>1
<1>3. u[1] = x /\ 1 \in 1..(Len(s) + 1)
  BY <1>1
<1>4. \A i \in 1..Len(s) : u[i + 1] = s[i] /\ i + 1 \in 1..(Len(s) + 1)
  BY <1>1
<1>5. \A i \in 1..(Len(s) + 1) : i = 1 \/ (i - 1 \in 1..Len(s) /\ (i - 1) + 1 = i)
  BY <1>1
<1>6. ASSUME NEW y \in ToSet(u) PROVE y = x \/ y \in ToSet(s)
  <2>1. PICK i \in 1..(Len(s) + 1) : y = u[i]
    BY <1>2 DEF ToSet
  <2>2. CASE i = 1
    BY <1>3, <2>1, <2>2
  <2>3. CASE i - 1 \in 1..Len(s) /\ (i - 1) + 1 = i
    <3>1. y = s[i - 1]
      BY <1>4, <2>1, <2>3
    <3>2. QED
      BY <1>2, <2>3, <3>1 DEF ToSet
  <2>4. QED
    BY <1>5, <2>2, <2>3
<1>7. ASSUME NEW y \in ToSet(s) PROVE y \in ToSet(u)
  <2>1. PICK i \in 1..Len(s) : y = s[i]
    BY <1>2 DEF ToSet
  <2>2. y = u[i + 1] /\ i + 1 \in DOMAIN u
    BY <1>2, <1>4, <2>1
  <2>3. QED
    BY <2>2 DEF ToSet
<1>8. x \in ToSet(u)
  BY <1>2, <1>3 DEF ToSet
<1>9. QED
  BY <1>6, <1>7, <1>8

\* A list that is not empty is its head in front of its tail.
LEMMA LedHeadTail ==
    ASSUME NEW S, NEW s \in Seq(S), ~IsEmpty(s)
    PROVE  Head(s) \in S /\ Tail(s) \in Seq(S) /\ Led(s, Head(s), Tail(s))
<1>1. s # <<>>
  BY DEF IsEmpty
<1>2. Head(s) \in S /\ Tail(s) \in Seq(S) /\ s = <<Head(s)>> \o Tail(s)
  BY <1>1, HeadTailProperties
<1>3. QED
  BY <1>2 DEF Led

\* The length of a concatenation.
LEMMA JoinedType ==
    ASSUME NEW S, NEW s \in Seq(S), NEW v \in Seq(S), NEW w, Joined(w, s, v)
    PROVE  w \in Seq(S) /\ Len(w) = Len(s) + Len(v)
BY DEF Joined

\* The elements of a concatenation.
LEMMA JoinedSet ==
    ASSUME NEW S, NEW s \in Seq(S), NEW v \in Seq(S), NEW w, Joined(w, s, v)
    PROVE  ToSet(w) = ToSet(s) \cup ToSet(v)
<1>1. w = s \o v /\ Len(s) \in Nat /\ Len(v) \in Nat
  BY DEF Joined
<1>2. DOMAIN w = 1..(Len(s) + Len(v)) /\ DOMAIN s = 1..Len(s) /\ DOMAIN v = 1..Len(v)
  BY <1>1
<1>3. \A i \in 1..Len(s) : w[i] = s[i] /\ i \in 1..(Len(s) + Len(v))
  BY <1>1
<1>4. \A i \in 1..Len(v) : w[i + Len(s)] = v[i] /\ i + Len(s) \in 1..(Len(s) + Len(v))
  BY <1>1
<1>5. \A i \in 1..(Len(s) + Len(v)) :
         i \in 1..Len(s) \/ (i - Len(s) \in 1..Len(v) /\ (i - Len(s)) + Len(s) = i)
  BY <1>1
<1>6. ASSUME NEW y \in ToSet(w) PROVE y \in ToSet(s) \cup ToSet(v)
  <2>1. PICK i \in 1..(Len(s) + Len(v)) : y = w[i]
    BY <1>2 DEF ToSet
  <2>2. CASE i \in 1..Len(s)
    <3>1. y = s[i]
      BY <1>3, <2>1, <2>2
    <3>2. QED
      BY <1>2, <2>2, <3>1 DEF ToSet
  <2>3. CASE i - Len(s) \in 1..Len(v) /\ (i - Len(s)) + Len(s) = i
    <3>1. y = v[i - Len(s)]
      BY <1>4, <2>1, <2>3
    <3>2. QED
      BY <1>2, <2>3, <3>1 DEF ToSet
  <2>4. QED
    BY <1>5, <2>2, <2>3
<1>7. ASSUME NEW y \in ToSet(s) PROVE y \in ToSet(w)
  <2>1. PICK i \in 1..Len(s) : y = s[i]
    BY <1>2 DEF ToSet
  <2>2. y = w[i] /\ i \in DOMAIN w
    BY <1>2, <1>3, <2>1
  <2>3. QED
    BY <2>2 DEF ToSet
<1>8. ASSUME NEW y \in ToSet(v) PROVE y \in ToSet(w)
  <2>1. PICK i \in 1..Len(v) : y = v[i]
    BY <1>2 DEF ToSet
  <2>2. y = w[i + Len(s)] /\ i + Len(s) \in DOMAIN w
    BY <1>2, <1>4, <2>1
  <2>3. QED
    BY <2>2 DEF ToSet
<1>9. QED
  BY <1>6, <1>7, <1>8

\* The empty list.
LEMMA EmptyFacts ==
    ASSUME NEW S, NEW e, IsEmpty(e)
    PROVE  e \in Seq(S) /\ Len(e) = 0 /\ ToSet(e) = {}
BY DEF IsEmpty, ToSet

\* A list that is not empty has an element.
LEMMA NonEmptyFacts ==
    ASSUME NEW S, NEW s \in Seq(S), ~IsEmpty(s)
    PROVE  Len(s) > 0 /\ ToSet(s) # {}
<1>1. Len(s) > 0 /\ 1 \in DOMAIN s
  BY DEF IsEmpty
<1>2. QED
  BY <1>1 DEF ToSet

\* A list and its reverse have the same elements.
LEMMA ReverseFacts ==
    ASSUME NEW S, NEW s \in Seq(S)
    PROVE  Reverse(s) \in Seq(S) /\ ToSet(Reverse(s)) = ToSet(s) /\ Len(Reverse(s)) = Len(s)
<1>1. Reverse(s) \in Seq(S) /\ Len(Reverse(s)) = Len(s) /\ DOMAIN Reverse(s) = 1..Len(s)
  BY DEF Reverse
<1>2. DOMAIN s = 1..Len(s) /\ Len(s) \in Nat
  OBVIOUS
<1>3. \A i \in 1..Len(s) : (Len(s) - i) + 1 \in 1..Len(s) /\ Reverse(s)[i] = s[(Len(s) - i) + 1]
  BY <1>2 DEF Reverse
<1>4. \A i \in 1..Len(s) : \E j \in 1..Len(s) : s[i] = Reverse(s)[j]
  <2> SUFFICES ASSUME NEW i \in 1..Len(s) PROVE s[i] = Reverse(s)[(Len(s) - i) + 1]
    BY <1>3
  <2>1. (Len(s) - ((Len(s) - i) + 1)) + 1 = i
    BY <1>2
  <2>2. QED
    BY <1>3, <2>1
<1>5. \A i \in 1..Len(s) : \E j \in 1..Len(s) : Reverse(s)[i] = s[j]
  BY <1>3
<1>6. ToSet(Reverse(s)) = ToSet(s)
  <2>1. ToSet(s) = {s[i] : i \in 1..Len(s)} /\ ToSet(Reverse(s)) = {Reverse(s)[i] : i \in 1..Len(s)}
    BY <1>1, <1>2 DEF ToSet
  <2>2. QED
    BY <1>4, <1>5, <2>1
<1>7. QED
  BY <1>1, <1>6

\* What is in front of a list is at the end of its reverse.
LEMMA ReverseLed ==
    ASSUME NEW S, NEW s \in Seq(S), NEW x \in S, NEW u, Led(u, x, s)
    PROVE  Longer(Reverse(u), Reverse(s), x)
<1>1. u = <<x>> \o s /\ Len(s) \in Nat
  BY DEF Led
<1>2. Len(u) = Len(s) + 1 /\ u[1] = x /\ \A i \in 1..Len(s) : u[i + 1] = s[i]
  BY <1>1
<1> DEFINE a == Reverse(u)
           b == Append(Reverse(s), x)
<1>3. DOMAIN a = 1..(Len(s) + 1) /\ DOMAIN b = 1..(Len(s) + 1)
  BY <1>1, <1>2 DEF Reverse
<1>4. ASSUME NEW i \in 1..(Len(s) + 1) PROVE a[i] = b[i]
  <2>1. a[i] = u[((Len(s) + 1) - i) + 1]
    BY <1>1, <1>2 DEF Reverse
  <2>2. CASE i = Len(s) + 1
    BY <1>1, <1>2, <2>1, <2>2 DEF Reverse
  <2>3. CASE i # Len(s) + 1
    <3>1. i \in 1..Len(s) /\ (Len(s) - i) + 1 \in 1..Len(s)
           /\ ((Len(s) + 1) - i) + 1 = ((Len(s) - i) + 1) + 1
      BY <1>1, <2>3
    <3>2. b[i] = s[(Len(s) - i) + 1]
      BY <1>1, <3>1 DEF Reverse
    <3>3. u[((Len(s) - i) + 1) + 1] = s[(Len(s) - i) + 1]
      BY <1>2, <3>1
    <3>4. QED
      BY <2>1, <3>1, <3>2, <3>3
  <2>4. QED
    BY <2>2, <2>3
<1>5. a = b
  <2>1. a = [i \in DOMAIN a |-> a[i]] /\ b = [i \in DOMAIN b |-> b[i]]
    BY <1>1 DEF Reverse
  <2> HIDE DEF a, b
  <2>2. QED
    BY <1>3, <1>4, <2>1
<1>6. QED
  BY <1>5 DEF Longer

\* The reverse of the empty list.
LEMMA ReverseEmpty ==
    ASSUME NEW e, IsEmpty(e)
    PROVE  IsEmpty(Reverse(e))
BY DEF IsEmpty, Reverse

\* Facts of concatenation.
LEMMA JoinedEmpty ==
    ASSUME NEW S, NEW s \in Seq(S), NEW e, IsEmpty(e), NEW w
    PROVE  /\ Joined(w, s, e) => w = s
           /\ Joined(w, e, s) => w = s
BY DEF Joined, IsEmpty

\* A concatenation is determined by its parts.
LEMMA JoinedUnique ==
    ASSUME NEW s, NEW v, NEW w, NEW u, Joined(w, s, v), Joined(u, s, v)
    PROVE  u = w
BY DEF Joined

\* Moving an entry from the end of one part to the front of the next changes
\* nothing.
LEMMA JoinedThree ==
    ASSUME NEW S, NEW c \in Seq(S), NEW w \in Seq(S), NEW b \in Seq(S), NEW x \in S,
           NEW w1, Longer(w1, w, x), NEW b1, Led(b1, x, b),
           NEW d, Joined(d, c, w), NEW d1, Joined(d1, c, w1),
           NEW t, Joined(t, d, b1), NEW t1, Joined(t1, d1, b)
    PROVE  t = t1
<1>1. d \in Seq(S) /\ Longer(d1, d, x)
  BY DEF Joined, Longer
<1>2. \A y \in Seq(S) : \A y1 : Longer(y1, y, x) => y1 \o b = y \o (<<x>> \o b)
  BY DEF Longer
<1>3. QED
  BY <1>1, <1>2 DEF Joined, Led

-----------------------------------------------------------------------------
(* Linked lists *)

\* A list repeats no entry exactly if it has as many different ones as entries.
LEMMA InjectiveIff ==
    ASSUME NEW S, NEW s \in Seq(S)
    PROVE  /\ IsFiniteSet(ToSet(s)) /\ Cardinality(ToSet(s)) \in Nat
           /\ IsInjective(s) <=> Cardinality(ToSet(s)) = Len(s)
<1>1. DOMAIN s = 1..Len(s) /\ Len(s) \in Nat
  OBVIOUS
<1>2. IsFiniteSet(1..Len(s)) /\ Cardinality(1..Len(s)) = Len(s)
  BY <1>1, FS_Interval
<1>3. s \in [1..Len(s) -> ToSet(s)]
  BY <1>1 DEF ToSet
<1>4. s \in Surjection(1..Len(s), ToSet(s))
  BY <1>1, <1>3 DEF ToSet, Surjection
<1>5. /\ IsFiniteSet(ToSet(s))
      /\ Cardinality(ToSet(s)) = Cardinality(1..Len(s)) <=> s \in Injection(1..Len(s), ToSet(s))
  BY <1>2, <1>4, FS_Surjection
<1>6. IsInjective(s) <=> s \in Injection(1..Len(s), ToSet(s))
  BY <1>1, <1>3 DEF IsInjective, Injection
<1>7. Cardinality(ToSet(s)) \in Nat
  BY <1>5, FS_CardinalityType
<1>8. QED
  BY <1>2, <1>5, <1>6, <1>7

\* Reversing repeats nothing.
LEMMA ReverseInjective ==
    ASSUME NEW S, NEW s \in Seq(S), IsInjective(s)
    PROVE  IsInjective(Reverse(s))
<1>1. PICK r : r = Reverse(s)
  OBVIOUS
<1>2. r \in Seq(S) /\ ToSet(r) = ToSet(s) /\ Len(r) = Len(s)
  BY <1>1, ReverseFacts
<1>3. Cardinality(ToSet(s)) = Len(s)
  BY InjectiveIff
<1>4. IsInjective(r)
  BY <1>2, <1>3, InjectiveIff
<1>5. QED
  BY <1>1, <1>4

\* Neither does joining two lists that share nothing.
LEMMA JoinedInjective ==
    ASSUME NEW S, NEW s \in Seq(S), NEW v \in Seq(S), IsInjective(s), IsInjective(v),
           ToSet(s) \cap ToSet(v) = {}, NEW w, Joined(w, s, v)
    PROVE  IsInjective(w)
<1>1. /\ IsFiniteSet(ToSet(s)) /\ Cardinality(ToSet(s)) = Len(s)
      /\ IsFiniteSet(ToSet(v)) /\ Cardinality(ToSet(v)) = Len(v)
  BY InjectiveIff
<1>2. Cardinality(ToSet(s) \cap ToSet(v)) = 0
  BY FS_EmptySet
<1>3. Cardinality(ToSet(s) \cup ToSet(v)) = Cardinality(ToSet(s)) + Cardinality(ToSet(v))
                                            - Cardinality(ToSet(s) \cap ToSet(v))
  BY <1>1, FS_Union
<1>4. w \in Seq(S) /\ Len(w) = Len(s) + Len(v) /\ ToSet(w) = ToSet(s) \cup ToSet(v)
  BY JoinedType, JoinedSet
<1>5. Cardinality(ToSet(w)) = Len(w)
  BY <1>1, <1>2, <1>3, <1>4
<1>6. QED
  BY <1>4, <1>5, InjectiveIff

\* The list at a pointer is empty exactly if the pointer is null.
LEMMA PathType ==
    ASSUME NEW s, NEW nx, NEW a, Path(s, nx, a)
    PROVE  /\ s \in Seq(Actors) /\ ToSet(s) \subseteq Actors /\ IsInjective(s)
           /\ a = NoActor <=> IsEmpty(s)
<1>1. s \in Seq(Actors) /\ IsInjective(s)
  BY DEF Path
<1>2. ToSet(s) \subseteq Actors
  BY <1>1 DEF ToSet
<1>0. a = IF Len(s) = 0 THEN NoActor ELSE s[1]
  BY DEF Path
<1>3. CASE Len(s) = 0
  <2>1. a = NoActor
    BY <1>0, <1>3
  <2>2. IsEmpty(s)
    BY <1>1, <1>3, EmptySeq DEF IsEmpty
  <2>3. QED
    BY <1>1, <1>2, <2>1, <2>2
<1>4. CASE Len(s) # 0
  <2>1. a = s[1]
    BY <1>0, <1>4
  <2>2. s[1] \in Actors /\ ~IsEmpty(s)
    BY <1>1, <1>4 DEF IsEmpty
  <2>3. QED
    BY <1>1, <1>2, <2>1, <2>2, ActorsAssumption
<1>5. QED
  BY <1>1, <1>2, <1>3, <1>4

\* The null pointer starts an empty list.
LEMMA PathEmpty ==
    ASSUME NEW e, NEW nx, IsEmpty(e)
    PROVE  Path(e, nx, NoActor)
BY DEF Path, IsEmpty, IsInjective

\* A list does not depend on the links of other actors.
LEMMA PathFrame ==
    ASSUME NEW s, NEW nx, NEW a, Path(s, nx, a), NEW ny,
           \A b \in ToSet(s) : ny[b] = nx[b]
    PROVE  Path(s, ny, a)
<1>1. s \in Seq(Actors)
  BY DEF Path
<1>2. \A i \in 1..Len(s) : ny[s[i]] = nx[s[i]]
  BY <1>1 DEF ToSet
<1>3. QED
  BY <1>2 DEF Path

\* An actor that is not on a list and links to its start begins a longer one.
LEMMA PathLed ==
    ASSUME NEW s, NEW nx, NEW a, Path(s, nx, a), NEW x \in Actors, x \notin ToSet(s), nx[x] = a,
           NEW u, Led(u, x, s)
    PROVE  Path(u, nx, x)
<1>1. s \in Seq(Actors) /\ IsInjective(s) /\ Len(s) \in Nat /\ DOMAIN s = 1..Len(s)
  BY DEF Path
<1>2. u \in Seq(Actors) /\ Len(u) = Len(s) + 1
  BY <1>1, LedType
<1>3. u[1] = x /\ \A i \in 1..Len(s) : u[i + 1] = s[i]
  BY <1>1 DEF Led
<1>4. \A i \in 1..Len(s) : s[i] # x
  BY <1>1 DEF ToSet
<1>5. \A i \in 1..(Len(s) + 1) : i = 1 \/ (i - 1 \in 1..Len(s) /\ (i - 1) + 1 = i)
  BY <1>1
<1>6. ASSUME NEW i \in 1..Len(u), NEW j \in 1..Len(u), u[i] = u[j] PROVE i = j
  <2>1. CASE i = 1 /\ j = 1
    BY <2>1
  <2>2. CASE i = 1 /\ j - 1 \in 1..Len(s) /\ (j - 1) + 1 = j
    BY <1>3, <1>4, <1>6, <2>2
  <2>3. CASE j = 1 /\ i - 1 \in 1..Len(s) /\ (i - 1) + 1 = i
    BY <1>3, <1>4, <1>6, <2>3
  <2>4. CASE i - 1 \in 1..Len(s) /\ (i - 1) + 1 = i /\ j - 1 \in 1..Len(s) /\ (j - 1) + 1 = j
    <3>1. s[i - 1] = s[j - 1]
      BY <1>3, <1>6, <2>4
    <3>2. i - 1 = j - 1
      BY <1>1, <2>4, <3>1 DEF IsInjective
    <3>3. QED
      BY <2>4, <3>2
  <2>5. QED
    BY <1>2, <1>5, <2>1, <2>2, <2>3, <2>4
<1>7. IsInjective(u)
  BY <1>2, <1>6 DEF IsInjective
<1>8. ASSUME NEW i \in 1..Len(u) PROVE nx[u[i]] = IF i = Len(u) THEN NoActor ELSE u[i + 1]
  <2>1. CASE i = 1
    <3>1. CASE Len(s) = 0
      BY <1>2, <1>3, <2>1, <3>1 DEF Path
    <3>2. CASE Len(s) # 0
      <4>1. 1 \in 1..Len(s) /\ 1 # Len(u) /\ u[1 + 1] = s[1]
        BY <1>1, <1>2, <1>3, <3>2
      <4>2. nx[x] = s[1]
        BY <3>2 DEF Path
      <4>3. QED
        BY <1>3, <2>1, <4>1, <4>2
    <3>3. QED
      BY <3>1, <3>2
  <2>2. CASE i - 1 \in 1..Len(s) /\ (i - 1) + 1 = i
    <3>1. u[i] = s[i - 1]
      BY <1>3, <2>2
    <3>2. nx[s[i - 1]] = IF i - 1 = Len(s) THEN NoActor ELSE s[i]
      BY <2>2 DEF Path
    <3>3. i - 1 = Len(s) <=> i = Len(u)
      BY <1>1, <1>2, <2>2
    <3>4. i - 1 # Len(s) => i \in 1..Len(s)
      BY <1>1, <2>2
    <3>5. i - 1 # Len(s) => u[i + 1] = s[i]
      BY <1>3, <3>4
    <3>6. QED
      BY <3>1, <3>2, <3>3, <3>5
  <2>3. QED
    BY <1>2, <1>5, <2>1, <2>2
<1>9. x = IF Len(u) = 0 THEN NoActor ELSE u[1]
  BY <1>1, <1>2, <1>3
<1>10. QED
  BY <1>2, <1>7, <1>8, <1>9 DEF Path

\* A list that is not empty is its first actor and the list that one links to.
LEMMA PathTail ==
    ASSUME NEW s, NEW nx, NEW a, Path(s, nx, a), a # NoActor
    PROVE  \E r \in Seq(Actors) : /\ Led(s, a, r) /\ Path(r, nx, nx[a])
                                  /\ a \in Actors /\ a \notin ToSet(r)
<1>1. s \in Seq(Actors) /\ IsInjective(s) /\ Len(s) \in Nat /\ DOMAIN s = 1..Len(s) /\ ~IsEmpty(s)
  BY PathType DEF Path
<1>2. Len(s) # 0 /\ a = s[1] /\ 1 \in 1..Len(s)
  <2>1. Len(s) > 0
    BY <1>1, NonEmptyFacts
  <2>2. a = IF Len(s) = 0 THEN NoActor ELSE s[1]
    BY DEF Path
  <2>3. QED
    BY <1>1, <2>1, <2>2
<1>3. PICK r : r = Tail(s)
  OBVIOUS
<1>4. /\ r \in Seq(Actors) /\ Len(r) = Len(s) - 1 /\ Len(r) \in Nat /\ DOMAIN r = 1..Len(r)
      /\ \A i \in 1..Len(r) : r[i] = s[i + 1] /\ i + 1 \in 1..Len(s)
  BY <1>1, <1>2, <1>3 DEF IsEmpty
<1>5. Led(s, a, r)
  <2>1. Head(s) = a
    BY <1>1, <1>2 DEF IsEmpty
  <2>2. Led(s, Head(s), Tail(s))
    BY <1>1, LedHeadTail, Zenon
  <2>3. QED
    BY <1>3, <2>1, <2>2, Zenon
<1>6. a \in Actors
  BY <1>1, <1>2
<1>7. a \notin ToSet(r)
  <2>1. \A i \in 1..Len(r) : i + 1 # 1
    BY <1>4
  <2>2. \A i \in 1..Len(r) : r[i] # a
    BY <1>1, <1>2, <1>4, <2>1 DEF IsInjective
  <2>3. QED
    BY <1>4, <2>2 DEF ToSet
<1>8. IsInjective(r)
  <2>1. ASSUME NEW i \in 1..Len(r), NEW j \in 1..Len(r), r[i] = r[j] PROVE i = j
    <3>1. s[i + 1] = s[j + 1] /\ i + 1 \in 1..Len(s) /\ j + 1 \in 1..Len(s)
      BY <1>4, <2>1
    <3>2. i + 1 = j + 1
      BY <1>1, <3>1 DEF IsInjective
    <3>3. QED
      BY <1>4, <3>2
  <2>2. QED
    BY <1>4, <2>1 DEF IsInjective
<1>9. nx[a] = IF Len(r) = 0 THEN NoActor ELSE r[1]
  <2>1. nx[s[1]] = IF 1 = Len(s) THEN NoActor ELSE s[1 + 1]
    BY <1>2 DEF Path
  <2>2. Len(r) = 0 <=> 1 = Len(s)
    BY <1>1, <1>4
  <2>3. Len(r) # 0 => r[1] = s[1 + 1]
    BY <1>4
  <2>4. QED
    BY <1>2, <2>1, <2>2, <2>3
<1>10. ASSUME NEW i \in 1..Len(r) PROVE nx[r[i]] = IF i = Len(r) THEN NoActor ELSE r[i + 1]
  <2>1. nx[s[i + 1]] = IF i + 1 = Len(s) THEN NoActor ELSE s[(i + 1) + 1]
    BY <1>4 DEF Path
  <2>2. i = Len(r) <=> i + 1 = Len(s)
    BY <1>1, <1>4
  <2>3. i # Len(r) => i + 1 \in 1..Len(r)
    BY <1>4
  <2>4. i # Len(r) => r[i + 1] = s[(i + 1) + 1]
    BY <1>4, <2>3
  <2>5. QED
    BY <1>4, <2>1, <2>2, <2>4
<1>11. Path(r, nx, nx[a])
  BY <1>4, <1>8, <1>9, <1>10 DEF Path
<1>12. QED
  BY <1>4, <1>5, <1>6, <1>7, <1>11

\* The last entry when one is put in front.
LEMMA EndLed ==
    ASSUME NEW S, NEW s \in Seq(S), NEW x \in S, NEW u, Led(u, x, s)
    PROVE  /\ IsEmpty(s) => EndOf(s) = NoActor /\ EndOf(u) = x
           /\ ~IsEmpty(s) => EndOf(u) = EndOf(s)
<1>1. Len(s) \in Nat /\ Len(u) = Len(s) + 1 /\ u[1] = x /\ \A i \in 1..Len(s) : u[i + 1] = s[i]
  BY DEF Led
<1>2. CASE IsEmpty(s)
  <2>1. Len(s) = 0
    BY <1>2, EmptyFacts
  <2>2. QED
    BY <1>1, <1>2, <2>1 DEF EndOf
<1>3. CASE ~IsEmpty(s)
  <2>1. Len(s) > 0
    BY <1>3, NonEmptyFacts
  <2>2. Len(s) \in 1..Len(s) /\ Len(u) # 0 /\ Len(s) # 0
    BY <1>1, <2>1
  <2>3. u[Len(s) + 1] = s[Len(s)]
    BY <1>1, <2>2
  <2>4. QED
    BY <1>1, <1>3, <2>2, <2>3 DEF EndOf
<1>4. QED
  BY <1>2, <1>3

-----------------------------------------------------------------------------
(* Chain follows the links *)

\* g solves the recursion of Chain up to k.
Walks(g, nx, k) ==
    g = [n \in 0..k |->
            [b \in Pointer |-> IF b = NoActor \/ n = 0 THEN <<>> ELSE <<b>> \o g[n - 1][nx[b]]]]

\* It has a solution for every number of steps.
LEMMA WalksExists ==
    ASSUME NEW nx \in [Actors -> Pointer]
    PROVE  \A k \in Nat : \E g : Walks(g, nx, k)
<1> DEFINE N == {k \in Nat : \E g : Walks(g, nx, k)}
<1>1. 0 \in N
  <2>1. Walks([n \in 0..0 |-> [b \in Pointer |-> <<>>]], nx, 0)
    BY DEF Walks
  <2>2. QED
    BY <2>1
<1>2. ASSUME NEW k \in Nat, k \in N PROVE k + 1 \in N
  <2>1. PICK g : Walks(g, nx, k)
    BY <1>2
  <2> DEFINE top == [b \in Pointer |-> IF b = NoActor THEN <<>> ELSE <<b>> \o g[k][nx[b]]]
             f == [n \in 0..(k + 1) |-> IF n = k + 1 THEN top ELSE g[n]]
             row(n) == [b \in Pointer |-> IF b = NoActor \/ n = 0 THEN <<>> ELSE <<b>> \o f[n - 1][nx[b]]]
  <2>2. ASSUME NEW n \in 0..(k + 1) PROVE f[n] = row(n)
    <3>0. n = 0 \/ n \in 1..k \/ n = k + 1
      BY <2>2
    <3>1. CASE n = 0
      <4>1. f[n] = g[n] /\ n \in 0..k
        BY <3>1
      <4>2. g[n] = [b \in Pointer |-> <<>>]
        BY <2>1, <3>1, <4>1 DEF Walks
      <4>3. QED
        BY <3>1, <4>1, <4>2
    <3>2. CASE n \in 1..k
      <4>1. n \in 0..k /\ n # 0 /\ n # k + 1 /\ n - 1 \in 0..(k + 1) /\ n - 1 # k + 1
        BY <3>2
      <4>2. f[n] = g[n] /\ f[n - 1] = g[n - 1]
        BY <4>1
      <4>3. g[n] = [b \in Pointer |-> IF b = NoActor \/ n = 0 THEN <<>> ELSE <<b>> \o g[n - 1][nx[b]]]
        BY <2>1, <4>1 DEF Walks
      <4>4. QED
        BY <4>1, <4>2, <4>3
    <3>3. CASE n = k + 1
      <4>1. n # 0 /\ n - 1 = k /\ k \in 0..(k + 1) /\ k # k + 1
        BY <3>3
      <4>2. f[n] = top /\ f[n - 1] = g[k]
        BY <3>3, <4>1
      <4>3. QED
        BY <4>1, <4>2
    <3>4. QED
      BY <3>0, <3>1, <3>2, <3>3, Zenon
  <2>3. f = [n \in 0..(k + 1) |-> row(n)]
    BY <2>2
  <2>4. Walks(f, nx, k + 1)
    BY <2>3 DEF Walks
  <2>5. QED
    BY <2>4
<1>3. Nat \subseteq N
  <2> HIDE DEF N
  <2> QED BY <1>1, <1>2, NatSetInduction
<1>4. QED
  BY <1>3

\* Chain is computed by one.
LEMMA ChainWalks ==
    ASSUME TypeOK
    PROVE  \E g : /\ Walks(g, m_ready_next, Cardinality(Actors))
                  /\ \A a : Chain(a) = g[Cardinality(Actors)][a]
<1>1. Cardinality(Actors) \in Nat
  BY ActorsAssumption, FS_CardinalityType
<1>2. \E g : Walks(g, m_ready_next, Cardinality(Actors))
  BY <1>1, WalksExists DEF TypeOK
<1>3. QED
  BY <1>2, Zenon DEF Walks, Chain

\* With enough steps it gives the list at a pointer.
LEMMA WalksPath ==
    ASSUME NEW k \in Nat, NEW nx \in [Actors -> Pointer], NEW g, Walks(g, nx, k)
    PROVE  \A n \in Nat : \A s, a : n <= k /\ Path(s, nx, a) /\ Len(s) <= n => g[n][a] = s
<1> DEFINE Good(n) == \A s, a : n <= k /\ Path(s, nx, a) /\ Len(s) <= n => g[n][a] = s
           N == {n \in Nat : Good(n)}
<1>1. ASSUME NEW n \in 0..k, NEW s, NEW a, Path(s, nx, a), IsEmpty(s) PROVE g[n][a] = s
  <2>1. a = NoActor /\ a \in Pointer /\ s = <<>>
    BY <1>1, PathType DEF Pointer, IsEmpty
  <2>2. g[n] = [b \in Pointer |-> IF b = NoActor \/ n = 0 THEN <<>> ELSE <<b>> \o g[n - 1][nx[b]]]
    BY DEF Walks
  <2>3. QED
    BY <2>1, <2>2
<1>2. Good(0)
  <2>1. SUFFICES ASSUME NEW s, NEW a, Path(s, nx, a), Len(s) <= 0 PROVE g[0][a] = s
    OBVIOUS
  <2>2. IsEmpty(s)
    <3>1. s \in Seq(Actors)
      BY <2>1 DEF Path
    <3>2. Len(s) > 0 => ~(Len(s) <= 0)
      BY <3>1
    <3>3. QED
      BY <2>1, <3>1, <3>2, NonEmptyFacts
  <2>3. 0 \in 0..k
    OBVIOUS
  <2>4. QED
    BY <1>1, <2>1, <2>2, <2>3
<1>3. ASSUME NEW n \in Nat, n \in N PROVE n + 1 \in N
  <2>1. SUFFICES ASSUME NEW s, NEW a, n + 1 <= k, Path(s, nx, a), Len(s) <= n + 1
                 PROVE  g[n + 1][a] = s
    OBVIOUS
  <2>2. n + 1 \in 0..k /\ n <= k /\ n + 1 # 0 /\ (n + 1) - 1 = n
    BY <2>1
  <2>3. CASE a = NoActor
    <3>1. IsEmpty(s)
      BY <2>1, <2>3, PathType
    <3>2. QED
      BY <1>1, <2>1, <2>2, <3>1
  <2>4. CASE a # NoActor
    <3>1. PICK r \in Seq(Actors) : Led(s, a, r) /\ Path(r, nx, nx[a]) /\ a \in Actors
      BY <2>1, <2>4, PathTail
    <3>2. Len(s) = Len(r) + 1 /\ Len(r) \in Nat
      BY <3>1, LedType
    <3>3. Len(r) <= n
      BY <2>1, <3>2
    <3>4. g[n][nx[a]] = r
      <4>1. Good(n)
        BY <1>3
      <4>2. QED
        BY <2>2, <3>1, <3>3, <4>1
    <3>5. g[n + 1] = [b \in Pointer |-> IF b = NoActor \/ n + 1 = 0 THEN <<>>
                                        ELSE <<b>> \o g[(n + 1) - 1][nx[b]]]
      BY <2>2 DEF Walks
    <3>6. a \in Pointer
      BY <3>1 DEF Pointer
    <3>7. g[n + 1][a] = <<a>> \o g[n][nx[a]]
      BY <2>2, <2>4, <3>5, <3>6
    <3>8. QED
      BY <3>1, <3>4, <3>7 DEF Led
  <2>5. QED
    BY <2>3, <2>4
<1>4. Nat \subseteq N
  <2>1. 0 \in N
    BY <1>2
  <2> HIDE DEF N
  <2> QED BY <1>3, <2>1, NatSetInduction
<1>5. QED
  BY <1>4

\* A list of different actors is no longer than there are actors.
LEMMA PathLength ==
    ASSUME NEW s, NEW nx, NEW a, Path(s, nx, a)
    PROVE  Len(s) \in Nat /\ Len(s) <= Cardinality(Actors)
<1>1. s \in Seq(Actors) /\ ToSet(s) \subseteq Actors /\ IsInjective(s)
  BY PathType
<1>2. Cardinality(ToSet(s)) = Len(s)
  BY <1>1, InjectiveIff
<1>3. Cardinality(ToSet(s)) <= Cardinality(Actors)
  BY <1>1, ActorsAssumption, FS_Subset
<1>4. QED
  BY <1>1, <1>2, <1>3

\* Chain is the list at a pointer.
LEMMA ChainIs ==
    ASSUME TypeOK
    PROVE  \A s, a : Path(s, m_ready_next, a) => Chain(a) = s
<1>1. PICK k : k = Cardinality(Actors)
  OBVIOUS
<1>2. k \in Nat
  BY <1>1, ActorsAssumption, FS_CardinalityType
<1>3. PICK g : Walks(g, m_ready_next, k) /\ \A a : Chain(a) = g[k][a]
  BY <1>1, ChainWalks
<1>4. SUFFICES ASSUME NEW s, NEW a, Path(s, m_ready_next, a) PROVE g[k][a] = s
  BY <1>3
<1>5. Len(s) <= k /\ k <= k
  BY <1>1, <1>2, <1>4, PathLength
<1>6. m_ready_next \in [Actors -> Pointer]
  BY DEF TypeOK
<1>7. QED
  BY <1>2, <1>3, <1>4, <1>5, <1>6, WalksPath

-----------------------------------------------------------------------------
(* The lists, step by step *)

\* Nothing is pushed that is on a list, and everything pushed or on a list is an
\* actor that holds itself.
LEMMA ListFacts ==
    ASSUME Shape, NEW c, NEW n, NEW f, NEW t, Lists(c, n, f, t)
    PROVE  /\ c \in Seq(Actors) /\ n \in Seq(Actors) /\ f \in Seq(Actors) /\ t \in Seq(Actors)
           /\ m_head = NoActor <=> IsEmpty(c)
           /\ node = NoActor <=> IsEmpty(n)
           /\ first = NoActor <=> IsEmpty(f)
           /\ m_stack = NoActor <=> IsEmpty(t)
           /\ \A p \in Pushers : pc[p] # "ready" => item[p] \in Actors /\ item[p] \in Pushing
           /\ Pushing \subseteq m_ready_self /\ ToSet(c) \subseteq m_ready_self
           /\ ToSet(n) \subseteq m_ready_self /\ ToSet(f) \subseteq m_ready_self
           /\ ToSet(t) \subseteq m_ready_self
<1>1. /\ Path(c, m_ready_next, m_head) /\ Path(n, m_ready_next, node)
      /\ Path(f, m_ready_next, first) /\ Path(t, m_ready_next, m_stack)
  BY DEF Lists, Listed
<1>2. /\ c \in Seq(Actors) /\ n \in Seq(Actors) /\ f \in Seq(Actors) /\ t \in Seq(Actors)
      /\ m_head = NoActor <=> IsEmpty(c)
      /\ node = NoActor <=> IsEmpty(n)
      /\ first = NoActor <=> IsEmpty(f)
      /\ m_stack = NoActor <=> IsEmpty(t)
  BY <1>1, PathType
<1>3. \A p \in Pushers : pc[p] # "ready" => item[p] \in Actors /\ item[p] \in Pushing
  BY DEF Shape, TypeOK, Pointer, Pushing
<1>4. /\ Pushing \subseteq m_ready_self /\ ToSet(c) \subseteq m_ready_self
      /\ ToSet(n) \subseteq m_ready_self /\ ToSet(f) \subseteq m_ready_self
      /\ ToSet(t) \subseteq m_ready_self
  BY DEF Lists, Holds
<1>5. QED
  BY <1>2, <1>3, <1>4

\* A push that begins moves no list.
LEMMA PushBeginLists ==
    ASSUME Shape, NEW c, NEW n, NEW f, NEW t, Lists(c, n, f, t),
           NEW p \in Pushers, NEW a \in Actors, PushBegin(p, a)
    PROVE  Shape' /\ Lists(c, n, f, t)'
<1> USE ListFacts
<1>1. /\ pc \in [Pushers -> {"ready", "load", "cas"}] /\ item \in [Pushers -> Pointer]
      /\ pc[p] = "ready" /\ a \notin m_ready_self /\ m_ready_self' = m_ready_self \cup {a}
      /\ item' = [item EXCEPT ![p] = a] /\ pc' = [pc EXCEPT ![p] = "load"]
  BY DEF PushBegin, Shape, TypeOK
<1>2. /\ m_stack' = m_stack /\ m_head' = m_head /\ m_tail' = m_tail /\ m_ready_next' = m_ready_next
      /\ head' = head /\ worker' = worker /\ node' = node /\ first' = first /\ last' = last
      /\ got' = got /\ saw' = saw
  BY DEF PushBegin, cache, locals
<1>3. Pushing' = Pushing \cup {a}
  BY <1>1 DEF Pushing
<1>4. TypeOK'
  BY <1>1, <1>2, ActorsAssumption DEF Shape, TypeOK, Pointer
<1>5. PushApart'
  <2>1. \A q \in Pushers : q # p => pc'[q] = pc[q] /\ item'[q] = item[q]
    BY <1>1
  <2>2. pc'[p] = "load" /\ item'[p] = a
    BY <1>1
  <2>3. \A q \in Pushers : pc[q] # "ready" => item[q] # a
    BY <1>1
  <2>4. QED
    BY <1>2, <2>1, <2>2, <2>3 DEF Shape, PushApart
<1>6. WorkerShape'
  BY <1>2 DEF Shape, WorkerShape
<1>7. Listed(c, n, f, t)'
  BY <1>2 DEF Lists, Listed
<1>8. Disjoint(c, n, f, t)'
  BY DEF Lists, Disjoint
<1>9. Holds(c, n, f, t)'
  BY <1>1, <1>3 DEF Lists, Holds
<1>10. Ends(c, n, f)'
  BY <1>2 DEF Lists, Ends
<1>11. QED
  BY <1>4, <1>5, <1>6, <1>7, <1>8, <1>9, <1>10 DEF Shape, Lists

\* Neither does the link of an actor that is on none.
LEMMA PushLinkLists ==
    ASSUME Shape, NEW c, NEW n, NEW f, NEW t, Lists(c, n, f, t), NEW p \in Pushers, PushLink(p)
    PROVE  Shape' /\ Lists(c, n, f, t)'
<1>1. /\ pc \in [Pushers -> {"ready", "load", "cas"}] /\ pc[p] # "ready"
      /\ head \in [Pushers -> Pointer] /\ m_ready_next \in [Actors -> Pointer]
      /\ m_stack \in Pointer
      /\ head' = [head EXCEPT ![p] = m_stack] /\ pc' = [pc EXCEPT ![p] = "cas"]
      /\ m_ready_next' = [m_ready_next EXCEPT ![item[p]] = m_stack]
  BY DEF PushLink, Shape, TypeOK
<1>2. /\ m_stack' = m_stack /\ m_head' = m_head /\ m_tail' = m_tail
      /\ m_ready_self' = m_ready_self /\ item' = item
      /\ worker' = worker /\ node' = node /\ first' = first /\ last' = last
      /\ got' = got /\ saw' = saw
  BY DEF PushLink, cache, locals
<1>3. item[p] \in Actors /\ item[p] \in Pushing
  BY <1>1, ListFacts
<1>4. Pushing' = Pushing
  BY <1>1, <1>2 DEF Pushing
<1>5. TypeOK'
  <2>1. /\ m_ready_next' \in [Actors -> Pointer] /\ head' \in [Pushers -> Pointer]
        /\ pc' \in [Pushers -> {"ready", "load", "cas"}]
    BY <1>1, <1>3
  <2>2. \A q \in Pushers : pc'[q] # "ready" => pc[q] # "ready"
    BY <1>1
  <2>3. QED
    BY <1>2, <2>1, <2>2 DEF Shape, TypeOK
<1>6. PushApart'
  <2>1. \A q \in Pushers : q # p => pc'[q] = pc[q] /\ head'[q] = head[q]
    BY <1>1
  <2>2. pc'[p] = "cas" /\ head'[p] = m_stack /\ m_ready_next'[item[p]] = m_stack
    BY <1>1, <1>3
  <2>3. \A q \in Pushers : pc'[q] # "ready" <=> pc[q] # "ready"
    BY <1>1, <2>1, <2>2
  <2>4. \A q, r \in Pushers : pc'[q] # "ready" /\ pc'[r] # "ready" /\ item'[q] = item'[r] => q = r
    BY <1>2, <2>3 DEF Shape, PushApart
  <2>5. ASSUME NEW q \in Pushers, pc'[q] = "cas", q # p PROVE m_ready_next'[item[q]] = head'[q]
    <3>1. pc[q] = "cas" /\ pc[q] # "ready" /\ head'[q] = head[q] /\ m_ready_next[item[q]] = head[q]
      BY <2>1, <2>5 DEF Shape, PushApart
    <3>2. item[q] # item[p] /\ item[q] \in Actors
      BY <1>1, <2>5, <3>1, ListFacts DEF Shape, PushApart
    <3>3. QED
      BY <1>1, <3>1, <3>2
  <2>6. QED
    BY <1>2, <2>2, <2>4, <2>5 DEF PushApart
<1>7. WorkerShape'
  BY <1>2 DEF Shape, WorkerShape
<1>8. \A b \in ToSet(c) \cup ToSet(n) \cup ToSet(f) \cup ToSet(t) : m_ready_next'[b] = m_ready_next[b]
  <2>1. /\ ToSet(c) \cup ToSet(n) \cup ToSet(f) \cup ToSet(t) \subseteq Actors
        /\ item[p] \notin ToSet(c) \cup ToSet(n) \cup ToSet(f) \cup ToSet(t)
    BY <1>3 DEF Lists, Holds, Shape, TypeOK
  <2>2. QED
    BY <1>1, <2>1
<1>9. Listed(c, n, f, t)'
  BY <1>2, <1>8, PathFrame DEF Lists, Listed
<1>10. Disjoint(c, n, f, t)' /\ Holds(c, n, f, t)' /\ Ends(c, n, f)'
  BY <1>2, <1>4 DEF Lists, Disjoint, Holds, Ends
<1>11. QED
  BY <1>5, <1>6, <1>7, <1>9, <1>10 DEF Shape, Lists

\* The CAS puts the actor in front of the stack.
LEMMA PushCasLists ==
    ASSUME Shape, NEW c, NEW n, NEW f, NEW t, Lists(c, n, f, t), NEW p \in Pushers, PushCas(p),
           NEW u, Led(u, item[p], t)
    PROVE  Shape' /\ Lists(c, n, f, u)' /\ item[p] \in Actors /\ t \in Seq(Actors)
<1>1. /\ pc \in [Pushers -> {"ready", "load", "cas"}] /\ pc[p] = "cas" /\ head[p] = m_stack
      /\ head \in [Pushers -> Pointer] /\ item \in [Pushers -> Pointer]
      /\ m_stack' = item[p]
      /\ head' = [head EXCEPT ![p] = NoActor] /\ pc' = [pc EXCEPT ![p] = "ready"]
      /\ item' = [item EXCEPT ![p] = NoActor]
  BY DEF PushCas, Publish, Shape, TypeOK
<1>2. /\ m_ready_next' = m_ready_next /\ m_head' = m_head /\ m_tail' = m_tail
      /\ m_ready_self' = m_ready_self
      /\ worker' = worker /\ node' = node /\ first' = first /\ last' = last
      /\ got' = got /\ saw' = saw
  BY DEF PushCas, Publish, cache, locals
<1>3. item[p] \in Actors /\ item[p] \in Pushing /\ t \in Seq(Actors)
  BY <1>1, ListFacts
<1>4. \A q \in Pushers : q # p => pc'[q] = pc[q] /\ item'[q] = item[q] /\ head'[q] = head[q]
  BY <1>1
<1>5. pc'[p] = "ready"
  BY <1>1
<1>6. Pushing' = Pushing \ {item[p]}
  <2>1. \A q \in Pushers : q # p /\ pc[q] # "ready" => item[q] # item[p]
    BY <1>1 DEF Shape, PushApart
  <2>2. QED
    BY <1>4, <1>5, <2>1 DEF Pushing
<1>7. TypeOK'
  <2>1. /\ head' \in [Pushers -> Pointer] /\ pc' \in [Pushers -> {"ready", "load", "cas"}]
        /\ item' \in [Pushers -> Pointer] /\ m_stack' \in Pointer
    BY <1>1, <1>3 DEF Pointer
  <2>2. \A q \in Pushers : pc'[q] # "ready" => item'[q] # NoActor
    BY <1>4, <1>5 DEF Shape, TypeOK
  <2>3. QED
    BY <1>2, <2>1, <2>2 DEF Shape, TypeOK
<1>8. PushApart'
  BY <1>2, <1>4, <1>5 DEF Shape, PushApart
<1>9. WorkerShape'
  BY <1>2 DEF Shape, WorkerShape
<1>10. item[p] \notin ToSet(c) \cup ToSet(n) \cup ToSet(f) \cup ToSet(t)
  BY <1>3 DEF Lists, Holds
<1>11. ToSet(u) = {item[p]} \cup ToSet(t)
  BY <1>3, LedSet
<1>12. Path(u, m_ready_next, item[p])
  <2>1. m_ready_next[item[p]] = m_stack
    BY <1>1 DEF Shape, PushApart
  <2>2. Path(t, m_ready_next, m_stack)
    BY DEF Lists, Listed
  <2>3. QED
    BY <1>3, <1>10, <2>1, <2>2, PathLed
<1>13. Listed(c, n, f, u)'
  BY <1>1, <1>2, <1>12 DEF Lists, Listed
<1>14. Disjoint(c, n, f, u)'
  BY <1>10, <1>11 DEF Lists, Disjoint
<1>15. Holds(c, n, f, u)'
  <2>1. m_ready_self' = Pushing' \cup ToSet(c) \cup ToSet(n) \cup ToSet(f) \cup ToSet(u)
    BY <1>2, <1>3, <1>6, <1>11 DEF Lists, Holds
  <2>2. Pushing' \cap (ToSet(c) \cup ToSet(n) \cup ToSet(f) \cup ToSet(u)) = {}
    BY <1>6, <1>11 DEF Lists, Holds
  <2>3. QED
    BY <2>1, <2>2 DEF Holds
<1>16. Ends(c, n, f)'
  BY <1>2 DEF Lists, Ends
<1>17. QED
  BY <1>3, <1>7, <1>8, <1>9, <1>13, <1>14, <1>15, <1>16 DEF Shape, Lists

\* The worker's steps leave the pushes alone.
LEMMA WorkerPushes ==
    ASSUME Shape, NEW c, NEW n, NEW f, NEW t, Lists(c, n, f, t), UNCHANGED pushes,
           m_ready_next' \in [Actors -> Pointer],
           \A b \in Actors : b \notin ToSet(c) \cup ToSet(n) \cup ToSet(f) \cup ToSet(t)
                             => m_ready_next'[b] = m_ready_next[b]
    PROVE  Pushing' = Pushing /\ PushApart'
<1>1. pc' = pc /\ item' = item /\ head' = head
  BY DEF pushes
<1>2. Pushing' = Pushing
  BY <1>1 DEF Pushing
<1>3. ASSUME NEW p \in Pushers, pc[p] = "cas" PROVE m_ready_next'[item[p]] = m_ready_next[item[p]]
  <2>1. item[p] \in Actors /\ item[p] \in Pushing
    BY <1>3, ListFacts
  <2>2. item[p] \notin ToSet(c) \cup ToSet(n) \cup ToSet(f) \cup ToSet(t)
    BY <2>1 DEF Lists, Holds
  <2>3. QED
    BY <2>1, <2>2
<1>4. QED
  BY <1>1, <1>2, <1>3 DEF Shape, PushApart

\* The exchange makes the stack the list to be reversed; an empty stack leaves
\* everything as it is.
LEMMA FetchLists ==
    ASSUME Shape, NEW c, NEW n, NEW f, NEW t, Lists(c, n, f, t), Fetch
    PROVE  /\ Shape'
           /\ m_stack = NoActor => Lists(c, n, f, t)'
           /\ m_stack # NoActor => \A e : IsEmpty(e) => Lists(c, t, f, e)'
           /\ IsEmpty(c) /\ IsEmpty(n) /\ IsEmpty(f)
<1>1. /\ worker = "idle" /\ m_head = NoActor /\ m_stack' = NoActor
      /\ m_head' = m_head /\ m_tail' = m_tail /\ m_ready_next' = m_ready_next
      /\ m_ready_self' = m_ready_self /\ UNCHANGED pushes /\ first' = first /\ saw' = saw
  BY DEF Fetch, cache
<1>2. node = NoActor /\ first = NoActor
  BY <1>1 DEF Shape, WorkerShape
<1>3. /\ IsEmpty(c) /\ IsEmpty(n) /\ IsEmpty(f)
      /\ c \in Seq(Actors) /\ n \in Seq(Actors) /\ f \in Seq(Actors) /\ t \in Seq(Actors)
  BY <1>1, <1>2, ListFacts
<1>4. Pushing' = Pushing /\ PushApart'
  BY <1>1, WorkerPushes DEF Shape, TypeOK
<1>5. CASE m_stack = NoActor
  <2>1. got' = NoActor /\ worker' = worker /\ node' = node /\ last' = last /\ m_stack' = m_stack
    BY <1>1, <1>5 DEF Fetch
  <2>2. Shape'
    BY <1>1, <1>4, <2>1 DEF Shape, TypeOK, WorkerShape, Pointer, pushes
  <2>3. Lists(c, n, f, t)'
    BY <1>1, <1>4, <2>1 DEF Lists, Listed, Disjoint, Holds, Ends
  <2>4. QED
    BY <1>3, <1>5, <2>2, <2>3
<1>6. CASE m_stack # NoActor
  <2>1. node' = m_stack /\ last' = m_stack /\ worker' = "fetch" /\ got' = got
    BY <1>6 DEF Fetch
  <2>2. TypeOK'
    BY <1>1, <2>1 DEF Shape, TypeOK, Pointer, pushes
  <2>3. WorkerShape'
    BY <1>1, <1>6, <2>1 DEF WorkerShape
  <2>4. Shape'
    BY <1>4, <2>2, <2>3 DEF Shape
  <2>5. ASSUME NEW e, IsEmpty(e) PROVE Lists(c, t, f, e)'
    <3>1. ToSet(c) = {} /\ ToSet(n) = {} /\ ToSet(f) = {} /\ ToSet(e) = {}
      BY <1>3, <2>5, EmptyFacts
    <3>2. Path(e, m_ready_next', NoActor)
      BY <2>5, PathEmpty
    <3>3. Listed(c, t, f, e)'
      BY <1>1, <2>1, <3>2 DEF Lists, Listed
    <3>4. Disjoint(c, t, f, e)'
      BY <3>1 DEF Disjoint
    <3>5. Holds(c, t, f, e)'
      BY <1>1, <1>4, <3>1 DEF Lists, Holds
    <3>6. Ends(c, t, f)'
      BY <1>1, <1>2, <2>1 DEF Lists, Ends
    <3>7. QED
      BY <3>3, <3>4, <3>5, <3>6 DEF Lists
  <2>6. QED
    BY <1>3, <1>6, <2>4, <2>5
<1>7. QED
  BY <1>5, <1>6

\* A turn of the loop moves one entry from the front of the list to the front of
\* its reversed part.
LEMMA FetchNodeLists ==
    ASSUME Shape, NEW c, NEW n, NEW f, NEW t, Lists(c, n, f, t), FetchNode
    PROVE  /\ Shape' /\ node \in Actors
           /\ \E r \in Seq(Actors) : /\ Led(n, node, r)
                                     /\ \A u : Led(u, node, f) => Lists(c, r, u, t)'
<1>1. /\ worker = "fetch" /\ node # NoActor /\ node' = m_ready_next[node] /\ first' = node
      /\ m_ready_next' = [m_ready_next EXCEPT ![node] = first]
      /\ m_stack' = m_stack /\ m_head' = m_head /\ m_tail' = m_tail
      /\ m_ready_self' = m_ready_self /\ UNCHANGED pushes
      /\ worker' = worker /\ last' = last /\ got' = got /\ saw' = saw
  BY DEF FetchNode, cache
<1>2. /\ Path(c, m_ready_next, m_head) /\ Path(n, m_ready_next, node)
      /\ Path(f, m_ready_next, first) /\ Path(t, m_ready_next, m_stack)
  BY DEF Lists, Listed
<1>3. PICK r \in Seq(Actors) : /\ Led(n, node, r) /\ Path(r, m_ready_next, m_ready_next[node])
                               /\ node \in Actors /\ node \notin ToSet(r)
  BY <1>1, <1>2, PathTail
<1>4. m_ready_next \in [Actors -> Pointer] /\ first \in Pointer
  BY DEF Shape, TypeOK
<1>5. /\ m_ready_next' \in [Actors -> Pointer] /\ m_ready_next'[node] = first
      /\ \A b \in Actors : b # node => m_ready_next'[b] = m_ready_next[b]
      /\ m_ready_next[node] \in Pointer
  BY <1>1, <1>3, <1>4
<1>6. ToSet(n) = {node} \cup ToSet(r)
  BY <1>3, LedSet
<1>7. Pushing' = Pushing /\ PushApart'
  BY <1>1, <1>5, <1>6, WorkerPushes
<1>8. Shape'
  <2>1. TypeOK'
    BY <1>1, <1>3, <1>5 DEF Shape, TypeOK, Pointer, pushes
  <2>2. WorkerShape'
    BY <1>1 DEF Shape, WorkerShape
  <2>3. QED
    BY <1>7, <2>1, <2>2 DEF Shape
<1>9. /\ ToSet(c) \subseteq Actors /\ ToSet(r) \subseteq Actors
      /\ ToSet(f) \subseteq Actors /\ ToSet(t) \subseteq Actors
  BY <1>2, <1>3, PathType
<1>10. node \notin ToSet(c) /\ node \notin ToSet(f) /\ node \notin ToSet(t)
  BY <1>6 DEF Lists, Disjoint
<1>11. ASSUME NEW u, Led(u, node, f) PROVE Lists(c, r, u, t)'
  <2>1. /\ Path(c, m_ready_next', m_head) /\ Path(r, m_ready_next', m_ready_next[node])
        /\ Path(f, m_ready_next', first) /\ Path(t, m_ready_next', m_stack)
    BY <1>2, <1>3, <1>5, <1>9, <1>10, PathFrame
  <2>2. Path(u, m_ready_next', node)
    BY <1>3, <1>5, <1>10, <1>11, <2>1, PathLed
  <2>3. Listed(c, r, u, t)'
    BY <1>1, <2>1, <2>2 DEF Listed
  <2>4. f \in Seq(Actors) /\ (first = NoActor <=> IsEmpty(f))
    BY <1>2, PathType
  <2>5. ToSet(u) = {node} \cup ToSet(f)
    BY <1>3, <1>11, <2>4, LedSet
  <2>6. Disjoint(c, r, u, t)'
    BY <1>3, <1>6, <1>10, <2>5 DEF Lists, Disjoint
  <2>7. Holds(c, r, u, t)'
    BY <1>1, <1>6, <1>7, <2>5 DEF Lists, Holds
  <2>8. Ends(c, r, u)'
    <3>1. m_tail' = EndOf(c)
      BY <1>1 DEF Lists, Ends
    <3>2. last = IF first = NoActor THEN node ELSE EndOf(f)
      BY <1>1 DEF Lists, Ends
    <3>3. last' = EndOf(u)
      BY <1>1, <1>3, <1>11, <2>4, <3>2, EndLed
    <3>4. QED
      BY <1>1, <3>1, <3>3 DEF Ends
  <2>9. QED
    BY <2>3, <2>6, <2>7, <2>8 DEF Lists
<1>12. QED
  BY <1>3, <1>8, <1>11

\* The reversed list becomes the cache, which was empty.
LEMMA FetchAppendLists ==
    ASSUME Shape, NEW c, NEW n, NEW f, NEW t, Lists(c, n, f, t), FetchAppend
    PROVE  /\ Shape' /\ IsEmpty(c) /\ IsEmpty(n)
           /\ \A e : IsEmpty(e) => Lists(f, n, e, t)'
<1>1. /\ worker = "fetch" /\ node = NoActor /\ m_tail' = last /\ first' = NoActor
      /\ worker' = "serve" /\ node' = node /\ last' = NoActor
      /\ m_stack' = m_stack
      /\ m_ready_self' = m_ready_self /\ UNCHANGED pushes /\ got' = got /\ saw' = saw
  BY DEF FetchAppend
<1>2. m_head = NoActor /\ first # NoActor
  BY <1>1 DEF Shape, WorkerShape
<1>3. /\ IsEmpty(c) /\ IsEmpty(n)
      /\ c \in Seq(Actors) /\ n \in Seq(Actors) /\ f \in Seq(Actors) /\ t \in Seq(Actors)
  BY <1>1, <1>2, ListFacts
<1>4. m_tail = NoActor /\ last = EndOf(f)
  <2>1. Len(c) = 0
    BY <1>3, EmptyFacts
  <2>2. m_tail = EndOf(c) /\ last = IF first = NoActor THEN node ELSE EndOf(f)
    BY <1>1 DEF Lists, Ends
  <2>3. QED
    BY <1>2, <2>1, <2>2 DEF EndOf
<1>5. m_head' = first /\ m_ready_next' = m_ready_next
  BY <1>4 DEF FetchAppend
<1>6. Pushing' = Pushing /\ PushApart'
  BY <1>1, <1>5, WorkerPushes DEF Shape, TypeOK
<1>7. Shape'
  <2>1. TypeOK'
    BY <1>1, <1>2, <1>5 DEF Shape, TypeOK, Pointer, pushes
  <2>2. WorkerShape'
    BY <1>1 DEF WorkerShape
  <2>3. QED
    BY <1>6, <2>1, <2>2 DEF Shape
<1>8. ASSUME NEW e, IsEmpty(e) PROVE Lists(f, n, e, t)'
  <2>1. ToSet(c) = {} /\ ToSet(n) = {} /\ ToSet(e) = {}
    BY <1>3, <1>8, EmptyFacts
  <2>2. Path(e, m_ready_next', NoActor)
    BY <1>8, PathEmpty
  <2>3. Listed(f, n, e, t)'
    BY <1>1, <1>5, <2>2 DEF Lists, Listed
  <2>4. Disjoint(f, n, e, t)'
    BY <2>1 DEF Lists, Disjoint
  <2>5. Holds(f, n, e, t)'
    BY <1>1, <1>6, <2>1 DEF Lists, Holds
  <2>6. Ends(f, n, e)'
    BY <1>1, <1>4 DEF Ends
  <2>7. QED
    BY <2>3, <2>4, <2>5, <2>6 DEF Lists
<1>9. QED
  BY <1>3, <1>7, <1>8

\* pop() takes the first entry of the cache.
LEMMA PopLists ==
    ASSUME Shape, NEW c, NEW n, NEW f, NEW t, Lists(c, n, f, t), Pop
    PROVE  /\ Shape' /\ m_head \in Actors /\ IsEmpty(n) /\ IsEmpty(f)
           /\ \E r \in Seq(Actors) : Led(c, m_head, r) /\ Lists(r, n, f, t)'
<1>1. /\ worker \in {"idle", "serve"} /\ m_head # NoActor
      /\ m_head' = m_ready_next[m_head]
      /\ m_tail' = IF m_ready_next[m_head] = NoActor THEN NoActor ELSE m_tail
      /\ m_ready_next' = [m_ready_next EXCEPT ![m_head] = NoActor]
      /\ m_ready_self' = m_ready_self \ {m_head}
      /\ got' = m_head /\ worker' = "idle"
      /\ m_stack' = m_stack /\ UNCHANGED pushes
      /\ node' = node /\ first' = first /\ last' = last /\ saw' = saw
  BY DEF Pop, Unlink, locals
<1>2. /\ Path(c, m_ready_next, m_head) /\ Path(n, m_ready_next, node)
      /\ Path(f, m_ready_next, first) /\ Path(t, m_ready_next, m_stack)
  BY DEF Lists, Listed
<1>3. PICK r \in Seq(Actors) : /\ Led(c, m_head, r) /\ Path(r, m_ready_next, m_ready_next[m_head])
                               /\ m_head \in Actors /\ m_head \notin ToSet(r)
  BY <1>1, <1>2, PathTail
<1>4. m_ready_next \in [Actors -> Pointer] /\ NoActor \in Pointer /\ m_tail \in Pointer
  BY DEF Shape, TypeOK, Pointer
<1>5. /\ m_ready_next' \in [Actors -> Pointer]
      /\ \A b \in Actors : b # m_head => m_ready_next'[b] = m_ready_next[b]
      /\ m_ready_next[m_head] \in Pointer
  BY <1>1, <1>3, <1>4
<1>6. ToSet(c) = {m_head} \cup ToSet(r)
  BY <1>3, LedSet
<1>7. Pushing' = Pushing /\ PushApart'
  BY <1>1, <1>5, <1>6, WorkerPushes
<1>8. node = NoActor /\ first = NoActor
  BY <1>1 DEF Shape, WorkerShape
<1>9. Shape'
  <2>1. TypeOK'
    BY <1>1, <1>3, <1>4, <1>5 DEF Shape, TypeOK, Pointer, pushes
  <2>2. WorkerShape'
    BY <1>1, <1>8 DEF WorkerShape
  <2>3. QED
    BY <1>7, <2>1, <2>2 DEF Shape
<1>10. IsEmpty(n) /\ IsEmpty(f)
  BY <1>8, ListFacts
<1>11. /\ ToSet(r) \subseteq Actors /\ ToSet(n) \subseteq Actors
       /\ ToSet(f) \subseteq Actors /\ ToSet(t) \subseteq Actors
  BY <1>2, <1>3, PathType
<1>12. m_head \notin ToSet(n) /\ m_head \notin ToSet(f) /\ m_head \notin ToSet(t)
  BY <1>6 DEF Lists, Disjoint
<1>13. Listed(r, n, f, t)'
  <2>1. /\ Path(r, m_ready_next', m_ready_next[m_head]) /\ Path(n, m_ready_next', node)
        /\ Path(f, m_ready_next', first) /\ Path(t, m_ready_next', m_stack)
    BY <1>2, <1>3, <1>5, <1>11, <1>12, PathFrame
  <2>2. QED
    BY <1>1, <2>1 DEF Listed
<1>14. Disjoint(r, n, f, t)'
  BY <1>6 DEF Lists, Disjoint
<1>15. Holds(r, n, f, t)'
  <2>1. m_head \notin Pushing
    BY <1>6 DEF Lists, Holds
  <2>2. m_ready_self' = Pushing' \cup ToSet(r) \cup ToSet(n) \cup ToSet(f) \cup ToSet(t)
    BY <1>1, <1>3, <1>6, <1>7, <1>12, <2>1 DEF Lists, Holds
  <2>3. Pushing' \cap (ToSet(r) \cup ToSet(n) \cup ToSet(f) \cup ToSet(t)) = {}
    BY <1>6, <1>7 DEF Lists, Holds
  <2>4. QED
    BY <2>2, <2>3 DEF Holds
<1>16. Ends(r, n, f)'
  <2>1. m_tail = EndOf(c)
    BY DEF Lists, Ends
  <2>2. m_ready_next[m_head] = NoActor <=> IsEmpty(r)
    BY <1>3, PathType
  <2>3. m_tail' = EndOf(r)
    BY <1>1, <1>3, <2>1, <2>2, EndLed
  <2>4. QED
    BY <1>1, <2>3 DEF Ends
<1>17. QED
  BY <1>3, <1>9, <1>10, <1>13, <1>14, <1>15, <1>16 DEF Lists

\* maybe_nonempty() and a stuttering step change no list.
LEMMA LookLists ==
    ASSUME Shape, NEW c, NEW n, NEW f, NEW t, Lists(c, n, f, t), MaybeNonempty \/ UNCHANGED vars
    PROVE  Shape' /\ Lists(c, n, f, t)'
<1>1. /\ m_stack' = m_stack /\ m_head' = m_head /\ m_tail' = m_tail /\ m_ready_next' = m_ready_next
      /\ m_ready_self' = m_ready_self /\ pc' = pc /\ item' = item /\ head' = head
      /\ worker' = worker /\ node' = node /\ first' = first /\ last' = last /\ got' = got
  BY DEF MaybeNonempty, vars, cache, pushes, locals
<1>2. saw' \in BOOLEAN
  BY DEF MaybeNonempty, vars, Shape, TypeOK
<1>3. Shape'
  BY <1>1, <1>2 DEF Shape, TypeOK, PushApart, WorkerShape
<1>4. Lists(c, n, f, t)'
  BY <1>1 DEF Lists, Listed, Disjoint, Holds, Ends, Pushing
<1>5. QED
  BY <1>3, <1>4

-----------------------------------------------------------------------------
(* The invariant *)

\* It holds when the queue is made, with four empty lists.
LEMMA QueueInit == Init => QueueInv
<1> SUFFICES ASSUME Init PROVE QueueInv
  OBVIOUS
<1>1. Shape
  BY ActorsAssumption DEF Init, Shape, TypeOK, PushApart, WorkerShape, Pointer
<1>2. PICK e : IsEmpty(e)
  BY DEF IsEmpty
<1>3. ToSet(e) = {} /\ Len(e) = 0
  BY <1>2, EmptyFacts
<1>4. Listed(e, e, e, e)
  BY <1>2, PathEmpty DEF Init, Listed
<1>5. Pushing = {}
  BY DEF Init, Pushing
<1>6. Disjoint(e, e, e, e) /\ Holds(e, e, e, e)
  BY <1>3, <1>5 DEF Init, Disjoint, Holds
<1>7. Ends(e, e, e)
  BY <1>3 DEF Init, Ends, EndOf
<1>8. QED
  BY <1>1, <1>4, <1>6, <1>7 DEF QueueInv, Lists

\* Every step keeps it.
LEMMA QueueStep == QueueInv /\ [Next]_vars => QueueInv'
<1> SUFFICES ASSUME QueueInv, [Next]_vars PROVE QueueInv'
  OBVIOUS
<1>1. Shape
  BY DEF QueueInv
<1>2. PICK c, n, f, t : Lists(c, n, f, t)
  BY DEF QueueInv
<1>3. ASSUME NEW p \in Pushers, Push(p) PROVE QueueInv'
  <2>1. ASSUME NEW a \in Actors, PushBegin(p, a) PROVE QueueInv'
    BY <1>1, <1>2, <2>1, PushBeginLists DEF QueueInv
  <2>2. CASE PushLink(p)
    BY <1>1, <1>2, <2>2, PushLinkLists DEF QueueInv
  <2>3. CASE PushCas(p)
    <3>1. PICK u : Led(u, item[p], t)
      BY DEF Led
    <3>2. QED
      BY <1>1, <1>2, <2>3, <3>1, PushCasLists DEF QueueInv
  <2>4. QED
    BY <1>3, <2>1, <2>2, <2>3 DEF Push
<1>4. CASE Fetch
  <2>1. PICK e : IsEmpty(e)
    BY DEF IsEmpty
  <2>2. Shape' /\ (Lists(c, n, f, t)' \/ Lists(c, t, f, e)')
    BY <1>1, <1>2, <1>4, <2>1, FetchLists
  <2>3. QED
    BY <2>2 DEF QueueInv
<1>5. CASE FetchNode
  <2>1. PICK u : Led(u, node, f)
    BY DEF Led
  <2>2. Shape' /\ \E r : Lists(c, r, u, t)'
    BY <1>1, <1>2, <1>5, <2>1, FetchNodeLists
  <2>3. QED
    BY <2>2 DEF QueueInv
<1>6. CASE FetchAppend
  <2>1. PICK e : IsEmpty(e)
    BY DEF IsEmpty
  <2>2. Shape' /\ Lists(f, n, e, t)'
    BY <1>1, <1>2, <1>6, <2>1, FetchAppendLists
  <2>3. QED
    BY <2>2 DEF QueueInv
<1>7. CASE Pop
  <2>1. Shape' /\ \E r : Lists(r, n, f, t)'
    BY <1>1, <1>2, <1>7, PopLists
  <2>2. QED
    BY <2>1 DEF QueueInv
<1>8. CASE MaybeNonempty \/ UNCHANGED vars
  BY <1>1, <1>2, <1>8, LookLists DEF QueueInv
<1>9. QED
  BY <1>3, <1>4, <1>5, <1>6, <1>7, <1>8 DEF Next, Work

\* The four lists are well formed in every reachable state.
THEOREM QueueInvariant == Spec => []QueueInv
BY QueueInit, QueueStep, PTL DEF Spec

\* Every variable of the queue has its type, and when fetch_more() returns to
\* pop() with an entry there is one (ready_queue.cpp:42).
THEOREM QueueTypeCorrect == Spec => []TypeOK
<1>1. QueueInv => TypeOK
  BY DEF QueueInv, Shape
<1>2. QED
  BY <1>1, QueueInvariant, PTL

-----------------------------------------------------------------------------
(* What is queued *)

\* q is the cache, the fetched list in reverse, its reversed part and the stack
\* in reverse, one after the other.
Total(q, c, n, f, t) == q = c \o Reverse(n) \o f \o Reverse(t)

\* The three concatenations.
LEMMA TotalSplit ==
    ASSUME NEW q, NEW c, NEW n, NEW f, NEW t, Total(q, c, n, f, t)
    PROVE  \E a, b, x, y : /\ x = Reverse(n) /\ y = Reverse(t)
                           /\ Joined(a, c, x) /\ Joined(b, a, f) /\ Joined(q, b, y)
BY Zenon DEF Total, Joined

\* Queued is that of the four lists.
Tallies == \A c, n, f, t : Shape /\ Lists(c, n, f, t) => Total(Queued, c, n, f, t)

\* It always is.
LEMMA QueuedIs == Tallies
<1> SUFFICES ASSUME NEW c, NEW n, NEW f, NEW t, Shape, Lists(c, n, f, t)
             PROVE  Total(Queued, c, n, f, t)
  BY DEF Tallies
<1>1. Chain(m_head) = c /\ Chain(node) = n /\ Chain(first) = f /\ Chain(m_stack) = t
  BY ChainIs DEF Shape, Lists, Listed
<1>2. QED
  BY <1>1, Zenon DEF Total, Queued

\* What the four lists hold, and nothing twice.
LEMMA TotalFacts ==
    ASSUME Shape, NEW c, NEW n, NEW f, NEW t, Lists(c, n, f, t), NEW q, Total(q, c, n, f, t)
    PROVE  /\ q \in Seq(Actors) /\ IsInjective(q)
           /\ ToSet(q) = ToSet(c) \cup ToSet(n) \cup ToSet(f) \cup ToSet(t)
<1>1. /\ c \in Seq(Actors) /\ n \in Seq(Actors) /\ f \in Seq(Actors) /\ t \in Seq(Actors)
      /\ IsInjective(c) /\ IsInjective(n) /\ IsInjective(f) /\ IsInjective(t)
  BY PathType DEF Lists, Listed
<1>2. PICK a, b, x, y : /\ x = Reverse(n) /\ y = Reverse(t)
                        /\ Joined(a, c, x) /\ Joined(b, a, f) /\ Joined(q, b, y)
  BY TotalSplit
<1>3. /\ x \in Seq(Actors) /\ ToSet(x) = ToSet(n) /\ IsInjective(x)
      /\ y \in Seq(Actors) /\ ToSet(y) = ToSet(t) /\ IsInjective(y)
  BY <1>1, <1>2, ReverseFacts, ReverseInjective
<1>4. /\ ToSet(c) \cap ToSet(x) = {} /\ (ToSet(c) \cup ToSet(x)) \cap ToSet(f) = {}
      /\ (ToSet(c) \cup ToSet(x) \cup ToSet(f)) \cap ToSet(y) = {}
  BY <1>3 DEF Lists, Disjoint
<1>5. a \in Seq(Actors) /\ ToSet(a) = ToSet(c) \cup ToSet(x) /\ IsInjective(a)
  <2>1. a \in Seq(Actors) /\ ToSet(a) = ToSet(c) \cup ToSet(x)
    BY <1>1, <1>2, <1>3, JoinedType, JoinedSet
  <2>2. IsInjective(a)
    BY <1>1, <1>2, <1>3, <1>4, JoinedInjective
  <2>3. QED
    BY <2>1, <2>2
<1>6. b \in Seq(Actors) /\ ToSet(b) = ToSet(c) \cup ToSet(x) \cup ToSet(f) /\ IsInjective(b)
  <2>1. b \in Seq(Actors) /\ ToSet(b) = ToSet(a) \cup ToSet(f)
    BY <1>1, <1>2, <1>5, JoinedType, JoinedSet
  <2>2. ToSet(a) \cap ToSet(f) = {}
    BY <1>4, <1>5
  <2>3. IsInjective(b)
    BY <1>1, <1>2, <1>5, <2>2, JoinedInjective
  <2>4. QED
    BY <1>5, <2>1, <2>3
<1>7. q \in Seq(Actors) /\ ToSet(q) = ToSet(b) \cup ToSet(y) /\ IsInjective(q)
  <2>1. q \in Seq(Actors) /\ ToSet(q) = ToSet(b) \cup ToSet(y)
    BY <1>2, <1>3, <1>6, JoinedType, JoinedSet
  <2>2. ToSet(b) \cap ToSet(y) = {}
    BY <1>4, <1>6
  <2>3. IsInjective(q)
    BY <1>2, <1>3, <1>6, <2>2, JoinedInjective
  <2>4. QED
    BY <2>1, <2>3
<1>8. QED
  BY <1>3, <1>6, <1>7

\* An actor holds a reference to itself exactly while a thread pushes it or it is
\* linked in, never both and never twice: push() and pop() neither leak an actor
\* nor let one go that a link leads to (ready_queue.cpp:17, 58).
THEOREM ReferencesExact == Spec => []SelfHeld
<1>1. ASSUME QueueInv PROVE SelfHeld
  <2>1. PICK c, n, f, t : Shape /\ Lists(c, n, f, t)
    BY <1>1 DEF QueueInv
  <2>2. PICK q : q = Queued
    OBVIOUS
  <2>3. IsInjective(q) /\ ToSet(q) = ToSet(c) \cup ToSet(n) \cup ToSet(f) \cup ToSet(t)
    BY <2>1, <2>2, QueuedIs, TotalFacts DEF Tallies
  <2>4. m_ready_self = Pushing \cup ToSet(q) /\ Pushing \cap ToSet(q) = {}
    BY <2>1, <2>3 DEF Lists, Holds
  <2>5. QED
    BY <2>2, <2>3, <2>4 DEF SelfHeld
<1>2. QED
  BY <1>1, QueueInvariant, PTL

-----------------------------------------------------------------------------
(* The queue is a FIFO *)

\* ReadyFifo has its own copy of ToSet.
LEMMA FifoToSet == \A s : Fifo!ToSet(s) = ToSet(s)
BY DEF Fifo!ToSet, ToSet

\* An actor put in front of the stack comes last in the queue.
LEMMA TotalPushed ==
    ASSUME NEW c \in Seq(Actors), NEW n \in Seq(Actors), NEW f \in Seq(Actors), NEW t \in Seq(Actors),
           NEW x \in Actors, NEW u, Led(u, x, t),
           NEW q, Total(q, c, n, f, t), NEW r, Total(r, c, n, f, u)
    PROVE  Longer(r, q, x)
<1>1. PICK b : b = c \o Reverse(n) \o f
  OBVIOUS
<1>2. PICK y, z : y = Reverse(t) /\ z = Reverse(u)
  OBVIOUS
<1>3. Longer(z, y, x) /\ y \in Seq(Actors)
  BY <1>2, ReverseLed, ReverseFacts
<1>4. b \in Seq(Actors)
  BY <1>1, ReverseFacts
<1>5. q = b \o y /\ r = b \o z
  BY <1>1, <1>2, Zenon DEF Total
<1>6. QED
  BY <1>3, <1>4, <1>5 DEF Longer

\* The exchange, with nothing else queued, changes nothing.
LEMMA TotalFetched ==
    ASSUME NEW c, NEW n, NEW f, NEW e, IsEmpty(c), IsEmpty(n), IsEmpty(f), IsEmpty(e),
           NEW t \in Seq(Actors),
           NEW q, Total(q, c, n, f, t), NEW r, Total(r, c, t, f, e)
    PROVE  r = q
<1>1. PICK y, z : y = Reverse(t) /\ z = Reverse(e)
  OBVIOUS
<1>2. IsEmpty(z) /\ IsEmpty(Reverse(n)) /\ y \in Seq(Actors)
  BY <1>1, ReverseEmpty, ReverseFacts
<1>3. q = ((<<>> \o <<>>) \o <<>>) \o y
  BY <1>1, <1>2, Zenon DEF Total, IsEmpty
<1>4. r = ((<<>> \o y) \o <<>>) \o <<>>
  BY <1>1, <1>2, Zenon DEF Total, IsEmpty
<1>5. QED
  BY <1>2, <1>3, <1>4

\* Nor does a turn of the loop.
LEMMA TotalTurned ==
    ASSUME NEW c \in Seq(Actors), NEW n \in Seq(Actors), NEW f \in Seq(Actors), NEW t \in Seq(Actors),
           NEW x \in Actors, NEW m \in Seq(Actors), Led(n, x, m), NEW u, Led(u, x, f),
           NEW q, Total(q, c, n, f, t), NEW r, Total(r, c, m, u, t)
    PROVE  r = q
<1>1. PICK y, z : y = Reverse(n) /\ z = Reverse(m)
  OBVIOUS
<1>2. Longer(y, z, x) /\ z \in Seq(Actors)
  BY <1>1, ReverseLed, ReverseFacts
<1>3. PICK d, d1 : Joined(d, c, z) /\ Joined(d1, c, y)
  BY DEF Joined
<1>4. PICK w, w1 : Joined(w, d, u) /\ Joined(w1, d1, f)
  BY DEF Joined
<1>5. w = w1
  BY <1>2, <1>3, <1>4, JoinedThree
<1>6. q = w1 \o Reverse(t) /\ r = w \o Reverse(t)
  BY <1>1, <1>3, <1>4, Zenon DEF Total, Joined
<1>7. QED
  BY <1>5, <1>6, Zenon

\* Nor does making the reversed list the cache.
LEMMA TotalAppended ==
    ASSUME NEW c, NEW n, NEW e, IsEmpty(c), IsEmpty(n), IsEmpty(e),
           NEW f \in Seq(Actors), NEW t \in Seq(Actors),
           NEW q, Total(q, c, n, f, t), NEW r, Total(r, f, n, e, t)
    PROVE  r = q
<1>1. IsEmpty(Reverse(n))
  BY ReverseEmpty
<1>2. q = ((<<>> \o <<>>) \o f) \o Reverse(t)
  BY <1>1, Zenon DEF Total, IsEmpty
<1>3. r = ((f \o <<>>) \o <<>>) \o Reverse(t)
  BY <1>1, Zenon DEF Total, IsEmpty
<1>4. (<<>> \o <<>>) \o f = f /\ (f \o <<>>) \o <<>> = f
  OBVIOUS
<1>5. QED
  BY <1>2, <1>3, <1>4, Zenon

\* The first entry of the cache is the first of the queue.
LEMMA TotalPopped ==
    ASSUME NEW c \in Seq(Actors), NEW n \in Seq(Actors), NEW f \in Seq(Actors), NEW t \in Seq(Actors),
           NEW x \in Actors, NEW m \in Seq(Actors), Led(c, x, m),
           NEW q, Total(q, c, n, f, t), NEW r, Total(r, m, n, f, t)
    PROVE  Led(q, x, r) /\ r \in Seq(Actors)
<1>1. PICK y, z : y = Reverse(n) /\ z = Reverse(t)
  OBVIOUS
<1>2. y \in Seq(Actors) /\ z \in Seq(Actors)
  BY <1>1, ReverseFacts
<1>3. q = ((c \o y) \o f) \o z /\ r = ((m \o y) \o f) \o z
  BY <1>1, Zenon DEF Total
<1>4. PICK a, b : a = m \o y /\ b = a \o f
  OBVIOUS
<1>5. a \in Seq(Actors) /\ b \in Seq(Actors)
  BY <1>2, <1>4
<1>6. c \o y = <<x>> \o a
  BY <1>2, <1>4 DEF Led
<1>7. (<<x>> \o a) \o f = <<x>> \o b
  BY <1>4, <1>5
<1>8. (<<x>> \o b) \o z = <<x>> \o (b \o z)
  BY <1>2, <1>5
<1>9. q = <<x>> \o r /\ r = b \o z
  BY <1>3, <1>4, <1>6, <1>7, <1>8, Zenon
<1>10. QED
  BY <1>2, <1>5, <1>9 DEF Led

\* The queue before and after a step, given the lists before and after.
LEMMA QueuedNext ==
    ASSUME NEW c, NEW n, NEW f, NEW t, Shape', Lists(c, n, f, t)'
    PROVE  Total(Queued', c, n, f, t)
<1>1. Tallies'
  BY QueuedIs, PTL
<1>2. Total(Queued, c, n, f, t)'
  BY <1>1 DEF Tallies
<1>3. QED
  BY <1>2, Zenon DEF Total

\* With the same lists the queue is the same.
LEMMA TotalSame ==
    ASSUME NEW c, NEW n, NEW f, NEW t, NEW q, Total(q, c, n, f, t), NEW r, Total(r, c, n, f, t)
    PROVE  r = q
BY Zenon DEF Total

\* Before its CAS a push is invisible.
LEMMA PushQuiet ==
    ASSUME QueueInv, NEW p \in Pushers, (\E a \in Actors : PushBegin(p, a)) \/ PushLink(p)
    PROVE  UNCHANGED Fifo!fvars
<1>1. PICK c, n, f, t : Shape /\ Lists(c, n, f, t)
  BY DEF QueueInv
<1>2. Shape' /\ Lists(c, n, f, t)'
  BY <1>1, PushBeginLists, PushLinkLists
<1>3. Total(Queued, c, n, f, t) /\ Total(Queued', c, n, f, t)
  BY <1>1, <1>2, QueuedIs, QueuedNext DEF Tallies
<1>4. Queued' = Queued
  BY <1>3, TotalSame, Zenon
<1>5. got' = got /\ saw' = saw
  BY DEF PushBegin, PushLink
<1>6. QED
  BY <1>4, <1>5 DEF Fifo!fvars

\* The CAS is the push.
LEMMA PushCasRefines ==
    ASSUME QueueInv, NEW p \in Pushers, PushCas(p)
    PROVE  \E a \in Actors : Fifo!FPush(a)
<1>1. PICK c, n, f, t : Shape /\ Lists(c, n, f, t)
  BY DEF QueueInv
<1>2. PICK u : Led(u, item[p], t)
  BY DEF Led
<1>3. Shape' /\ Lists(c, n, f, u)' /\ item[p] \in Actors
  BY <1>1, <1>2, PushCasLists
<1>4. PICK q, r : q = Queued /\ r = Queued'
  OBVIOUS
<1>5. Total(q, c, n, f, t) /\ Total(r, c, n, f, u)
  BY <1>1, <1>3, <1>4, QueuedIs, QueuedNext DEF Tallies
<1>6. c \in Seq(Actors) /\ n \in Seq(Actors) /\ f \in Seq(Actors) /\ t \in Seq(Actors)
  BY <1>1, ListFacts
<1>7. PICK x \in Actors : x = item[p]
  BY <1>3
<1>8. Longer(r, q, x)
  BY <1>2, <1>5, <1>6, <1>7, TotalPushed
<1>9. x \notin ToSet(q)
  <2>1. ToSet(q) = ToSet(c) \cup ToSet(n) \cup ToSet(f) \cup ToSet(t)
    BY <1>1, <1>5, TotalFacts
  <2>2. item[p] \in Pushing
    BY <1>1, ListFacts DEF PushCas, Publish
  <2>3. QED
    BY <1>1, <1>7, <2>1, <2>2 DEF Lists, Holds
<1>10. got' = got /\ saw' = saw
  BY DEF PushCas, Publish
<1>11. Fifo!FPush(x)
  BY <1>4, <1>8, <1>9, <1>10, FifoToSet, Zenon DEF Fifo!FPush, Longer
<1>12. QED
  BY <1>11

\* A pop() that finds both the cache and the stack empty says so of an empty
\* queue; the exchange of a stack that is not empty is invisible.
LEMMA FetchRefines ==
    ASSUME QueueInv, Fetch
    PROVE  Fifo!FPopNothing \/ UNCHANGED Fifo!fvars
<1>1. PICK c, n, f, t : Shape /\ Lists(c, n, f, t)
  BY DEF QueueInv
<1>2. Shape' /\ IsEmpty(c) /\ IsEmpty(n) /\ IsEmpty(f)
  BY <1>1, FetchLists
<1>3. PICK q, r : q = Queued /\ r = Queued'
  OBVIOUS
<1>4. Total(q, c, n, f, t)
  BY <1>1, <1>3, QueuedIs DEF Tallies
<1>5. t \in Seq(Actors) /\ (m_stack = NoActor <=> IsEmpty(t))
  BY <1>1, ListFacts
<1>6. saw' = saw
  BY DEF Fetch
<1>7. CASE m_stack = NoActor
  <2>1. Lists(c, n, f, t)' /\ got' = NoActor
    BY <1>1, <1>7, FetchLists DEF Fetch
  <2>2. Total(r, c, n, f, t)
    BY <1>2, <1>3, <2>1, QueuedNext
  <2>3. r = q
    BY <1>4, <2>2, TotalSame, Zenon
  <2>4. q = <<>>
    <3>1. IsEmpty(t)
      BY <1>5, <1>7
    <3>2. IsEmpty(Reverse(n)) /\ IsEmpty(Reverse(t))
      BY <1>2, <3>1, ReverseEmpty
    <3>3. q = ((<<>> \o <<>>) \o <<>>) \o <<>>
      BY <1>2, <1>4, <3>2, Zenon DEF Total, IsEmpty
    <3>4. QED
      BY <3>3
  <2>5. QED
    BY <1>3, <1>6, <2>1, <2>3, <2>4, Zenon DEF Fifo!FPopNothing
<1>8. CASE m_stack # NoActor
  <2>1. PICK e : IsEmpty(e)
    BY DEF IsEmpty
  <2>2. Lists(c, t, f, e)' /\ got' = got
    BY <1>1, <1>8, <2>1, FetchLists DEF Fetch
  <2>3. Total(r, c, t, f, e)
    BY <1>2, <1>3, <2>2, QueuedNext
  <2>4. r = q
    BY <1>2, <1>4, <1>5, <2>1, <2>3, TotalFetched
  <2>5. QED
    BY <1>3, <1>6, <2>2, <2>4, Zenon DEF Fifo!fvars
<1>9. QED
  BY <1>7, <1>8

\* Reversing the list and making it the cache is invisible.
LEMMA ReverseQuiet ==
    ASSUME QueueInv, FetchNode \/ FetchAppend
    PROVE  UNCHANGED Fifo!fvars
<1>1. PICK c, n, f, t : Shape /\ Lists(c, n, f, t)
  BY DEF QueueInv
<1>2. PICK q, r : q = Queued /\ r = Queued'
  OBVIOUS
<1>3. Total(q, c, n, f, t)
  BY <1>1, <1>2, QueuedIs DEF Tallies
<1>4. c \in Seq(Actors) /\ n \in Seq(Actors) /\ f \in Seq(Actors) /\ t \in Seq(Actors)
  BY <1>1, ListFacts
<1>5. got' = got /\ saw' = saw
  BY DEF FetchNode, FetchAppend
<1>6. CASE FetchNode
  <2>1. PICK u : Led(u, node, f)
    BY DEF Led
  <2>2. Shape' /\ node \in Actors
    BY <1>1, <1>6, FetchNodeLists
  <2>3. PICK m \in Seq(Actors) : Led(n, node, m) /\ Lists(c, m, u, t)'
    BY <1>1, <1>6, <2>1, FetchNodeLists
  <2>4. Total(r, c, m, u, t)
    BY <1>2, <2>2, <2>3, QueuedNext
  <2>5. r = q
    BY <1>3, <1>4, <2>1, <2>2, <2>3, <2>4, TotalTurned
  <2>6. QED
    BY <1>2, <1>5, <2>5, Zenon DEF Fifo!fvars
<1>7. CASE FetchAppend
  <2>1. PICK e : IsEmpty(e)
    BY DEF IsEmpty
  <2>2. Shape' /\ IsEmpty(c) /\ IsEmpty(n) /\ Lists(f, n, e, t)'
    BY <1>1, <1>7, <2>1, FetchAppendLists
  <2>3. Total(r, f, n, e, t)
    BY <1>2, <2>2, QueuedNext
  <2>4. r = q
    BY <1>3, <1>4, <2>1, <2>2, <2>3, TotalAppended
  <2>5. QED
    BY <1>2, <1>5, <2>4, Zenon DEF Fifo!fvars
<1>8. QED
  BY <1>6, <1>7

\* pop() of the cache takes the oldest entry of the queue.
LEMMA PopRefines ==
    ASSUME QueueInv, Pop
    PROVE  Fifo!FPop
<1>1. PICK c, n, f, t : Shape /\ Lists(c, n, f, t)
  BY DEF QueueInv
<1>2. PICK q, r : q = Queued /\ r = Queued'
  OBVIOUS
<1>3. Total(q, c, n, f, t)
  BY <1>1, <1>2, QueuedIs DEF Tallies
<1>4. c \in Seq(Actors) /\ n \in Seq(Actors) /\ f \in Seq(Actors) /\ t \in Seq(Actors)
  BY <1>1, ListFacts
<1>5. PICK m \in Seq(Actors) : Led(c, m_head, m) /\ Lists(m, n, f, t)'
  BY <1>1, PopLists
<1>6. Shape' /\ m_head \in Actors
  BY <1>1, PopLists
<1>7. Total(r, m, n, f, t)
  BY <1>2, <1>5, <1>6, QueuedNext
<1>8. PICK x \in Actors : x = m_head
  BY <1>6
<1>9. Led(q, x, r) /\ r \in Seq(Actors)
  BY <1>3, <1>4, <1>5, <1>7, <1>8, TotalPopped
<1>10. q # <<>> /\ Head(q) = x /\ Tail(q) = r
  BY <1>9 DEF Led
<1>11. got' = x /\ saw' = saw
  BY <1>8 DEF Pop, Unlink
<1>12. QED
  BY <1>2, <1>10, <1>11, Zenon DEF Fifo!FPop

\* maybe_nonempty() says whether the queue is empty.
LEMMA LookRefines ==
    ASSUME QueueInv, MaybeNonempty
    PROVE  Fifo!FLook
<1>1. PICK c, n, f, t : Shape /\ Lists(c, n, f, t)
  BY DEF QueueInv
<1>2. PICK q, r : q = Queued /\ r = Queued'
  OBVIOUS
<1>3. Shape' /\ Lists(c, n, f, t)'
  BY <1>1, LookLists
<1>4. Total(q, c, n, f, t) /\ Total(r, c, n, f, t)
  BY <1>1, <1>2, <1>3, QueuedIs, QueuedNext DEF Tallies
<1>5. r = q
  BY <1>4, TotalSame, Zenon
<1>6. worker = "idle" /\ saw' = (m_head # NoActor \/ m_stack # NoActor) /\ got' = got
  BY DEF MaybeNonempty
<1>7. node = NoActor /\ first = NoActor
  BY <1>1, <1>6 DEF Shape, WorkerShape
<1>8. /\ c \in Seq(Actors) /\ n \in Seq(Actors) /\ f \in Seq(Actors) /\ t \in Seq(Actors)
      /\ m_head = NoActor <=> IsEmpty(c)
      /\ m_stack = NoActor <=> IsEmpty(t)
      /\ IsEmpty(n) /\ IsEmpty(f)
  BY <1>1, <1>7, ListFacts
<1>9. q \in Seq(Actors) /\ ToSet(q) = ToSet(c) \cup ToSet(n) \cup ToSet(f) \cup ToSet(t)
  BY <1>1, <1>4, TotalFacts
<1>10. IsEmpty(q) <=> ToSet(q) = {}
  BY <1>9, EmptyFacts, NonEmptyFacts
<1>11. (IsEmpty(c) <=> ToSet(c) = {}) /\ (IsEmpty(t) <=> ToSet(t) = {}) /\ ToSet(n) = {} /\ ToSet(f) = {}
  BY <1>8, EmptyFacts, NonEmptyFacts
<1>12. (m_head # NoActor \/ m_stack # NoActor) <=> ~IsEmpty(q)
  BY <1>8, <1>9, <1>10, <1>11
<1>13. saw' = (q # <<>>)
  BY <1>6, <1>12 DEF IsEmpty
<1>14. QED
  BY <1>2, <1>5, <1>6, <1>13, Zenon DEF Fifo!FLook

\* Every step of the queue is a step of the FIFO, or invisible.
LEMMA QueueRefinesStep ==
    ASSUME QueueInv, [Next]_vars
    PROVE  [Fifo!FNext]_(Fifo!fvars)
<1>1. ASSUME NEW p \in Pushers, Push(p) PROVE Fifo!FNext \/ UNCHANGED Fifo!fvars
  BY <1>1, PushQuiet, PushCasRefines DEF Push, Fifo!FNext
<1>2. CASE Work
  BY <1>2, FetchRefines, ReverseQuiet, PopRefines DEF Work, Fifo!FNext
<1>3. CASE MaybeNonempty
  BY <1>3, LookRefines DEF Fifo!FNext
<1>4. CASE UNCHANGED vars
  <2>1. PICK c, n, f, t : Shape /\ Lists(c, n, f, t)
    BY DEF QueueInv
  <2>2. Shape' /\ Lists(c, n, f, t)'
    BY <1>4, <2>1, LookLists
  <2>3. Total(Queued, c, n, f, t) /\ Total(Queued', c, n, f, t)
    BY <2>1, <2>2, QueuedIs, QueuedNext DEF Tallies
  <2>4. Queued' = Queued
    BY <2>3, TotalSame, Zenon
  <2>5. got' = got /\ saw' = saw
    BY <1>4 DEF vars
  <2>6. QED
    BY <2>4, <2>5 DEF Fifo!fvars
<1>5. QED
  BY <1>1, <1>2, <1>3, <1>4 DEF Next

\* A new queue is empty.
LEMMA QueueRefinesInit == Init => Fifo!FInit
<1> SUFFICES ASSUME Init PROVE Fifo!FInit
  OBVIOUS
<1>1. PICK e : IsEmpty(e)
  BY DEF IsEmpty
<1>2. TypeOK
  BY QueueInit DEF QueueInv, Shape
<1>3. Path(e, m_ready_next, NoActor)
  BY <1>1, PathEmpty
<1>4. Chain(NoActor) = e
  BY <1>2, <1>3, ChainIs
<1>5. m_head = NoActor /\ node = NoActor /\ first = NoActor /\ m_stack = NoActor
  BY DEF Init
<1>6. IsEmpty(Reverse(e))
  BY <1>1, ReverseEmpty
<1>7. Queued = ((<<>> \o <<>>) \o <<>>) \o <<>>
  BY <1>1, <1>4, <1>5, <1>6, Zenon DEF Queued, IsEmpty
<1>8. Queued = <<>>
  BY <1>7
<1>9. got = NoActor /\ saw = FALSE
  BY DEF Init
<1>10. QED
  BY <1>8, <1>9, Zenon DEF Fifo!FInit

\* The lock-free queue implements the FIFO of ReadyFifo: the CAS of push() and
\* the unlinking of pop() are its atomic steps, in that order, and pop() says
\* "empty" and maybe_nonempty() "no" only of an empty queue (ready_queue.cpp).
THEOREM QueueRefinesFifo == Spec => ImplementsFifo
<1>1. QueueInv /\ [Next]_vars => [Fifo!FNext]_(Fifo!fvars)
  BY QueueRefinesStep
<1>2. QED
  BY <1>1, QueueRefinesInit, QueueInvariant, PTL DEF Spec, ImplementsFifo, Fifo!FSpec

-----------------------------------------------------------------------------
(* The message pool *)

\* What a thread holds at which point of a call.
Phases ==
    \A t \in Threads :
        /\ phase[t] \in {"idle", "store"} => moving[t] = {}
        /\ phase[t] \in {"idle", "refill"} => hand[t] = {}
        /\ phase[t] = "enqueue" => kept[t] = moving[t]
        /\ phase[t] = "surplus" => kept[t] \subseteq moving[t]
        /\ phase[t] \notin {"surplus", "enqueue"} => kept[t] = {}

\* The blocks that the count stands for: those on the shared list, those
\* reserved and not yet enqueued, those dequeued and not yet subtracted.
Counted ==
    {b \in Blocks : b \in shared \/ \E t \in Threads :
                        phase[t] \in {"refill", "surplus", "enqueue"} /\ b \in moving[t]}

CountIs == count = Cardinality(Counted)

\* The blocks on the shared list or certain of a place on it.
Granted == {b \in Blocks : b \in shared \/ \E t \in Threads : b \in kept[t]}

GrantBound ==
    \A m \in Nat : (\A l \in Limits : l \in 1..m) => Cardinality(Granted) <= m

\* The cache keeps room for the block deallocate() has in hand.
Room ==
    \A t \in Threads :
        /\ Cardinality(t_cache[t]) <= Capacity
        /\ t \in released => t_cache[t] = {} /\ hand[t] = {}
        /\ hand[t] # {} => /\ Cardinality(t_cache[t]) < Capacity
                           /\ \E b \in Blocks : hand[t] = {b}
        /\ phase[t] = "refill" =>
              /\ t_cache[t] = {}
              /\ Cardinality(moving[t]) <= Batch
              /\ t \in released => Cardinality(moving[t]) <= 1

\* The inductive invariant.
PoolInv == PlaceType /\ Phases /\ OneHolder /\ CountIs /\ GrantBound /\ Room

-----------------------------------------------------------------------------
\* Every set of blocks is finite.
LEMMA BlocksFinite ==
    ASSUME PoolConstants, NEW S \in SUBSET Blocks
    PROVE  IsFiniteSet(S) /\ Cardinality(S) \in Nat
BY FS_Subset, FS_CardinalityType DEF PoolConstants

\* Blocks added to blocks that do not contain them.
LEMMA CardAdd ==
    ASSUME PoolConstants, NEW S \in SUBSET Blocks, NEW T \in SUBSET Blocks, S \cap T = {}
    PROVE  Cardinality(S \cup T) = Cardinality(S) + Cardinality(T)
<1>1. IsFiniteSet(S) /\ IsFiniteSet(T) /\ Cardinality(S) \in Nat /\ Cardinality(T) \in Nat
  BY BlocksFinite
<1>2. Cardinality(S \cup T) = Cardinality(S) + Cardinality(T) - Cardinality(S \cap T)
  BY <1>1, FS_Union
<1>3. QED
  BY <1>1, <1>2, FS_EmptySet

\* Blocks taken from blocks that contain them.
LEMMA CardSub ==
    ASSUME PoolConstants, NEW S \in SUBSET Blocks, NEW T \in SUBSET S
    PROVE  /\ Cardinality(T) <= Cardinality(S)
           /\ Cardinality(S \ T) = Cardinality(S) - Cardinality(T)
<1>1. IsFiniteSet(S) /\ Cardinality(S) \in Nat
  BY BlocksFinite
<1>2. Cardinality(S \ T) = Cardinality(S) - Cardinality(S \cap T)
  BY <1>1, FS_Difference
<1>3. S \cap T = T
  OBVIOUS
<1>4. QED
  BY <1>1, <1>2, <1>3, FS_Subset

\* One block more.
LEMMA CardOneMore ==
    ASSUME PoolConstants, NEW S \in SUBSET Blocks, NEW b \in Blocks
    PROVE  Cardinality(S \cup {b}) <= Cardinality(S) + 1
<1>1. IsFiniteSet(S) /\ Cardinality(S) \in Nat
  BY BlocksFinite
<1>2. Cardinality(S \cup {b}) = IF b \in S THEN Cardinality(S) ELSE Cardinality(S) + 1
  BY <1>1, FS_AddElement
<1>3. QED
  BY <1>1, <1>2

-----------------------------------------------------------------------------
\* Every step keeps blocks, limits and program counters in their places.
LEMMA TypeStep ==
    ASSUME PoolInv, [PoolNext]_poolVars
    PROVE  PlaceType'
<1> USE DEF PoolInv, PlaceType, sharedVars, threadVars
<1>1. ASSUME NEW t \in Threads, NEW b \in Blocks, OfBlock(t, b) PROVE PlaceType'
  BY <1>1 DEF OfBlock, AllocateCached, RefillDone, AllocateNew, AllocateLarge,
              DeallocateLarge, Deallocate, DeallocateShared
<1>2. ASSUME NEW t \in Threads, NEW S \in SUBSET Blocks, OfBlocks(t, S) PROVE PlaceType'
  BY <1>2 DEF OfBlocks, Refill, Prewarm, Reserve, Flush
<1>3. ASSUME NEW t \in Threads, OfThread(t) PROVE PlaceType'
  BY <1>3 DEF OfThread, Store, ThreadExit, ReadLimit, Surplus, Enqueue, EnqueueFails, Returned
<1>4. ASSUME NEW l \in Limits, SetMaxPoolSize(l) PROVE PlaceType'
  BY <1>4 DEF SetMaxPoolSize
<1>5. CASE UNCHANGED poolVars
  BY <1>5 DEF poolVars
<1>6. QED
  BY <1>1, <1>2, <1>3, <1>4, <1>5 DEF PoolNext

\* Every step leaves a thread with what its program counter says.
LEMMA PhaseStep ==
    ASSUME PoolInv, [PoolNext]_poolVars
    PROVE  Phases'
<1> USE DEF PoolInv, PlaceType, Phases, sharedVars, threadVars
<1>1. ASSUME NEW t \in Threads, NEW b \in Blocks, OfBlock(t, b) PROVE Phases'
  BY <1>1 DEF OfBlock, AllocateCached, RefillDone, AllocateNew, AllocateLarge,
              DeallocateLarge, Deallocate, DeallocateShared
<1>2. ASSUME NEW t \in Threads, NEW S \in SUBSET Blocks, OfBlocks(t, S) PROVE Phases'
  BY <1>2 DEF OfBlocks, Refill, Prewarm, Reserve, Flush
<1>3. ASSUME NEW t \in Threads, OfThread(t) PROVE Phases'
  BY <1>3 DEF OfThread, Store, ThreadExit, ReadLimit, Surplus, Enqueue, EnqueueFails, Returned
<1>4. ASSUME NEW l \in Limits, SetMaxPoolSize(l) PROVE Phases'
  BY <1>4 DEF SetMaxPoolSize
<1>5. CASE UNCHANGED poolVars
  BY <1>5 DEF poolVars
<1>6. QED
  BY <1>1, <1>2, <1>3, <1>4, <1>5 DEF PoolNext

\* Every step moves blocks from one holder to another.
LEMMA HolderStep ==
    ASSUME PoolInv, [PoolNext]_poolVars
    PROVE  OneHolder'
<1> USE DEF PoolInv, PlaceType, Phases, OneHolder, Own, sharedVars, threadVars
<1>1. ASSUME NEW t \in Threads, NEW b \in Blocks, OfBlock(t, b) PROVE OneHolder'
  <2>1. CASE AllocateCached(t, b)
    BY <2>1 DEF AllocateCached
  <2>2. CASE RefillDone(t, b)
    BY <2>2 DEF RefillDone, Room
  <2>3. CASE AllocateNew(t, b)
    BY <2>3 DEF AllocateNew
  <2>4. CASE AllocateLarge(t, b)
    BY <2>4 DEF AllocateLarge
  <2>5. CASE DeallocateLarge(t, b)
    BY <2>5 DEF DeallocateLarge
  <2>6. CASE Deallocate(t, b)
    BY <2>6 DEF Deallocate
  <2>7. CASE DeallocateShared(t, b)
    BY <2>7 DEF DeallocateShared
  <2>8. QED
    BY <1>1, <2>1, <2>2, <2>3, <2>4, <2>5, <2>6, <2>7 DEF OfBlock
<1>2. ASSUME NEW t \in Threads, NEW S \in SUBSET Blocks, OfBlocks(t, S) PROVE OneHolder'
  <2>1. CASE Refill(t, S)
    BY <2>1 DEF Refill
  <2>2. CASE Prewarm(t, S)
    BY <2>2 DEF Prewarm
  <2>3. CASE Reserve(t, S)
    BY <2>3 DEF Reserve
  <2>4. ASSUME NEW b \in Blocks, Flush(t, b, S) PROVE OneHolder'
    BY <2>4 DEF Flush
  <2>5. QED
    BY <1>2, <2>1, <2>2, <2>3, <2>4 DEF OfBlocks
<1>3. ASSUME NEW t \in Threads, OfThread(t) PROVE OneHolder'
  <2>1. CASE Store(t)
    BY <2>1 DEF Store
  <2>2. CASE ThreadExit(t)
    BY <2>2 DEF ThreadExit
  <2>3. CASE ReadLimit(t)
    BY <2>3 DEF ReadLimit
  <2>4. CASE Surplus(t)
    BY <2>4 DEF Surplus
  <2>5. CASE Enqueue(t)
    BY <2>5 DEF Enqueue
  <2>6. CASE EnqueueFails(t)
    BY <2>6 DEF EnqueueFails
  <2>7. QED
    BY <1>3, <2>1, <2>2, <2>3, <2>4, <2>5, <2>6 DEF OfThread
<1>4. ASSUME NEW l \in Limits, SetMaxPoolSize(l) PROVE OneHolder'
  BY <1>4 DEF SetMaxPoolSize
<1>5. CASE UNCHANGED poolVars
  BY <1>5 DEF poolVars
<1>6. QED
  BY <1>1, <1>2, <1>3, <1>4, <1>5 DEF PoolNext

\* Every step changes the count by as many blocks as it adds to, or takes from,
\* those it stands for.
LEMMA CountStep ==
    ASSUME PoolConstants, PoolInv, [PoolNext]_poolVars
    PROVE  CountIs'
<1> USE DEF PoolInv, PlaceType, Phases, sharedVars, threadVars
<1>a. Counted \subseteq Blocks
  BY DEF Counted
<1>b. ASSUME Counted' = Counted, count' = count PROVE CountIs'
  BY <1>b DEF CountIs
<1>1. ASSUME NEW t \in Threads, NEW b \in Blocks, OfBlock(t, b) PROVE CountIs'
  <2>1. CASE RefillDone(t, b)
    <3>1. moving[t] \subseteq Counted /\ Counted' = Counted \ moving[t]
      BY <2>1 DEF RefillDone, Counted, OneHolder, Own
    <3>2. Cardinality(Counted \ moving[t]) = Cardinality(Counted) - Cardinality(moving[t])
      BY <1>a, <3>1, CardSub
    <3>3. count' = count - Cardinality(moving[t])
      BY <2>1 DEF RefillDone
    <3>4. QED
      BY <3>1, <3>2, <3>3 DEF CountIs
  <2>2. CASE AllocateNew(t, b)
    <3>1. Counted' = Counted /\ count' = count
      BY <2>2 DEF AllocateNew, Counted
    <3>2. QED
      BY <3>1, <1>b
  <2>3. CASE AllocateCached(t, b) \/ AllocateLarge(t, b) \/ DeallocateLarge(t, b)
             \/ Deallocate(t, b) \/ DeallocateShared(t, b)
    <3>1. Counted' = Counted /\ count' = count
      BY <2>3 DEF AllocateCached, AllocateLarge, DeallocateLarge, Deallocate,
                  DeallocateShared, Counted
    <3>2. QED
      BY <3>1, <1>b
  <2>4. QED
    BY <1>1, <2>1, <2>2, <2>3 DEF OfBlock
<1>2. ASSUME NEW t \in Threads, NEW S \in SUBSET Blocks, OfBlocks(t, S) PROVE CountIs'
  <2>1. CASE Refill(t, S)
    <3>1. Counted' = Counted /\ count' = count
      BY <2>1 DEF Refill, Counted
    <3>2. QED
      BY <3>1, <1>b
  <2>2. CASE Prewarm(t, S)
    <3>1. Counted' = Counted /\ count' = count
      BY <2>2 DEF Prewarm, Counted
    <3>2. QED
      BY <3>1, <1>b
  <2>3. CASE Reserve(t, S)
    <3>1. moving[t] \subseteq Blocks /\ Counted \cap moving[t] = {}
      BY <2>3 DEF Reserve, Counted, OneHolder, Own
    <3>2. Counted' = Counted \cup moving[t]
      BY <2>3 DEF Reserve, Counted
    <3>3. Cardinality(Counted \cup moving[t]) = Cardinality(Counted) + Cardinality(moving[t])
      BY <1>a, <3>1, CardAdd
    <3>4. count' = count + Cardinality(moving[t])
      BY <2>3 DEF Reserve
    <3>5. QED
      BY <3>2, <3>3, <3>4 DEF CountIs
  <2>4. ASSUME NEW b \in Blocks, Flush(t, b, S) PROVE CountIs'
    <3>1. Counted' = Counted /\ count' = count
      BY <2>4 DEF Flush, Counted
    <3>2. QED
      BY <3>1, <1>b
  <2>5. QED
    BY <1>2, <2>1, <2>2, <2>3, <2>4 DEF OfBlocks
<1>3. ASSUME NEW t \in Threads, OfThread(t) PROVE CountIs'
  <2>1. CASE Store(t) \/ ThreadExit(t) \/ ReadLimit(t)
    <3>1. Counted' = Counted /\ count' = count
      BY <2>1 DEF Store, ThreadExit, ReadLimit, Counted
    <3>2. QED
      BY <3>1, <1>b
  <2>2. CASE Surplus(t)
    <3> DEFINE surplus == moving[t] \ kept[t]
    <3>1. surplus \subseteq Counted /\ Counted' = Counted \ surplus
      BY <2>2 DEF Surplus, Returned, Counted, OneHolder, Own
    <3>2. Cardinality(Counted \ surplus) = Cardinality(Counted) - Cardinality(surplus)
      BY <1>a, <3>1, CardSub
    <3>3. count' = count - Cardinality(surplus)
      BY <2>2 DEF Surplus
    <3>4. QED
      BY <3>1, <3>2, <3>3 DEF CountIs
  <2>3. CASE Enqueue(t)
    <3>1. Counted' = Counted /\ count' = count
      BY <2>3 DEF Enqueue, Returned, Counted
    <3>2. QED
      BY <3>1, <1>b
  <2>4. CASE EnqueueFails(t)
    <3>1. moving[t] \subseteq Counted /\ Counted' = Counted \ moving[t]
      BY <2>4 DEF EnqueueFails, Returned, Counted, OneHolder, Own
    <3>2. Cardinality(Counted \ moving[t]) = Cardinality(Counted) - Cardinality(moving[t])
      BY <1>a, <3>1, CardSub
    <3>3. count' = count - Cardinality(moving[t])
      BY <2>4 DEF EnqueueFails
    <3>4. QED
      BY <3>1, <3>2, <3>3 DEF CountIs
  <2>5. QED
    BY <1>3, <2>1, <2>2, <2>3, <2>4 DEF OfThread
<1>4. ASSUME NEW l \in Limits, SetMaxPoolSize(l) PROVE CountIs'
  <2>1. Counted' = Counted /\ count' = count
    BY <1>4 DEF SetMaxPoolSize, Counted
  <2>2. QED
    BY <2>1, <1>b
<1>5. CASE UNCHANGED poolVars
  <2>1. Counted' = Counted /\ count' = count
    BY <1>5 DEF poolVars, Counted
  <2>2. QED
    BY <2>1, <1>b
<1>6. QED
  BY <1>1, <1>2, <1>3, <1>4, <1>5 DEF PoolNext

\* A thread is given no more room than the limit it read leaves, counting what
\* all others have reserved; nothing else adds to what is granted.
LEMMA GrantStep ==
    ASSUME PoolConstants, PoolInv, [PoolNext]_poolVars
    PROVE  GrantBound'
<1> USE DEF PoolInv, PlaceType, Phases, sharedVars, threadVars
<1>a. Granted \subseteq Blocks /\ Counted \subseteq Blocks /\ Granted \subseteq Counted
  BY DEF Granted, Counted
<1>b. ASSUME Granted' \subseteq Granted PROVE GrantBound'
  <2>1. Cardinality(Granted') <= Cardinality(Granted)
    BY <1>a, <1>b, CardSub
  <2>2. Cardinality(Granted) \in Nat /\ Cardinality(Granted') \in Nat
    BY <1>a, <1>b, BlocksFinite
  <2>3. QED
    BY <2>1, <2>2 DEF GrantBound
<1>1. ASSUME NEW t \in Threads, NEW b \in Blocks, OfBlock(t, b) PROVE GrantBound'
  <2>1. Granted' \subseteq Granted
    BY <1>1 DEF OfBlock, AllocateCached, RefillDone, AllocateNew, AllocateLarge,
                DeallocateLarge, Deallocate, DeallocateShared, Granted
  <2>2. QED
    BY <2>1, <1>b
<1>2. ASSUME NEW t \in Threads, NEW S \in SUBSET Blocks, OfBlocks(t, S) PROVE GrantBound'
  <2>1. CASE Refill(t, S) \/ Prewarm(t, S) \/ \E b \in Blocks : Flush(t, b, S)
    <3>1. Granted' \subseteq Granted
      BY <2>1 DEF Refill, Prewarm, Flush, Granted
    <3>2. QED
      BY <3>1, <1>b
  <2>2. CASE Reserve(t, S)
    <3> DEFINE n == Cardinality(moving[t])
    <3>1. /\ Granted' = Granted \cup S /\ Granted \cap S = {}
          /\ moving[t] \subseteq Blocks /\ Cardinality(S) = Keep(seen[t], count, n)
      BY <2>2 DEF Reserve, Granted, OneHolder, Own
    <3>2. Cardinality(Granted') = Cardinality(Granted) + Cardinality(S)
      BY <1>a, <3>1, CardAdd
    <3>3. Cardinality(Granted) <= count /\ count \in Nat
      BY <1>a, CardSub, BlocksFinite DEF CountIs
    <3>4. Cardinality(Granted) \in Nat /\ Cardinality(S) \in Nat /\ n \in Nat
      BY <1>a, <3>1, BlocksFinite
    <3>5. ASSUME NEW m \in Nat, \A l \in Limits : l \in 1..m
          PROVE  Cardinality(Granted') <= m
      <4> HIDE DEF n
      <4>1. seen[t] \in 1..m
        BY <3>5
      <4>2. Cardinality(Granted) <= m
        BY <3>5 DEF GrantBound
      <4>3. CASE count >= seen[t]
        BY <3>1, <3>2, <3>3, <3>4, <4>1, <4>2, <4>3 DEF Keep
      <4>4. CASE count < seen[t]
        BY <3>1, <3>2, <3>3, <3>4, <4>1, <4>2, <4>4 DEF Keep
      <4>5. QED
        BY <3>3, <4>1, <4>3, <4>4
    <3>6. QED
      BY <3>5 DEF GrantBound
  <2>3. QED
    BY <1>2, <2>1, <2>2 DEF OfBlocks
<1>3. ASSUME NEW t \in Threads, OfThread(t) PROVE GrantBound'
  <2>1. Granted' \subseteq Granted
    BY <1>3 DEF OfThread, Store, ThreadExit, ReadLimit, Surplus, Enqueue, EnqueueFails, Granted
  <2>2. QED
    BY <2>1, <1>b
<1>4. ASSUME NEW l \in Limits, SetMaxPoolSize(l) PROVE GrantBound'
  <2>1. Granted' \subseteq Granted
    BY <1>4 DEF SetMaxPoolSize, Granted
  <2>2. QED
    BY <2>1, <1>b
<1>5. CASE UNCHANGED poolVars
  <2>1. Granted' \subseteq Granted
    BY <1>5 DEF poolVars, Granted
  <2>2. QED
    BY <2>1, <1>b
<1>6. QED
  BY <1>1, <1>2, <1>3, <1>4, <1>5 DEF PoolNext

\* A block goes into a cache only after the check, or the flush, that made room.
LEMMA RoomStep ==
    ASSUME PoolConstants, PoolInv, [PoolNext]_poolVars
    PROVE  Room'
<1> USE DEF PoolInv, PlaceType, Phases, Room, sharedVars, threadVars
<1>a. ASSUME NEW u \in Threads
      PROVE  /\ Cardinality(t_cache[u]) \in Nat /\ Cardinality(moving[u]) \in Nat
             /\ IsFiniteSet(t_cache[u]) /\ IsFiniteSet(moving[u])
  BY BlocksFinite
<1>b. Capacity \in Nat /\ Batch \in Nat /\ 1 <= Batch /\ Batch <= Capacity
  BY DEF PoolConstants
<1>c. Cardinality({}) = 0
  BY FS_EmptySet
<1>1. ASSUME NEW t \in Threads, NEW b \in Blocks, OfBlock(t, b) PROVE Room'
  <2>1. CASE AllocateCached(t, b)
    <3>1. Cardinality(t_cache[t] \ {b}) <= Cardinality(t_cache[t])
      BY <1>a, FS_Subset
    <3>2. Cardinality(t_cache[t] \ {b}) \in Nat
      BY BlocksFinite
    <3>3. QED
      BY <2>1, <3>1, <3>2, <1>a, <1>b DEF AllocateCached
  <2>2. CASE RefillDone(t, b)
    <3>1. b \in moving[t] /\ Cardinality(moving[t] \ {b}) = Cardinality(moving[t]) - 1
      BY <2>2, <1>a, FS_RemoveElement DEF RefillDone
    <3>2. t \in released => moving[t] \ {b} = {}
      <4>1. SUFFICES ASSUME t \in released PROVE moving[t] \ {b} = {}
        OBVIOUS
      <4>2. Cardinality(moving[t] \ {b}) = 0
        <5>1. Cardinality(moving[t] \ {b}) \in Nat
          BY BlocksFinite
        <5>2. QED
          BY <2>2, <4>1, <3>1, <5>1, <1>a DEF RefillDone
      <4>3. IsFiniteSet(moving[t] \ {b})
        BY BlocksFinite
      <4>4. QED
        BY <4>2, <4>3, FS_EmptySet
    <3>3. hand[t] = {} /\ Cardinality(moving[t] \ {b}) <= Capacity
      BY <2>2, <3>1, <1>a, <1>b DEF RefillDone
    <3>4. QED
      BY <2>2, <3>2, <3>3 DEF RefillDone
  <2>3. CASE AllocateNew(t, b)
    BY <2>3 DEF AllocateNew
  <2>4. CASE AllocateLarge(t, b) \/ DeallocateLarge(t, b)
    BY <2>4 DEF AllocateLarge, DeallocateLarge
  <2>5. CASE Deallocate(t, b)
    <3>1. Cardinality(t_cache[t] \cup {b}) <= Cardinality(t_cache[t]) + 1
      BY CardOneMore
    <3>2. Cardinality(t_cache[t] \cup {b}) \in Nat
      BY BlocksFinite
    <3>3. Cardinality(t_cache[t] \cup {b}) <= Capacity /\ hand[t] = {} /\ t \notin released
      BY <2>5, <3>1, <3>2, <1>a, <1>b DEF Deallocate
    <3>4. QED
      BY <2>5, <3>3 DEF Deallocate
  <2>6. CASE DeallocateShared(t, b)
    BY <2>6 DEF DeallocateShared
  <2>7. QED
    BY <1>1, <2>1, <2>2, <2>3, <2>4, <2>5, <2>6 DEF OfBlock
<1>2. ASSUME NEW t \in Threads, NEW S \in SUBSET Blocks, OfBlocks(t, S) PROVE Room'
  <2>1. CASE Refill(t, S)
    <3>1. Cardinality(S) \in Nat
      BY BlocksFinite
    <3>2. QED
      BY <2>1, <3>1, <1>b DEF Refill
  <2>2. CASE Prewarm(t, S) \/ Reserve(t, S)
    BY <2>2 DEF Prewarm, Reserve
  <2>3. ASSUME NEW b \in Blocks, Flush(t, b, S) PROVE Room'
    <3>1. Cardinality(t_cache[t] \ S) = Capacity - Batch
      BY <2>3, CardSub DEF Flush
    <3>2. Cardinality(t_cache[t] \ S) < Capacity
      BY <3>1, <1>b
    <3>3. QED
      BY <2>3, <3>1, <3>2, <1>b DEF Flush
  <2>4. QED
    BY <1>2, <2>1, <2>2, <2>3 DEF OfBlocks
<1>3. ASSUME NEW t \in Threads, OfThread(t) PROVE Room'
  <2>1. CASE Store(t)
    <3>1. CASE hand[t] = {}
      BY <2>1, <3>1 DEF Store
    <3>2. CASE hand[t] # {}
      <4>1. PICK b \in Blocks : hand[t] = {b}
        BY <3>2
      <4>2. Cardinality(t_cache[t] \cup {b}) <= Cardinality(t_cache[t]) + 1
        BY CardOneMore
      <4>3. Cardinality(t_cache[t] \cup {b}) \in Nat
        BY BlocksFinite
      <4>4. Cardinality(t_cache[t] \cup {b}) <= Capacity /\ t \notin released
        BY <3>2, <4>2, <4>3, <1>a, <1>b
      <4>5. QED
        BY <2>1, <4>1, <4>4 DEF Store
    <3>3. QED
      BY <3>1, <3>2
  <2>2. CASE ThreadExit(t)
    BY <2>2, <1>b, <1>c DEF ThreadExit
  <2>3. CASE ReadLimit(t)
    BY <2>3 DEF ReadLimit
  <2>4. CASE Surplus(t) \/ Enqueue(t) \/ EnqueueFails(t)
    BY <2>4 DEF Surplus, Enqueue, EnqueueFails, Returned
  <2>5. QED
    BY <1>3, <2>1, <2>2, <2>3, <2>4 DEF OfThread
<1>4. ASSUME NEW l \in Limits, SetMaxPoolSize(l) PROVE Room'
  BY <1>4 DEF SetMaxPoolSize
<1>5. CASE UNCHANGED poolVars
  BY <1>5 DEF poolVars
<1>6. QED
  BY <1>1, <1>2, <1>3, <1>4, <1>5 DEF PoolNext

-----------------------------------------------------------------------------
\* An empty pool satisfies the inductive invariant.
LEMMA PoolInitInv ==
    ASSUME PoolConstants, PoolInit
    PROVE  PoolInv
<1>1. PlaceType /\ Phases /\ OneHolder
  BY DEF PoolInit, PlaceType, Phases, OneHolder, Own
<1>2. Counted = {} /\ Granted = {}
  BY DEF PoolInit, Counted, Granted
<1>3. CountIs /\ GrantBound
  BY <1>2, FS_EmptySet DEF PoolInit, CountIs, GrantBound
<1>4. Room
  BY FS_EmptySet DEF PoolInit, Room, PoolConstants
<1>5. QED
  BY <1>1, <1>3, <1>4 DEF PoolInv

\* The inductive invariant holds in every reachable state.
LEMMA PoolInvariant ==
    ASSUME PoolConstants
    PROVE  PoolSpec => []PoolInv
<1>1. PoolInit => PoolInv
  BY PoolInitInv
<1>2. PoolInv /\ [PoolNext]_poolVars => PoolInv'
  <2> SUFFICES ASSUME PoolInv, [PoolNext]_poolVars PROVE PoolInv'
    OBVIOUS
  <2>1. PlaceType' /\ Phases' /\ OneHolder'
    BY TypeStep, PhaseStep, HolderStep
  <2>2. CountIs' /\ GrantBound' /\ Room'
    BY CountStep, GrantStep, RoomStep
  <2>3. QED
    BY <2>1, <2>2 DEF PoolInv
<1>3. QED
  BY <1>1, <1>2, PTL DEF PoolSpec

\* Every variable of the pool has its type; the count is never negative.
THEOREM PoolTypeCorrect ==
    ASSUME PoolConstants
    PROVE  PoolSpec => []PoolTypeOK
<1>1. PoolInv => PoolTypeOK
  <2> SUFFICES ASSUME PoolInv PROVE PoolTypeOK
    OBVIOUS
  <2>1. PlaceType /\ Counted \subseteq Blocks
    BY DEF PoolInv, Counted
  <2>2. Cardinality(Counted) \in Nat
    BY <2>1, BlocksFinite
  <2>3. QED
    BY <2>1, <2>2 DEF PoolInv, CountIs, PoolTypeOK
<1>2. QED
  BY <1>1, PoolInvariant, PTL

\* message_pool.cpp:171-243: whatever threads allocate, free, flush, refill and
\* exit at the same time, no block is handed to two owners and none is lost.
THEOREM BlocksKept ==
    ASSUME PoolConstants
    PROVE  PoolSpec => []OneHolder
<1>1. PoolInv => OneHolder
  BY DEF PoolInv
<1>2. QED
  BY <1>1, PoolInvariant, PTL

\* message_pool.cpp:37-42: the count covers the shared list at every moment and
\* is never taken below zero.
THEOREM NeverUndercounts ==
    ASSUME PoolConstants
    PROVE  PoolSpec => []CountCovers
<1>1. PoolInv => CountCovers
  <2> SUFFICES ASSUME PoolInv PROVE CountCovers
    OBVIOUS
  <2>1. shared \subseteq Counted /\ Counted \subseteq Blocks
    BY DEF PoolInv, PlaceType, Counted
  <2>2. Cardinality(shared) <= Cardinality(Counted) /\ Cardinality(Counted) \in Nat
    BY <2>1, CardSub, BlocksFinite
  <2>3. QED
    BY <2>2 DEF PoolInv, CountIs, CountCovers
<1>2. QED
  BY <1>1, PoolInvariant, PTL

\* message_pool.cpp:90-103: concurrent releases never overfill the shared list.
THEOREM WithinLimit ==
    ASSUME PoolConstants
    PROVE  PoolSpec => []Capped
<1>1. PoolInv => Capped
  <2> SUFFICES ASSUME PoolInv PROVE Capped
    OBVIOUS
  <2>1. shared \subseteq Granted /\ Granted \subseteq Blocks
    BY DEF PoolInv, PlaceType, Granted
  <2>2. /\ Cardinality(shared) <= Cardinality(Granted)
        /\ Cardinality(Granted) \in Nat /\ Cardinality(shared) \in Nat
    BY <2>1, CardSub, BlocksFinite
  <2>3. QED
    BY <2>2 DEF PoolInv, GrantBound, Capped
<1>2. QED
  BY <1>1, PoolInvariant, PTL

\* message_pool.cpp:148-159, 229-237: no cache is written past its array, and an
\* exiting thread strands no block in a cache that is gone.
THEOREM CachesBounded ==
    ASSUME PoolConstants
    PROVE  PoolSpec => []CacheBound
<1>1. PoolInv => CacheBound
  BY DEF PoolInv, Room, CacheBound
<1>2. QED
  BY <1>1, PoolInvariant, PTL

-----------------------------------------------------------------------------
\* size_class_index() stops at one place.
LEMMA IndexUnique ==
    ASSUME NEW size \in Nat, NEW i \in 1..6, StopsAt(size, i)
    PROVE  SizeClassIndex(size) = i
<1>1. ASSUME NEW j \in 1..6, StopsAt(size, j), j # i PROVE FALSE
  <2>1. \A k \in 1..5 : SizeClasses[k] \in Nat
    BY DEF SizeClasses
  <2>2. CASE i < j
    BY <1>1, <2>1, <2>2 DEF StopsAt, None
  <2>3. CASE j < i
    BY <1>1, <2>1, <2>3 DEF StopsAt, None
  <2>4. QED
    BY <1>1, <2>2, <2>3
<1>2. QED
  BY <1>1 DEF SizeClassIndex

\* The class of every size, with its header.
LEMMA ClassOfSize ==
    ASSUME PoolConstants, NEW payload \in Nat
    PROVE  /\ payload + Header > 1024 => ClassOf(payload) = 0
           /\ payload + Header <= 64 => ClassOf(payload) = 64
           /\ payload + Header > 64 /\ payload + Header <= 128 => ClassOf(payload) = 128
           /\ payload + Header > 128 /\ payload + Header <= 256 => ClassOf(payload) = 256
           /\ payload + Header > 256 /\ payload + Header <= 512 => ClassOf(payload) = 512
           /\ payload + Header > 512 /\ payload + Header <= 1024 => ClassOf(payload) = 1024
<1> DEFINE size == Header + payload
<1>1. size \in Nat /\ size = payload + Header
  BY DEF PoolConstants
<1>2. ClassOf(payload) = IF size > 1024 THEN 0 ELSE SizeClasses[SizeClassIndex(size)]
  BY DEF ClassOf, MaxPooledSize
<1> HIDE DEF size
<1>3. size <= 64 => SizeClassIndex(size) = 1
  <2>1. size <= 64 => StopsAt(size, 1)
    BY <1>1 DEF StopsAt, SizeClasses, None
  <2>2. QED
    BY <2>1, <1>1, IndexUnique
<1>4. size > 64 /\ size <= 128 => SizeClassIndex(size) = 2
  <2>1. size > 64 /\ size <= 128 => StopsAt(size, 2)
    BY <1>1 DEF StopsAt, SizeClasses, None
  <2>2. QED
    BY <2>1, <1>1, IndexUnique
<1>5. size > 128 /\ size <= 256 => SizeClassIndex(size) = 3
  <2>1. size > 128 /\ size <= 256 => StopsAt(size, 3)
    BY <1>1 DEF StopsAt, SizeClasses, None
  <2>2. QED
    BY <2>1, <1>1, IndexUnique
<1>6. size > 256 /\ size <= 512 => SizeClassIndex(size) = 4
  <2>1. size > 256 /\ size <= 512 => StopsAt(size, 4)
    BY <1>1 DEF StopsAt, SizeClasses, None
  <2>2. QED
    BY <2>1, <1>1, IndexUnique
<1>7. size > 512 /\ size <= 1024 => SizeClassIndex(size) = 5
  <2>1. size > 512 /\ size <= 1024 => StopsAt(size, 5)
    BY <1>1 DEF StopsAt, SizeClasses, None
  <2>2. QED
    BY <2>1, <1>1, IndexUnique
<1>8. QED
  BY <1>1, <1>2, <1>3, <1>4, <1>5, <1>6, <1>7 DEF SizeClasses

\* message_pool.h:41-62 against message_pool.cpp:74-82: the class and the largest
\* payload that static_assert checks rely on are those the allocator uses.
THEOREM HeaderTellsTheClass ==
    ASSUME PoolConstants
    PROVE  ClassesAgree
<1>1. Header \in Nat /\ Header > 0 /\ Header < 64
  BY DEF PoolConstants
<1>2. ASSUME NEW payload \in Nat PROVE SizeClassForPayload(payload) = ClassOf(payload)
  BY <1>1, ClassOfSize DEF SizeClassForPayload, MaxPooledSize
<1>3. ASSUME NEW i \in 1..5
      PROVE  /\ ClassOf(MaxPayloadForClass(SizeClasses[i])) = SizeClasses[i]
             /\ ClassOf(MaxPayloadForClass(SizeClasses[i]) + 1) # SizeClasses[i]
  <2> DEFINE c == SizeClasses[i]
  <2>1. c \in {64, 128, 256, 512, 1024}
    BY DEF SizeClasses
  <2> HIDE DEF c
  <2>2. MaxPayloadForClass(c) = c - Header /\ c - Header \in Nat /\ c - Header + 1 \in Nat
    BY <1>1, <2>1 DEF MaxPayloadForClass
  <2>3. ClassOf(c - Header) = c
    <3>1. (c - Header) + Header = c
      BY <1>1, <2>1
    <3>2. QED
      BY <2>1, <2>2, <3>1, ClassOfSize
  <2>4. ClassOf(c - Header + 1) # c
    <3>1. (c - Header + 1) + Header = c + 1
      BY <1>1, <2>1
    <3>2. QED
      BY <2>1, <2>2, <3>1, ClassOfSize
  <2>5. QED
    BY <2>2, <2>3, <2>4 DEF c
<1>4. QED
  BY <1>2, <1>3 DEF ClassesAgree
=============================================================================
