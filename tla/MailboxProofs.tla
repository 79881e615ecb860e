--------------------------- MODULE MailboxProofs ---------------------------
(***************************************************************************)
(* What holds of the mailbox for any number of producers and pushes: its   *)
(* types, that the right to run the owner exists exactly once, that a      *)
(* closed mailbox is closed for good, that the counters are exact, that    *)
(* closing accounts for every message, and that the lock-free mailbox      *)
(* implements the two-lane queue of MailboxAbs.                            *)
(*                                                                         *)
(* The first part needs no list (IInv).  The second follows the messages   *)
(* from list to list (Books): it states induction as a property of sets,   *)
(* and the list operations as relations, which the provers treat as        *)
(* uninterpreted.                                                          *)
(***************************************************************************)
EXTENDS Mailbox, FiniteSetTheorems, WellFoundedInduction, SequenceTheorems, TLAPS

\* A sentinel is never part of a non-empty list (mailbox.cpp:66), and the word
\* is closed_tag() exactly from the owner's close() on.
WordShape ==
    /\ m_tag # "open" => m_stack = <<>>
    /\ m_tag = "closed" <=> owner \in {"drain", "closed"}

\* The caches hold what pop() is about to deliver; a list is being split only
\* inside fetch_more().
PopShape ==
    /\ owner = "deliver" => m_cache[ServedLane] # <<>>
    /\ owner = "split" /\ node = <<>> => \E l \in Lanes : batch[l] # <<>>
    /\ owner # "split" => node = <<>>

\* The inductive invariant.
IInv == TypeOK /\ WordShape /\ PopShape /\ OneTurn

-----------------------------------------------------------------------------
\* What push() loads from m_stack (mailbox.cpp:62) is a sentinel or a node.
LEMMA WordType ==
    ASSUME MailboxType, m_tag # "open" => m_stack = <<>>
    PROVE  Word \in Words
<1>1. CASE m_stack = <<>>
  BY <1>1 DEF MailboxType, Words, Word, ClosedWord, BlockedWord, EmptyWord
<1>2. CASE m_stack # <<>>
  <2>1. Head(m_stack) \in Message
    BY <1>2 DEF MailboxType
  <2>2. QED
    BY <1>2, <2>1 DEF MailboxType, Word, Words
<1>3. QED
  BY <1>1, <1>2

\* A mailbox as its constructor leaves it satisfies the inductive invariant.
THEOREM InitIInv == Init => IInv
<1> SUFFICES ASSUME Init PROVE IInv
  OBVIOUS
<1>1. MailboxType
  BY DEF Init, MailboxType, Lanes
<1>2. ProducerType
  BY MaxPushAssumption DEF Init, ProducerType, Lanes, Message, Words
<1>3. OwnerType /\ HistoryType
  BY DEF Init, OwnerType, HistoryType
<1>4. WordShape /\ PopShape
  BY DEF Init, WordShape, PopShape
<1>5. OneTurn
  BY DEF Init, OneTurn, Waking, Resting
<1>6. QED
  BY <1>1, <1>2, <1>3, <1>4, <1>5 DEF IInv, TypeOK

-----------------------------------------------------------------------------
\* Every step keeps the types.
LEMMA TypeStep ==
    ASSUME IInv, [Next]_vars
    PROVE  TypeOK'
<1> USE DEF IInv, TypeOK, shared, prod, split, hist
<1>1. ASSUME NEW p \in Producers, NEW l \in Lanes, PushCount(p, l) PROVE TypeOK'
  <2>1. MailboxType'
    BY <1>1 DEF PushCount, MailboxType
  <2>2. ProducerType'
    BY <1>1, MaxPushAssumption DEF PushCount, ProducerType, Message
  <2>3. OwnerType' /\ HistoryType'
    BY <1>1 DEF PushCount, OwnerType, HistoryType
  <2>4. QED
    BY <2>1, <2>2, <2>3
<1>2. ASSUME NEW p \in Producers, PushLoad(p) PROVE TypeOK'
  <2>1. Word \in Words
    BY WordType DEF WordShape
  <2>2. ProducerType'
    BY <1>2, <2>1 DEF PushLoad, ProducerType
  <2>3. MailboxType' /\ OwnerType' /\ HistoryType'
    BY <1>2 DEF PushLoad, MailboxType, OwnerType, HistoryType
  <2>4. QED
    BY <2>1, <2>2, <2>3
<1>3. ASSUME NEW p \in Producers, PushCas(p) PROVE TypeOK'
  <2>1. msg[p] \in Message
    BY DEF ProducerType
  <2>2. MailboxType'
    BY <1>3, <2>1 DEF PushCas, Publish, MailboxType
  <2>3. ProducerType'
    BY <1>3 DEF PushCas, Publish, ProducerType
  <2>4. OwnerType' /\ HistoryType'
    BY <1>3, <2>1 DEF PushCas, Publish, OwnerType, HistoryType
  <2>5. QED
    BY <2>1, <2>2, <2>3, <2>4
<1>4. ASSUME NEW p \in Producers, PushClosed(p) PROVE TypeOK'
  <2>1. msg[p] \in Message /\ msg[p].lane \in Lanes
    BY DEF ProducerType, Message
  <2>2. MailboxType'
    BY <1>4, <2>1 DEF PushClosed, GiveBack, MailboxType
  <2>3. ProducerType'
    BY <1>4 DEF PushClosed, GiveBack, ProducerType
  <2>4. OwnerType' /\ HistoryType'
    BY <1>4, <2>1 DEF PushClosed, GiveBack, OwnerType, HistoryType
  <2>5. QED
    BY <2>1, <2>2, <2>3, <2>4
<1>5. ASSUME NEW p \in Producers, PushWake(p) PROVE TypeOK'
  BY <1>5 DEF PushWake, MailboxType, ProducerType, OwnerType, HistoryType
<1>6. CASE TurnBegin
  BY <1>6 DEF TurnBegin, MailboxType, ProducerType, OwnerType, HistoryType
<1>7. CASE LookCalls
  BY <1>7 DEF LookCalls, MailboxType, ProducerType, OwnerType, HistoryType
<1>8. CASE LookOthers
  BY <1>8 DEF LookOthers, MailboxType, ProducerType, OwnerType, HistoryType
<1>9. CASE PopCheck
  BY <1>9 DEF PopCheck, MailboxType, ProducerType, OwnerType, HistoryType
<1>10. CASE PopFetch
  BY <1>10 DEF PopFetch, TakeStack, MailboxType, ProducerType, OwnerType, HistoryType
<1>11. CASE PopRefetch
  BY <1>11 DEF PopRefetch, TakeStack, MailboxType, ProducerType, OwnerType, HistoryType
<1>12. CASE SplitNode
  <2>1. Head(node) \in Message /\ Tail(node) \in Seq(Message)
    BY <1>12 DEF SplitNode, SplitOff, MailboxType
  <2>2. Head(node).lane \in Lanes
    BY <2>1 DEF Message
  <2>3. MailboxType'
    BY <1>12, <2>1, <2>2 DEF SplitNode, SplitOff, MailboxType
  <2>4. ProducerType' /\ OwnerType' /\ HistoryType'
    BY <1>12 DEF SplitNode, SplitOff, ProducerType, OwnerType, HistoryType
  <2>5. QED
    BY <2>1, <2>2, <2>3, <2>4
<1>13. CASE SplitAppend
  BY <1>13 DEF SplitAppend, MailboxType, ProducerType, OwnerType, HistoryType
<1>14. CASE PopDeliver
  <2>1. ServedLane \in Lanes
    BY DEF ServedLane, Lanes
  <2>2. m_cache[ServedLane] \in Seq(Message) /\ m_cache[ServedLane] # <<>>
    BY <1>14, <2>1 DEF PopDeliver, Serve, MailboxType, PopShape
  <2>3. Head(m_cache[ServedLane]) \in Message /\ Tail(m_cache[ServedLane]) \in Seq(Message)
    BY <2>2
  <2>4. MailboxType'
    BY <1>14, <2>1, <2>3 DEF PopDeliver, Serve, MailboxType
  <2>5. HistoryType'
    BY <1>14, <2>3 DEF PopDeliver, Serve, HistoryType
  <2>6. ProducerType' /\ OwnerType'
    BY <1>14 DEF PopDeliver, Serve, ProducerType, OwnerType
  <2>7. QED
    BY <2>1, <2>2, <2>3, <2>4, <2>5, <2>6
<1>15. CASE TryBlock
  BY <1>15 DEF TryBlock, MailboxType, ProducerType, OwnerType, HistoryType
<1>16. CASE OwnerLeave
  BY <1>16 DEF OwnerLeave, TryUnblock, MailboxType, ProducerType, OwnerType, HistoryType
<1>17. CASE Close
  BY <1>17 DEF Close, CloseAndDrain, Lanes, MailboxType, ProducerType, OwnerType, HistoryType
<1>18. CASE CloseDrop
  <2>1. Head(drain) \in Message /\ Tail(drain) \in Seq(Message)
    BY <1>18 DEF CloseDrop, OwnerType
  <2>2. Head(drain).lane \in Lanes
    BY <2>1 DEF Message
  <2>3. MailboxType'
    BY <1>18, <2>2 DEF CloseDrop, MailboxType
  <2>4. ProducerType' /\ OwnerType' /\ HistoryType'
    BY <1>18, <2>1 DEF CloseDrop, ProducerType, OwnerType, HistoryType
  <2>5. QED
    BY <2>1, <2>2, <2>3, <2>4
<1>19. CASE CloseDone
  BY <1>19 DEF CloseDone, MailboxType, ProducerType, OwnerType, HistoryType
<1>20. CASE StopRequest
  BY <1>20 DEF StopRequest, MailboxType, ProducerType, OwnerType, HistoryType
<1>21. CASE StopWake
  BY <1>21 DEF StopWake, MailboxType, ProducerType, OwnerType, HistoryType
<1>22. CASE StopUnblock
  BY <1>22 DEF StopUnblock, TryUnblock, MailboxType, ProducerType, OwnerType, HistoryType
<1>23. CASE UNCHANGED vars
  BY <1>23 DEF vars, MailboxType, ProducerType, OwnerType, HistoryType
<1>24. QED
  BY <1>1, <1>2, <1>3, <1>4, <1>5, <1>6, <1>7, <1>8, <1>9, <1>10, <1>11,
     <1>12, <1>13, <1>14, <1>15, <1>16, <1>17, <1>18, <1>19, <1>20, <1>21,
     <1>22, <1>23
     DEF Next, Push, Owner, Stop

\* Every step keeps the shape of the word and of what pop() holds.
LEMMA ShapeStep ==
    ASSUME IInv, [Next]_vars
    PROVE  WordShape' /\ PopShape'
<1> USE DEF IInv, TypeOK, MailboxType, OwnerType, WordShape, PopShape, ServedLane,
            shared, prod, split, hist
<1>1. ASSUME NEW p \in Producers, NEW l \in Lanes, PushCount(p, l)
      PROVE  WordShape' /\ PopShape'
  BY <1>1 DEF PushCount
<1>2. ASSUME NEW p \in Producers, PushLoad(p)
      PROVE  WordShape' /\ PopShape'
  BY <1>2 DEF PushLoad
<1>3. ASSUME NEW p \in Producers, PushCas(p)
      PROVE  WordShape' /\ PopShape'
  BY <1>3 DEF PushCas, Publish, Word, ClosedWord
<1>4. ASSUME NEW p \in Producers, PushClosed(p)
      PROVE  WordShape' /\ PopShape'
  BY <1>4 DEF PushClosed, GiveBack
<1>5. ASSUME NEW p \in Producers, PushWake(p)
      PROVE  WordShape' /\ PopShape'
  BY <1>5 DEF PushWake
<1>6. CASE TurnBegin
  BY <1>6 DEF TurnBegin
<1>7. CASE LookCalls
  BY <1>7 DEF LookCalls
<1>8. CASE LookOthers
  BY <1>8 DEF LookOthers
<1>9. CASE PopCheck
  BY <1>9 DEF PopCheck
<1>10. CASE PopFetch
  BY <1>10 DEF PopFetch, TakeStack
<1>11. CASE PopRefetch
  BY <1>11 DEF PopRefetch, TakeStack
<1>12. CASE SplitNode
  <2>1. Head(node) \in Message /\ Tail(node) \in Seq(Message)
    BY <1>12 DEF SplitNode, SplitOff
  <2>2. Head(node).lane \in Lanes
    BY <2>1 DEF Message
  <2>3. batch'[Head(node).lane] # <<>>
    BY <1>12, <2>1, <2>2 DEF SplitNode, SplitOff
  <2>4. WordShape' /\ PopShape'
    BY <1>12, <2>2, <2>3 DEF SplitNode, SplitOff, Lanes
  <2>5. QED
    BY <2>1, <2>2, <2>3, <2>4
<1>13. CASE SplitAppend
  <2>1. \E l \in Lanes : m_cache'[l] # <<>>
    BY <1>13 DEF SplitAppend
  <2>2. m_cache'[ServedLane'] # <<>>
    BY <2>1 DEF Lanes
  <2>3. WordShape' /\ PopShape'
    BY <1>13, <2>2 DEF SplitAppend
  <2>4. QED
    BY <2>1, <2>2, <2>3
<1>14. CASE PopDeliver
  BY <1>14 DEF PopDeliver, Serve
<1>15. CASE TryBlock
  BY <1>15 DEF TryBlock, Word, EmptyWord
<1>16. CASE OwnerLeave
  BY <1>16 DEF OwnerLeave, TryUnblock
<1>17. CASE Close
  BY <1>17 DEF Close, CloseAndDrain
<1>18. CASE CloseDrop
  BY <1>18 DEF CloseDrop
<1>19. CASE CloseDone
  BY <1>19 DEF CloseDone
<1>20. CASE StopRequest
  BY <1>20 DEF StopRequest
<1>21. CASE StopUnblock
  BY <1>21 DEF StopUnblock, TryUnblock
<1>22. CASE StopWake
  BY <1>22 DEF StopWake
<1>23. CASE UNCHANGED vars
  BY <1>23 DEF vars
<1>24. QED
  BY <1>1, <1>2, <1>3, <1>4, <1>5, <1>6, <1>7, <1>8, <1>9, <1>10, <1>11,
     <1>12, <1>13, <1>14, <1>15, <1>16, <1>17, <1>18, <1>19, <1>20, <1>21,
     <1>22, <1>23
     DEF Next, Push, Owner, Stop

\* Every step keeps the turn unique.
LEMMA TurnStep ==
    ASSUME IInv, [Next]_vars
    PROVE  OneTurn'
<1> USE DEF IInv, TypeOK, MailboxType, ProducerType, OwnerType, OneTurn, Waking,
            Resting, shared, prod, split, hist
<1>1. ASSUME NEW p \in Producers, NEW l \in Lanes, PushCount(p, l)
      PROVE  OneTurn'
  BY <1>1 DEF PushCount
<1>2. ASSUME NEW p \in Producers, PushLoad(p)
      PROVE  OneTurn'
  BY <1>2 DEF PushLoad
<1>3. ASSUME NEW p \in Producers, PushCas(p)
      PROVE  OneTurn'
  BY <1>3 DEF PushCas, Publish, WordShape, Word, ClosedWord, BlockedWord
<1>4. ASSUME NEW p \in Producers, PushClosed(p)
      PROVE  OneTurn'
  BY <1>4 DEF PushClosed, GiveBack
<1>5. ASSUME NEW p \in Producers, PushWake(p)
      PROVE  OneTurn'
  BY <1>5 DEF PushWake
<1>6. CASE TurnBegin
  BY <1>6 DEF TurnBegin
<1>7. CASE LookCalls
  BY <1>7 DEF LookCalls
<1>8. CASE LookOthers
  BY <1>8 DEF LookOthers
<1>9. CASE PopCheck
  BY <1>9 DEF PopCheck
<1>10. CASE PopFetch
  BY <1>10 DEF PopFetch, TakeStack
<1>11. CASE PopRefetch
  BY <1>11 DEF PopRefetch, TakeStack
<1>12. CASE SplitNode
  BY <1>12 DEF SplitNode, SplitOff
<1>13. CASE SplitAppend
  BY <1>13 DEF SplitAppend
<1>14. CASE PopDeliver
  BY <1>14 DEF PopDeliver, Serve
<1>15. CASE TryBlock
  BY <1>15 DEF TryBlock, Word, EmptyWord
<1>16. CASE OwnerLeave
  BY <1>16 DEF OwnerLeave, TryUnblock
<1>17. CASE Close
  BY <1>17 DEF Close, CloseAndDrain
<1>18. CASE CloseDrop
  BY <1>18 DEF CloseDrop
<1>19. CASE CloseDone
  BY <1>19 DEF CloseDone
<1>20. CASE StopRequest
  BY <1>20 DEF StopRequest
<1>21. CASE StopUnblock
  BY <1>21 DEF StopUnblock, TryUnblock
<1>22. CASE StopWake
  BY <1>22 DEF StopWake
<1>23. CASE UNCHANGED vars
  BY <1>23 DEF vars
<1>24. QED
  BY <1>1, <1>2, <1>3, <1>4, <1>5, <1>6, <1>7, <1>8, <1>9, <1>10, <1>11,
     <1>12, <1>13, <1>14, <1>15, <1>16, <1>17, <1>18, <1>19, <1>20, <1>21,
     <1>22, <1>23
     DEF Next, Push, Owner, Stop

-----------------------------------------------------------------------------
\* The inductive invariant holds in every reachable state.
LEMMA InvariantHolds == Spec => []IInv
<1>1. IInv /\ [Next]_vars => IInv'
  BY TypeStep, ShapeStep, TurnStep DEF IInv
<1>2. QED
  BY <1>1, InitIInv, PTL DEF Spec

\* The mailbox and its clients are well typed, for any number of producers and
\* of pushes: a push never expects a list under a sentinel.
THEOREM TypeCorrect == Spec => []TypeOK
<1>1. IInv => TypeOK
  BY DEF IInv
<1>2. QED
  BY <1>1, InvariantHolds, PTL

\* The right to run the owner exists exactly once: run_actor(), the pushes that
\* return unblocked and the try_unblock() of a stop never put the owner on a
\* ready queue twice, and never leave it off one with its mailbox unblocked.
THEOREM TurnUnique == Spec => []OneTurn
<1>1. IInv => OneTurn
  BY DEF IInv
<1>2. QED
  BY <1>1, InvariantHolds, PTL

\* After close() no push lands and no pop() returns a message.
THEOREM ClosedForGood == Spec => ClosedIsFinal
<1> DEFINE Final == m_tag = "closed" => /\ m_tag' = "closed"
                                       /\ landed' = landed
                                       /\ delivered' = delivered
<1>1. ASSUME IInv, [Next]_vars PROVE Final
  <2> SUFFICES ASSUME m_tag = "closed" PROVE Final
    OBVIOUS
  <2> USE <1>1 DEF IInv, WordShape, shared, hist, prod, split
  <2>1. ASSUME NEW p \in Producers, NEW l \in Lanes, PushCount(p, l) PROVE Final
    BY <2>1 DEF PushCount
  <2>2. ASSUME NEW p \in Producers, PushLoad(p) PROVE Final
    BY <2>2 DEF PushLoad
  <2>3. ASSUME NEW p \in Producers, PushCas(p) PROVE Final
    BY <2>3 DEF PushCas, Publish, Word, ClosedWord
  <2>4. ASSUME NEW p \in Producers, PushClosed(p) PROVE Final
    BY <2>4 DEF PushClosed, GiveBack
  <2>5. ASSUME NEW p \in Producers, PushWake(p) PROVE Final
    BY <2>5 DEF PushWake
  <2>6. CASE TurnBegin
    BY <2>6 DEF TurnBegin
  <2>7. CASE LookCalls
    BY <2>7 DEF LookCalls
  <2>8. CASE LookOthers
    BY <2>8 DEF LookOthers
  <2>9. CASE PopCheck
    BY <2>9 DEF PopCheck
  <2>10. CASE PopFetch
    BY <2>10 DEF PopFetch, TakeStack
  <2>11. CASE PopRefetch
    BY <2>11 DEF PopRefetch, TakeStack
  <2>12. CASE SplitNode
    BY <2>12 DEF SplitNode, SplitOff
  <2>13. CASE SplitAppend
    BY <2>13 DEF SplitAppend
  <2>14. CASE PopDeliver
    BY <2>14 DEF PopDeliver, Serve
  <2>15. CASE TryBlock
    BY <2>15 DEF TryBlock, Word, EmptyWord
  <2>16. CASE OwnerLeave
    BY <2>16 DEF OwnerLeave, TryUnblock
  <2>17. CASE Close
    BY <2>17 DEF Close, CloseAndDrain
  <2>18. CASE CloseDrop
    BY <2>18 DEF CloseDrop
  <2>19. CASE CloseDone
    BY <2>19 DEF CloseDone
  <2>20. CASE StopRequest
    BY <2>20 DEF StopRequest
  <2>21. CASE StopUnblock
    BY <2>21 DEF StopUnblock, TryUnblock
  <2>22. CASE StopWake
    BY <2>22 DEF StopWake
  <2>23. CASE UNCHANGED vars
    BY <2>23 DEF vars
  <2>24. QED
    BY <2>1, <2>2, <2>3, <2>4, <2>5, <2>6, <2>7, <2>8, <2>9, <2>10, <2>11,
       <2>12, <2>13, <2>14, <2>15, <2>16, <2>17, <2>18, <2>19, <2>20, <2>21,
       <2>22, <2>23
       DEF Next, Push, Owner, Stop
<1>2. IInv /\ [Next]_vars => [Final]_vars
  BY <1>1
<1>3. QED
  BY <1>2, InvariantHolds, PTL DEF Spec, ClosedIsFinal

-----------------------------------------------------------------------------
(* Induction, and lists *)

\* A set of numbers that is not empty has a least element.
LEMMA LeastOf ==
    ASSUME NEW R, IsWellFoundedOn(R, Nat), NEW T, T \subseteq Nat, T # {}
    PROVE  (\A x, y \in Nat : x < y => <<x, y>> \in R) => \E x \in T : \A y \in T : x <= y
<1>1. PICK x \in T : \A y \in T : ~(<<y, x>> \in R)
  BY WFMin, Zenon
<1>2. HAVE \A z, y \in Nat : z < y => <<z, y>> \in R
<1>3. ASSUME NEW y \in T PROVE x <= y
  <2>1. x \in Nat /\ y \in Nat /\ ~(<<y, x>> \in R)
    BY <1>1
  <2>2. ~(y < x)
    BY <1>2, <2>1
  <2>3. QED
    BY <2>1, <2>2
<1>4. QED
  BY <1>3

\* The same, without naming the well-founded relation.
LEMMA Least ==
    ASSUME NEW T, T \subseteq Nat, T # {}
    PROVE  \E x \in T : \A y \in T : x <= y
<1>1. \A x, y \in Nat : x < y => <<x, y>> \in OpToRel(<, Nat)
  BY Zenon DEF OpToRel
<1>2. QED
  BY <1>1, NatLessThanWellFounded, LeastOf, Zenon

\* Induction: a set with 0 in it that is closed under the successor has every
\* number in it.
LEMMA NatSetInduction ==
    ASSUME NEW T, 0 \in T, \A n \in Nat : n \in T => n + 1 \in T
    PROVE  Nat \subseteq T
<1> SUFFICES ASSUME Nat \ T # {} PROVE FALSE
  OBVIOUS
<1>1. PICK x \in Nat \ T : \A y \in Nat \ T : x <= y
  BY Least
<1>2. x # 0 /\ x - 1 \in Nat
  BY <1>1
<1>3. x - 1 \in T
  BY <1>1, <1>2
<1>4. (x - 1) + 1 \in T
  BY <1>2, <1>3
<1>5. QED
  BY <1>1, <1>4

\* The list operations, as relations.
IsEmpty(e) == e = <<>>
Longer(u, s, x) == u = Append(s, x)
Joined(w, s, v) == w = s \o v
Led(u, x, s) == u = <<x>> \o s

\* Induction over lists, from the empty one and by appending.
LEMMA SeqSetInduction ==
    ASSUME NEW S, NEW T,
           \A e : IsEmpty(e) => e \in T,
           \A t, u \in Seq(S), x \in S : t \in T /\ Longer(u, t, x) => u \in T
    PROVE  Seq(S) \subseteq T
<1> DEFINE N == {n \in Nat : \A t \in Seq(S) : Len(t) = n => t \in T}
<1>1. 0 \in N
  BY EmptySeq DEF IsEmpty
<1>2. ASSUME NEW n \in Nat, n \in N PROVE n + 1 \in N
  <2> SUFFICES ASSUME NEW t \in Seq(S), Len(t) = n + 1 PROVE t \in T
    BY <1>2
  <2>1. t # <<>>
    BY <1>2
  <2>2. PICK u \in Seq(S), x \in S : t = Append(u, x)
    BY <2>1, SequenceEmptyOrAppend
  <2>3. Len(u) = n
    BY <2>2
  <2>4. Longer(t, u, x)
    BY <2>2 DEF Longer
  <2>5. QED
    BY <2>3, <2>4, <1>2
<1>3. Nat \subseteq N
  <2> HIDE DEF N
  <2> QED BY <1>1, <1>2, NatSetInduction
<1>4. QED
  BY <1>3

\* Appending to a concatenation appends to its second part.
LEMMA JoinedLonger ==
    ASSUME NEW S, NEW s \in Seq(S), NEW v \in Seq(S), NEW w, NEW x \in S, NEW v1, NEW w1,
           Joined(w, s, v), Longer(v1, v, x), Longer(w1, w, x)
    PROVE  Joined(w1, s, v1)
<1>1. PICK y : y = <<x>>
  OBVIOUS
<1>2. y \in Seq(S) /\ s \o v \in Seq(S)
  BY <1>1
<1>3. (s \o v) \o y = s \o (v \o y)
  BY <1>2, ConcatAssociative
<1>4. v1 = v \o y
  BY <1>1, AppendIsConcat DEF Longer
<1>5. w1 = (s \o v) \o y
  BY <1>1, <1>2, AppendIsConcat DEF Joined, Longer
<1>6. QED
  BY <1>3, <1>4, <1>5 DEF Joined

\* A message put in front makes a longer list.
LEMMA LedType ==
    ASSUME NEW S, NEW s \in Seq(S), NEW x \in S, NEW u, Led(u, x, s)
    PROVE  u \in Seq(S) /\ Len(u) = Len(s) + 1 /\ ~IsEmpty(u)
BY DEF Led, IsEmpty

\* ... of the same messages and that one.
LEMMA LedSet ==
    ASSUME NEW S, NEW s \in Seq(S), NEW x \in S, NEW u, Led(u, x, s)
    PROVE  ToSet(u) = {x} \cup ToSet(s)
<1>1. u = <<x>> \o s /\ Len(s) \in Nat
  BY DEF Led
<1>2. DOMAIN u = 1..(Len(s) + 1) /\ DOMAIN s = 1..Len(s)
  BY <1>1
<1>3. u[1] = x /\ 1 \in 1..(Len(s) + 1)
  BY <1>1
<1>4. \A i \in 1..Len(s) : u[i + 1] = s[i] /\ i + 1 \in 1..(Len(s) + 1)
  BY <1>1
<1>5. \A i \in 1..(Len(s) + 1) : i = 1 \/ (i - 1 \in 1..Len(s) /\ (i - 1) + 1 = i)
  BY <1>1
<1>6. ASSUME NEW y \in ToSet(u) PROVE y = x \/ y \in ToSet(s)
  <2>1. PICK i \in 1..(Len(s) + 1) : y = u[i]
    BY <1>2 DEF ToSet
  <2>2. CASE i = 1
    BY <1>3, <2>1, <2>2
  <2>3. CASE i - 1 \in 1..Len(s) /\ (i - 1) + 1 = i
    <3>1. y = s[i - 1]
      BY <1>4, <2>1, <2>3
    <3>2. QED
      BY <1>2, <2>3, <3>1 DEF ToSet
  <2>4. QED
    BY <1>5, <2>2, <2>3
<1>7. ASSUME NEW y \in ToSet(s) PROVE y \in ToSet(u)
  <2>1. PICK i \in 1..Len(s) : y = s[i]
    BY <1>2 DEF ToSet
  <2>2. y = u[i + 1] /\ i + 1 \in DOMAIN u
    BY <1>2, <1>4, <2>1
  <2>3. QED
    BY <2>2 DEF ToSet
<1>8. x \in ToSet(u)
  BY <1>2, <1>3 DEF ToSet
<1>9. QED
  BY <1>6, <1>7, <1>8

\* A list that is not empty is its head in front of its tail.
LEMMA LedHeadTail ==
    ASSUME NEW S, NEW s \in Seq(S), ~IsEmpty(s)
    PROVE  Head(s) \in S /\ Tail(s) \in Seq(S) /\ Led(s, Head(s), Tail(s))
<1>1. s # <<>>
  BY DEF IsEmpty
<1>2. Head(s) \in S /\ Tail(s) \in Seq(S) /\ s = <<Head(s)>> \o Tail(s)
  BY <1>1, HeadTailProperties
<1>3. QED
  BY <1>2 DEF Led

\* The length of a concatenation.
LEMMA JoinedType ==
    ASSUME NEW S, NEW s \in Seq(S), NEW v \in Seq(S), NEW w, Joined(w, s, v)
    PROVE  w \in Seq(S) /\ Len(w) = Len(s) + Len(v)
BY DEF Joined

\* The elements of a concatenation.
LEMMA JoinedSet ==
    ASSUME NEW S, NEW s \in Seq(S), NEW v \in Seq(S), NEW w, Joined(w, s, v)
    PROVE  ToSet(w) = ToSet(s) \cup ToSet(v)
<1>1. w = s \o v /\ Len(s) \in Nat /\ Len(v) \in Nat
  BY DEF Joined
<1>2. DOMAIN w = 1..(Len(s) + Len(v)) /\ DOMAIN s = 1..Len(s) /\ DOMAIN v = 1..Len(v)
  BY <1>1
<1>3. \A i \in 1..Len(s) : w[i] = s[i] /\ i \in 1..(Len(s) + Len(v))
  BY <1>1
<1>4. \A i \in 1..Len(v) : w[i + Len(s)] = v[i] /\ i + Len(s) \in 1..(Len(s) + Len(v))
  BY <1>1
<1>5. \A i \in 1..(Len(s) + Len(v)) :
         i \in 1..Len(s) \/ (i - Len(s) \in 1..Len(v) /\ (i - Len(s)) + Len(s) = i)
  BY <1>1
<1>6. ASSUME NEW y \in ToSet(w) PROVE y \in ToSet(s) \cup ToSet(v)
  <2>1. PICK i \in 1..(Len(s) + Len(v)) : y = w[i]
    BY <1>2 DEF ToSet
  <2>2. CASE i \in 1..Len(s)
    <3>1. y = s[i]
      BY <1>3, <2>1, <2>2
    <3>2. QED
      BY <1>2, <2>2, <3>1 DEF ToSet
  <2>3. CASE i - Len(s) \in 1..Len(v) /\ (i - Len(s)) + Len(s) = i
    <3>1. y = v[i - Len(s)]
      BY <1>4, <2>1, <2>3
    <3>2. QED
      BY <1>2, <2>3, <3>1 DEF ToSet
  <2>4. QED
    BY <1>5, <2>2, <2>3
<1>7. ASSUME NEW y \in ToSet(s) PROVE y \in ToSet(w)
  <2>1. PICK i \in 1..Len(s) : y = s[i]
    BY <1>2 DEF ToSet
  <2>2. y = w[i] /\ i \in DOMAIN w
    BY <1>2, <1>3, <2>1
  <2>3. QED
    BY <2>2 DEF ToSet
<1>8. ASSUME NEW y \in ToSet(v) PROVE y \in ToSet(w)
  <2>1. PICK i \in 1..Len(v) : y = v[i]
    BY <1>2 DEF ToSet
  <2>2. y = w[i + Len(s)] /\ i + Len(s) \in DOMAIN w
    BY <1>2, <1>4, <2>1
  <2>3. QED
    BY <2>2 DEF ToSet
<1>9. QED
  BY <1>6, <1>7, <1>8

\* The empty list.
LEMMA EmptyFacts ==
    ASSUME NEW S, NEW e, IsEmpty(e)
    PROVE  e \in Seq(S) /\ Len(e) = 0 /\ ToSet(e) = {}
BY DEF IsEmpty, ToSet

\* A list that is not empty has an element.
LEMMA NonEmptyFacts ==
    ASSUME NEW S, NEW s \in Seq(S), ~IsEmpty(s)
    PROVE  Len(s) > 0 /\ ToSet(s) # {}
<1>1. Len(s) > 0 /\ 1 \in DOMAIN s
  BY DEF IsEmpty
<1>2. QED
  BY <1>1 DEF ToSet

\* A list and its reverse have the same elements.
LEMMA ReverseFacts ==
    ASSUME NEW S, NEW s \in Seq(S)
    PROVE  Reverse(s) \in Seq(S) /\ ToSet(Reverse(s)) = ToSet(s) /\ Len(Reverse(s)) = Len(s)
<1>1. Reverse(s) \in Seq(S) /\ Len(Reverse(s)) = Len(s) /\ DOMAIN Reverse(s) = 1..Len(s)
  BY DEF Reverse
<1>2. DOMAIN s = 1..Len(s) /\ Len(s) \in Nat
  OBVIOUS
<1>3. \A i \in 1..Len(s) : (Len(s) - i) + 1 \in 1..Len(s) /\ Reverse(s)[i] = s[(Len(s) - i) + 1]
  BY <1>2 DEF Reverse
<1>4. \A i \in 1..Len(s) : \E j \in 1..Len(s) : s[i] = Reverse(s)[j]
  <2> SUFFICES ASSUME NEW i \in 1..Len(s) PROVE s[i] = Reverse(s)[(Len(s) - i) + 1]
    BY <1>3
  <2>1. (Len(s) - ((Len(s) - i) + 1)) + 1 = i
    BY <1>2
  <2>2. QED
    BY <1>3, <2>1
<1>5. \A i \in 1..Len(s) : \E j \in 1..Len(s) : Reverse(s)[i] = s[j]
  BY <1>3
<1>6. ToSet(Reverse(s)) = ToSet(s)
  <2>1. ToSet(s) = {s[i] : i \in 1..Len(s)} /\ ToSet(Reverse(s)) = {Reverse(s)[i] : i \in 1..Len(s)}
    BY <1>1, <1>2 DEF ToSet
  <2>2. QED
    BY <1>4, <1>5, <2>1
<1>7. QED
  BY <1>1, <1>6

\* What is in front of a list is at the end of its reverse.
LEMMA ReverseLed ==
    ASSUME NEW S, NEW s \in Seq(S), NEW x \in S, NEW u, Led(u, x, s)
    PROVE  Longer(Reverse(u), Reverse(s), x)
<1>1. u = <<x>> \o s /\ Len(s) \in Nat
  BY DEF Led
<1>2. Len(u) = Len(s) + 1 /\ u[1] = x /\ \A i \in 1..Len(s) : u[i + 1] = s[i]
  BY <1>1
<1> DEFINE a == Reverse(u)
           b == Append(Reverse(s), x)
<1>3. DOMAIN a = 1..(Len(s) + 1) /\ DOMAIN b = 1..(Len(s) + 1)
  BY <1>1, <1>2 DEF Reverse
<1>4. ASSUME NEW i \in 1..(Len(s) + 1) PROVE a[i] = b[i]
  <2>1. a[i] = u[((Len(s) + 1) - i) + 1]
    BY <1>1, <1>2 DEF Reverse
  <2>2. CASE i = Len(s) + 1
    BY <1>1, <1>2, <2>1, <2>2 DEF Reverse
  <2>3. CASE i # Len(s) + 1
    <3>1. i \in 1..Len(s) /\ (Len(s) - i) + 1 \in 1..Len(s)
           /\ ((Len(s) + 1) - i) + 1 = ((Len(s) - i) + 1) + 1
      BY <1>1, <2>3
    <3>2. b[i] = s[(Len(s) - i) + 1]
      BY <1>1, <3>1 DEF Reverse
    <3>3. u[((Len(s) - i) + 1) + 1] = s[(Len(s) - i) + 1]
      BY <1>2, <3>1
    <3>4. QED
      BY <2>1, <3>1, <3>2, <3>3
  <2>4. QED
    BY <2>2, <2>3
<1>5. a = b
  <2>1. a = [i \in DOMAIN a |-> a[i]] /\ b = [i \in DOMAIN b |-> b[i]]
    BY <1>1 DEF Reverse
  <2> HIDE DEF a, b
  <2>2. QED
    BY <1>3, <1>4, <2>1
<1>6. QED
  BY <1>5 DEF Longer

\* The reverse of the empty list.
LEMMA ReverseEmpty ==
    ASSUME NEW e, IsEmpty(e)
    PROVE  IsEmpty(Reverse(e))
BY DEF IsEmpty, Reverse

\* The elements of a list one longer.
LEMMA ToSetLonger ==
    ASSUME NEW S, NEW s \in Seq(S), NEW x, NEW u, Longer(u, s, x)
    PROVE  ToSet(u) = ToSet(s) \cup {x}
<1>0. u = Append(s, x)
  BY DEF Longer
<1>1. \A i \in 1..Len(s) : u[i] = s[i] /\ i \in 1..(Len(s) + 1)
  BY <1>0
<1>2. u[Len(s) + 1] = x /\ Len(s) + 1 \in 1..(Len(s) + 1)
  BY <1>0
<1>3. DOMAIN u = 1..(Len(s) + 1) /\ DOMAIN s = 1..Len(s)
  BY <1>0
<1>4. \A i \in 1..(Len(s) + 1) : i \in 1..Len(s) \/ i = Len(s) + 1
  OBVIOUS
<1>5. QED
  BY <1>1, <1>2, <1>3, <1>4 DEF ToSet

\* f solves the recursion of OfLane up to k.
Keeps(f, s, l, k) ==
    f = [n \in 0..k |->
            IF n = 0 THEN <<>>
            ELSE IF s[n].lane = l THEN Append(f[n - 1], s[n])
            ELSE f[n - 1]]

\* The recursion that defines OfLane has a solution for every prefix.
LEMMA KeepsExists ==
    ASSUME NEW s, NEW l
    PROVE  \A k \in Nat : \E f : Keeps(f, s, l, k)
<1> DEFINE N == {k \in Nat : \E f : Keeps(f, s, l, k)}
<1>1. 0 \in N
  <2>1. Keeps([n \in 0..0 |-> <<>>], s, l, 0)
    BY DEF Keeps
  <2>2. QED
    BY <2>1
<1>2. ASSUME NEW k \in Nat, k \in N PROVE k + 1 \in N
  <2>1. PICK g : Keeps(g, s, l, k)
    BY <1>2
  <2> DEFINE x == IF s[k + 1].lane = l THEN Append(g[k], s[k + 1]) ELSE g[k]
             f == [n \in 0..(k + 1) |-> IF n = k + 1 THEN x ELSE g[n]]
             h == [n \in 0..(k + 1) |->
                    IF n = 0 THEN <<>>
                    ELSE IF s[n].lane = l THEN Append(f[n - 1], s[n])
                    ELSE f[n - 1]]
  <2>2. ASSUME NEW n \in 0..(k + 1) PROVE f[n] = h[n]
    <3>1. CASE n = 0
      BY <3>1, <2>1 DEF Keeps
    <3>2. CASE n \in 1..k
      <4>1. n \in 0..k /\ n # 0 /\ n # k + 1 /\ n - 1 \in 0..(k + 1) /\ n - 1 # k + 1
        BY <3>2
      <4>2. f[n] = g[n] /\ f[n - 1] = g[n - 1]
        BY <4>1
      <4>3. g[n] = IF s[n].lane = l THEN Append(g[n - 1], s[n]) ELSE g[n - 1]
        BY <2>1, <4>1 DEF Keeps
      <4>4. QED
        BY <4>1, <4>2, <4>3
    <3>3. CASE n = k + 1
      <4>1. n # 0 /\ n - 1 = k /\ k \in 0..(k + 1) /\ k # k + 1
        BY <3>3
      <4>2. f[n] = x /\ f[n - 1] = g[k]
        BY <3>3, <4>1
      <4>3. QED
        BY <3>3, <4>1, <4>2
    <3>4. QED
      BY <3>1, <3>2, <3>3
  <2>3. f = h
    BY <2>2
  <2>4. Keeps(f, s, l, k + 1)
    <3> HIDE DEF x
    <3> QED BY <2>3 DEF Keeps
  <2>5. QED
    BY <2>4
<1>3. Nat \subseteq N
  <2> HIDE DEF N
  <2> QED BY <1>1, <1>2, NatSetInduction
<1>4. QED
  BY <1>3

\* So OfLane is computed by one.
LEMMA OfLaneIs ==
    ASSUME NEW s, NEW l, Len(s) \in Nat
    PROVE  \E f : Keeps(f, s, l, Len(s)) /\ OfLane(s, l) = f[Len(s)]
<1>1. \E f : Keeps(f, s, l, Len(s))
  BY KeepsExists
<1>2. QED
  BY <1>1, Zenon DEF Keeps, OfLane

\* What the recursion computes for a prefix depends on the prefix only.
LEMMA KeepsPrefix ==
    ASSUME NEW S, NEW s \in Seq(S), NEW x \in S, NEW l, NEW f, NEW g, NEW u,
           Longer(u, s, x), Keeps(f, s, l, Len(s)), Keeps(g, u, l, Len(s) + 1)
    PROVE  f[Len(s)] = g[Len(s)]
<1> DEFINE N == {k \in Nat : k <= Len(s) => f[k] = g[k]}
<1>1. 0 \in N
  BY DEF Keeps
<1>2. ASSUME NEW k \in Nat, k \in N PROVE k + 1 \in N
  <2> SUFFICES ASSUME k + 1 <= Len(s) PROVE f[k + 1] = g[k + 1]
    OBVIOUS
  <2>1. f[k] = g[k]
    BY <1>2
  <2>2. k + 1 \in 0..Len(s) /\ k + 1 \in 0..(Len(s) + 1) /\ k + 1 # 0 /\ (k + 1) - 1 = k
    OBVIOUS
  <2>3. u[k + 1] = s[k + 1]
    BY <2>2 DEF Longer
  <2>4. f[k + 1] = IF s[k + 1].lane = l THEN Append(f[k], s[k + 1]) ELSE f[k]
    BY <2>2 DEF Keeps
  <2>5. g[k + 1] = IF u[k + 1].lane = l THEN Append(g[k], u[k + 1]) ELSE g[k]
    BY <2>2 DEF Keeps
  <2>6. QED
    BY <2>1, <2>3, <2>4, <2>5
<1>3. Nat \subseteq N
  <2> HIDE DEF N
  <2> QED BY <1>1, <1>2, NatSetInduction
<1>4. QED
  BY <1>3

\* An empty list has no message of a lane.
LEMMA OfLaneEmpty ==
    ASSUME NEW l, NEW e, IsEmpty(e)
    PROVE  IsEmpty(OfLane(e, l))
<1>1. Len(e) = 0 /\ Len(e) \in Nat
  BY DEF IsEmpty
<1>2. PICK f : Keeps(f, e, l, Len(e)) /\ OfLane(e, l) = f[Len(e)]
  BY <1>1, OfLaneIs
<1>3. f[Len(e)] = <<>>
  BY <1>1, <1>2 DEF Keeps
<1>4. QED
  BY <1>2, <1>3 DEF IsEmpty

\* OfLane of a list one longer.
LEMMA OfLaneLonger ==
    ASSUME NEW S, NEW s \in Seq(S), NEW x \in S, NEW l, NEW u, Longer(u, s, x)
    PROVE  /\ x.lane = l => Longer(OfLane(u, l), OfLane(s, l), x)
           /\ x.lane # l => OfLane(u, l) = OfLane(s, l)
<1>1. Len(u) = Len(s) + 1 /\ Len(s) \in Nat /\ Len(u) \in Nat /\ u[Len(s) + 1] = x
  BY DEF Longer
<1>2. PICK f : Keeps(f, s, l, Len(s)) /\ OfLane(s, l) = f[Len(s)]
  BY <1>1, OfLaneIs
<1>3. PICK g : Keeps(g, u, l, Len(u)) /\ OfLane(u, l) = g[Len(u)]
  BY <1>1, OfLaneIs
<1>4. Keeps(g, u, l, Len(s) + 1) /\ OfLane(u, l) = g[Len(s) + 1]
  BY <1>1, <1>3
<1>5. f[Len(s)] = g[Len(s)]
  BY <1>2, <1>4, KeepsPrefix
<1>6. g[Len(s) + 1] = IF u[Len(s) + 1].lane = l
                      THEN Append(g[Len(s)], u[Len(s) + 1]) ELSE g[Len(s)]
  <2>1. Len(s) + 1 \in 0..(Len(s) + 1) /\ Len(s) + 1 # 0 /\ (Len(s) + 1) - 1 = Len(s)
    BY <1>1
  <2>2. QED
    BY <2>1, <1>4 DEF Keeps
<1>7. QED
  BY <1>1, <1>2, <1>4, <1>5, <1>6 DEF Longer

\* OfLane selects elements of the list.
LEMMA OfLaneType ==
    ASSUME NEW S, NEW l, NEW s \in Seq(S)
    PROVE  OfLane(s, l) \in Seq(S)
<1> DEFINE T == {t \in Seq(S) : OfLane(t, l) \in Seq(S)}
<1>1. ASSUME NEW e, IsEmpty(e) PROVE e \in T
  <2>1. IsEmpty(OfLane(e, l))
    BY <1>1, OfLaneEmpty
  <2>2. \A d : IsEmpty(d) => d \in Seq(S)
    BY DEF IsEmpty
  <2>3. QED
    BY <1>1, <2>1, <2>2
<1>2. ASSUME NEW t \in Seq(S), NEW u \in Seq(S), NEW x \in S, t \in T, Longer(u, t, x)
      PROVE  u \in T
  <2>1. /\ x.lane = l => Longer(OfLane(u, l), OfLane(t, l), x)
        /\ x.lane # l => OfLane(u, l) = OfLane(t, l)
    BY <1>2, OfLaneLonger
  <2>2. \A d \in Seq(S) : \A e : Longer(e, d, x) => e \in Seq(S)
    BY DEF Longer
  <2>3. QED
    BY <1>2, <2>1, <2>2
<1>3. Seq(S) \subseteq T
  <2> HIDE DEF T
  <2> QED BY <1>1, <1>2, SeqSetInduction
<1>4. QED
  BY <1>3

\* OfLane of a concatenation, part by part.
LEMMA OfLaneJoined ==
    ASSUME NEW S, NEW l, NEW s \in Seq(S), NEW v \in Seq(S), NEW w, Joined(w, s, v)
    PROVE  Joined(OfLane(w, l), OfLane(s, l), OfLane(v, l))
<1> DEFINE T == {t \in Seq(S) : \A r : Joined(r, s, t)
                                    => Joined(OfLane(r, l), OfLane(s, l), OfLane(t, l))}
<1>1. ASSUME NEW e, IsEmpty(e) PROVE e \in T
  <2> SUFFICES ASSUME NEW r, Joined(r, s, e)
               PROVE  Joined(OfLane(r, l), OfLane(s, l), OfLane(e, l))
    BY <1>1 DEF IsEmpty
  <2>1. r = s
    BY <1>1 DEF IsEmpty, Joined
  <2>2. OfLane(s, l) \in Seq(S)
    BY OfLaneType
  <2>3. IsEmpty(OfLane(e, l))
    BY <1>1, OfLaneEmpty
  <2>4. \A d \in Seq(S) : \A c : IsEmpty(c) => Joined(d, d, c)
    BY DEF IsEmpty, Joined
  <2>5. QED
    BY <2>1, <2>2, <2>3, <2>4
<1>2. ASSUME NEW t \in Seq(S), NEW u \in Seq(S), NEW x \in S, t \in T, Longer(u, t, x)
      PROVE  u \in T
  <2> SUFFICES ASSUME NEW r, Joined(r, s, u)
               PROVE  Joined(OfLane(r, l), OfLane(s, l), OfLane(u, l))
    OBVIOUS
  <2>1. PICK q : Joined(q, s, t)
    BY DEF Joined
  <2>2. q \in Seq(S) /\ Longer(r, q, x)
    BY <1>2, <2>1 DEF Longer, Joined
  <2>3. Joined(OfLane(q, l), OfLane(s, l), OfLane(t, l))
    BY <1>2, <2>1
  <2>4. /\ x.lane = l => Longer(OfLane(r, l), OfLane(q, l), x)
        /\ x.lane # l => OfLane(r, l) = OfLane(q, l)
    BY <2>2, OfLaneLonger
  <2>5. /\ x.lane = l => Longer(OfLane(u, l), OfLane(t, l), x)
        /\ x.lane # l => OfLane(u, l) = OfLane(t, l)
    BY <1>2, OfLaneLonger
  <2>6. OfLane(s, l) \in Seq(S) /\ OfLane(t, l) \in Seq(S)
    BY OfLaneType
  <2>7. QED
    BY <2>3, <2>4, <2>5, <2>6, JoinedLonger
<1>3. Seq(S) \subseteq T
  <2> HIDE DEF T
  <2> QED BY <1>1, <1>2, SeqSetInduction
<1>4. QED
  BY <1>3

\* OfLane of a single message.
LEMMA OfLaneOne ==
    ASSUME NEW l, NEW x, NEW u, u = <<x>>
    PROVE  /\ x.lane = l => OfLane(u, l) = u
           /\ x.lane # l => IsEmpty(OfLane(u, l))
<1>1. PICK e : IsEmpty(e)
  BY DEF IsEmpty
<1>2. e \in Seq({x}) /\ x \in {x} /\ Longer(u, e, x)
  BY <1>1 DEF IsEmpty, Longer
<1>3. /\ x.lane = l => Longer(OfLane(u, l), OfLane(e, l), x)
      /\ x.lane # l => OfLane(u, l) = OfLane(e, l)
  BY <1>2, OfLaneLonger
<1>4. IsEmpty(OfLane(e, l))
  BY <1>1, OfLaneEmpty
<1>5. \A c, d : IsEmpty(c) /\ Longer(d, c, x) => d = u
  BY DEF IsEmpty, Longer
<1>6. QED
  BY <1>3, <1>4, <1>5

\* OfLane selects exactly the messages of the lane.
LEMMA OfLaneSet ==
    ASSUME NEW S, NEW l, NEW s \in Seq(S)
    PROVE  ToSet(OfLane(s, l)) = {x \in ToSet(s) : x.lane = l}
<1> DEFINE T == {t \in Seq(S) : ToSet(OfLane(t, l)) = {x \in ToSet(t) : x.lane = l}}
<1>1. ASSUME NEW e, IsEmpty(e) PROVE e \in T
  <2>1. IsEmpty(OfLane(e, l))
    BY <1>1, OfLaneEmpty
  <2>2. \A d : IsEmpty(d) => ToSet(d) = {} /\ d \in Seq(S)
    BY DEF ToSet, IsEmpty
  <2>3. QED
    BY <1>1, <2>1, <2>2
<1>2. ASSUME NEW t \in Seq(S), NEW u \in Seq(S), NEW y \in S, t \in T, Longer(u, t, y)
      PROVE  u \in T
  <2>1. ToSet(u) = ToSet(t) \cup {y}
    BY <1>2, ToSetLonger
  <2>2. OfLane(t, l) \in Seq(S)
    BY OfLaneType
  <2>3. /\ y.lane = l => Longer(OfLane(u, l), OfLane(t, l), y)
        /\ y.lane # l => OfLane(u, l) = OfLane(t, l)
    BY <1>2, OfLaneLonger
  <2>4. ToSet(OfLane(t, l)) = {x \in ToSet(t) : x.lane = l}
    BY <1>2
  <2>5. CASE y.lane = l
    <3>1. ToSet(OfLane(u, l)) = ToSet(OfLane(t, l)) \cup {y}
      BY <2>2, <2>3, <2>5, ToSetLonger
    <3>2. QED
      BY <2>1, <2>4, <2>5, <3>1
  <2>6. CASE y.lane # l
    BY <2>1, <2>3, <2>4, <2>6
  <2>7. QED
    BY <2>5, <2>6
<1>3. Seq(S) \subseteq T
  <2> HIDE DEF T
  <2> QED BY <1>1, <1>2, SeqSetInduction
<1>4. QED
  BY <1>3

\* OfLane of a list with one more message in front.
LEMMA OfLaneLed ==
    ASSUME NEW S, NEW s \in Seq(S), NEW x \in S, NEW l, NEW u, Led(u, x, s)
    PROVE  /\ x.lane = l => Led(OfLane(u, l), x, OfLane(s, l))
           /\ x.lane # l => OfLane(u, l) = OfLane(s, l)
<1>1. PICK v : v = <<x>>
  OBVIOUS
<1>2. v \in Seq(S) /\ Joined(u, v, s)
  BY <1>1 DEF Joined, Led
<1>3. Joined(OfLane(u, l), OfLane(v, l), OfLane(s, l))
  BY <1>2, OfLaneJoined
<1>4. /\ x.lane = l => OfLane(v, l) = v
      /\ x.lane # l => IsEmpty(OfLane(v, l))
  <2>1. \A w : w = <<x>> => ((x.lane = l => OfLane(w, l) = w) /\ (x.lane # l => IsEmpty(OfLane(w, l))))
    BY OfLaneOne
  <2>2. QED
    BY <1>1, <2>1, Zenon
<1>5. OfLane(s, l) \in Seq(S)
  BY OfLaneType
<1>6. \A c, d : c \in Seq(S) /\ Joined(d, v, c) => Led(d, x, c)
  BY <1>1 DEF Joined, Led
<1>7. \A c, d, e : c \in Seq(S) /\ IsEmpty(e) /\ Joined(d, e, c) => d = c
  BY DEF Joined, IsEmpty
<1>8. QED
  BY <1>3, <1>4, <1>5, <1>6, <1>7

\* A list of one lane is selected whole.
LEMMA OfLanePure ==
    ASSUME NEW S, NEW l, NEW s \in Seq(S), \A x \in ToSet(s) : x.lane = l
    PROVE  OfLane(s, l) = s
<1> DEFINE T == {t \in Seq(S) : (\A x \in ToSet(t) : x.lane = l) => OfLane(t, l) = t}
<1>1. ASSUME NEW e, IsEmpty(e) PROVE e \in T
  <2>1. IsEmpty(OfLane(e, l))
    BY <1>1, OfLaneEmpty
  <2>2. \A d : IsEmpty(d) => d = e /\ d \in Seq(S)
    BY <1>1 DEF IsEmpty
  <2>3. QED
    BY <1>1, <2>1, <2>2
<1>2. ASSUME NEW t \in Seq(S), NEW u \in Seq(S), NEW y \in S, t \in T, Longer(u, t, y)
      PROVE  u \in T
  <2> SUFFICES ASSUME \A x \in ToSet(u) : x.lane = l PROVE OfLane(u, l) = u
    OBVIOUS
  <2>1. ToSet(u) = ToSet(t) \cup {y}
    BY <1>2, ToSetLonger
  <2>2. Longer(OfLane(u, l), OfLane(t, l), y)
    BY <1>2, <2>1, OfLaneLonger
  <2>3. OfLane(t, l) = t
    BY <1>2, <2>1
  <2>4. \A d : Longer(d, t, y) => d = u
    BY <1>2 DEF Longer
  <2>5. QED
    BY <2>2, <2>3, <2>4
<1>3. Seq(S) \subseteq T
  <2> HIDE DEF T
  <2> QED BY <1>1, <1>2, SeqSetInduction
<1>4. QED
  BY <1>3

\* Nothing is selected of a list of other lanes.
LEMMA OfLaneNone ==
    ASSUME NEW S, NEW l, NEW s \in Seq(S), \A x \in ToSet(s) : x.lane # l
    PROVE  IsEmpty(OfLane(s, l))
<1>1. ToSet(OfLane(s, l)) = {}
  BY OfLaneSet
<1>2. OfLane(s, l) \in Seq(S)
  BY OfLaneType
<1>3. QED
  BY <1>1, <1>2, NonEmptyFacts

\* The number of messages of a lane is a number.
LEMMA LaneLenNat ==
    ASSUME NEW S, NEW l, NEW s \in Seq(S)
    PROVE  Len(OfLane(s, l)) \in Nat
<1>1. OfLane(s, l) \in Seq(S)
  BY OfLaneType
<1>2. QED
  BY <1>1, LenProperties

\* The empty list holds no message of any lane.
LEMMA LaneLenEmpty ==
    ASSUME NEW l, NEW e, IsEmpty(e)
    PROVE  Len(OfLane(e, l)) = 0
BY OfLaneEmpty, EmptyFacts

\* A message in front adds one to its own lane.
LEMMA LaneLenLed ==
    ASSUME NEW S, NEW s \in Seq(S), NEW x \in S, NEW l, NEW u, Led(u, x, s)
    PROVE  /\ x.lane = l => Len(OfLane(u, l)) = Len(OfLane(s, l)) + 1
           /\ x.lane # l => Len(OfLane(u, l)) = Len(OfLane(s, l))
<1>1. OfLane(s, l) \in Seq(S)
  BY OfLaneType
<1>2. QED
  BY <1>1, OfLaneLed, LedType

\* The messages of a lane in two lists add up.
LEMMA LaneLenJoined ==
    ASSUME NEW S, NEW l, NEW s \in Seq(S), NEW v \in Seq(S), NEW w, Joined(w, s, v)
    PROVE  Len(OfLane(w, l)) = Len(OfLane(s, l)) + Len(OfLane(v, l))
<1>1. OfLane(s, l) \in Seq(S) /\ OfLane(v, l) \in Seq(S)
  BY OfLaneType
<1>2. Joined(OfLane(w, l), OfLane(s, l), OfLane(v, l))
  BY OfLaneJoined
<1>3. QED
  BY <1>1, <1>2, JoinedType

\* fetch_more() and close() leave nothing behind, and a cached or split message
\* is in the lane it belongs to.
LaneShape ==
    /\ \A l \in Lanes : \A x \in ToSet(m_cache[l]) \cup ToSet(batch[l]) : x.lane = l
    /\ owner # "split" => \A l \in Lanes : batch[l] = <<>>
    /\ owner # "drain" => drain = <<>>
    /\ owner = "fetch" => m_cache["call"] = <<>>
    /\ owner \in {"refetch", "drain", "closed"} => \A l \in Lanes : m_cache[l] = <<>>

\* A producer inside push() holds its latest message, and has seen closed_tag()
\* only in a mailbox that is closed.
PushShape ==
    \A p \in Producers :
        /\ pc[p] \in {"load", "cas"} => msg[p].from = p /\ msg[p].seq = sent[p]
        /\ pc[p] = "cas" /\ head[p] = ClosedWord => m_tag = "closed"

\* The message a producer is pushing has not landed and was not handed back.
Fresh ==
    \A m \in ToSet(landed) \cup rejected :
        /\ m.seq <= sent[m.from]
        /\ pc[m.from] \in {"load", "cas"} => m.seq < sent[m.from]

\* How many messages a list holds.
Size(s) == Len(s)

\* The messages in the mailbox, wherever they are, and how many places they take.
Inside ==
    ToSet(m_stack) \cup ToSet(node) \cup ToSet(drain)
    \cup ToSet(m_cache["call"]) \cup ToSet(m_cache["other"])
    \cup ToSet(batch["call"]) \cup ToSet(batch["other"])

InsideLen ==
    Size(m_stack) + Size(node) + Size(drain) + Size(m_cache["call"]) + Size(m_cache["other"])
    + Size(batch["call"]) + Size(batch["other"])

\* Where the messages that landed are.
TrackedSet == ToSet(landed) = Inside \cup ToSet(delivered) \cup dropped

\* Each of them is there once.
TrackedLen == Size(landed) = InsideLen + Size(delivered) + Cardinality(dropped)

Tracked == TrackedSet /\ TrackedLen /\ IsFiniteSet(dropped) /\ IsInjective(landed)

\* A message has one fate.
Apart ==
    /\ rejected \cap ToSet(landed) = {}
    /\ dropped \cap ToSet(delivered) = {}
    /\ dropped # {} => m_tag = "closed"

\* The second inductive invariant: where every message is.
Books == LaneShape /\ PushShape /\ Fresh /\ Tracked /\ Apart /\ CountExact
-----------------------------------------------------------------------------
(* Where every message is *)

\* The steps that move no message and start or end no push.
Quiet ==
    /\ UNCHANGED <<m_stack, m_cache, m_count, node, batch, sent, msg, drain, hist>>
    /\ \A q \in Producers : pc'[q] \in {"load", "cas"} <=> pc[q] \in {"load", "cas"}
    /\ m_tag' = "closed" <=> m_tag = "closed"

\* The steps that do.
LEMMA MovingSteps ==
    ASSUME IInv, [Next]_vars
    PROVE  \/ Quiet
           \/ \E p \in Producers : \/ \E l \in Lanes : PushCount(p, l)
                                   \/ PushCas(p)
                                   \/ PushClosed(p)
           \/ PopFetch \/ PopRefetch \/ SplitNode \/ SplitAppend \/ PopDeliver
           \/ Close \/ CloseDrop
<1> USE DEF IInv, TypeOK, MailboxType, ProducerType, OwnerType, shared, prod, split, hist
<1>1. ASSUME NEW p \in Producers, PushLoad(p) PROVE Quiet
  BY <1>1 DEF PushLoad, Quiet
<1>2. ASSUME NEW p \in Producers, PushWake(p) PROVE Quiet
  BY <1>2 DEF PushWake, Quiet
<1>3. CASE TurnBegin
  BY <1>3 DEF TurnBegin, Quiet
<1>4. CASE LookCalls
  BY <1>4 DEF LookCalls, Quiet
<1>5. CASE LookOthers
  BY <1>5 DEF LookOthers, Quiet
<1>6. CASE PopCheck
  BY <1>6 DEF PopCheck, Quiet
<1>7. CASE TryBlock
  BY <1>7 DEF TryBlock, Quiet, WordShape
<1>8. CASE OwnerLeave
  BY <1>8 DEF OwnerLeave, TryUnblock, Quiet
<1>9. CASE CloseDone
  BY <1>9 DEF CloseDone, Quiet
<1>10. CASE StopRequest
  BY <1>10 DEF StopRequest, Quiet
<1>11. CASE StopUnblock
  BY <1>11 DEF StopUnblock, TryUnblock, Quiet
<1>12. CASE StopWake
  BY <1>12 DEF StopWake, Quiet
<1>13. CASE UNCHANGED vars
  BY <1>13 DEF vars, Quiet
<1>14. QED
  BY <1>1, <1>2, <1>3, <1>4, <1>5, <1>6, <1>7, <1>8, <1>9, <1>10, <1>11, <1>12, <1>13
     DEF Next, Push, Owner, Stop

\* Every step keeps what is cached in its lane, and leaves nothing behind.
LEMMA LaneStep ==
    ASSUME IInv, LaneShape, [Next]_vars
    PROVE  LaneShape'
<1> USE DEF IInv, TypeOK, MailboxType, OwnerType, shared, prod, split, hist
<1>1. ASSUME NEW p \in Producers, NEW l \in Lanes, PushCount(p, l) PROVE LaneShape'
  BY <1>1 DEF PushCount, LaneShape
<1>2. ASSUME NEW p \in Producers, PushLoad(p) PROVE LaneShape'
  BY <1>2 DEF PushLoad, LaneShape
<1>3. ASSUME NEW p \in Producers, PushCas(p) PROVE LaneShape'
  BY <1>3 DEF PushCas, Publish, LaneShape
<1>4. ASSUME NEW p \in Producers, PushClosed(p) PROVE LaneShape'
  BY <1>4 DEF PushClosed, GiveBack, LaneShape
<1>5. ASSUME NEW p \in Producers, PushWake(p) PROVE LaneShape'
  BY <1>5 DEF PushWake, LaneShape
<1>6. CASE TurnBegin
  BY <1>6 DEF TurnBegin, LaneShape
<1>7. CASE LookCalls
  BY <1>7 DEF LookCalls, LaneShape
<1>8. CASE LookOthers
  BY <1>8 DEF LookOthers, LaneShape
<1>9. CASE PopCheck
  BY <1>9 DEF PopCheck, LaneShape, Lanes
<1>10. CASE PopFetch
  BY <1>10 DEF PopFetch, TakeStack, LaneShape, Lanes
<1>11. CASE PopRefetch
  BY <1>11 DEF PopRefetch, TakeStack, LaneShape
<1>12. CASE SplitNode
  <2>1. ~IsEmpty(node) /\ node \in Seq(Message)
    BY <1>12 DEF SplitNode, SplitOff, IsEmpty
  <2>2. Head(node) \in Message /\ Head(node).lane \in Lanes
    <3>1. Head(node) \in Message
      BY <2>1, LedHeadTail
    <3>2. QED
      BY <3>1 DEF Message
  <2> DEFINE h == Head(node)
  <2>3. batch[h.lane] \in Seq(Message) /\ Led(batch'[h.lane], h, batch[h.lane])
    BY <1>12, <2>2 DEF SplitNode, SplitOff, Led
  <2>4. ToSet(batch'[h.lane]) = {h} \cup ToSet(batch[h.lane])
    BY <2>2, <2>3, LedSet
  <2>5. \A l \in Lanes : l # h.lane => batch'[l] = batch[l]
    BY <1>12, <2>2 DEF SplitNode, SplitOff
  <2>6. UNCHANGED <<m_cache, drain, owner>> /\ owner = "split"
    BY <1>12 DEF SplitNode, SplitOff
  <2>7. ASSUME NEW l \in Lanes, NEW x \in ToSet(m_cache'[l]) \cup ToSet(batch'[l])
        PROVE  x.lane = l
    BY <2>4, <2>5, <2>6 DEF LaneShape
  <2>8. QED
    BY <2>6, <2>7 DEF LaneShape
<1>13. CASE SplitAppend
  <2>1. \A l \in Lanes : /\ Joined(m_cache'[l], m_cache[l], batch[l])
                         /\ m_cache[l] \in Seq(Message) /\ batch[l] \in Seq(Message)
    BY <1>13 DEF SplitAppend, Joined
  <2>2. \A l \in Lanes : ToSet(m_cache'[l]) = ToSet(m_cache[l]) \cup ToSet(batch[l])
    BY <2>1, JoinedSet
  <2>3. \A l \in Lanes : IsEmpty(batch'[l])
    BY <1>13 DEF SplitAppend, IsEmpty
  <2>4. \A l \in Lanes : ToSet(batch'[l]) = {}
    BY <2>3, EmptyFacts
  <2>5. \A l \in Lanes : \A x \in ToSet(m_cache'[l]) \cup ToSet(batch'[l]) : x.lane = l
    BY <2>2, <2>4 DEF LaneShape
  <2>6. owner' = "deliver" /\ owner = "split" /\ drain' = drain
    BY <1>13 DEF SplitAppend
  <2>7. QED
    BY <2>3, <2>5, <2>6 DEF LaneShape, IsEmpty
<1>14. CASE PopDeliver
  <2>1. ServedLane \in Lanes
    BY DEF ServedLane, Lanes
  <2>2. m_cache[ServedLane] \in Seq(Message) /\ ~IsEmpty(m_cache[ServedLane])
    BY <1>14, <2>1 DEF PopDeliver, Serve, PopShape, IsEmpty
  <2>3. PICK h \in Message :
             Led(m_cache[ServedLane], h, m_cache'[ServedLane]) /\ m_cache'[ServedLane] \in Seq(Message)
    <3>1. m_cache'[ServedLane] = Tail(m_cache[ServedLane])
      BY <1>14, <2>1 DEF PopDeliver, Serve
    <3>2. QED
      BY <2>2, <3>1, LedHeadTail, Zenon
  <2>4. ToSet(m_cache'[ServedLane]) \subseteq ToSet(m_cache[ServedLane])
    BY <2>3, LedSet
  <2>5. \A l \in Lanes : l # ServedLane => m_cache'[l] = m_cache[l]
    BY <1>14, <2>1 DEF PopDeliver, Serve
  <2>6. UNCHANGED <<batch, drain>> /\ owner' = "loop" /\ owner = "deliver"
    BY <1>14 DEF PopDeliver, Serve
  <2>7. \A l \in Lanes : ToSet(m_cache'[l]) \subseteq ToSet(m_cache[l])
    BY <2>4, <2>5
  <2>8. \A l \in Lanes : \A x \in ToSet(m_cache'[l]) \cup ToSet(batch'[l]) : x.lane = l
    BY <2>6, <2>7 DEF LaneShape
  <2>9. QED
    BY <2>6, <2>8 DEF LaneShape
<1>15. CASE TryBlock
  BY <1>15 DEF TryBlock, LaneShape
<1>16. CASE OwnerLeave
  BY <1>16 DEF OwnerLeave, LaneShape
<1>17. CASE Close
  <2>1. \A l \in Lanes : IsEmpty(m_cache'[l]) /\ batch'[l] = batch[l]
    BY <1>17 DEF Close, CloseAndDrain, IsEmpty
  <2>2. \A l \in Lanes : ToSet(m_cache'[l]) = {}
    BY <2>1, EmptyFacts
  <2>3. owner = "loop" /\ owner' = "drain"
    BY <1>17 DEF Close, CloseAndDrain
  <2>4. \A l \in Lanes : \A x \in ToSet(m_cache'[l]) \cup ToSet(batch'[l]) : x.lane = l
    BY <2>1, <2>2 DEF LaneShape
  <2>5. QED
    BY <2>1, <2>3, <2>4 DEF LaneShape, IsEmpty
<1>18. CASE CloseDrop
  BY <1>18 DEF CloseDrop, LaneShape
<1>19. CASE CloseDone
  BY <1>19 DEF CloseDone, LaneShape
<1>20. CASE StopRequest
  BY <1>20 DEF StopRequest, LaneShape
<1>21. CASE StopUnblock
  BY <1>21 DEF StopUnblock, LaneShape
<1>22. CASE StopWake
  BY <1>22 DEF StopWake, LaneShape
<1>23. CASE UNCHANGED vars
  BY <1>23 DEF vars, LaneShape
<1>24. QED
  BY <1>1, <1>2, <1>3, <1>4, <1>5, <1>6, <1>7, <1>8, <1>9, <1>10, <1>11,
     <1>12, <1>13, <1>14, <1>15, <1>16, <1>17, <1>18, <1>19, <1>20, <1>21,
     <1>22, <1>23
     DEF Next, Push, Owner, Stop

\* Every step keeps the record of a push in progress.
LEMMA PushStep ==
    ASSUME IInv, PushShape, [Next]_vars
    PROVE  PushShape'
<1> USE DEF IInv, TypeOK, MailboxType, ProducerType, OwnerType, shared, prod, split, hist
<1>1. ASSUME NEW p \in Producers, NEW l \in Lanes, PushCount(p, l) PROVE PushShape'
  BY <1>1 DEF PushCount, PushShape
<1>2. ASSUME NEW p \in Producers, PushLoad(p) PROVE PushShape'
  <2>1. Word = ClosedWord => m_tag = "closed"
    BY DEF Word, ClosedWord
  <2>2. QED
    BY <1>2, <2>1 DEF PushLoad, PushShape
<1>3. ASSUME NEW p \in Producers, PushCas(p) PROVE PushShape'
  <2>1. m_tag # "closed"
    BY <1>3 DEF PushCas, Publish, Word, ClosedWord, WordShape
  <2>2. QED
    BY <1>3, <2>1 DEF PushCas, Publish, PushShape
<1>4. ASSUME NEW p \in Producers, PushClosed(p) PROVE PushShape'
  BY <1>4 DEF PushClosed, GiveBack, PushShape
<1>5. ASSUME NEW p \in Producers, PushWake(p) PROVE PushShape'
  BY <1>5 DEF PushWake, PushShape
<1>6. CASE PopFetch \/ PopRefetch
  <2>1. m_tag # "closed"
    BY <1>6 DEF PopFetch, PopRefetch, WordShape
  <2>2. QED
    BY <1>6, <2>1 DEF PopFetch, PopRefetch, PushShape
<1>7. CASE TryBlock
  BY <1>7 DEF TryBlock, PushShape, WordShape
<1>8. CASE OwnerLeave
  BY <1>8 DEF OwnerLeave, TryUnblock, PushShape
<1>9. CASE Close
  BY <1>9 DEF Close, CloseAndDrain, PushShape
<1>10. CASE StopUnblock
  BY <1>10 DEF StopUnblock, TryUnblock, PushShape
<1>11. CASE \/ TurnBegin \/ LookCalls \/ LookOthers \/ PopCheck \/ SplitNode \/ SplitAppend
            \/ PopDeliver \/ CloseDrop \/ CloseDone \/ StopRequest \/ StopWake \/ UNCHANGED vars
  <2>1. UNCHANGED <<pc, sent, msg, head, m_tag>>
    BY <1>11 DEF TurnBegin, LookCalls, LookOthers, PopCheck, SplitNode, SplitOff, SplitAppend,
                 PopDeliver, Serve, CloseDrop, CloseDone, StopRequest, StopWake, vars
  <2>2. QED
    BY <2>1 DEF PushShape
<1>12. QED
  BY <1>1, <1>2, <1>3, <1>4, <1>5, <1>6, <1>7, <1>8, <1>9, <1>10, <1>11
     DEF Next, Push, Owner, Stop

-----------------------------------------------------------------------------
(* What each moving step does to the lists *)

\* A successful CAS puts one message in front of the stack.
LEMMA CasEffect ==
    ASSUME IInv, NEW p \in Producers, PushCas(p)
    PROVE  /\ msg[p] \in Message /\ msg[p].lane \in Lanes
           /\ Led(m_stack', msg[p], m_stack) /\ Longer(landed', landed, msg[p])
           /\ UNCHANGED <<m_count, m_cache, node, batch, drain, sent, msg, delivered, dropped, rejected, owner>>
           /\ pc[p] = "cas" /\ pc'[p] \notin {"load", "cas"}
           /\ \A q \in Producers : q # p => pc'[q] = pc[q]
           /\ m_tag # "closed" /\ m_tag' = "open"
<1> USE DEF IInv, TypeOK, MailboxType, ProducerType, shared, prod, split, hist
<1>1. msg[p] \in Message /\ msg[p].lane \in Lanes
  BY DEF Message
<1>2. Led(m_stack', msg[p], m_stack) /\ Longer(landed', landed, msg[p])
  BY DEF PushCas, Publish, Led, Longer
<1>3. m_tag # "closed"
  BY DEF PushCas, Publish, Word, ClosedWord, WordShape
<1>4. QED
  BY <1>1, <1>2, <1>3 DEF PushCas, Publish

\* fetch_more() takes the whole stack while it holds nothing else.
LEMMA FetchEffect ==
    ASSUME IInv, LaneShape, PopFetch \/ PopRefetch
    PROVE  /\ IsEmpty(node) /\ node' = m_stack /\ IsEmpty(m_stack')
           /\ \A l \in Lanes : IsEmpty(batch[l])
           /\ m_tag # "closed" /\ m_tag' # "closed"
           /\ UNCHANGED <<m_count, m_cache, batch, drain, pc, sent, msg, hist>>
BY DEF IInv, PopFetch, PopRefetch, TakeStack, PopShape, LaneShape, IsEmpty, WordShape, prod

\* One node moves from the taken list to the front of its lane.
LEMMA SplitEffect ==
    ASSUME IInv, SplitNode
    PROVE  /\ Head(node) \in Message /\ Head(node).lane \in Lanes
           /\ Led(node, Head(node), node') /\ node' \in Seq(Message)
           /\ Led(batch'[Head(node).lane], Head(node), batch[Head(node).lane])
           /\ \A l \in Lanes : l # Head(node).lane => batch'[l] = batch[l]
           /\ UNCHANGED <<m_tag, m_stack, m_count, m_cache, drain, pc, sent, msg, hist, owner>>
           /\ owner = "split"
<1> USE DEF IInv, TypeOK, MailboxType, shared, prod
<1>1. ~IsEmpty(node) /\ node \in Seq(Message) /\ node' = Tail(node)
  BY DEF SplitNode, SplitOff, IsEmpty
<1>2. Head(node) \in Message /\ Led(node, Head(node), node') /\ node' \in Seq(Message)
  BY <1>1, LedHeadTail, Zenon
<1>3. Head(node).lane \in Lanes
  BY <1>2 DEF Message
<1>4. /\ Led(batch'[Head(node).lane], Head(node), batch[Head(node).lane])
      /\ \A l \in Lanes : l # Head(node).lane => batch'[l] = batch[l]
  BY <1>3 DEF SplitNode, SplitOff, Led
<1>5. /\ UNCHANGED <<m_tag, m_stack, m_count, m_cache, drain, pc, sent, msg, hist, owner>>
      /\ owner = "split"
  BY DEF SplitNode, SplitOff
<1>6. QED
  BY <1>2, <1>3, <1>4, <1>5

\* The split lists are appended to the caches.
LEMMA AppendEffect ==
    ASSUME IInv, SplitAppend
    PROVE  /\ IsEmpty(node) /\ node' = node
           /\ \A l \in Lanes : /\ Joined(m_cache'[l], m_cache[l], batch[l])
                               /\ IsEmpty(batch'[l])
           /\ owner = "split" /\ owner' = "deliver"
           /\ UNCHANGED <<m_tag, m_stack, m_count, drain, pc, sent, msg, hist>>
BY DEF IInv, TypeOK, MailboxType, SplitAppend, Joined, IsEmpty, shared, prod

\* pop() unlinks the oldest message of the lane it serves.
LEMMA ServeEffect ==
    ASSUME IInv, PopDeliver
    PROVE  /\ ServedLane \in Lanes
           /\ \E x \in Message : /\ Led(m_cache[ServedLane], x, m_cache'[ServedLane])
                                 /\ x = Head(m_cache[ServedLane])
                                 /\ Longer(delivered', delivered, x)
           /\ m_cache'[ServedLane] \in Seq(Message)
           /\ m_count'[ServedLane] = m_count[ServedLane] - 1
           /\ \A l \in Lanes : l # ServedLane => m_cache'[l] = m_cache[l] /\ m_count'[l] = m_count[l]
           /\ owner = "deliver" /\ owner' = "loop"
           /\ UNCHANGED <<m_tag, m_stack, node, batch, drain, pc, sent, msg, landed, dropped, rejected>>
<1> USE DEF IInv, TypeOK, MailboxType, split, prod
<1>1. ServedLane \in Lanes
  BY DEF ServedLane, Lanes
<1>2. m_cache[ServedLane] \in Seq(Message) /\ ~IsEmpty(m_cache[ServedLane])
  BY <1>1 DEF PopDeliver, Serve, PopShape, IsEmpty
<1>3. /\ m_cache'[ServedLane] = Tail(m_cache[ServedLane])
      /\ Longer(delivered', delivered, Head(m_cache[ServedLane]))
  BY <1>1 DEF PopDeliver, Serve, Longer
<1>4. PICK x : x = Head(m_cache[ServedLane])
  OBVIOUS
<1>5. x \in Message /\ Led(m_cache[ServedLane], x, m_cache'[ServedLane])
      /\ m_cache'[ServedLane] \in Seq(Message) /\ Longer(delivered', delivered, x)
  BY <1>2, <1>3, <1>4, LedHeadTail, Zenon
<1>6. /\ m_count'[ServedLane] = m_count[ServedLane] - 1
      /\ \A l \in Lanes : l # ServedLane => m_cache'[l] = m_cache[l] /\ m_count'[l] = m_count[l]
      /\ owner = "deliver" /\ owner' = "loop"
      /\ UNCHANGED <<m_tag, m_stack, node, batch, drain, pc, sent, msg, landed, dropped, rejected>>
  BY <1>1 DEF PopDeliver, Serve
<1>7. QED
  BY <1>1, <1>4, <1>5, <1>6, Zenon

\* close() takes everything there is.
LEMMA CloseEffect ==
    ASSUME IInv, LaneShape, Close
    PROVE  /\ \E c \in Seq(Message) : /\ Joined(c, m_cache["call"], m_cache["other"])
                                      /\ Joined(drain', c, m_stack)
           /\ IsEmpty(drain) /\ IsEmpty(node) /\ IsEmpty(m_stack')
           /\ \A l \in Lanes : IsEmpty(batch[l]) /\ IsEmpty(m_cache'[l])
           /\ m_tag # "closed" /\ m_tag' = "closed" /\ owner = "loop" /\ owner' = "drain"
           /\ UNCHANGED <<m_count, node, batch, pc, sent, msg, hist>>
<1> USE DEF IInv, TypeOK, MailboxType, split, prod
<1>1. PICK c : c = m_cache["call"] \o m_cache["other"]
  OBVIOUS
<1>2. c \in Seq(Message) /\ Joined(c, m_cache["call"], m_cache["other"]) /\ Joined(drain', c, m_stack)
  BY <1>1 DEF Close, CloseAndDrain, Joined, Lanes
<1>3. /\ IsEmpty(drain) /\ IsEmpty(node) /\ IsEmpty(m_stack')
      /\ \A l \in Lanes : IsEmpty(batch[l]) /\ IsEmpty(m_cache'[l])
  BY DEF Close, CloseAndDrain, LaneShape, PopShape, IsEmpty
<1>4. /\ m_tag # "closed" /\ m_tag' = "closed" /\ owner = "loop" /\ owner' = "drain"
      /\ UNCHANGED <<m_count, node, batch, pc, sent, msg, hist>>
  BY DEF Close, CloseAndDrain, WordShape
<1>5. QED
  BY <1>2, <1>3, <1>4

\* drain() drops the first message that is left.
LEMMA DropEffect ==
    ASSUME IInv, LaneShape, CloseDrop
    PROVE  /\ Head(drain) \in Message /\ Head(drain).lane \in Lanes
           /\ Led(drain, Head(drain), drain') /\ drain' \in Seq(Message)
           /\ dropped' = dropped \cup {Head(drain)}
           /\ m_count'[Head(drain).lane] = m_count[Head(drain).lane] - 1
           /\ \A l \in Lanes : l # Head(drain).lane => m_count'[l] = m_count[l]
           /\ IsEmpty(node) /\ IsEmpty(m_stack)
           /\ \A l \in Lanes : IsEmpty(batch[l]) /\ IsEmpty(m_cache[l])
           /\ m_tag = "closed"
           /\ UNCHANGED <<m_tag, m_stack, m_cache, node, batch, pc, sent, msg, landed, delivered, rejected, owner>>
<1> USE DEF IInv, TypeOK, MailboxType, OwnerType, split, prod
<1>1. ~IsEmpty(drain) /\ drain \in Seq(Message) /\ drain' = Tail(drain)
  BY DEF CloseDrop, IsEmpty
<1>2. Head(drain) \in Message /\ Led(drain, Head(drain), drain') /\ drain' \in Seq(Message)
  BY <1>1, LedHeadTail, Zenon
<1>3. Head(drain).lane \in Lanes
  BY <1>2 DEF Message
<1>4. /\ m_count'[Head(drain).lane] = m_count[Head(drain).lane] - 1
      /\ \A l \in Lanes : l # Head(drain).lane => m_count'[l] = m_count[l]
      /\ dropped' = dropped \cup {Head(drain)}
      /\ UNCHANGED <<m_tag, m_stack, m_cache, node, batch, pc, sent, msg, landed, delivered, rejected, owner>>
  BY <1>3 DEF CloseDrop
<1>5. /\ IsEmpty(node) /\ IsEmpty(m_stack)
      /\ \A l \in Lanes : IsEmpty(batch[l]) /\ IsEmpty(m_cache[l])
      /\ m_tag = "closed"
  BY DEF CloseDrop, LaneShape, PopShape, WordShape, IsEmpty
<1>6. QED
  BY <1>2, <1>3, <1>4, <1>5

-----------------------------------------------------------------------------
(* Nothing is lost or duplicated *)

\* The size of a list is a number, and what the list operations make of it.
LEMMA SizeType == ASSUME NEW S, NEW s \in Seq(S) PROVE Size(s) \in Nat
BY DEF Size

\* The empty list has no element.
LEMMA EmptySize ==
    ASSUME NEW e, IsEmpty(e)
    PROVE  Size(e) = 0 /\ ToSet(e) = {}
BY EmptyFacts DEF Size

\* A message in front adds one.
LEMMA LedSize ==
    ASSUME NEW S, NEW s \in Seq(S), NEW x \in S, NEW u, Led(u, x, s)
    PROVE  Size(u) = Size(s) + 1 /\ Size(s) \in Nat
BY LedType, SizeType DEF Size

\* Concatenation adds the sizes.
LEMMA JoinedSize ==
    ASSUME NEW S, NEW s \in Seq(S), NEW v \in Seq(S), NEW w, Joined(w, s, v)
    PROVE  Size(w) = Size(s) + Size(v) /\ Size(s) \in Nat /\ Size(v) \in Nat
BY JoinedType, SizeType DEF Size

\* The message a producer is about to publish or take back is a new one.
LEMMA PushingIsFresh ==
    ASSUME IInv, PushShape, Fresh, NEW p \in Producers, pc[p] \in {"load", "cas"}
    PROVE  msg[p] \notin ToSet(landed) /\ msg[p] \notin rejected
<1> SUFFICES ASSUME msg[p] \in ToSet(landed) \cup rejected PROVE FALSE
  OBVIOUS
<1>1. msg[p].from = p /\ msg[p].seq = sent[p] /\ sent[p] \in Nat
  BY DEF PushShape, IInv, TypeOK, ProducerType
<1>2. msg[p].seq < sent[msg[p].from]
  BY <1>1 DEF Fresh
<1>3. QED
  BY <1>1, <1>2

\* Every step keeps the message of a push new.
LEMMA FreshStep ==
    ASSUME IInv, LaneShape, PushShape, Fresh, [Next]_vars
    PROVE  Fresh'
<1> USE DEF hist
<1>0. \A m \in ToSet(landed) \cup rejected : m.from \in Producers /\ m.seq \in Nat /\ sent[m.from] \in Nat
  <2>1. ToSet(landed) \cup rejected \subseteq Message
    BY DEF IInv, TypeOK, HistoryType, ToSet
  <2>2. QED
    BY <2>1 DEF Message, IInv, TypeOK, ProducerType
<1>1. ASSUME UNCHANGED <<landed, rejected, sent>>,
             \A q \in Producers : pc'[q] \in {"load", "cas"} => pc[q] \in {"load", "cas"}
      PROVE  Fresh'
  BY <1>0, <1>1 DEF Fresh
<1>2. ASSUME NEW p \in Producers, NEW l \in Lanes, PushCount(p, l) PROVE Fresh'
  <2>1. /\ UNCHANGED <<landed, rejected>>
        /\ sent' = [sent EXCEPT ![p] = @ + 1]
        /\ pc' = [pc EXCEPT ![p] = "load"]
    BY <1>2 DEF PushCount
  <2>2. ASSUME NEW m \in ToSet(landed) \cup rejected
        PROVE  /\ m.seq <= sent'[m.from]
               /\ pc'[m.from] \in {"load", "cas"} => m.seq < sent'[m.from]
    BY <1>0, <2>1 DEF Fresh, IInv, TypeOK, ProducerType
  <2>3. QED
    BY <2>1, <2>2 DEF Fresh
<1>3. ASSUME NEW p \in Producers, pc[p] = "cas", UNCHANGED sent,
             ToSet(landed') \cup rejected' = ToSet(landed) \cup rejected \cup {msg[p]},
             pc'[p] \notin {"load", "cas"}, \A q \in Producers : q # p => pc'[q] = pc[q]
      PROVE  Fresh'
  <2>1. msg[p].from = p /\ msg[p].seq = sent[p] /\ sent[p] \in Nat
    BY <1>3 DEF PushShape, IInv, TypeOK, ProducerType
  <2>2. ASSUME NEW m \in ToSet(landed) \cup rejected
        PROVE  /\ m.seq <= sent'[m.from]
               /\ pc'[m.from] \in {"load", "cas"} => m.seq < sent'[m.from]
    BY <1>0, <1>3 DEF Fresh
  <2>3. /\ msg[p].seq <= sent'[msg[p].from]
        /\ pc'[msg[p].from] \notin {"load", "cas"}
    BY <1>3, <2>1
  <2>4. QED
    BY <1>3, <2>2, <2>3 DEF Fresh
<1>4. ASSUME NEW p \in Producers, PushCas(p) PROVE Fresh'
  <2>1. ToSet(landed') = ToSet(landed) \cup {msg[p]}
    BY <1>4, CasEffect, ToSetLonger DEF IInv, TypeOK, HistoryType
  <2>2. QED
    BY <1>3, <1>4, <2>1, CasEffect
<1>5. ASSUME NEW p \in Producers, PushClosed(p) PROVE Fresh'
  <2>1. /\ pc[p] = "cas" /\ UNCHANGED <<sent, landed>> /\ rejected' = rejected \cup {msg[p]}
        /\ pc'[p] \notin {"load", "cas"} /\ \A q \in Producers : q # p => pc'[q] = pc[q]
    BY <1>5 DEF PushClosed, GiveBack, IInv, TypeOK, ProducerType
  <2>2. QED
    BY <1>3, <2>1
<1>6. CASE Quiet
  BY <1>1, <1>6 DEF Quiet
<1>7. CASE PopFetch \/ PopRefetch
  BY <1>1, <1>7, FetchEffect
<1>8. CASE SplitNode
  BY <1>1, <1>8, SplitEffect
<1>9. CASE SplitAppend
  BY <1>1, <1>9, AppendEffect
<1>10. CASE PopDeliver
  BY <1>1, <1>10, ServeEffect
<1>11. CASE Close
  BY <1>1, <1>11, CloseEffect
<1>12. CASE CloseDrop
  BY <1>1, <1>12, DropEffect
<1>13. QED
  BY <1>2, <1>4, <1>5, <1>6, <1>7, <1>8, <1>9, <1>10, <1>11, <1>12, MovingSteps

\* A list stays free of repetitions when a new message is appended.
LEMMA InjectiveLonger ==
    ASSUME NEW S, NEW s \in Seq(S), IsInjective(s), NEW x \in S, x \notin ToSet(s),
           NEW u, Longer(u, s, x)
    PROVE  IsInjective(u)
<1>1. DOMAIN u = 1..(Len(s) + 1) /\ DOMAIN s = 1..Len(s) /\ u[Len(s) + 1] = x
      /\ \A i \in 1..Len(s) : u[i] = s[i]
  BY DEF Longer
<1>2. \A i \in 1..Len(s) : u[i] # x
  BY <1>1 DEF ToSet
<1>3. \A i \in 1..(Len(s) + 1) : i \in 1..Len(s) \/ i = Len(s) + 1
  OBVIOUS
<1>4. QED
  BY <1>1, <1>2, <1>3 DEF IsInjective

\* A list has at most as many different elements as its length, and exactly as
\* many if none repeats.
LEMMA ListCardinality ==
    ASSUME NEW S, NEW s \in Seq(S)
    PROVE  /\ IsFiniteSet(ToSet(s)) /\ Cardinality(ToSet(s)) \in Nat
           /\ Cardinality(ToSet(s)) <= Len(s)
           /\ IsInjective(s) => Cardinality(ToSet(s)) = Len(s)
<1>1. DOMAIN s = 1..Len(s) /\ Len(s) \in Nat
  OBVIOUS
<1>2. IsFiniteSet(1..Len(s)) /\ Cardinality(1..Len(s)) = Len(s)
  BY <1>1, FS_Interval
<1>3. s \in [1..Len(s) -> ToSet(s)]
  BY <1>1 DEF ToSet
<1>4. s \in Surjection(1..Len(s), ToSet(s))
  BY <1>1, <1>3 DEF ToSet, Surjection
<1>5. /\ IsFiniteSet(ToSet(s)) /\ Cardinality(ToSet(s)) <= Cardinality(1..Len(s))
      /\ Cardinality(ToSet(s)) = Cardinality(1..Len(s)) <=> s \in Injection(1..Len(s), ToSet(s))
  BY <1>2, <1>4, FS_Surjection
<1>6. IsInjective(s) => s \in Injection(1..Len(s), ToSet(s))
  BY <1>1, <1>3 DEF IsInjective, Injection
<1>7. Cardinality(ToSet(s)) \in Nat
  BY <1>5, FS_CardinalityType
<1>8. QED
  BY <1>2, <1>5, <1>6, <1>7

\* The same in terms of Size.
LEMMA ListSize ==
    ASSUME NEW S, NEW s \in Seq(S)
    PROVE  /\ IsFiniteSet(ToSet(s)) /\ Cardinality(ToSet(s)) \in Nat
           /\ Cardinality(ToSet(s)) <= Size(s)
           /\ IsInjective(s) => Cardinality(ToSet(s)) = Size(s)
BY ListCardinality DEF Size

\* A union has at most as many elements as its parts together.
LEMMA UnionBound ==
    ASSUME NEW A, NEW B, IsFiniteSet(A), IsFiniteSet(B)
    PROVE  /\ IsFiniteSet(A \cup B)
           /\ Cardinality(A \cup B) <= Cardinality(A) + Cardinality(B)
           /\ Cardinality(A) \in Nat /\ Cardinality(B) \in Nat /\ Cardinality(A \cup B) \in Nat
<1>1. IsFiniteSet(A \cup B) /\ Cardinality(A \cup B) = Cardinality(A) + Cardinality(B) - Cardinality(A \cap B)
  BY FS_Union
<1>2. IsFiniteSet(A \cap B)
  BY FS_Subset
<1>3. /\ Cardinality(A) \in Nat /\ Cardinality(B) \in Nat
      /\ Cardinality(A \cap B) \in Nat /\ Cardinality(A \cup B) \in Nat
  BY <1>1, <1>2, FS_CardinalityType
<1>4. QED
  BY <1>1, <1>3

\* What close() is about to drop was neither delivered nor dropped before: the
\* messages that landed are counted, and one fewer place would hold them all.
LEMMA DropIsNew ==
    ASSUME IInv, LaneShape, Tracked, CloseDrop
    PROVE  Head(drain) \notin dropped /\ Head(drain) \notin ToSet(delivered)
<1> SUFFICES ASSUME Head(drain) \in dropped \/ Head(drain) \in ToSet(delivered) PROVE FALSE
  OBVIOUS
<1>1. /\ drain \in Seq(Message) /\ delivered \in Seq(Message) /\ landed \in Seq(Message)
      /\ drain' \in Seq(Message) /\ Led(drain, Head(drain), drain') /\ Head(drain) \in Message
  BY DropEffect DEF IInv, TypeOK, OwnerType, HistoryType
<1>2. ToSet(drain) = {Head(drain)} \cup ToSet(drain') /\ Size(drain) = Size(drain') + 1
  BY <1>1, LedSet, LedSize
<1>3. /\ ToSet(node) = {} /\ ToSet(m_stack) = {} /\ Size(node) = 0 /\ Size(m_stack) = 0
      /\ ToSet(m_cache["call"]) = {} /\ Size(m_cache["call"]) = 0
      /\ ToSet(m_cache["other"]) = {} /\ Size(m_cache["other"]) = 0
      /\ ToSet(batch["call"]) = {} /\ Size(batch["call"]) = 0
      /\ ToSet(batch["other"]) = {} /\ Size(batch["other"]) = 0
  BY DropEffect, EmptySize DEF Lanes
<1>4. ToSet(landed) = (ToSet(drain') \cup ToSet(delivered)) \cup dropped
  BY <1>2, <1>3 DEF Tracked, TrackedSet, Inside
<1>5. Size(landed) = Size(drain) + Size(delivered) + Cardinality(dropped)
  <2>1. Size(drain) \in Nat /\ Size(delivered) \in Nat /\ Cardinality(dropped) \in Nat
    BY <1>1, SizeType, FS_CardinalityType DEF Tracked
  <2>2. QED
    BY <1>3, <2>1 DEF Tracked, TrackedLen, InsideLen
<1>6. Cardinality(ToSet(landed)) = Size(landed)
  BY <1>1, ListSize DEF Tracked
<1>7. /\ IsFiniteSet(ToSet(drain')) /\ Cardinality(ToSet(drain')) <= Size(drain')
      /\ IsFiniteSet(ToSet(delivered)) /\ Cardinality(ToSet(delivered)) <= Size(delivered)
      /\ IsFiniteSet(dropped)
  BY <1>1, ListSize DEF Tracked
<1>8. /\ IsFiniteSet(ToSet(drain') \cup ToSet(delivered))
      /\ Cardinality(ToSet(drain') \cup ToSet(delivered)) <= Cardinality(ToSet(drain')) + Cardinality(ToSet(delivered))
      /\ Cardinality(ToSet(drain') \cup ToSet(delivered)) \in Nat
      /\ Cardinality(ToSet(drain')) \in Nat /\ Cardinality(ToSet(delivered)) \in Nat
  BY <1>7, UnionBound
<1>9. /\ Cardinality(ToSet(landed)) <= Cardinality(ToSet(drain') \cup ToSet(delivered)) + Cardinality(dropped)
      /\ Cardinality(dropped) \in Nat /\ Cardinality(ToSet(landed)) \in Nat
  BY <1>4, <1>7, <1>8, UnionBound
<1>10. Size(drain) \in Nat /\ Size(drain') \in Nat /\ Size(delivered) \in Nat /\ Size(landed) \in Nat
  BY <1>1, SizeType
<1>11. QED
  BY <1>2, <1>5, <1>6, <1>7, <1>8, <1>9, <1>10

\* A list to which a message was appended.
LEMMA LongerType ==
    ASSUME NEW S, NEW s \in Seq(S), NEW x \in S, NEW u, Longer(u, s, x)
    PROVE  u \in Seq(S) /\ Size(u) = Size(s) + 1 /\ ~IsEmpty(u)
BY DEF Longer, IsEmpty, Size

\* The lengths the books add up are numbers.
LEMMA ListLengths ==
    ASSUME MailboxType, drain \in Seq(Message), HistoryType
    PROVE  /\ Size(m_stack) \in Nat /\ Size(node) \in Nat /\ Size(drain) \in Nat
           /\ Size(m_cache["call"]) \in Nat /\ Size(m_cache["other"]) \in Nat
           /\ Size(batch["call"]) \in Nat /\ Size(batch["other"]) \in Nat
           /\ Size(landed) \in Nat /\ Size(delivered) \in Nat
<1>1. /\ m_cache["call"] \in Seq(Message) /\ m_cache["other"] \in Seq(Message)
      /\ batch["call"] \in Seq(Message) /\ batch["other"] \in Seq(Message)
  BY DEF MailboxType, Lanes
<1>2. QED
  BY <1>1, SizeType DEF MailboxType, HistoryType

\* Every step keeps track of every message that landed.
LEMMA TrackedStep ==
    ASSUME IInv, LaneShape, PushShape, Fresh, Tracked, [Next]_vars
    PROVE  Tracked'
<1>0. /\ MailboxType /\ drain \in Seq(Message) /\ HistoryType
      /\ m_stack \in Seq(Message) /\ landed \in Seq(Message) /\ delivered \in Seq(Message)
      /\ \A l \in Lanes : m_cache[l] \in Seq(Message) /\ batch[l] \in Seq(Message)
      /\ "call" \in Lanes /\ "other" \in Lanes
      /\ \A l \in Lanes : l = "call" \/ l = "other"
  BY DEF IInv, TypeOK, OwnerType, MailboxType, HistoryType, Lanes
<1>L. /\ Size(m_stack) \in Nat /\ Size(node) \in Nat /\ Size(drain) \in Nat
      /\ Size(m_cache["call"]) \in Nat /\ Size(m_cache["other"]) \in Nat
      /\ Size(batch["call"]) \in Nat /\ Size(batch["other"]) \in Nat
      /\ Size(landed) \in Nat /\ Size(delivered) \in Nat
  BY <1>0, ListLengths
<1>C. Cardinality(dropped) \in Nat
  BY FS_CardinalityType DEF Tracked
<1>1. CASE \/ Quiet
           \/ \E p \in Producers, l \in Lanes : PushCount(p, l)
           \/ \E p \in Producers : PushClosed(p)
  <2>1. UNCHANGED <<m_stack, m_cache, node, batch, drain, landed, delivered, dropped>>
    BY <1>1 DEF Quiet, PushCount, PushClosed, GiveBack, split, hist
  <2>2. QED
    BY <2>1 DEF Tracked, TrackedSet, TrackedLen, Inside, InsideLen
<1>2. ASSUME NEW p \in Producers, PushCas(p) PROVE Tracked'
  <2>1. msg[p] \in Message /\ Led(m_stack', msg[p], m_stack) /\ Longer(landed', landed, msg[p])
    BY <1>2, CasEffect
  <2>2. ToSet(m_stack') = {msg[p]} \cup ToSet(m_stack) /\ Size(m_stack') = Size(m_stack) + 1
    BY <1>0, <2>1, LedSet, LedSize
  <2>3. ToSet(landed') = ToSet(landed) \cup {msg[p]} /\ Size(landed') = Size(landed) + 1
    BY <1>0, <2>1, ToSetLonger, LongerType
  <2>4. UNCHANGED <<m_cache, node, batch, drain, delivered, dropped>>
    BY <1>2, CasEffect
  <2>5. msg[p] \notin ToSet(landed)
    BY <1>2, CasEffect, PushingIsFresh
  <2>6. IsInjective(landed')
    BY <1>0, <2>1, <2>5, InjectiveLonger DEF Tracked
  <2>7. TrackedSet'
    BY <2>2, <2>3, <2>4 DEF Tracked, TrackedSet, Inside
  <2>8. TrackedLen'
    <3>1. TrackedLen
      BY DEF Tracked
    <3>2. QED
      BY <1>L, <1>C, <2>2, <2>3, <2>4, <3>1 DEF TrackedLen, InsideLen
  <2>9. QED
    BY <2>4, <2>6, <2>7, <2>8 DEF Tracked
<1>3. CASE PopFetch \/ PopRefetch
  <2>1. /\ IsEmpty(node) /\ node' = m_stack /\ IsEmpty(m_stack')
        /\ UNCHANGED <<m_cache, batch, drain, landed, delivered, dropped>>
    BY <1>3, FetchEffect DEF hist
  <2>2. ToSet(node) = {} /\ ToSet(m_stack') = {} /\ Size(node) = 0 /\ Size(m_stack') = 0
    BY <2>1, EmptySize
  <2>3. TrackedSet'
    BY <2>1, <2>2 DEF Tracked, TrackedSet, Inside
  <2>4. TrackedLen'
    <3>1. TrackedLen
      BY DEF Tracked
    <3>2. QED
      BY <1>L, <1>C, <2>1, <2>2, <3>1 DEF TrackedLen, InsideLen
  <2>5. QED
    BY <2>1, <2>3, <2>4 DEF Tracked
<1>4. CASE SplitNode
  <2>1. PICK h : h = Head(node)
    OBVIOUS
  <2>2. /\ h \in Message /\ h.lane \in Lanes
        /\ Led(node, h, node') /\ node' \in Seq(Message)
        /\ Led(batch'[h.lane], h, batch[h.lane])
        /\ \A l \in Lanes : l # h.lane => batch'[l] = batch[l]
        /\ UNCHANGED <<m_stack, m_cache, drain, landed, delivered, dropped>>
    BY <1>4, <2>1, SplitEffect DEF hist
  <2>3. ToSet(node) = {h} \cup ToSet(node') /\ Size(node) = Size(node') + 1 /\ Size(node') \in Nat
    BY <2>2, LedSet, LedSize
  <2>4. /\ ToSet(batch'[h.lane]) = {h} \cup ToSet(batch[h.lane])
        /\ Size(batch'[h.lane]) = Size(batch[h.lane]) + 1
    BY <1>0, <2>2, LedSet, LedSize
  <2>5. ToSet(batch'["call"]) \cup ToSet(batch'["other"]) =
          ToSet(batch["call"]) \cup ToSet(batch["other"]) \cup {h}
    BY <1>0, <2>2, <2>4
  <2>6. /\ Size(batch'["call"]) + Size(batch'["other"]) = Size(batch["call"]) + Size(batch["other"]) + 1
        /\ Size(batch'["call"]) \in Nat /\ Size(batch'["other"]) \in Nat
    <3>1. CASE h.lane = "call"
      <4>1. Size(batch'["call"]) = Size(batch["call"]) + 1 /\ batch'["other"] = batch["other"]
        BY <1>0, <2>2, <2>4, <3>1
      <4>2. QED
        BY <1>L, <4>1
    <3>2. CASE h.lane = "other"
      <4>1. Size(batch'["other"]) = Size(batch["other"]) + 1 /\ batch'["call"] = batch["call"]
        BY <1>0, <2>2, <2>4, <3>2
      <4>2. QED
        BY <1>L, <4>1
    <3>3. QED
      BY <1>0, <2>2, <3>1, <3>2
  <2>7. TrackedSet'
    <3>1. UNCHANGED <<m_stack, m_cache, drain, landed, delivered, dropped>>
      BY <2>2
    <3>2. QED
      BY <2>3, <2>5, <3>1 DEF Tracked, TrackedSet, Inside
  <2>8. TrackedLen'
    <3>1. UNCHANGED <<m_stack, m_cache, drain, landed, delivered, dropped>>
      BY <2>2
    <3>2. TrackedLen
      BY DEF Tracked
    <3>3. QED
      BY <1>L, <1>C, <2>3, <2>6, <3>1, <3>2 DEF TrackedLen, InsideLen
  <2>9. QED
    BY <2>2, <2>7, <2>8 DEF Tracked
<1>5. CASE SplitAppend
  <2>1. /\ \A l \in Lanes : Joined(m_cache'[l], m_cache[l], batch[l]) /\ IsEmpty(batch'[l])
        /\ UNCHANGED <<m_stack, node, drain, landed, delivered, dropped>>
    BY <1>5, AppendEffect DEF hist
  <2>2. \A l \in Lanes : /\ ToSet(m_cache'[l]) = ToSet(m_cache[l]) \cup ToSet(batch[l])
                         /\ Size(m_cache'[l]) = Size(m_cache[l]) + Size(batch[l])
                         /\ ToSet(batch'[l]) = {} /\ Size(batch'[l]) = 0
    <3> SUFFICES ASSUME NEW l \in Lanes
                 PROVE  /\ ToSet(m_cache'[l]) = ToSet(m_cache[l]) \cup ToSet(batch[l])
                        /\ Size(m_cache'[l]) = Size(m_cache[l]) + Size(batch[l])
                        /\ ToSet(batch'[l]) = {} /\ Size(batch'[l]) = 0
      OBVIOUS
    <3>1. Joined(m_cache'[l], m_cache[l], batch[l]) /\ IsEmpty(batch'[l])
          /\ m_cache[l] \in Seq(Message) /\ batch[l] \in Seq(Message)
      BY <1>0, <2>1
    <3>2. ToSet(m_cache'[l]) = ToSet(m_cache[l]) \cup ToSet(batch[l])
      BY <3>1, JoinedSet
    <3>3. Size(m_cache'[l]) = Size(m_cache[l]) + Size(batch[l])
      BY <3>1, JoinedSize
    <3>4. ToSet(batch'[l]) = {} /\ Size(batch'[l]) = 0
      BY <3>1, EmptySize
    <3>5. QED
      BY <3>2, <3>3, <3>4
  <2>3. TrackedSet'
    BY <1>0, <2>1, <2>2 DEF Tracked, TrackedSet, Inside
  <2>4. TrackedLen'
    <3>1. /\ Size(m_cache'["call"]) = Size(m_cache["call"]) + Size(batch["call"])
          /\ Size(m_cache'["other"]) = Size(m_cache["other"]) + Size(batch["other"])
          /\ Size(batch'["call"]) = 0 /\ Size(batch'["other"]) = 0
      BY <1>0, <2>2
    <3>2. UNCHANGED <<m_stack, node, drain, landed, delivered, dropped>>
      BY <2>1
    <3>3. TrackedLen
      BY DEF Tracked
    <3>4. QED
      BY <1>L, <1>C, <3>1, <3>2, <3>3 DEF TrackedLen, InsideLen
  <2>5. QED
    BY <2>1, <2>3, <2>4 DEF Tracked
<1>6. CASE PopDeliver
  <2>1. PICK x \in Message : /\ Led(m_cache[ServedLane], x, m_cache'[ServedLane])
                             /\ Longer(delivered', delivered, x)
    BY <1>6, ServeEffect
  <2>2. /\ ServedLane \in Lanes /\ m_cache'[ServedLane] \in Seq(Message)
        /\ \A l \in Lanes : l # ServedLane => m_cache'[l] = m_cache[l]
        /\ UNCHANGED <<m_stack, node, batch, drain, landed, dropped>>
    BY <1>6, ServeEffect
  <2>3. /\ ToSet(m_cache[ServedLane]) = {x} \cup ToSet(m_cache'[ServedLane])
        /\ Size(m_cache[ServedLane]) = Size(m_cache'[ServedLane]) + 1
        /\ Size(m_cache'[ServedLane]) \in Nat
    BY <2>1, <2>2, LedSet, LedSize
  <2>4. ToSet(delivered') = ToSet(delivered) \cup {x} /\ Size(delivered') = Size(delivered) + 1
    BY <1>0, <2>1, ToSetLonger, LongerType
  <2>5. ToSet(m_cache["call"]) \cup ToSet(m_cache["other"]) =
          ToSet(m_cache'["call"]) \cup ToSet(m_cache'["other"]) \cup {x}
    BY <1>0, <2>2, <2>3
  <2>6. /\ Size(m_cache'["call"]) + Size(m_cache'["other"]) + 1 = Size(m_cache["call"]) + Size(m_cache["other"])
        /\ Size(m_cache'["call"]) \in Nat /\ Size(m_cache'["other"]) \in Nat
    <3>1. CASE ServedLane = "call"
      <4>1. /\ Size(m_cache["call"]) = Size(m_cache'["call"]) + 1 /\ Size(m_cache'["call"]) \in Nat
            /\ m_cache'["other"] = m_cache["other"]
        BY <1>0, <2>2, <2>3, <3>1
      <4>2. QED
        BY <1>L, <4>1
    <3>2. CASE ServedLane = "other"
      <4>1. /\ Size(m_cache["other"]) = Size(m_cache'["other"]) + 1 /\ Size(m_cache'["other"]) \in Nat
            /\ m_cache'["call"] = m_cache["call"]
        BY <1>0, <2>2, <2>3, <3>2
      <4>2. QED
        BY <1>L, <4>1
    <3>3. QED
      BY <1>0, <2>2, <3>1, <3>2
  <2>7. UNCHANGED <<m_stack, node, batch, drain, landed, dropped>>
    BY <2>2
  <2>8. TrackedSet'
    BY <2>4, <2>5, <2>7 DEF Tracked, TrackedSet, Inside
  <2>9. TrackedLen'
    <3>1. TrackedLen
      BY DEF Tracked
    <3>2. QED
      BY <1>L, <1>C, <2>4, <2>6, <2>7, <3>1 DEF TrackedLen, InsideLen
  <2>10. QED
    BY <2>7, <2>8, <2>9 DEF Tracked
<1>7. CASE Close
  <2>1. PICK c \in Seq(Message) : /\ Joined(c, m_cache["call"], m_cache["other"])
                                  /\ Joined(drain', c, m_stack)
    BY <1>7, CloseEffect
  <2>2. /\ IsEmpty(drain) /\ IsEmpty(m_stack')
        /\ \A l \in Lanes : IsEmpty(m_cache'[l])
        /\ UNCHANGED <<node, batch, landed, delivered, dropped>>
    BY <1>7, CloseEffect DEF hist
  <2>3. /\ ToSet(c) = ToSet(m_cache["call"]) \cup ToSet(m_cache["other"])
        /\ Size(c) = Size(m_cache["call"]) + Size(m_cache["other"])
        /\ ToSet(drain') = ToSet(c) \cup ToSet(m_stack)
        /\ Size(drain') = Size(c) + Size(m_stack)
    <3>1. m_cache["call"] \in Seq(Message) /\ m_cache["other"] \in Seq(Message) /\ m_stack \in Seq(Message)
      BY <1>0
    <3>2. /\ ToSet(c) = ToSet(m_cache["call"]) \cup ToSet(m_cache["other"])
          /\ ToSet(drain') = ToSet(c) \cup ToSet(m_stack)
      BY <2>1, <3>1, JoinedSet
    <3>3. /\ Size(c) = Size(m_cache["call"]) + Size(m_cache["other"])
          /\ Size(drain') = Size(c) + Size(m_stack)
      BY <2>1, <3>1, JoinedSize
    <3>4. QED
      BY <3>2, <3>3
  <2>4. /\ ToSet(drain) = {} /\ Size(drain) = 0 /\ ToSet(m_stack') = {} /\ Size(m_stack') = 0
        /\ \A l \in Lanes : ToSet(m_cache'[l]) = {} /\ Size(m_cache'[l]) = 0
    BY <2>2, EmptySize
  <2>5. UNCHANGED <<node, batch, landed, delivered, dropped>>
    BY <2>2
  <2>6. TrackedSet'
    BY <1>0, <2>3, <2>4, <2>5 DEF Tracked, TrackedSet, Inside
  <2>7. TrackedLen'
    <3>1. TrackedLen
      BY DEF Tracked
    <3>2. QED
      BY <1>0, <1>L, <1>C, <2>3, <2>4, <2>5, <3>1 DEF TrackedLen, InsideLen
  <2>8. QED
    BY <2>5, <2>6, <2>7 DEF Tracked
<1>8. CASE CloseDrop
  <2>1. PICK h : h = Head(drain)
    OBVIOUS
  <2>2. /\ h \in Message /\ Led(drain, h, drain') /\ drain' \in Seq(Message)
        /\ dropped' = dropped \cup {h}
        /\ UNCHANGED <<m_stack, m_cache, node, batch, landed, delivered>>
    BY <1>8, <2>1, DropEffect
  <2>3. ToSet(drain) = {h} \cup ToSet(drain') /\ Size(drain) = Size(drain') + 1 /\ Size(drain') \in Nat
    BY <2>2, LedSet, LedSize
  <2>4. h \notin dropped
    BY <1>8, <2>1, DropIsNew
  <2>5. IsFiniteSet(dropped') /\ Cardinality(dropped') = Cardinality(dropped) + 1
    BY <2>2, <2>4, FS_AddElement DEF Tracked
  <2>6. TrackedSet'
    BY <2>2, <2>3 DEF Tracked, TrackedSet, Inside
  <2>7. TrackedLen'
    <3>1. UNCHANGED <<m_stack, m_cache, node, batch, landed, delivered>>
      BY <2>2
    <3>2. TrackedLen
      BY DEF Tracked
    <3>3. QED
      BY <1>L, <1>C, <2>3, <2>5, <3>1, <3>2 DEF TrackedLen, InsideLen
  <2>8. QED
    BY <2>2, <2>5, <2>6, <2>7 DEF Tracked
<1>9. QED
  BY <1>1, <1>2, <1>3, <1>4, <1>5, <1>6, <1>7, <1>8, MovingSteps

\* Every step keeps delivered, dropped and handed back apart.
LEMMA ApartStep ==
    ASSUME IInv, LaneShape, PushShape, Fresh, Tracked, Apart, [Next]_vars
    PROVE  Apart'
<1> USE DEF hist
<1>1. CASE Quiet
  BY <1>1 DEF Quiet, Apart
<1>2. ASSUME NEW p \in Producers, NEW l \in Lanes, PushCount(p, l) PROVE Apart'
  BY <1>2 DEF PushCount, Apart
<1>3. ASSUME NEW p \in Producers, PushCas(p) PROVE Apart'
  <2>1. ToSet(landed') = ToSet(landed) \cup {msg[p]}
    BY <1>3, CasEffect, ToSetLonger DEF IInv, TypeOK, HistoryType
  <2>2. msg[p] \notin rejected
    BY <1>3, CasEffect, PushingIsFresh
  <2>3. UNCHANGED <<rejected, dropped, delivered>> /\ m_tag # "closed"
    BY <1>3, CasEffect
  <2>4. QED
    BY <2>1, <2>2, <2>3 DEF Apart
<1>4. ASSUME NEW p \in Producers, PushClosed(p) PROVE Apart'
  <2>1. pc[p] = "cas" /\ UNCHANGED <<landed, dropped, delivered, m_tag>> /\ rejected' = rejected \cup {msg[p]}
    BY <1>4 DEF PushClosed, GiveBack
  <2>2. msg[p] \notin ToSet(landed)
    BY <2>1, PushingIsFresh
  <2>3. QED
    BY <2>1, <2>2 DEF Apart
<1>5. CASE PopFetch \/ PopRefetch
  <2>1. UNCHANGED hist /\ m_tag # "closed"
    BY <1>5, FetchEffect
  <2>2. QED
    BY <2>1 DEF Apart
<1>6. CASE SplitNode
  BY <1>6, SplitEffect DEF Apart
<1>7. CASE SplitAppend
  BY <1>7, AppendEffect DEF Apart
<1>8. CASE PopDeliver
  <2>1. UNCHANGED <<landed, dropped, rejected, m_tag>> /\ owner = "deliver"
    BY <1>8, ServeEffect
  <2>2. m_tag # "closed"
    BY <2>1 DEF IInv, WordShape
  <2>3. QED
    BY <2>1, <2>2 DEF Apart
<1>9. CASE Close
  BY <1>9, CloseEffect DEF Apart
<1>10. CASE CloseDrop
  <2>1. PICK h : h = Head(drain)
    OBVIOUS
  <2>2. dropped' = dropped \cup {h} /\ m_tag = "closed" /\ UNCHANGED <<m_tag, landed, delivered, rejected>>
    BY <1>10, <2>1, DropEffect
  <2>3. h \notin ToSet(delivered)
    BY <1>10, <2>1, DropIsNew
  <2>4. QED
    BY <2>2, <2>3 DEF Apart
<1>11. QED
  BY <1>1, <1>2, <1>3, <1>4, <1>5, <1>6, <1>7, <1>8, <1>9, <1>10, MovingSteps

-----------------------------------------------------------------------------
(* The counters *)

\* How many messages of lane l a list holds.
LaneSize(s, l) == Len(OfLane(s, l))

\* InPush, of any state.
PushingOn(pcs, msgs, l) == {p \in Producers : pcs[p] \in {"load", "cas"} /\ msgs[p].lane = l}

\* What counter l should show.
LaneTotal(cache, taken, sorted, stack, rest, pcs, msgs, l) ==
    Size(cache[l]) + LaneSize(taken, l) + Size(sorted[l]) + LaneSize(stack, l)
    + LaneSize(rest, l) + Cardinality(PushingOn(pcs, msgs, l))

\* The messages of a lane are a number of messages.
LEMMA LaneSizeNat ==
    ASSUME NEW S, NEW l, NEW s \in Seq(S)
    PROVE  LaneSize(s, l) \in Nat
BY LaneLenNat DEF LaneSize

\* An empty list holds none.
LEMMA LaneSizeEmpty ==
    ASSUME NEW l, NEW e, IsEmpty(e)
    PROVE  LaneSize(e, l) = 0
BY LaneLenEmpty DEF LaneSize

\* A message put in front counts in its own lane.
LEMMA LaneSizeLed ==
    ASSUME NEW S, NEW l, NEW s \in Seq(S), NEW x \in S, NEW u, Led(u, x, s)
    PROVE  /\ x.lane = l => LaneSize(u, l) = LaneSize(s, l) + 1
           /\ x.lane # l => LaneSize(u, l) = LaneSize(s, l)
BY LaneLenLed DEF LaneSize

\* Two lists count together.
LEMMA LaneSizeJoined ==
    ASSUME NEW S, NEW l, NEW s \in Seq(S), NEW v \in Seq(S), NEW w, Joined(w, s, v)
    PROVE  LaneSize(w, l) = LaneSize(s, l) + LaneSize(v, l)
BY LaneLenJoined DEF LaneSize

\* A list of one lane counts in full there and nowhere else.
LEMMA LaneSizePure ==
    ASSUME NEW S, NEW l, NEW k, NEW s \in Seq(S), \A x \in ToSet(s) : x.lane = k
    PROVE  LaneSize(s, l) = IF l = k THEN Size(s) ELSE 0
<1>1. CASE l = k
  <2>1. OfLane(s, k) = s
    BY OfLanePure
  <2>2. QED
    BY <1>1, <2>1 DEF LaneSize, Size
<1>2. CASE l # k
  <2>1. IsEmpty(OfLane(s, l))
    BY <1>2, OfLaneNone
  <2>2. QED
    BY <1>2, <2>1, EmptySize DEF LaneSize, Size
<1>3. QED
  BY <1>1, <1>2

\* The pushes in progress on a lane, and how one that starts or ends changes them.
LEMMA PushingFacts ==
    ASSUME NEW pcs, NEW msgs, NEW l
    PROVE  /\ IsFiniteSet(PushingOn(pcs, msgs, l)) /\ Cardinality(PushingOn(pcs, msgs, l)) \in Nat
           /\ \A p \in PushingOn(pcs, msgs, l) :
                 Cardinality(PushingOn(pcs, msgs, l) \ {p}) = Cardinality(PushingOn(pcs, msgs, l)) - 1
           /\ \A p : p \notin PushingOn(pcs, msgs, l) =>
                 Cardinality(PushingOn(pcs, msgs, l) \cup {p}) = Cardinality(PushingOn(pcs, msgs, l)) + 1
<1>1. PushingOn(pcs, msgs, l) \subseteq Producers
  BY DEF PushingOn
<1>2. IsFiniteSet(PushingOn(pcs, msgs, l))
  BY <1>1, ProducersAssumption, FS_Subset
<1>3. QED
  BY <1>2, FS_CardinalityType, FS_AddElement, FS_RemoveElement

\* CountExact in terms of LaneTotal ...
LEMMA CountExactIs ==
    CountExact <=> \A l \in Lanes :
        m_count[l] = LaneTotal(m_cache, node, batch, m_stack, drain, pc, msg, l)
BY DEF CountExact, LaneTotal, LaneSize, Size, PushingOn, InPush

\* ... and in the next state.
LEMMA CountExactIsNext ==
    CountExact' <=> \A l \in Lanes :
        m_count'[l] = LaneTotal(m_cache', node', batch', m_stack', drain', pc', msg', l)
BY DEF CountExact, LaneTotal, LaneSize, Size, PushingOn, InPush

\* Every step keeps the counters exact.
LEMMA CountStep ==
    ASSUME IInv, LaneShape, CountExact, [Next]_vars
    PROVE  CountExact'
<1> SUFFICES ASSUME NEW l \in Lanes
             PROVE  m_count'[l] = LaneTotal(m_cache', node', batch', m_stack', drain', pc', msg', l)
  BY CountExactIsNext
<1>0. /\ m_stack \in Seq(Message) /\ node \in Seq(Message) /\ drain \in Seq(Message)
      /\ m_cache \in [Lanes -> Seq(Message)] /\ batch \in [Lanes -> Seq(Message)]
      /\ m_count \in [Lanes -> Int]
      /\ "call" \in Lanes /\ "other" \in Lanes /\ (l = "call" \/ l = "other")
  BY DEF IInv, TypeOK, MailboxType, OwnerType, Lanes
<1>1. /\ Size(m_cache[l]) \in Nat /\ Size(batch[l]) \in Nat
      /\ LaneSize(node, l) \in Nat /\ LaneSize(m_stack, l) \in Nat /\ LaneSize(drain, l) \in Nat
      /\ Cardinality(PushingOn(pc, msg, l)) \in Nat
  BY <1>0, SizeType, LaneSizeNat, PushingFacts
<1>2. m_count[l] = LaneTotal(m_cache, node, batch, m_stack, drain, pc, msg, l)
  BY CountExactIs
<1>3. CASE Quiet
  <2>1. PushingOn(pc', msg', l) = PushingOn(pc, msg, l)
    BY <1>3 DEF PushingOn, Quiet
  <2>2. UNCHANGED <<m_stack, m_cache, m_count, node, batch, drain>>
    BY <1>3 DEF Quiet
  <2>3. QED
    BY <1>2, <2>1, <2>2 DEF LaneTotal
<1>4. ASSUME NEW p \in Producers, NEW k \in Lanes, PushCount(p, k)
      PROVE  m_count'[l] = LaneTotal(m_cache', node', batch', m_stack', drain', pc', msg', l)
  <2>1. /\ pc[p] = "ready" /\ pc' = [pc EXCEPT ![p] = "load"]
        /\ msg'[p].lane = k /\ \A q \in Producers : q # p => msg'[q] = msg[q]
        /\ pc'[p] = "load" /\ \A q \in Producers : q # p => pc'[q] = pc[q]
    BY <1>4 DEF PushCount, IInv, TypeOK, ProducerType
  <2>2. p \notin PushingOn(pc, msg, l)
    BY <2>1 DEF PushingOn
  <2>3. k = l => PushingOn(pc', msg', l) = PushingOn(pc, msg, l) \cup {p}
    BY <2>1 DEF PushingOn
  <2>4. k # l => PushingOn(pc', msg', l) = PushingOn(pc, msg, l)
    BY <2>1 DEF PushingOn
  <2>5. /\ k = l => m_count'[l] = m_count[l] + 1
        /\ k # l => m_count'[l] = m_count[l]
        /\ UNCHANGED <<m_stack, m_cache, node, batch, drain>>
    BY <1>0, <1>4 DEF PushCount, split
  <2>6. k = l => Cardinality(PushingOn(pc', msg', l)) = Cardinality(PushingOn(pc, msg, l)) + 1
    BY <2>2, <2>3, PushingFacts
  <2>7. QED
    BY <1>1, <1>2, <2>4, <2>5, <2>6 DEF LaneTotal
<1>5. ASSUME NEW p \in Producers, pc[p] = "cas", pc'[p] \notin {"load", "cas"},
             \A q \in Producers : q # p => pc'[q] = pc[q], UNCHANGED msg
      PROVE  /\ msg[p].lane = l => Cardinality(PushingOn(pc', msg', l)) = Cardinality(PushingOn(pc, msg, l)) - 1
             /\ msg[p].lane # l => PushingOn(pc', msg', l) = PushingOn(pc, msg, l)
  <2>1. PushingOn(pc', msg', l) = PushingOn(pc, msg, l) \ {p}
    BY <1>5 DEF PushingOn
  <2>2. p \in PushingOn(pc, msg, l) <=> msg[p].lane = l
    BY <1>5 DEF PushingOn
  <2>3. QED
    BY <2>1, <2>2, PushingFacts
<1>6. ASSUME NEW p \in Producers, PushCas(p)
      PROVE  m_count'[l] = LaneTotal(m_cache', node', batch', m_stack', drain', pc', msg', l)
  <2>1. /\ msg[p].lane = l => LaneSize(m_stack', l) = LaneSize(m_stack, l) + 1
        /\ msg[p].lane # l => LaneSize(m_stack', l) = LaneSize(m_stack, l)
    BY <1>0, <1>6, CasEffect, LaneSizeLed
  <2>2. /\ msg[p].lane = l => Cardinality(PushingOn(pc', msg', l)) = Cardinality(PushingOn(pc, msg, l)) - 1
        /\ msg[p].lane # l => PushingOn(pc', msg', l) = PushingOn(pc, msg, l)
    BY <1>5, <1>6, CasEffect
  <2>3. UNCHANGED <<m_count, m_cache, node, batch, drain>>
    BY <1>6, CasEffect
  <2>4. QED
    BY <1>1, <1>2, <2>1, <2>2, <2>3 DEF LaneTotal
<1>7. ASSUME NEW p \in Producers, PushClosed(p)
      PROVE  m_count'[l] = LaneTotal(m_cache', node', batch', m_stack', drain', pc', msg', l)
  <2>1. /\ pc[p] = "cas" /\ pc'[p] \notin {"load", "cas"}
        /\ \A q \in Producers : q # p => pc'[q] = pc[q]
        /\ UNCHANGED msg
    BY <1>7 DEF PushClosed, GiveBack, IInv, TypeOK, ProducerType
  <2>2. /\ msg[p].lane = l => m_count'[l] = m_count[l] - 1
        /\ msg[p].lane # l => m_count'[l] = m_count[l]
    BY <1>0, <1>7 DEF PushClosed, GiveBack
  <2>3. UNCHANGED <<m_stack, m_cache, node, batch, drain>>
    BY <1>7 DEF PushClosed, GiveBack, split
  <2>4. QED
    BY <1>1, <1>2, <1>5, <2>1, <2>2, <2>3 DEF LaneTotal
<1>8. CASE PopFetch \/ PopRefetch
  <2>1. LaneSize(node, l) = 0 /\ LaneSize(m_stack', l) = 0
    BY <1>8, FetchEffect, LaneSizeEmpty
  <2>2. node' = m_stack /\ UNCHANGED <<m_count, m_cache, batch, drain, pc, msg>>
    BY <1>8, FetchEffect
  <2>3. QED
    BY <1>1, <1>2, <2>1, <2>2 DEF LaneTotal
<1>9. CASE SplitNode
  <2>1. PICK h : h = Head(node)
    OBVIOUS
  <2>2. /\ h \in Message /\ h.lane \in Lanes
        /\ Led(node, h, node') /\ node' \in Seq(Message)
        /\ Led(batch'[h.lane], h, batch[h.lane])
        /\ \A k \in Lanes : k # h.lane => batch'[k] = batch[k]
    BY <1>9, <2>1, SplitEffect
  <2>3. /\ h.lane = l => LaneSize(node, l) = LaneSize(node', l) + 1
        /\ h.lane # l => LaneSize(node, l) = LaneSize(node', l)
        /\ LaneSize(node', l) \in Nat
    BY <2>2, LaneSizeNat, LaneSizeLed
  <2>4. h.lane = l => Size(batch'[l]) = Size(batch[l]) + 1
    BY <1>0, <2>2, LedSize
  <2>5. h.lane # l => batch'[l] = batch[l]
    BY <2>2
  <2>6. UNCHANGED <<m_count, m_cache, m_stack, drain, pc, msg>>
    BY <1>9, SplitEffect
  <2>7. QED
    BY <1>1, <1>2, <2>3, <2>4, <2>5, <2>6 DEF LaneTotal
<1>10. CASE SplitAppend
  <2>1. Joined(m_cache'[l], m_cache[l], batch[l]) /\ IsEmpty(batch'[l])
    BY <1>10, AppendEffect
  <2>2. Size(m_cache'[l]) = Size(m_cache[l]) + Size(batch[l]) /\ Size(batch'[l]) = 0
    BY <1>0, <2>1, JoinedSize, EmptySize
  <2>3. UNCHANGED <<m_count, node, m_stack, drain, pc, msg>>
    BY <1>10, AppendEffect
  <2>4. QED
    BY <1>1, <1>2, <2>2, <2>3 DEF LaneTotal
<1>11. CASE PopDeliver
  <2>1. ServedLane = l => /\ Size(m_cache[l]) = Size(m_cache'[l]) + 1 /\ Size(m_cache'[l]) \in Nat
                          /\ m_count'[l] = m_count[l] - 1
    BY <1>11, ServeEffect, LedSize
  <2>2. ServedLane # l => m_cache'[l] = m_cache[l] /\ m_count'[l] = m_count[l]
    BY <1>11, ServeEffect
  <2>3. UNCHANGED <<node, m_stack, batch, drain, pc, msg>>
    BY <1>11, ServeEffect
  <2>4. QED
    BY <1>1, <1>2, <2>1, <2>2, <2>3 DEF LaneTotal
<1>12. CASE Close
  <2>1. PICK c \in Seq(Message) : /\ Joined(c, m_cache["call"], m_cache["other"])
                                  /\ Joined(drain', c, m_stack)
    BY <1>12, CloseEffect
  <2>2. /\ LaneSize(c, l) = LaneSize(m_cache["call"], l) + LaneSize(m_cache["other"], l)
        /\ LaneSize(drain', l) = LaneSize(c, l) + LaneSize(m_stack, l)
    <3>1. m_cache["call"] \in Seq(Message) /\ m_cache["other"] \in Seq(Message)
      BY <1>0
    <3>2. QED
      BY <1>0, <2>1, <3>1, LaneSizeJoined
  <2>3. /\ LaneSize(m_cache["call"], l) = IF l = "call" THEN Size(m_cache["call"]) ELSE 0
        /\ LaneSize(m_cache["other"], l) = IF l = "other" THEN Size(m_cache["other"]) ELSE 0
    <3>1. /\ \A x \in ToSet(m_cache["call"]) : x.lane = "call"
          /\ \A x \in ToSet(m_cache["other"]) : x.lane = "other"
      BY <1>0 DEF LaneShape
    <3>2. m_cache["call"] \in Seq(Message) /\ m_cache["other"] \in Seq(Message)
      BY <1>0
    <3>3. QED
      BY <3>1, <3>2, LaneSizePure
  <2>4. LaneSize(drain', l) = Size(m_cache[l]) + LaneSize(m_stack, l)
    <3>1. Size(m_cache["call"]) \in Nat /\ Size(m_cache["other"]) \in Nat
      BY <1>0, SizeType
    <3>2. CASE l = "call"
      BY <1>1, <2>2, <2>3, <3>1, <3>2
    <3>3. CASE l = "other"
      BY <1>1, <2>2, <2>3, <3>1, <3>3
    <3>4. QED
      BY <1>0, <3>2, <3>3
  <2>5. LaneSize(drain, l) = 0 /\ LaneSize(m_stack', l) = 0 /\ Size(m_cache'[l]) = 0
    BY <1>12, CloseEffect, LaneSizeEmpty, EmptySize
  <2>6. UNCHANGED <<m_count, node, batch, pc, msg>>
    BY <1>12, CloseEffect
  <2>7. QED
    BY <1>1, <1>2, <2>4, <2>5, <2>6 DEF LaneTotal
<1>13. CASE CloseDrop
  <2>1. PICK h : h = Head(drain)
    OBVIOUS
  <2>2. /\ h \in Message /\ Led(drain, h, drain') /\ drain' \in Seq(Message)
        /\ h.lane = l => m_count'[l] = m_count[l] - 1
        /\ h.lane # l => m_count'[l] = m_count[l]
    BY <1>13, <2>1, DropEffect
  <2>3. /\ h.lane = l => LaneSize(drain, l) = LaneSize(drain', l) + 1
        /\ h.lane # l => LaneSize(drain, l) = LaneSize(drain', l)
        /\ LaneSize(drain', l) \in Nat
    BY <2>2, LaneSizeNat, LaneSizeLed
  <2>4. UNCHANGED <<m_cache, node, batch, m_stack, pc, msg>>
    BY <1>13, DropEffect
  <2>5. PICK a \in Nat, b \in Nat, d \in Nat :
           /\ a = Size(m_cache[l]) + LaneSize(node, l) + Size(batch[l]) + LaneSize(m_stack, l)
           /\ b = Cardinality(PushingOn(pc, msg, l)) /\ d = LaneSize(drain', l)
    BY <1>1, <2>3
  <2>6. m_count[l] = a + LaneSize(drain, l) + b
    BY <1>2, <2>5 DEF LaneTotal
  <2>7. LaneTotal(m_cache', node', batch', m_stack', drain', pc', msg', l) = a + d + b
    BY <2>4, <2>5 DEF LaneTotal
  <2>8. m_count'[l] = a + d + b
    BY <2>2, <2>3, <2>5, <2>6
  <2>9. QED
    BY <2>7, <2>8
<1>14. QED
  BY <1>3, <1>4, <1>6, <1>7, <1>8, <1>9, <1>10, <1>11, <1>12, <1>13, MovingSteps

-----------------------------------------------------------------------------
\* An empty mailbox keeps its books.
LEMMA InitBooks == Init => Books
<1> SUFFICES ASSUME Init PROVE Books
  OBVIOUS
<1>1. /\ IsEmpty(m_stack) /\ IsEmpty(node) /\ IsEmpty(drain) /\ IsEmpty(landed) /\ IsEmpty(delivered)
      /\ \A l \in Lanes : IsEmpty(m_cache[l]) /\ IsEmpty(batch[l])
      /\ dropped = {} /\ rejected = {}
  BY DEF Init, IsEmpty
<1>2. "call" \in Lanes /\ "other" \in Lanes
  BY DEF Lanes
<1>3. /\ ToSet(m_stack) = {} /\ ToSet(node) = {} /\ ToSet(drain) = {} /\ ToSet(landed) = {} /\ ToSet(delivered) = {}
      /\ \A l \in Lanes : ToSet(m_cache[l]) = {} /\ ToSet(batch[l]) = {}
  BY <1>1, EmptySize
<1>4. LaneShape
  BY <1>1, <1>3 DEF LaneShape, IsEmpty, Init
<1>5. PushShape
  BY DEF Init, PushShape
<1>6. Fresh /\ Apart
  BY <1>1, <1>3 DEF Fresh, Apart
<1>7. TrackedSet
  BY <1>1, <1>2, <1>3 DEF TrackedSet, Inside
<1>8. TrackedLen
  <2>1. /\ Size(m_stack) = 0 /\ Size(node) = 0 /\ Size(drain) = 0 /\ Size(landed) = 0 /\ Size(delivered) = 0
        /\ Size(m_cache["call"]) = 0 /\ Size(m_cache["other"]) = 0
        /\ Size(batch["call"]) = 0 /\ Size(batch["other"]) = 0
    BY <1>1, <1>2, EmptySize
  <2>2. Cardinality(dropped) = 0
    BY <1>1, FS_EmptySet
  <2>3. QED
    BY <2>1, <2>2 DEF TrackedLen, InsideLen
<1>9. IsFiniteSet(dropped) /\ IsInjective(landed)
  BY <1>1, FS_EmptySet DEF IsEmpty, IsInjective
<1>10. CountExact
  <2> SUFFICES ASSUME NEW l \in Lanes
               PROVE  m_count[l] = LaneTotal(m_cache, node, batch, m_stack, drain, pc, msg, l)
    BY CountExactIs
  <2>1. /\ Size(m_cache[l]) = 0 /\ Size(batch[l]) = 0
        /\ LaneSize(node, l) = 0 /\ LaneSize(m_stack, l) = 0 /\ LaneSize(drain, l) = 0
    BY <1>1, EmptySize, LaneSizeEmpty
  <2>2. PushingOn(pc, msg, l) = {}
    BY DEF PushingOn, Init
  <2>3. Cardinality(PushingOn(pc, msg, l)) = 0
    BY <2>2, FS_EmptySet
  <2>4. m_count[l] = 0
    BY DEF Init
  <2>5. QED
    BY <2>1, <2>3, <2>4 DEF LaneTotal
<1>11. QED
  BY <1>4, <1>5, <1>6, <1>7, <1>8, <1>9, <1>10 DEF Books, Tracked

\* The books are kept in every reachable state.
LEMMA BooksHold == Spec => [](IInv /\ Books)
<1>1. IInv /\ Books /\ [Next]_vars => Books'
  BY LaneStep, PushStep, FreshStep, TrackedStep, ApartStep, CountStep DEF Books
<1>2. Spec => []Books
  BY <1>1, InitBooks, InvariantHolds, PTL DEF Spec
<1>3. QED
  BY <1>2, InvariantHolds, PTL

\* Each of the two atomic counters is exact, whatever pushes, pops and a close()
\* are under way: has_messages() never overlooks a message and the size_t never
\* wraps below zero.
THEOREM CountersExact == Spec => []CountExact
<1>1. IInv /\ Books => CountExact
  BY DEF Books
<1>2. QED
  BY <1>1, BooksHold, PTL

\* Closing loses nothing and drops nothing twice, and what was handed back to its
\* sender never landed.
THEOREM ClosingAccounts == Spec => []ClosedAccounting
<1>1. ASSUME IInv, Books PROVE ClosedAccounting
  <2>1. rejected \cap ToSet(landed) = {} /\ dropped \cap ToSet(delivered) = {}
    BY <1>1 DEF Books, Apart
  <2> SUFFICES ASSUME owner = "closed"
               PROVE  /\ ToSet(landed) = ToSet(delivered) \cup dropped
                      /\ Len(landed) = Len(delivered) + Cardinality(dropped)
    BY <2>1 DEF ClosedAccounting
  <2>2. /\ IsEmpty(m_stack) /\ IsEmpty(node) /\ IsEmpty(drain)
        /\ \A l \in Lanes : IsEmpty(m_cache[l]) /\ IsEmpty(batch[l])
    BY <1>1 DEF IInv, Books, WordShape, PopShape, LaneShape, IsEmpty
  <2>3. "call" \in Lanes /\ "other" \in Lanes
    BY DEF Lanes
  <2>4. /\ Size(m_stack) = 0 /\ Size(node) = 0 /\ Size(drain) = 0
        /\ Size(m_cache["call"]) = 0 /\ Size(m_cache["other"]) = 0
        /\ Size(batch["call"]) = 0 /\ Size(batch["other"]) = 0
    BY <2>2, <2>3, EmptySize
  <2>5. Inside = {}
    BY <2>2, <2>3, EmptySize DEF Inside
  <2>6. ToSet(landed) = ToSet(delivered) \cup dropped
    BY <1>1, <2>5 DEF Books, Tracked, TrackedSet
  <2>7. Size(delivered) \in Nat /\ Cardinality(dropped) \in Nat
    BY <1>1, SizeType, FS_CardinalityType DEF IInv, TypeOK, HistoryType, Books, Tracked
  <2>8. TrackedLen
    BY <1>1 DEF Books, Tracked
  <2>9. Size(landed) = Size(delivered) + Cardinality(dropped)
    BY <2>4, <2>7, <2>8 DEF TrackedLen, InsideLen
  <2>10. QED
    BY <2>6, <2>9 DEF Size
<1>2. QED
  BY <1>1, BooksHold, PTL

-----------------------------------------------------------------------------
(* The lanes as a client sees them *)

\* t is what the owner has taken of lane l: cached, not yet split, split.
Gathered(t, c, n, b, l) == t = c \o OfLane(Reverse(n), l) \o b

\* w is what waits on the stack for lane l, oldest first.
Waiting(w, s, l) == w = OfLane(Reverse(s), l)

\* The unsplit part of a lane, in the order it will have, and its messages.
LEMMA WaitingFacts ==
    ASSUME NEW S, NEW l, NEW s \in Seq(S), NEW w, Waiting(w, s, l)
    PROVE  w \in Seq(S) /\ ToSet(w) = {x \in ToSet(s) : x.lane = l}
<1>1. PICK r : r = Reverse(s)
  OBVIOUS
<1>2. r \in Seq(S) /\ ToSet(r) = ToSet(s)
  BY <1>1, ReverseFacts
<1>3. w = OfLane(r, l)
  BY <1>1 DEF Waiting
<1>4. QED
  BY <1>2, <1>3, OfLaneType, OfLaneSet

\* Nothing waits on an empty stack.
LEMMA WaitingEmpty ==
    ASSUME NEW l, NEW s, NEW w, IsEmpty(s), Waiting(w, s, l)
    PROVE  IsEmpty(w)
<1>1. PICK r : r = Reverse(s)
  OBVIOUS
<1>2. IsEmpty(r)
  BY <1>1, ReverseEmpty
<1>3. w = OfLane(r, l)
  BY <1>1 DEF Waiting
<1>4. QED
  BY <1>2, <1>3, OfLaneEmpty

\* A message put in front of the stack waits last.
LEMMA WaitingLed ==
    ASSUME NEW S, NEW l, NEW s \in Seq(S), NEW x \in S, NEW u, Led(u, x, s),
           NEW w, Waiting(w, s, l), NEW v, Waiting(v, u, l)
    PROVE  /\ x.lane = l => Longer(v, w, x)
           /\ x.lane # l => v = w
<1>1. PICK r : r = Reverse(s)
  OBVIOUS
<1>2. PICK q : q = Reverse(u)
  OBVIOUS
<1>3. r \in Seq(S) /\ Longer(q, r, x)
  BY <1>1, <1>2, ReverseFacts, ReverseLed
<1>4. w = OfLane(r, l) /\ v = OfLane(q, l)
  BY <1>1, <1>2 DEF Waiting
<1>5. QED
  BY <1>3, <1>4, OfLaneLonger

\* What is gathered is the cache, then the unsplit part, then the split part.
LEMMA GatheredParts ==
    ASSUME NEW S, NEW l, NEW c \in Seq(S), NEW n \in Seq(S), NEW b \in Seq(S),
           NEW t, Gathered(t, c, n, b, l)
    PROVE  \E w, d : /\ Waiting(w, n, l) /\ w \in Seq(S) /\ d \in Seq(S)
                     /\ Joined(d, c, w) /\ Joined(t, d, b)
<1>1. PICK w : w = OfLane(Reverse(n), l)
  OBVIOUS
<1>2. Waiting(w, n, l)
  BY <1>1 DEF Waiting
<1>3. w \in Seq(S)
  BY <1>2, WaitingFacts
<1>4. PICK d : d = c \o w
  OBVIOUS
<1>5. d \in Seq(S) /\ Joined(d, c, w)
  BY <1>3, <1>4 DEF Joined
<1>6. t = d \o b
  BY <1>1, <1>4 DEF Gathered
<1>7. Joined(t, d, b)
  BY <1>6 DEF Joined
<1>8. QED
  BY <1>2, <1>3, <1>5, <1>7

\* The messages gathered.
LEMMA GatheredFacts ==
    ASSUME NEW S, NEW l, NEW c \in Seq(S), NEW n \in Seq(S), NEW b \in Seq(S),
           NEW t, Gathered(t, c, n, b, l)
    PROVE  /\ t \in Seq(S)
           /\ ToSet(t) = ToSet(c) \cup {x \in ToSet(n) : x.lane = l} \cup ToSet(b)
<1>1. PICK w, d : /\ Waiting(w, n, l) /\ w \in Seq(S) /\ d \in Seq(S)
                  /\ Joined(d, c, w) /\ Joined(t, d, b)
  BY GatheredParts
<1>2. ToSet(d) = ToSet(c) \cup ToSet(w) /\ ToSet(t) = ToSet(d) \cup ToSet(b)
  BY <1>1, JoinedSet
<1>3. ToSet(w) = {x \in ToSet(n) : x.lane = l}
  BY <1>1, WaitingFacts
<1>4. t \in Seq(S)
  BY <1>1, JoinedType
<1>5. QED
  BY <1>2, <1>3, <1>4

\* Facts of concatenation.
LEMMA JoinedEmpty ==
    ASSUME NEW S, NEW s \in Seq(S), NEW e, IsEmpty(e), NEW w
    PROVE  /\ Joined(w, s, e) => w = s
           /\ Joined(w, e, s) => w = s
BY DEF Joined, IsEmpty

\* A concatenation is determined by its parts.
LEMMA JoinedUnique ==
    ASSUME NEW s, NEW v, NEW w, NEW u, Joined(w, s, v), Joined(u, s, v)
    PROVE  u = w
BY DEF Joined

\* Moving a message from the end of one part to the front of the next changes
\* nothing.
LEMMA JoinedThree ==
    ASSUME NEW S, NEW c \in Seq(S), NEW w \in Seq(S), NEW b \in Seq(S), NEW x \in S,
           NEW w1, Longer(w1, w, x), NEW b1, Led(b1, x, b),
           NEW d, Joined(d, c, w), NEW d1, Joined(d1, c, w1),
           NEW t, Joined(t, d, b1), NEW t1, Joined(t1, d1, b)
    PROVE  t = t1
<1>1. d \in Seq(S) /\ Longer(d1, d, x)
  BY DEF Joined, Longer
<1>2. \A y \in Seq(S) : \A y1 : Longer(y1, y, x) => y1 \o b = y \o (<<x>> \o b)
  BY DEF Longer
<1>3. QED
  BY <1>1, <1>2 DEF Joined, Led

\* fetch_more() moves the newest node to the front of its split lane: nothing
\* changes for a client.
LEMMA GatheredSplit ==
    ASSUME NEW S, NEW l, NEW c \in Seq(S), NEW n \in Seq(S), NEW b \in Seq(S),
           NEW t, Gathered(t, c, n, b, l),
           NEW n1 \in Seq(S), NEW h \in S, Led(n, h, n1),
           NEW b1, h.lane = l => Led(b1, h, b), h.lane # l => b1 = b,
           NEW t1, Gathered(t1, c, n1, b1, l)
    PROVE  t1 = t
<1>0. b1 \in Seq(S)
  BY LedType
<1>1. PICK w, d : /\ Waiting(w, n, l) /\ w \in Seq(S) /\ d \in Seq(S)
                  /\ Joined(d, c, w) /\ Joined(t, d, b)
  BY GatheredParts
<1>2. PICK w1, d1 : /\ Waiting(w1, n1, l) /\ w1 \in Seq(S) /\ d1 \in Seq(S)
                    /\ Joined(d1, c, w1) /\ Joined(t1, d1, b1)
  BY <1>0, GatheredParts
<1>3. /\ h.lane = l => Longer(w, w1, h)
      /\ h.lane # l => w = w1
  BY <1>1, <1>2, WaitingLed
<1>4. CASE h.lane = l
  <2>1. Longer(w, w1, h) /\ Led(b1, h, b)
    BY <1>3, <1>4
  <2>2. QED
    BY <1>1, <1>2, <2>1, JoinedThree
<1>5. CASE h.lane # l
  <2>1. w = w1 /\ b1 = b
    BY <1>3, <1>5
  <2>2. d = d1
    BY <1>1, <1>2, <2>1, JoinedUnique
  <2>3. QED
    BY <1>1, <1>2, <2>1, <2>2, JoinedUnique
<1>6. QED
  BY <1>4, <1>5

\* Outside fetch_more() what is gathered is the cache.
LEMMA GatheredCache ==
    ASSUME NEW S, NEW l, NEW c \in Seq(S), NEW n, IsEmpty(n), NEW b, IsEmpty(b),
           NEW t, Gathered(t, c, n, b, l)
    PROVE  t = c
<1>1. n \in Seq(S) /\ b \in Seq(S)
  BY EmptyFacts
<1>2. PICK w, d : /\ Waiting(w, n, l) /\ w \in Seq(S) /\ d \in Seq(S)
                  /\ Joined(d, c, w) /\ Joined(t, d, b)
  BY <1>1, GatheredParts
<1>3. IsEmpty(w)
  BY <1>2, WaitingEmpty
<1>4. d = c
  BY <1>2, <1>3, JoinedEmpty
<1>5. QED
  BY <1>2, <1>4, JoinedEmpty

\* The two appends of fetch_more() change nothing for a client.
LEMMA GatheredAppend ==
    ASSUME NEW S, NEW l, NEW c \in Seq(S), NEW n, IsEmpty(n), NEW b \in Seq(S),
           NEW t, Gathered(t, c, n, b, l), NEW c1, Joined(c1, c, b),
           NEW e, IsEmpty(e), NEW t1, Gathered(t1, c1, n, e, l)
    PROVE  t1 = t
<1>1. n \in Seq(S) /\ c1 \in Seq(S)
  BY EmptyFacts, JoinedType
<1>2. PICK w, d : /\ Waiting(w, n, l) /\ w \in Seq(S) /\ d \in Seq(S)
                  /\ Joined(d, c, w) /\ Joined(t, d, b)
  BY <1>1, GatheredParts
<1>3. IsEmpty(w)
  BY <1>2, WaitingEmpty
<1>4. d = c
  BY <1>2, <1>3, JoinedEmpty
<1>5. t1 = c1
  BY <1>1, GatheredCache
<1>6. QED
  BY <1>2, <1>4, <1>5, JoinedUnique

\* Taking the stack moves what waits there to what is gathered.
LEMMA GatheredFetch ==
    ASSUME NEW S, NEW l, NEW c \in Seq(S), NEW s \in Seq(S), NEW b, IsEmpty(b),
           NEW t, Gathered(t, c, s, b, l), NEW w, Waiting(w, s, l)
    PROVE  Joined(t, c, w)
<1>1. b \in Seq(S)
  BY EmptyFacts
<1>2. PICK v, d : /\ Waiting(v, s, l) /\ v \in Seq(S) /\ d \in Seq(S)
                  /\ Joined(d, c, v) /\ Joined(t, d, b)
  BY <1>1, GatheredParts
<1>3. v = w
  BY <1>2 DEF Waiting
<1>4. t = d
  BY <1>2, JoinedEmpty
<1>5. QED
  BY <1>2, <1>3, <1>4

-----------------------------------------------------------------------------
(* The refinement mapping, step by step *)

\* What waits on the stack for lane l.
Pending(l) == OfLane(Reverse(m_stack), l)

\* What the two parts of a lane are made of, before and after a step.
LEMMA LaneParts ==
    ASSUME NEW l \in Lanes
    PROVE  /\ Gathered(Taken(l), m_cache[l], node, batch[l], l)
           /\ Gathered(Taken(l)', m_cache'[l], node', batch'[l], l)
           /\ Waiting(Pending(l), m_stack, l)
           /\ Waiting(Pending(l)', m_stack', l)
BY DEF Gathered, Taken, Waiting, Pending

\* The lists and their messages.
LEMMA LaneFacts ==
    ASSUME TypeOK, NEW l \in Lanes
    PROVE  /\ Taken(l) \in Seq(Message) /\ Pending(l) \in Seq(Message)
           /\ ToSet(Taken(l)) = ToSet(m_cache[l]) \cup {x \in ToSet(node) : x.lane = l} \cup ToSet(batch[l])
           /\ ToSet(Pending(l)) = {x \in ToSet(m_stack) : x.lane = l}
<1>1. /\ m_stack \in Seq(Message) /\ node \in Seq(Message)
      /\ m_cache[l] \in Seq(Message) /\ batch[l] \in Seq(Message)
  BY DEF TypeOK, MailboxType
<1>2. Gathered(Taken(l), m_cache[l], node, batch[l], l)
  BY LaneParts
<1>3. /\ Taken(l) \in Seq(Message)
      /\ ToSet(Taken(l)) = ToSet(m_cache[l]) \cup {x \in ToSet(node) : x.lane = l} \cup ToSet(batch[l])
  <2>1. PICK c, n, b, t : c = m_cache[l] /\ n = node /\ b = batch[l] /\ t = Taken(l)
    OBVIOUS
  <2>2. c \in Seq(Message) /\ n \in Seq(Message) /\ b \in Seq(Message) /\ Gathered(t, c, n, b, l)
    BY <1>1, <1>2, <2>1
  <2>3. t \in Seq(Message) /\ ToSet(t) = ToSet(c) \cup {x \in ToSet(n) : x.lane = l} \cup ToSet(b)
    BY <2>2, GatheredFacts
  <2>4. QED
    BY <2>1, <2>3
<1>4. Waiting(Pending(l), m_stack, l)
  BY LaneParts
<1>5. Pending(l) \in Seq(Message) /\ ToSet(Pending(l)) = {x \in ToSet(m_stack) : x.lane = l}
  BY <1>1, <1>4, WaitingFacts, Zenon
<1>6. QED
  BY <1>3, <1>5

\* The same of the next state.
LEMMA LaneFactsNext ==
    ASSUME TypeOK', NEW l \in Lanes
    PROVE  Taken(l)' \in Seq(Message) /\ Pending(l)' \in Seq(Message)
<1>1. /\ m_stack' \in Seq(Message) /\ node' \in Seq(Message)
      /\ m_cache'[l] \in Seq(Message) /\ batch'[l] \in Seq(Message)
  BY DEF TypeOK, MailboxType
<1>2. QED
  BY <1>1, LaneParts, GatheredFacts, WaitingFacts

\* A lane as its clients see it: what is taken, without the message being
\* served, then what is on the stack.
LEMMA LaneView ==
    ASSUME NEW l \in Lanes
    PROVE  /\ ~(Serving /\ l = AbsServed) => Joined(AbsQueue[l], Taken(l), Pending(l))
           /\ Serving /\ l = AbsServed => Joined(AbsQueue[l], Tail(Taken(l)), Pending(l))
BY DEF AbsQueue, Joined, Pending

\* The same of the next state.
LEMMA LaneViewNext ==
    ASSUME NEW l \in Lanes
    PROVE  /\ ~(Serving' /\ l = AbsServed') => Joined(AbsQueue'[l], Taken(l)', Pending(l)')
           /\ Serving' /\ l = AbsServed' => Joined(AbsQueue'[l], Tail(Taken(l)'), Pending(l)')
BY DEF AbsQueue, Joined, Pending

\* The view is a function of the lanes.
LEMMA ViewDomain ==
    /\ AbsQueue = [l \in Lanes |-> AbsQueue[l]]
    /\ AbsQueue' = [l \in Lanes |-> AbsQueue'[l]]
    /\ AbsServed \in Lanes /\ AbsServed' \in Lanes
BY DEF AbsQueue, AbsServed, Lanes

\* A step that changes neither part of a lane, and neither starts nor ends a
\* pop, is invisible to the clients of the queue.
LEMMA ViewSame ==
    ASSUME \A l \in Lanes : Taken(l)' = Taken(l) /\ Pending(l)' = Pending(l),
           Serving' <=> Serving, delivered' = delivered
    PROVE  AbsQueue' = AbsQueue /\ AbsGot' = AbsGot
<1>1. AbsServed' = AbsServed
  BY DEF AbsServed, Lanes
<1>2. ASSUME NEW l \in Lanes PROVE AbsQueue'[l] = AbsQueue[l]
  BY <1>1, <1>2, LaneView, LaneViewNext DEF Joined
<1>3. AbsQueue' = AbsQueue
  BY <1>2, ViewDomain
<1>4. AbsGot' = AbsGot
  BY <1>1 DEF AbsGot, AbsServed, Lanes
<1>5. QED
  BY <1>3, <1>4

\* A pop() that has decided to serve a message has one.
LEMMA ServedNonEmpty ==
    ASSUME IInv, Serving
    PROVE  ~IsEmpty(Taken(AbsServed))
<1>1. "call" \in Lanes /\ "other" \in Lanes /\ \A l \in Lanes : l = "call" \/ l = "other"
  BY DEF Lanes
<1>2. \E l \in Lanes : ToSet(Taken(l)) # {}
  <2>1. CASE owner = "deliver"
    <3>1. ServedLane \in Lanes /\ ~IsEmpty(m_cache[ServedLane])
      BY <2>1 DEF IInv, PopShape, IsEmpty, ServedLane, Lanes
    <3>2. m_cache[ServedLane] \in Seq(Message)
      BY <3>1 DEF IInv, TypeOK, MailboxType
    <3>3. ToSet(m_cache[ServedLane]) # {}
      BY <3>1, <3>2, NonEmptyFacts
    <3>4. QED
      BY <3>1, <3>3, LaneFacts DEF IInv
  <2>2. CASE owner = "split" /\ node = <<>>
    <3>1. PICK l \in Lanes : ~IsEmpty(batch[l])
      BY <2>2 DEF IInv, PopShape, IsEmpty
    <3>2. batch[l] \in Seq(Message)
      BY <3>1 DEF IInv, TypeOK, MailboxType
    <3>3. ToSet(batch[l]) # {}
      BY <3>1, <3>2, NonEmptyFacts
    <3>4. QED
      BY <3>3, LaneFacts DEF IInv
  <2>3. CASE node # <<>>
    <3>1. ~IsEmpty(node) /\ node \in Seq(Message)
      BY <2>3 DEF IsEmpty, IInv, TypeOK, MailboxType
    <3>2. ToSet(node) # {} /\ ToSet(node) \subseteq Message
      BY <3>1, NonEmptyFacts DEF ToSet
    <3>3. PICK x \in ToSet(node) : x.lane \in Lanes
      BY <3>2 DEF Message
    <3>4. x \in ToSet(Taken(x.lane))
      BY <3>3, LaneFacts DEF IInv
    <3>5. QED
      BY <3>3, <3>4
  <2>4. QED
    BY <2>1, <2>2, <2>3 DEF Serving
<1>3. \E l \in Lanes : ~IsEmpty(Taken(l))
  BY <1>2, EmptyFacts
<1>4. QED
  BY <1>1, <1>3 DEF AbsServed, IsEmpty

\* The step with which pop() decides what to serve takes the oldest message of
\* that lane off the queue, and no call is then queued if it is no call.
LEMMA PopView ==
    ASSUME IInv, IInv', ~Serving, Serving', delivered' = delivered,
           \A l \in Lanes : \E t \in Seq(Message) : /\ Joined(t, Taken(l), Pending(l))
                                                   /\ Joined(t, Taken(l)', Pending(l)'),
           AbsServed' # "call" => IsEmpty(Taken("call")') /\ IsEmpty(Pending("call")'),
           ~IsEmpty(Taken(AbsServed)')
    PROVE  \E l \in Lanes : /\ AbsQueue[l] # <<>>
                            /\ l # "call" => AbsQueue["call"] = <<>>
                            /\ AbsGot' = Append(AbsGot, Head(AbsQueue[l]))
                            /\ AbsQueue' = [AbsQueue EXCEPT ![l] = Tail(@)]
<1>0. TypeOK'
  BY DEF IInv
<1>1. PICK k \in Lanes : k = AbsServed'
  BY ViewDomain
<1>2. ~IsEmpty(Taken(k)') /\ Taken(k)' \in Seq(Message) /\ Pending(k)' \in Seq(Message)
  <2>1. ~IsEmpty(Taken(k)')
    BY <1>1 DEF AbsServed, Lanes
  <2>2. QED
    BY <1>0, <2>1, LaneFactsNext
<1>3. ASSUME NEW l \in Lanes PROVE Joined(AbsQueue[l], Taken(l)', Pending(l)')
  <2>1. PICK t \in Seq(Message) : Joined(t, Taken(l), Pending(l)) /\ Joined(t, Taken(l)', Pending(l)')
    OBVIOUS
  <2>2. Joined(AbsQueue[l], Taken(l), Pending(l))
    BY LaneView
  <2>3. AbsQueue[l] = t
    BY <2>1, <2>2, JoinedUnique
  <2>4. QED
    BY <2>1, <2>3
<1>4. ASSUME NEW l \in Lanes, l # k PROVE AbsQueue'[l] = AbsQueue[l]
  BY <1>1, <1>3, <1>4, LaneViewNext, JoinedUnique
<1>5. Joined(AbsQueue'[k], Tail(Taken(k)'), Pending(k)')
  BY <1>1, LaneViewNext
<1>6. /\ AbsQueue[k] # <<>> /\ Head(AbsQueue[k]) = Head(Taken(k)')
      /\ AbsQueue'[k] = Tail(AbsQueue[k])
  <2>1. ASSUME NEW t \in Seq(Message), NEW w \in Seq(Message), NEW q, NEW r, ~IsEmpty(t),
               Joined(q, t, w), Joined(r, Tail(t), w)
        PROVE  q # <<>> /\ Head(q) = Head(t) /\ r = Tail(q)
    BY <2>1 DEF IsEmpty, Joined
  <2>2. QED
    BY <1>2, <1>3, <1>5, <2>1
<1>7. AbsGot' = Append(AbsGot, Head(AbsQueue[k]))
  <2>1. AbsGot' = Append(delivered, Head(Taken(k)'))
    BY <1>1 DEF AbsGot, AbsServed, Lanes
  <2>2. AbsGot = delivered
    BY DEF AbsGot
  <2>3. QED
    BY <1>6, <2>1, <2>2
<1>8. AbsQueue' = [AbsQueue EXCEPT ![k] = Tail(@)]
  BY <1>4, <1>6, ViewDomain
<1>9. k # "call" => AbsQueue["call"] = <<>>
  <2> SUFFICES ASSUME k # "call" PROVE AbsQueue["call"] = <<>>
    OBVIOUS
  <2>1. "call" \in Lanes
    BY DEF Lanes
  <2>2. IsEmpty(Taken("call")') /\ IsEmpty(Pending("call")') /\ Joined(AbsQueue["call"], Taken("call")', Pending("call")')
    BY <1>1, <1>3, <2>1
  <2>3. \A a, b, q : IsEmpty(a) /\ IsEmpty(b) /\ Joined(q, a, b) => q = <<>>
    BY DEF IsEmpty, Joined
  <2>4. QED
    BY <2>2, <2>3
<1>10. QED
  BY <1>6, <1>7, <1>8, <1>9

\* What a step that leaves every list alone does to the view: nothing, unless it
\* starts a pop().
LEMMA QuietView ==
    ASSUME UNCHANGED <<m_stack, m_cache, node, batch, delivered>>, Serving' <=> Serving
    PROVE  AbsQueue' = AbsQueue /\ AbsGot' = AbsGot
<1>1. \A l \in Lanes : Taken(l)' = Taken(l) /\ Pending(l)' = Pending(l)
  BY DEF Taken, Pending
<1>2. QED
  BY <1>1, ViewSame

\* Every message a client can see in the queue has landed.
LEMMA ViewLanded ==
    ASSUME IInv, Books
    PROVE  /\ \A l \in Lanes : ToSet(AbsQueue[l]) \subseteq ToSet(landed)
           /\ ToSet(AbsGot) \subseteq ToSet(landed)
           /\ dropped \cup ToSet(drain) \subseteq ToSet(landed)
<1>0. "call" \in Lanes /\ "other" \in Lanes /\ \A l \in Lanes : l = "call" \/ l = "other"
  BY DEF Lanes
<1>1. /\ Inside \subseteq ToSet(landed) /\ ToSet(delivered) \subseteq ToSet(landed)
      /\ dropped \cup ToSet(drain) \subseteq ToSet(landed)
  BY DEF Books, Tracked, TrackedSet, Inside
<1>2. ASSUME NEW l \in Lanes
      PROVE  ToSet(Taken(l)) \subseteq Inside /\ ToSet(Pending(l)) \subseteq Inside
  BY <1>0, LaneFacts DEF IInv, Inside
<1>3. ASSUME NEW l \in Lanes
      PROVE  ToSet(AbsQueue[l]) \subseteq ToSet(landed)
  <2>1. Taken(l) \in Seq(Message) /\ Pending(l) \in Seq(Message)
    BY LaneFacts DEF IInv
  <2>2. CASE ~(Serving /\ l = AbsServed)
    <3>1. ToSet(AbsQueue[l]) = ToSet(Taken(l)) \cup ToSet(Pending(l))
      BY <2>1, <2>2, LaneView, JoinedSet
    <3>2. QED
      BY <1>1, <1>2, <3>1
  <2>3. CASE Serving /\ l = AbsServed
    <3>1. ~IsEmpty(Taken(l))
      BY <2>3, ServedNonEmpty
    <3>2. PICK h, r : h = Head(Taken(l)) /\ r = Tail(Taken(l))
      OBVIOUS
    <3>3. h \in Message /\ r \in Seq(Message) /\ Led(Taken(l), h, r)
      BY <2>1, <3>1, <3>2, LedHeadTail, Zenon
    <3>4. Joined(AbsQueue[l], r, Pending(l))
      BY <2>3, <3>2, LaneView, Zenon
    <3>5. ToSet(AbsQueue[l]) = ToSet(r) \cup ToSet(Pending(l)) /\ ToSet(Taken(l)) = {h} \cup ToSet(r)
      BY <2>1, <3>3, <3>4, JoinedSet, LedSet
    <3>6. QED
      BY <1>1, <1>2, <3>5
  <2>4. QED
    BY <2>2, <2>3
<1>4. ToSet(AbsGot) \subseteq ToSet(landed)
  <2>1. CASE ~Serving
    BY <1>1, <2>1 DEF AbsGot
  <2>2. CASE Serving
    <3>1. PICK k \in Lanes : k = AbsServed
      BY ViewDomain
    <3>2. ~IsEmpty(Taken(k)) /\ Taken(k) \in Seq(Message)
      BY <2>2, <3>1, ServedNonEmpty, LaneFacts DEF IInv
    <3>3. PICK h, r : h = Head(Taken(k)) /\ r = Tail(Taken(k))
      OBVIOUS
    <3>4. h \in Message /\ r \in Seq(Message) /\ Led(Taken(k), h, r)
      BY <3>2, <3>3, LedHeadTail, Zenon
    <3>5. h \in ToSet(Taken(k))
      BY <3>4, LedSet
    <3>6. Longer(AbsGot, delivered, h)
      BY <2>2, <3>1, <3>3, Zenon DEF AbsGot, Longer
    <3>7. ToSet(AbsGot) = ToSet(delivered) \cup {h}
      BY <3>6, ToSetLonger DEF IInv, TypeOK, HistoryType
    <3>8. QED
      BY <1>1, <1>2, <3>5, <3>7
  <2>3. QED
    BY <2>1, <2>2
<1>5. QED
  BY <1>1, <1>3, <1>4

\* MailboxAbs has its own copy of ToSet.
LEMMA AbsToSet == \A s : Abs!ToSet(s) = ToSet(s)
BY DEF Abs!ToSet, ToSet

\* So the message a producer is pushing is new to the mailbox.
LEMMA NewToClients ==
    ASSUME IInv, Books, NEW p \in Producers, pc[p] = "cas"
    PROVE  msg[p] \notin Abs!Contents \cup ToSet(AbsGot) \cup (rejected \cup dropped \cup ToSet(drain))
<1>1. msg[p] \notin ToSet(landed) /\ msg[p] \notin rejected
  BY PushingIsFresh DEF Books
<1>2. \A l \in Lanes : msg[p] \notin ToSet(AbsQueue[l])
  BY <1>1, ViewLanded
<1>3. msg[p] \notin Abs!Contents
  BY <1>2, AbsToSet DEF Abs!Contents
<1>4. QED
  BY <1>1, <1>3, ViewLanded

\* A successful CAS queues the message and, if it replaced blocked_tag(), grants
\* the turn.
LEMMA CasRefines ==
    ASSUME IInv, Books, NEW p \in Producers, PushCas(p)
    PROVE  Abs!APush(msg[p])
<1>0. "call" \in Lanes /\ "other" \in Lanes /\ \A l \in Lanes : l = "call" \/ l = "other"
  BY DEF Lanes
<1>1. PICK m \in Message : m = msg[p] /\ m.lane \in Lanes
  BY CasEffect
<1>2. ASSUME NEW l \in Lanes
      PROVE  /\ Taken(l)' = Taken(l)
             /\ m.lane = l => Longer(Pending(l)', Pending(l), m)
             /\ m.lane # l => Pending(l)' = Pending(l)
  <2>1. Taken(l)' = Taken(l)
    BY CasEffect DEF Taken
  <2>2. Led(m_stack', m, m_stack) /\ m_stack \in Seq(Message)
    BY <1>1, CasEffect DEF IInv, TypeOK, MailboxType
  <2>3. QED
    BY <2>1, <2>2, LaneParts, WaitingLed
<1>3. /\ Serving' <=> Serving
      /\ AbsServed' = AbsServed
      /\ delivered' = delivered
  BY <1>0, <1>2, CasEffect DEF Serving, AbsServed
<1>4. ASSUME NEW l \in Lanes
      PROVE  /\ m.lane = l => AbsQueue'[l] = Append(AbsQueue[l], m)
             /\ m.lane # l => AbsQueue'[l] = AbsQueue[l]
  <2>0. PICK k : k = IF Serving /\ l = AbsServed THEN Tail(Taken(l)) ELSE Taken(l)
    OBVIOUS
  <2>1. k \in Seq(Message)
    <3>1. Taken(l) \in Seq(Message)
      BY LaneFacts DEF IInv
    <3>2. CASE Serving /\ l = AbsServed
      <4>1. ~IsEmpty(Taken(l))
        BY <3>2, ServedNonEmpty
      <4>2. Tail(Taken(l)) \in Seq(Message)
        BY <3>1, <4>1, LedHeadTail, Zenon
      <4>3. QED
        BY <2>0, <3>2, <4>2, Zenon
    <3>3. QED
      BY <2>0, <3>1, <3>2
  <2>2. Joined(AbsQueue[l], k, Pending(l)) /\ Joined(AbsQueue'[l], k, Pending(l)')
    BY <1>2, <1>3, <2>0, LaneView, LaneViewNext
  <2>3. Pending(l) \in Seq(Message)
    BY LaneFacts DEF IInv
  <2>4. \A c, d \in Seq(Message) : \A d1, q, q1 :
           Longer(d1, d, m) /\ Joined(q, c, d) /\ Joined(q1, c, d1) => q1 = Append(q, m)
    BY DEF Longer, Joined
  <2>5. QED
    BY <1>2, <2>1, <2>2, <2>3, <2>4, JoinedUnique
<1>5. AbsQueue' = [AbsQueue EXCEPT ![m.lane] = Append(@, m)]
  BY <1>1, <1>4, ViewDomain
<1>6. AbsGot' = AbsGot
  BY <1>0, <1>2, <1>3 DEF AbsGot, AbsServed
<1>7. AbsTurn' = IF AbsTurn = "idle" THEN "granted" ELSE AbsTurn
  BY CasEffect DEF AbsTurn, IInv, OneTurn, Resting
<1>8. UNCHANGED <<rejected, dropped, drain>> /\ m_tag # "closed" /\ m_tag' # "closed"
  BY CasEffect
<1>9. m \notin Abs!Contents \cup ToSet(AbsGot) \cup (rejected \cup dropped \cup ToSet(drain))
  BY <1>1, NewToClients, CasEffect
<1>10. QED
  BY <1>1, <1>5, <1>6, <1>7, <1>8, <1>9, AbsToSet DEF Abs!APush

\* A push that gives its message back is a rejection.
LEMMA ClosedRefines ==
    ASSUME IInv, Books, NEW p \in Producers, PushClosed(p)
    PROVE  Abs!AReject(msg[p])
<1>1. /\ pc[p] = "cas" /\ head[p] = ClosedWord /\ rejected' = rejected \cup {msg[p]}
      /\ UNCHANGED <<m_tag, m_stack, m_cache, node, batch, owner, drain, delivered, dropped>>
  BY DEF PushClosed, GiveBack, split
<1>2. m_tag = "closed"
  BY <1>1 DEF Books, PushShape
<1>3. AbsQueue' = AbsQueue /\ AbsGot' = AbsGot
  BY <1>1, QuietView DEF Serving
<1>4. AbsTurn' = AbsTurn
  BY <1>1 DEF AbsTurn, Resting
<1>5. msg[p] \notin Abs!Contents \cup ToSet(AbsGot) \cup (rejected \cup dropped \cup ToSet(drain))
  BY <1>1, NewToClients
<1>6. QED
  BY <1>1, <1>2, <1>3, <1>4, <1>5, AbsToSet DEF Abs!AReject

\* A call that is on the stack is counted.
LEMMA NoCallWaits ==
    ASSUME IInv, Books, m_count["call"] <= 0
    PROVE  IsEmpty(Pending("call"))
<1>1. /\ m_stack \in Seq(Message) /\ node \in Seq(Message) /\ drain \in Seq(Message)
      /\ m_cache["call"] \in Seq(Message) /\ batch["call"] \in Seq(Message) /\ "call" \in Lanes
  BY DEF IInv, TypeOK, MailboxType, OwnerType, Lanes
<1>2. /\ Size(m_cache["call"]) \in Nat /\ Size(batch["call"]) \in Nat
      /\ LaneSize(node, "call") \in Nat /\ LaneSize(m_stack, "call") \in Nat /\ LaneSize(drain, "call") \in Nat
      /\ Cardinality(PushingOn(pc, msg, "call")) \in Nat
  BY <1>1, SizeType, LaneSizeNat, PushingFacts
<1>3. m_count["call"] = LaneTotal(m_cache, node, batch, m_stack, drain, pc, msg, "call")
  BY <1>1, CountExactIs DEF Books
<1>4. LaneSize(m_stack, "call") = 0
  <2>1. m_count["call"] = Size(m_cache["call"]) + LaneSize(node, "call") + Size(batch["call"])
                          + LaneSize(m_stack, "call") + LaneSize(drain, "call")
                          + Cardinality(PushingOn(pc, msg, "call"))
    BY <1>3 DEF LaneTotal
  <2>2. PICK a, b, c, d, e, f \in Nat :
             /\ a = Size(m_cache["call"]) /\ b = LaneSize(node, "call") /\ c = Size(batch["call"])
             /\ d = LaneSize(m_stack, "call") /\ e = LaneSize(drain, "call")
             /\ f = Cardinality(PushingOn(pc, msg, "call"))
    BY <1>2
  <2>3. a + b + c + d + e + f <= 0
    BY <2>1, <2>2
  <2>4. d = 0
    BY <2>3
  <2>5. QED
    BY <2>2, <2>4
<1>5. PICK w : w = OfLane(m_stack, "call")
  OBVIOUS
<1>6. w \in Seq(Message) /\ Len(w) = 0
  BY <1>1, <1>4, <1>5, OfLaneType DEF LaneSize
<1>7. IsEmpty(w)
  BY <1>6, EmptySeq DEF IsEmpty
<1>8. ToSet(w) = {} /\ ToSet(w) = {x \in ToSet(m_stack) : x.lane = "call"}
  BY <1>1, <1>5, <1>7, EmptyFacts, OfLaneSet
<1>9. Pending("call") \in Seq(Message) /\ ToSet(Pending("call")) = {}
  BY <1>1, <1>8, LaneFacts DEF IInv
<1>10. QED
  BY <1>9, NonEmptyFacts

\* The steps with which pop() decides what it will return.
LEMMA PopRefines ==
    ASSUME IInv, IInv', Books, ~Serving, Serving', PopCheck \/ PopFetch \/ PopRefetch
    PROVE  \E l \in Lanes : Abs!APop(l)
<1>0. "call" \in Lanes /\ "other" \in Lanes /\ \A l \in Lanes : l = "call" \/ l = "other"
  BY DEF Lanes
<1>1. /\ UNCHANGED <<m_cache, batch, drain, hist>>
      /\ owner \in {"pop", "fetch", "refetch"} /\ owner' \in {"split", "deliver"}
      /\ m_tag # "closed" /\ m_tag # "blocked" /\ m_tag' # "closed" /\ m_tag' # "blocked"
  BY DEF PopCheck, PopFetch, PopRefetch, TakeStack, IInv, WordShape, OneTurn, Resting, Serving, shared, split
<1>2. ASSUME NEW l \in Lanes
      PROVE  /\ m_cache[l] \in Seq(Message) /\ m_stack \in Seq(Message)
             /\ IsEmpty(node) /\ IsEmpty(batch[l]) /\ Taken(l) = m_cache[l]
  <2>1. m_cache[l] \in Seq(Message) /\ m_stack \in Seq(Message)
    BY DEF IInv, TypeOK, MailboxType
  <2>2. IsEmpty(node) /\ IsEmpty(batch[l])
    BY <1>1 DEF Books, LaneShape, IInv, PopShape, IsEmpty
  <2>3. QED
    BY <2>1, <2>2, LaneParts, GatheredCache
<1>3. ASSUME NEW l \in Lanes, UNCHANGED <<m_stack, node>>
      PROVE  Taken(l)' = Taken(l) /\ Pending(l)' = Pending(l)
  BY <1>1, <1>3 DEF Taken, Pending
<1>4. ASSUME NEW l \in Lanes, node' = m_stack, IsEmpty(m_stack')
      PROVE  IsEmpty(Pending(l)') /\ Joined(Taken(l)', m_cache[l], Pending(l))
  <2>1. IsEmpty(Pending(l)')
    BY <1>4, LaneParts, WaitingEmpty
  <2>2. Gathered(Taken(l)', m_cache[l], m_stack, batch[l], l)
    BY <1>1, <1>4, LaneParts
  <2>3. Joined(Taken(l)', m_cache[l], Pending(l))
    BY <1>2, <2>2, LaneParts, GatheredFetch
  <2>4. QED
    BY <2>1, <2>3
<1>5. UNCHANGED <<m_stack, node>> \/ (node' = m_stack /\ IsEmpty(m_stack'))
  BY DEF PopCheck, PopFetch, PopRefetch, TakeStack, IsEmpty, shared, split
<1>6. ASSUME NEW l \in Lanes
      PROVE  \E t \in Seq(Message) : /\ Joined(t, Taken(l), Pending(l))
                                     /\ Joined(t, Taken(l)', Pending(l)')
  <2>0. Taken(l) \in Seq(Message) /\ Pending(l) \in Seq(Message)
    BY LaneFacts DEF IInv
  <2>1. PICK t \in Seq(Message) : Joined(t, Taken(l), Pending(l))
    <3>1. PICK t : t = Taken(l) \o Pending(l)
      OBVIOUS
    <3>2. QED
      BY <2>0, <3>1, JoinedType DEF Joined
  <2>2. CASE UNCHANGED <<m_stack, node>>
    <3>1. Taken(l)' = Taken(l) /\ Pending(l)' = Pending(l)
      BY <1>3, <2>2
    <3>2. QED
      BY <2>1, <3>1
  <2>3. CASE node' = m_stack /\ IsEmpty(m_stack')
    <3>1. IsEmpty(Pending(l)') /\ Taken(l)' = t
      BY <1>2, <1>4, <2>1, <2>3, JoinedUnique
    <3>2. \A e : IsEmpty(e) => Joined(t, t, e)
      BY DEF IsEmpty, Joined
    <3>3. QED
      BY <2>1, <3>1, <3>2
  <2>4. QED
    BY <1>5, <2>2, <2>3
<1>7. ~IsEmpty(Taken(AbsServed)')
  <2>1. (IInv /\ Serving => ~IsEmpty(Taken(AbsServed)))'
    BY ServedNonEmpty, PTL
  <2>2. QED
    BY <2>1
<1>8. AbsServed' # "call" => IsEmpty(Taken("call")') /\ IsEmpty(Pending("call")')
  <2> SUFFICES ASSUME AbsServed' # "call"
               PROVE  IsEmpty(Taken("call")') /\ IsEmpty(Pending("call")')
    OBVIOUS
  <2>1. IsEmpty(Taken("call")')
    BY DEF AbsServed, IsEmpty
  <2>2. CASE UNCHANGED <<m_stack, node>>
    <3>1. IsEmpty(m_cache["call"])
      BY <1>0, <1>2, <1>3, <2>1, <2>2
    <3>2. CASE PopCheck
      <4>1. ~(m_count["call"] > 0)
        BY <1>1, <3>1, <3>2 DEF PopCheck, IsEmpty
      <4>2. m_count["call"] <= 0
        BY <1>0, <4>1 DEF IInv, TypeOK, MailboxType
      <4>3. QED
        BY <1>0, <1>3, <2>1, <2>2, <4>2, NoCallWaits
    <3>3. CASE PopFetch \/ PopRefetch
      <4>1. IsEmpty(m_stack')
        BY <3>3 DEF PopFetch, PopRefetch, TakeStack, IsEmpty
      <4>2. QED
        BY <1>0, <2>1, <4>1, LaneParts, WaitingEmpty
    <3>4. QED
      BY <3>2, <3>3
  <2>3. CASE node' = m_stack /\ IsEmpty(m_stack')
    BY <1>0, <1>4, <2>1, <2>3
  <2>4. QED
    BY <1>5, <2>2, <2>3
<1>9. PICK l \in Lanes : /\ AbsQueue[l] # <<>>
                         /\ l # "call" => AbsQueue["call"] = <<>>
                         /\ AbsGot' = Append(AbsGot, Head(AbsQueue[l]))
                         /\ AbsQueue' = [AbsQueue EXCEPT ![l] = Tail(@)]
  BY <1>1, <1>6, <1>7, <1>8, PopView DEF hist
<1>10. AbsTurn = "active" /\ AbsTurn' = "active"
  BY <1>1 DEF AbsTurn, Resting
<1>11. UNCHANGED <<rejected, dropped, drain>>
  BY <1>1 DEF hist
<1>12. QED
  BY <1>1, <1>9, <1>10, <1>11 DEF Abs!APop

\* A pop() that serves what is cached ends as it was announced.
LEMMA DeliverView ==
    ASSUME IInv, Books, PopDeliver
    PROVE  AbsQueue' = AbsQueue /\ AbsGot' = AbsGot
<1>0. "call" \in Lanes /\ "other" \in Lanes
  BY DEF Lanes
<1>1. Serving /\ ~Serving' /\ owner = "deliver" /\ UNCHANGED <<m_stack, node, batch>>
  BY ServeEffect DEF Serving
<1>2. ASSUME NEW l \in Lanes
      PROVE  /\ m_cache[l] \in Seq(Message) /\ IsEmpty(node) /\ IsEmpty(batch[l])
             /\ Taken(l) = m_cache[l]
  <2>1. m_cache[l] \in Seq(Message)
    BY DEF IInv, TypeOK, MailboxType
  <2>2. IsEmpty(node) /\ IsEmpty(batch[l])
    BY <1>1 DEF Books, LaneShape, IInv, PopShape, IsEmpty
  <2>3. QED
    BY <2>1, <2>2, LaneParts, GatheredCache
<1>3. PICK k \in Lanes : k = ServedLane /\ k = AbsServed
  <2>1. ServedLane = AbsServed
    BY <1>0, <1>2 DEF ServedLane, AbsServed
  <2>2. QED
    BY <2>1, ViewDomain
<1>4. /\ m_cache'[k] = Tail(m_cache[k]) /\ delivered' = Append(delivered, Head(m_cache[k]))
      /\ \A l \in Lanes : l # k => m_cache'[l] = m_cache[l]
  BY <1>3 DEF PopDeliver, Serve, IInv, TypeOK, MailboxType
<1>5. ASSUME NEW l \in Lanes
      PROVE  Taken(l)' = m_cache'[l]
  <2>1. m_cache'[l] \in Seq(Message)
    <3>1. CASE l = k
      BY <1>3, <3>1, ServeEffect
    <3>2. CASE l # k
      BY <1>2, <1>4, <3>2
    <3>3. QED
      BY <3>1, <3>2
  <2>2. IsEmpty(node') /\ IsEmpty(batch'[l])
    BY <1>1, <1>2
  <2>3. QED
    BY <2>1, <2>2, LaneParts, GatheredCache
<1>6. ASSUME NEW l \in Lanes PROVE AbsQueue'[l] = AbsQueue[l]
  <2>0. Pending(l)' = Pending(l)
    BY <1>1 DEF Pending
  <2>1. Joined(AbsQueue'[l], m_cache'[l], Pending(l))
    BY <1>1, <1>5, <2>0, LaneViewNext
  <2>2. CASE l = k
    <3>1. Joined(AbsQueue[k], Tail(Taken(k)), Pending(k)) /\ Taken(k) = m_cache[k]
      BY <1>1, <1>2, <1>3, LaneView
    <3>2. Joined(AbsQueue[k], m_cache'[k], Pending(k))
      BY <1>4, <3>1, Zenon
    <3>3. QED
      BY <2>1, <2>2, <3>2, JoinedUnique
  <2>3. CASE l # k
    <3>1. Joined(AbsQueue[l], m_cache'[l], Pending(l))
      BY <1>2, <1>3, <1>4, <2>3, LaneView
    <3>2. QED
      BY <2>1, <3>1, JoinedUnique
  <2>4. QED
    BY <2>2, <2>3
<1>7. AbsQueue' = AbsQueue
  BY <1>6, ViewDomain
<1>8. AbsGot' = delivered' /\ AbsGot = Append(delivered, Head(Taken(k)))
  BY <1>1, <1>3, Zenon DEF AbsGot
<1>9. AbsGot' = AbsGot
  BY <1>2, <1>4, <1>8, Zenon
<1>10. QED
  BY <1>7, <1>9

\* The loop of fetch_more() moves messages inside what the owner has taken.
LEMMA SplitView ==
    ASSUME IInv, Books, SplitNode \/ SplitAppend
    PROVE  AbsQueue' = AbsQueue /\ AbsGot' = AbsGot
<1>0. \A l \in Lanes : m_cache[l] \in Seq(Message) /\ batch[l] \in Seq(Message) /\ node \in Seq(Message)
  BY DEF IInv, TypeOK, MailboxType
<1>1. CASE SplitNode
  <2>1. PICK h : h = Head(node)
    OBVIOUS
  <2>2. /\ h \in Message /\ Led(node, h, node') /\ node' \in Seq(Message)
        /\ Led(batch'[h.lane], h, batch[h.lane])
        /\ \A l \in Lanes : l # h.lane => batch'[l] = batch[l]
        /\ UNCHANGED <<m_stack, m_cache, hist, owner>>
    BY <1>1, <2>1, SplitEffect
  <2>3. ASSUME NEW l \in Lanes PROVE Taken(l)' = Taken(l) /\ Pending(l)' = Pending(l)
    <3>1. /\ h.lane = l => Led(batch'[l], h, batch[l])
          /\ h.lane # l => batch'[l] = batch[l]
      BY <2>2
    <3>2. Gathered(Taken(l)', m_cache[l], node', batch'[l], l)
      BY <2>2, LaneParts
    <3>3. Gathered(Taken(l), m_cache[l], node, batch[l], l)
      BY LaneParts
    <3>4. Taken(l)' = Taken(l)
      BY <1>0, <2>2, <3>1, <3>2, <3>3, GatheredSplit
    <3>5. QED
      BY <2>2, <3>4 DEF Pending
  <2>4. QED
    BY <2>2, <2>3, ViewSame DEF Serving, hist
<1>2. CASE SplitAppend
  <2>1. /\ IsEmpty(node) /\ node' = node
        /\ \A l \in Lanes : Joined(m_cache'[l], m_cache[l], batch[l]) /\ IsEmpty(batch'[l])
        /\ UNCHANGED <<m_stack, hist>> /\ owner = "split" /\ owner' = "deliver"
    BY <1>2, AppendEffect
  <2>2. ASSUME NEW l \in Lanes PROVE Taken(l)' = Taken(l) /\ Pending(l)' = Pending(l)
    <3>1. Gathered(Taken(l)', m_cache'[l], node, batch'[l], l)
      BY <2>1, LaneParts
    <3>2. Gathered(Taken(l), m_cache[l], node, batch[l], l)
      BY LaneParts
    <3>3. Taken(l)' = Taken(l)
      BY <1>0, <2>1, <3>1, <3>2, GatheredAppend
    <3>4. QED
      BY <2>1, <3>3 DEF Pending
  <2>3. QED
    BY <2>1, <2>2, ViewSame DEF Serving, hist
<1>3. QED
  BY <1>1, <1>2

\* A fetch_more() that finds an empty stack is invisible.
LEMMA NothingFetched ==
    ASSUME IInv, Books, PopFetch \/ PopRefetch, ~Serving'
    PROVE  AbsQueue' = AbsQueue /\ AbsGot' = AbsGot
<1>1. /\ IsEmpty(m_stack) /\ ~Serving /\ UNCHANGED <<m_cache, batch, delivered>>
      /\ m_stack' = m_stack /\ node' = node
  BY DEF PopFetch, PopRefetch, TakeStack, Serving, IsEmpty, hist, IInv, PopShape
<1>2. QED
  BY <1>1, QuietView

\* An empty mailbox shows empty lanes.
LEMMA EmptyView ==
    ASSUME NEW l \in Lanes, ~Serving, IsEmpty(m_stack), IsEmpty(node),
           IsEmpty(m_cache[l]), IsEmpty(batch[l])
    PROVE  AbsQueue[l] = <<>>
<1>1. m_cache[l] \in Seq(Message)
  BY EmptyFacts
<1>2. Taken(l) = m_cache[l] /\ IsEmpty(Pending(l))
  BY <1>1, LaneParts, GatheredCache, WaitingEmpty
<1>3. \A a, b, q : IsEmpty(a) /\ IsEmpty(b) /\ Joined(q, a, b) => q = <<>>
  BY DEF IsEmpty, Joined
<1>4. Joined(AbsQueue[l], Taken(l), Pending(l))
  BY LaneView
<1>5. QED
  BY <1>2, <1>3, <1>4

\* The owner blocks only an empty mailbox.
LEMMA BlockRefines ==
    ASSUME IInv, Books, TryBlock, m_tag' # m_tag
    PROVE  Abs!ABlock
<1>1. /\ m_cache = [l \in Lanes |-> <<>>] /\ m_tag = "open" /\ m_tag' = "blocked"
      /\ IsEmpty(m_stack) /\ owner = "block" /\ owner' = "blocked"
      /\ UNCHANGED <<m_stack, m_cache, node, batch, drain, hist>>
  BY DEF TryBlock, Word, EmptyWord, IsEmpty, split
<1>2. ASSUME NEW l \in Lanes PROVE AbsQueue[l] = <<>>
  <2>1. IsEmpty(node) /\ IsEmpty(batch[l]) /\ IsEmpty(m_cache[l])
    BY <1>1 DEF Books, LaneShape, IInv, PopShape, IsEmpty
  <2>2. QED
    BY <1>1, <2>1, EmptyView DEF Serving
<1>3. AbsQueue = Abs!Empty
  BY <1>2, ViewDomain DEF Abs!Empty
<1>4. AbsQueue' = AbsQueue /\ AbsGot' = AbsGot
  BY <1>1, QuietView DEF Serving, hist
<1>5. AbsTurn = "active" /\ AbsTurn' = "idle"
  BY <1>1 DEF AbsTurn, Resting
<1>6. QED
  BY <1>1, <1>3, <1>4, <1>5 DEF Abs!ABlock, hist

\* close() drops whatever is queued.
LEMMA CloseRefines ==
    ASSUME IInv, Books, Close
    PROVE  Abs!AClose
<1>0. "call" \in Lanes /\ "other" \in Lanes /\ \A l \in Lanes : l = "call" \/ l = "other"
  BY DEF Lanes
<1>1. /\ IsEmpty(drain) /\ IsEmpty(node) /\ IsEmpty(m_stack')
      /\ \A l \in Lanes : IsEmpty(batch[l]) /\ IsEmpty(m_cache'[l])
      /\ m_tag # "closed" /\ m_tag' = "closed" /\ owner = "loop" /\ owner' = "drain"
      /\ UNCHANGED <<node, batch, hist>>
  BY CloseEffect DEF Books
<1>2. ~Serving /\ ~Serving'
  BY <1>1 DEF Serving
<1>3. ASSUME NEW l \in Lanes PROVE AbsQueue'[l] = <<>>
  <2>1. (/\ ~Serving /\ IsEmpty(m_stack) /\ IsEmpty(node)
         /\ IsEmpty(m_cache[l]) /\ IsEmpty(batch[l])
         => AbsQueue[l] = <<>>)'
    BY EmptyView, PTL
  <2>2. QED
    BY <1>1, <1>2, <2>1
<1>4. AbsQueue' = Abs!Empty'
  BY <1>3, ViewDomain DEF Abs!Empty
<1>5. PICK c \in Seq(Message) : Joined(c, m_cache["call"], m_cache["other"]) /\ Joined(drain', c, m_stack)
  BY CloseEffect DEF Books
<1>6. m_cache["call"] \in Seq(Message) /\ m_cache["other"] \in Seq(Message) /\ m_stack \in Seq(Message)
  BY <1>0 DEF IInv, TypeOK, MailboxType
<1>7. ToSet(drain') = ToSet(m_cache["call"]) \cup ToSet(m_cache["other"]) \cup ToSet(m_stack) /\ ToSet(drain) = {}
  <2>1. ToSet(c) = ToSet(m_cache["call"]) \cup ToSet(m_cache["other"])
    BY <1>5, <1>6, JoinedSet
  <2>2. ToSet(drain') = ToSet(c) \cup ToSet(m_stack)
    BY <1>5, <1>6, JoinedSet
  <2>3. ToSet(drain) = {}
    BY <1>1, EmptyFacts
  <2>4. QED
    BY <2>1, <2>2, <2>3
<1>8. ASSUME NEW l \in Lanes
      PROVE  ToSet(AbsQueue[l]) = ToSet(m_cache[l]) \cup {x \in ToSet(m_stack) : x.lane = l}
  <2>1. m_cache[l] \in Seq(Message)
    BY DEF IInv, TypeOK, MailboxType
  <2>2. Taken(l) = m_cache[l]
    BY <1>1, <2>1, LaneParts, GatheredCache
  <2>3. Joined(AbsQueue[l], Taken(l), Pending(l))
    BY <1>2, LaneView
  <2>4. Pending(l) \in Seq(Message) /\ ToSet(Pending(l)) = {x \in ToSet(m_stack) : x.lane = l}
    BY LaneFacts DEF IInv
  <2>5. QED
    BY <2>1, <2>2, <2>3, <2>4, JoinedSet
<1>9. Abs!Contents = ToSet(AbsQueue["call"]) \cup ToSet(AbsQueue["other"])
  BY <1>0, AbsToSet DEF Abs!Contents
<1>10. \A x \in ToSet(m_stack) : x.lane = "call" \/ x.lane = "other"
  <2>1. ToSet(m_stack) \subseteq Message
    BY <1>6 DEF ToSet
  <2>2. QED
    BY <2>1 DEF Message, Lanes
<1>11. Abs!Contents = ToSet(drain')
  BY <1>0, <1>7, <1>8, <1>9, <1>10
<1>12. AbsGot' = AbsGot
  BY <1>1, <1>2 DEF AbsGot, hist
<1>13. AbsTurn = "active" /\ AbsTurn' = "active"
  BY <1>1 DEF AbsTurn, Resting, IInv, OneTurn
<1>14. QED
  BY <1>1, <1>4, <1>7, <1>11, <1>12, <1>13 DEF Abs!AClose, Abs!Empty, hist

\* Every step of the lock-free mailbox is a step of the two-lane queue, or
\* invisible to its clients.
LEMMA StepRefines ==
    ASSUME IInv, IInv', Books, [Next]_vars
    PROVE  Abs!ANext \/ UNCHANGED Abs!avars
<1> DEFINE Goal == Abs!ANext \/ UNCHANGED Abs!avars
<1> USE DEF shared, prod, split, hist
<1>1. ASSUME UNCHANGED <<m_stack, m_cache, node, batch, delivered, m_tag, rejected, dropped, drain>>,
             Serving' <=> Serving, Resting' <=> Resting
      PROVE  Goal
  BY <1>1, QuietView DEF Abs!avars, AbsTurn
<1>2. ASSUME NEW p \in Producers, NEW l \in Lanes, PushCount(p, l) PROVE Goal
  BY <1>1, <1>2 DEF PushCount, Serving, Resting
<1>3. ASSUME NEW p \in Producers, PushLoad(p) PROVE Goal
  BY <1>1, <1>3 DEF PushLoad, Serving, Resting
<1>4. ASSUME NEW p \in Producers, PushCas(p) PROVE Goal
  BY <1>4, CasRefines, CasEffect DEF Abs!ANext
<1>5. ASSUME NEW p \in Producers, PushClosed(p) PROVE Goal
  BY <1>5, ClosedRefines DEF Abs!ANext, IInv, TypeOK, ProducerType
<1>6. ASSUME NEW p \in Producers, PushWake(p) PROVE Goal
  BY <1>1, <1>6 DEF PushWake, Serving, Resting
<1>7. CASE TurnBegin
  <2>1. AbsQueue' = AbsQueue /\ AbsGot' = AbsGot
    BY <1>7, QuietView DEF TurnBegin, Serving
  <2>2. AbsTurn = "granted" /\ AbsTurn' = "active"
    BY <1>7 DEF TurnBegin, AbsTurn, Resting, IInv, OneTurn, TypeOK, OwnerType
  <2>3. Abs!ASchedule
    BY <1>7, <2>1, <2>2 DEF TurnBegin, Abs!ASchedule
  <2>4. QED
    BY <2>3 DEF Abs!ANext
<1>8. CASE LookCalls \/ LookOthers
  BY <1>1, <1>8 DEF LookCalls, LookOthers, Serving, Resting
<1>9. CASE (PopCheck \/ PopFetch \/ PopRefetch) /\ Serving'
  <2>1. ~Serving
    BY <1>9 DEF PopCheck, PopFetch, PopRefetch, Serving
  <2>2. QED
    BY <1>9, <2>1, PopRefines DEF Abs!ANext
<1>10. CASE PopCheck /\ ~Serving'
  BY <1>1, <1>10 DEF PopCheck, Serving, Resting
<1>11. CASE (PopFetch \/ PopRefetch) /\ ~Serving'
  <2>1. AbsQueue' = AbsQueue /\ AbsGot' = AbsGot
    BY <1>11, NothingFetched
  <2>2. AbsTurn' = AbsTurn /\ m_tag # "closed" /\ m_tag' # "closed"
    BY <1>11 DEF PopFetch, PopRefetch, TakeStack, AbsTurn, Resting, IInv, OneTurn, WordShape
  <2>3. QED
    BY <1>11, <2>1, <2>2 DEF PopFetch, PopRefetch, Abs!avars
<1>12. CASE SplitNode \/ SplitAppend
  <2>1. AbsQueue' = AbsQueue /\ AbsGot' = AbsGot
    BY <1>12, SplitView
  <2>2. AbsTurn' = AbsTurn /\ UNCHANGED <<m_tag, rejected, dropped, drain>>
    BY <1>12 DEF SplitNode, SplitOff, SplitAppend, AbsTurn, Resting
  <2>3. QED
    BY <2>1, <2>2 DEF Abs!avars
<1>13. CASE PopDeliver
  <2>1. AbsQueue' = AbsQueue /\ AbsGot' = AbsGot
    BY <1>13, DeliverView
  <2>2. AbsTurn' = AbsTurn /\ UNCHANGED <<m_tag, rejected, dropped, drain>>
    BY <1>13 DEF PopDeliver, Serve, AbsTurn, Resting
  <2>3. QED
    BY <2>1, <2>2 DEF Abs!avars
<1>14. CASE TryBlock /\ m_tag' # m_tag
  BY <1>14, BlockRefines DEF Abs!ANext
<1>15. CASE TryBlock /\ m_tag' = m_tag
  BY <1>1, <1>15 DEF TryBlock, Serving, Resting, Word, EmptyWord
<1>16. CASE (OwnerLeave \/ StopUnblock) /\ m_tag' # m_tag
  <2>1. AbsQueue' = AbsQueue /\ AbsGot' = AbsGot
    BY <1>16, QuietView DEF OwnerLeave, StopUnblock, Serving
  <2>2. m_tag = "blocked" /\ m_tag' = "open"
    BY <1>16 DEF OwnerLeave, StopUnblock, TryUnblock
  <2>3. AbsTurn = "idle" /\ AbsTurn' \in {"active", "granted"}
    BY <2>2 DEF AbsTurn
  <2>4. Abs!AUnblock
    BY <1>16, <2>1, <2>2, <2>3 DEF OwnerLeave, StopUnblock, Abs!AUnblock
  <2>5. QED
    BY <2>4 DEF Abs!ANext
<1>17. CASE (OwnerLeave \/ StopUnblock) /\ m_tag' = m_tag
  BY <1>1, <1>17 DEF OwnerLeave, StopUnblock, TryUnblock, Serving, Resting
<1>18. CASE Close
  BY <1>18, CloseRefines DEF Abs!ANext
<1>19. CASE CloseDrop
  <2>1. PICK h : h = Head(drain)
    OBVIOUS
  <2>2. /\ h \in Message /\ Led(drain, h, drain') /\ drain' \in Seq(Message)
        /\ dropped' = dropped \cup {h}
        /\ UNCHANGED <<m_tag, m_stack, m_cache, node, batch, delivered, rejected, owner>>
    BY <1>19, <2>1, DropEffect DEF Books
  <2>3. ToSet(drain) = {h} \cup ToSet(drain')
    BY <2>2, LedSet
  <2>4. AbsQueue' = AbsQueue /\ AbsGot' = AbsGot
    BY <2>2, QuietView DEF Serving
  <2>5. AbsTurn' = AbsTurn
    BY <2>2 DEF AbsTurn, Resting
  <2>6. (rejected \cup dropped \cup ToSet(drain))' = rejected \cup dropped \cup ToSet(drain)
    BY <2>2, <2>3
  <2>7. QED
    BY <2>2, <2>4, <2>5, <2>6 DEF Abs!avars
<1>20. CASE CloseDone
  BY <1>1, <1>20 DEF CloseDone, Serving, Resting
<1>21. CASE StopRequest \/ StopWake
  BY <1>1, <1>21 DEF StopRequest, StopWake, Serving, Resting
<1>22. CASE UNCHANGED vars
  BY <1>1, <1>22 DEF vars, Serving, Resting
<1>23. QED
  BY <1>2, <1>3, <1>4, <1>5, <1>6, <1>7, <1>8, <1>9, <1>10, <1>11, <1>12, <1>13, <1>14, <1>15,
     <1>16, <1>17, <1>18, <1>19, <1>20, <1>21, <1>22
     DEF Next, Push, Owner, Stop

\* A new mailbox is an empty queue whose owner has the turn.
LEMMA InitRefines == Init => Abs!AInit
<1> SUFFICES ASSUME Init PROVE Abs!AInit
  OBVIOUS
<1>1. ~Serving /\ IsEmpty(m_stack) /\ IsEmpty(node) /\ \A l \in Lanes : IsEmpty(m_cache[l]) /\ IsEmpty(batch[l])
  BY DEF Init, Serving, IsEmpty
<1>2. \A l \in Lanes : AbsQueue[l] = <<>>
  BY <1>1, EmptyView
<1>3. AbsQueue = Abs!Empty
  BY <1>2, ViewDomain DEF Abs!Empty
<1>4. AbsGot = <<>> /\ AbsTurn = "active" /\ m_tag # "closed"
  BY <1>1 DEF Init, AbsGot, AbsTurn, Resting
<1>5. rejected \cup dropped \cup ToSet(drain) = {}
  BY EmptyFacts DEF Init, IsEmpty
<1>6. QED
  BY <1>3, <1>4, <1>5 DEF Abs!AInit

\* The lock-free mailbox implements the two-lane queue of MailboxAbs for any
\* number of producers and pushes: calls are served first, each lane is FIFO, the
\* owner goes idle only when nothing is queued and whoever ends the idleness is
\* told to schedule it.
THEOREM MailboxRefines == Spec => ImplementsAbs
<1>1. IInv /\ IInv' /\ Books /\ [Next]_vars => [Abs!ANext]_(Abs!avars)
  BY StepRefines
<1>2. QED
  BY <1>1, InitRefines, BooksHold, PTL DEF Spec, ImplementsAbs, Abs!ASpec
=============================================================================
