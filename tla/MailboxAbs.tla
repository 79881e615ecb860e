----------------------------- MODULE MailboxAbs -----------------------------
(***************************************************************************)
(* What a mailbox promises its clients: two FIFO lanes, each operation one *)
(* indivisible step, calls always served first, and one turn that is with  *)
(* the owner ("active"), with nobody ("idle"), or granted to whoever ended *)
(* the idleness and has to schedule the owner ("granted").                 *)
(***************************************************************************)
EXTENDS Sequences, SequencesExt

CONSTANTS Message, Lanes

VARIABLES
    queue,      \* lane -> messages, oldest first
    open,       \* FALSE once closed
    turn,       \* "active", "idle" or "granted"
    got,        \* messages popped, in order
    refused     \* messages handed back, and messages dropped by closing

avars == <<queue, open, turn, got, refused>>

Empty == [l \in Lanes |-> <<>>]

Contents == UNION {ToSet(queue[l]) : l \in Lanes}

AInit ==
    /\ queue = Empty
    /\ open = TRUE
    /\ turn = "active"
    /\ got = <<>>
    /\ refused = {}

\* A message that is new to the mailbox is queued; an idle owner is woken.
APush(m) ==
    /\ open
    /\ m \notin Contents \cup ToSet(got) \cup refused
    /\ queue' = [queue EXCEPT ![m.lane] = Append(@, m)]
    /\ turn' = IF turn = "idle" THEN "granted" ELSE turn
    /\ UNCHANGED <<open, got, refused>>

AReject(m) ==
    /\ ~open
    /\ m \notin Contents \cup ToSet(got) \cup refused
    /\ refused' = refused \cup {m}
    /\ UNCHANGED <<queue, open, turn, got>>

\* An ordinary message is served only if no call is queued.
APop(l) ==
    /\ turn = "active"
    /\ open
    /\ queue[l] # <<>>
    /\ l # "call" => queue["call"] = <<>>
    /\ got' = Append(got, Head(queue[l]))
    /\ queue' = [queue EXCEPT ![l] = Tail(@)]
    /\ UNCHANGED <<open, turn, refused>>

\* The owner goes idle only when nothing is queued.
ABlock ==
    /\ turn = "active"
    /\ open
    /\ queue = Empty
    /\ turn' = "idle"
    /\ UNCHANGED <<queue, open, got, refused>>

\* try_unblock(), by the owner itself or by a stop.
AUnblock ==
    /\ turn = "idle"
    /\ turn' \in {"active", "granted"}
    /\ UNCHANGED <<queue, open, got, refused>>

ASchedule ==
    /\ turn = "granted"
    /\ turn' = "active"
    /\ UNCHANGED <<queue, open, got, refused>>

\* Everything still queued is dropped.
AClose ==
    /\ turn = "active"
    /\ open
    /\ open' = FALSE
    /\ queue' = Empty
    /\ refused' = refused \cup Contents
    /\ UNCHANGED <<turn, got>>

ANext ==
    \/ \E m \in Message : APush(m) \/ AReject(m)
    \/ \E l \in Lanes : APop(l)
    \/ ABlock
    \/ AUnblock
    \/ ASchedule
    \/ AClose

ASpec == AInit /\ [][ANext]_avars
=============================================================================
