---------------------------- MODULE QueueSender -----------------------------
(***************************************************************************)
(* queueUserOpSender of AASigner.ts: operations wait in one queue per      *)
(* account, and a timer calls push, which takes the first operation of     *)
(* every queue and sends them to the EntryPoint as one bundle.             *)
(*                                                                         *)
(* JavaScript runs one piece of code at a time; what interleaves is what   *)
(* happens between the awaits of push.  The flag sending belongs to the    *)
(* file and is shared by all senders made in one process.  queueSize and   *)
(* lastQueueUpdate are given no first value: they are Undefined, and       *)
(* arithmetic and comparisons treat them as JavaScript does.               *)
(***************************************************************************)
EXTENDS Integers, Sequences, FiniteSets, FiniteSetsExt, SequencesExt

CONSTANTS
    Queues,                  \* the senders that queueUserOpSender has made
    Accounts,                \* userOp.sender
    IDLE_TIME,               \* in ticks
    BUNDLE_SIZE_IMMEDIATE,
    Undefined, NaN,
    MaxWaiting               \* bound on an account's operations that wait

ASSUME QueueAssumption ==
    /\ IDLE_TIME \in Nat /\ BUNDLE_SIZE_IMMEDIATE \in Nat /\ MaxWaiting \in Nat
    /\ Undefined \notin Int /\ NaN \notin Int /\ Undefined # NaN
    /\ IsFiniteSet(Queues) /\ IsFiniteSet(Accounts)

VARIABLES
    queue,        \* queue[q][a]: the operations of a, each known by its number
    queueSize,
    age,          \* ticks since lastQueueUpdate, up to IDLE_TIME
    sending,
    flights,      \* bundles on their way: the queue they are from and what is in them
    over          \* history: over[q][a], a's last operation handed over and answered

vars == <<queue, queueSize, age, sending, flights, over>>

\* Operations keep coming, so that their numbers are given again; no two that wait, are
\* on their way, or were the last to be answered have the same.
Operations == 0 .. MaxWaiting + 1

After(n) == IF n = MaxWaiting + 1 THEN 0 ELSE n + 1

-----------------------------------------------------------------------------
(* Numbers as JavaScript has them.                                         *)

Numbers == Int \cup {Undefined, NaN}

Plus(x, n)     == IF x \in Int THEN x + n ELSE NaN
LessThan(x, n) == x \in Int /\ x < n

\* The operations of an account: the last that was answered, what is on its way and
\* what waits.
Line(q, a) ==
    LET under == SetToSeq({f \in flights : f.from = q /\ a \in DOMAIN f.ops})
    IN  <<over[q][a]>> \o [k \in DOMAIN under |-> under[k].ops[a]] \o queue[q][a]

Waiting(q) == MapThenSumSet(LAMBDA a : Len(queue[q][a]), Accounts)

-----------------------------------------------------------------------------

\* The function that queueUserOpSender returns.
QueueUserOp(q, a) ==
    /\ Len(queue[q][a]) < MaxWaiting
    /\ queue' = [queue EXCEPT ![q][a] = Append(@, After(Last(Line(q, a))))]
    /\ age' = [age EXCEPT ![q] = 0]
    /\ queueSize' = [queueSize EXCEPT ![q] = Plus(@, 1)]
    /\ UNCHANGED <<sending, flights, over>>

TooSmallOrTooYoung(q) == \/ LessThan(queueSize[q], BUNDLE_SIZE_IMMEDIATE)
                         \/ LessThan(age[q], IDLE_TIME)

\* What-if: pop, the last operation goes first.
Pop(s) == IF s = <<>> THEN [op |-> Undefined, rest |-> <<>>]
          ELSE [op |-> Last(s), rest |-> Front(s)]

\* shift: the first operation of a queue, if any, and what it leaves.
Shift(s) == IF s = <<>> THEN [op |-> Undefined, rest |-> <<>>]
            ELSE [op |-> Head(s), rest |-> Tail(s)]

\* push, when it does not come to send anything.
PushBusy(q) ==
    /\ sending
    /\ UNCHANGED vars

PushWaits(q) ==
    /\ ~sending
    /\ TooSmallOrTooYoung(q)
    /\ UNCHANGED vars

PushEmpty(q) ==
    /\ ~sending
    /\ ~TooSmallOrTooYoung(q)
    /\ Waiting(q) = 0
    /\ UNCHANGED vars

\* What-if: whatever shift returns is sent.
ChosenUnchecked(q) == Accounts

Chosen(q) == {a \in Accounts : queue[q][a] # <<>>}

\* What-if: sending is set only when the bundle is on its way for good.
PushSendsUnlocked(q) ==
    /\ ~TooSmallOrTooYoung(q)
    /\ Waiting(q) > 0
    /\ flights' = flights \cup
          {[from |-> q, ops |-> [a \in Chosen(q) |-> Shift(queue[q][a]).op]]}
    /\ queue' = [queue EXCEPT ![q] =
          [a \in Accounts |-> IF a \in Chosen(q) THEN Shift(@[a]).rest ELSE @[a]]]
    /\ queueSize' = [queueSize EXCEPT ![q] = Plus(@, -Cardinality(Chosen(q)))]
    /\ sending' = TRUE
    /\ UNCHANGED <<age, over>>

\* push, up to its first await.
PushSends(q) ==
    /\ ~sending
    /\ ~TooSmallOrTooYoung(q)
    /\ Waiting(q) > 0
    /\ flights' = flights \cup
          {[from |-> q, ops |-> [a \in Chosen(q) |-> Shift(queue[q][a]).op]]}
    /\ queue' = [queue EXCEPT ![q] =
          [a \in Accounts |-> IF a \in Chosen(q) THEN Shift(@[a]).rest ELSE @[a]]]
    /\ queueSize' = [queueSize EXCEPT ![q] = Plus(@, -Cardinality(Chosen(q)))]
    /\ sending' = TRUE
    /\ UNCHANGED <<age, over>>

Push(q) == PushBusy(q) \/ PushWaits(q) \/ PushEmpty(q) \/ PushSends(q)

\* The awaits are over, with a receipt or with an exception: the operations
\* are not queued again either way.
PushAnswered(f) ==
    /\ f \in flights
    /\ flights' = flights \ {f}
    /\ over' = [over EXCEPT ![f.from] =
          [a \in Accounts |->
             IF a \in DOMAIN f.ops THEN f.ops[a] ELSE @[a]]]
    /\ sending' = FALSE
    /\ UNCHANGED <<queue, queueSize, age>>

\* Date.now() goes on.
Tick == /\ \E q \in Queues : LessThan(age[q], IDLE_TIME)
        /\ age' = [q \in Queues |->
                     IF LessThan(age[q], IDLE_TIME) THEN age[q] + 1 ELSE age[q]]
        /\ UNCHANGED <<queue, queueSize, sending, flights, over>>

-----------------------------------------------------------------------------

\* What-if: queueSize starts at 0.
FirstSizeZero == 0

FirstSize == Undefined

Init == /\ queue = [q \in Queues |-> [a \in Accounts |-> <<>>]]
        /\ queueSize = [q \in Queues |-> FirstSize]
        /\ age = [q \in Queues |-> Undefined]
        /\ sending = FALSE
        /\ flights = {}
        /\ over = [q \in Queues |-> [a \in Accounts |-> 0]]

NewOperation == \E q \in Queues, a \in Accounts : QueueUserOp(q, a)

Next == \/ NewOperation
        \/ \E q \in Queues : Push(q)
        \/ \E f \in flights : PushAnswered(f)
        \/ Tick

\* The timer of every queue keeps calling push, time passes, and the awaits of a
\* push end, one way or the other.
Fairness == /\ \A q \in Queues : WF_vars(Push(q))
            /\ WF_vars(Tick)
            /\ WF_vars(\E f \in flights : PushAnswered(f))

Spec == Init /\ [][Next]_vars /\ Fairness

-----------------------------------------------------------------------------
(* Properties.                                                             *)

Bundles == [from : Queues,
            ops : UNION {[A -> Operations] : A \in SUBSET Accounts}]

\* Types; only operations are sent (AASigner.ts:171-175).
TypeOK == /\ queue \in [Queues -> [Accounts -> Seq(Operations)]]
          /\ queueSize \in [Queues -> Numbers]
          /\ age \in [Queues -> 0 .. IDLE_TIME \cup {Undefined}]
          /\ sending \in BOOLEAN
          /\ flights \subseteq Bundles
          /\ over \in [Queues -> [Accounts -> Operations]]

\* One bundle at a time for the whole process, whichever of its senders it is
\* from and whatever else is queued and pushed between the awaits of a push; the
\* flag is up exactly while there is one (AASigner.ts:155-159, 193).
OneBundle == Cardinality(flights) = IF sending THEN 1 ELSE 0

\* Of each account, the operation that was last answered, what is on its way and what
\* waits follow each other as they were queued: none is lost from the queues, none
\* is sent twice, none overtakes another (AASigner.ts:108, 171).
InOrder ==
    \A q \in Queues, a \in Accounts :
       LET line == Line(q, a)
       IN  \A k \in 1 .. Len(line) - 1 : line[k + 1] = After(line[k])

\* "after that much time with no new TX, send whatever you can" (AASigner.ts:145):
\* once no sender of the process is given new operations, everything that waits is
\* sent.  As long as they come, it may wait for ever: each makes the queue young again.
EverythingIsSent ==
    <>[][~NewOperation]_vars =>
        <>[](flights = {} /\ \A q \in Queues : Waiting(q) = 0)
=============================================================================
