-------------------------- MODULE QueueSenderProofs --------------------------
(***************************************************************************)
(* What QueueSender promises, for any number of senders, accounts and      *)
(* operations.                                                             *)
(***************************************************************************)
EXTENDS QueueSender, FiniteSetTheorems, SequenceTheorems, TLAPS

-----------------------------------------------------------------------------
(* The flag.                                                               *)

\* The flag is up exactly while something is on its way, and that is one bundle.
Flag == /\ sending \in BOOLEAN
        /\ ~sending => flights = {}
        /\ sending => \E f : flights = {f}

LEMMA NextFlag == Flag /\ [Next]_vars => Flag'
<1> SUFFICES ASSUME Flag, [Next]_vars PROVE Flag'
  OBVIOUS
<1>1. CASE UNCHANGED <<sending, flights>>
  BY <1>1 DEF Flag
<1>2. ASSUME NEW q \in Queues, Push(q)
      PROVE  Flag'
  <2>1. CASE PushSends(q)
    <3> DEFINE f == [from |-> q, ops |-> [a \in Chosen(q) |-> Shift(queue[q][a]).op]]
    <3>1. flights = {} /\ flights' = flights \cup {f} /\ sending' = TRUE
      BY <2>1 DEF PushSends, Flag
    <3> HIDE DEF f
    <3> QED BY <3>1 DEF Flag
  <2>2. CASE PushBusy(q) \/ PushWaits(q) \/ PushEmpty(q)
    BY <1>1, <2>2 DEF PushBusy, PushWaits, PushEmpty, vars
  <2> QED BY <1>2, <2>1, <2>2 DEF Push
<1>3. ASSUME NEW q \in Queues, NEW a \in Accounts, QueueUserOp(q, a)
      PROVE  Flag'
  BY <1>1, <1>3 DEF QueueUserOp
<1>4. ASSUME NEW f \in flights, PushAnswered(f)
      PROVE  Flag'
  BY <1>4 DEF PushAnswered, Flag
<1>5. CASE Tick
  BY <1>1, <1>5 DEF Tick
<1>6. CASE UNCHANGED vars
  BY <1>1, <1>6 DEF vars
<1> QED BY <1>2, <1>3, <1>4, <1>5, <1>6 DEF Next, NewOperation

LEMMA FlagInvariant == Spec => []Flag
<1>1. Init => Flag
  BY DEF Init, Flag
<1> QED BY <1>1, NextFlag, PTL DEF Spec

\* However many senders a process has made: never two bundles on their way, and the
\* flag is up exactly while there is one.  (AASigner.ts:155-159, 193)
THEOREM AlwaysOneBundle == Spec => []OneBundle
<1>1. Flag => OneBundle
  BY FS_EmptySet, FS_Singleton DEF Flag, OneBundle
<1> QED BY <1>1, FlagInvariant, PTL

-----------------------------------------------------------------------------
(* Numbers that follow each other.                                         *)

LEMMA AfterInType ==
    ASSUME NEW n \in Operations
    PROVE  After(n) \in Operations
BY QueueAssumption DEF After, Operations

\* s goes on from n.
Follows(s, n) ==
    /\ s \in Seq(Operations)
    /\ \A k \in 1 .. Len(s) : s[k] = After(IF k = 1 THEN n ELSE s[k - 1])

\* Where s, that goes on from n, ends.
EndOf(s, n) == IF s = <<>> THEN n ELSE s[Len(s)]

LEMMA FollowsAppend ==
    ASSUME NEW n \in Operations, NEW s, Follows(s, n)
    PROVE  Follows(Append(s, After(EndOf(s, n))), n)
<1> DEFINE m == After(EndOf(s, n))
           t == Append(s, m)
<1>1. s \in Seq(Operations) /\ Len(s) \in Nat
  BY DEF Follows
<1>2. s # <<>> => Len(s) \in 1 .. Len(s) /\ s[Len(s)] \in Operations
  BY <1>1
<1>3. m \in Operations
  BY <1>2, AfterInType DEF EndOf
<1>4. s = <<>> <=> Len(s) = 0
  BY <1>1
<1>5. m = After(IF Len(s) = 0 THEN n ELSE s[Len(s)])
  BY <1>4 DEF EndOf
<1> HIDE DEF m
<1>6. /\ t \in Seq(Operations) /\ Len(t) = Len(s) + 1 /\ t[Len(s) + 1] = m
      /\ \A k \in 1 .. Len(s) : t[k] = s[k]
  BY <1>1, <1>3
<1>7. ASSUME NEW k \in 1 .. Len(t)
      PROVE  t[k] = After(IF k = 1 THEN n ELSE t[k - 1])
  <2>1. CASE k = Len(s) + 1
    <3>1. k # 1 => k - 1 = Len(s) /\ k - 1 \in 1 .. Len(s)
      BY <1>1, <2>1
    <3> QED BY <1>1, <1>5, <1>6, <2>1, <3>1
  <2>2. CASE k \in 1 .. Len(s)
    <3>1. k # 1 => k - 1 \in 1 .. Len(s)
      BY <1>1, <2>2
    <3>2. s[k] = After(IF k = 1 THEN n ELSE s[k - 1])
      BY <2>2 DEF Follows
    <3> QED BY <1>6, <2>2, <3>1, <3>2
  <2> QED BY <1>1, <1>6, <2>1, <2>2
<1> QED BY <1>6, <1>7 DEF Follows, m

LEMMA FollowsTail ==
    ASSUME NEW s, NEW n, Follows(s, n), s # <<>>
    PROVE  Head(s) = After(n) /\ Follows(Tail(s), After(n))
<1>1. s \in Seq(Operations) /\ Len(s) \in Nat /\ Len(s) > 0 /\ Head(s) = s[1]
  BY DEF Follows
<1>2. /\ Tail(s) \in Seq(Operations) /\ Len(Tail(s)) = Len(s) - 1
      /\ \A k \in 1 .. Len(Tail(s)) : k + 1 \in 1 .. Len(s) /\ Tail(s)[k] = s[k + 1]
  BY <1>1
<1>3. s[1] = After(n)
  BY <1>1 DEF Follows
<1>4. ASSUME NEW k \in 1 .. Len(Tail(s))
      PROVE  Tail(s)[k] = After(IF k = 1 THEN After(n) ELSE Tail(s)[k - 1])
  <2>1. s[k + 1] = After(s[k])
    <3>1. k + 1 # 1 /\ (k + 1) - 1 = k
      BY <1>1, <1>2
    <3> QED BY <1>2, <3>1 DEF Follows
  <2>2. k # 1 => k - 1 \in 1 .. Len(Tail(s)) /\ (k - 1) + 1 = k
    BY <1>1, <1>2
  <2> QED BY <1>2, <1>3, <2>1, <2>2
<1> QED BY <1>1, <1>2, <1>3, <1>4 DEF Follows

-----------------------------------------------------------------------------
(* The order.                                                              *)

Covers(f, q, a) == f.from = q /\ a \in DOMAIN f.ops

\* The operation of an account that was last to leave its queue.
LastSent(q, a) ==
    IF \E f \in flights : Covers(f, q, a) THEN After(over[q][a]) ELSE over[q][a]

Ordered(q, a) ==
    /\ Follows(queue[q][a], LastSent(q, a))
    /\ \A f \in flights : Covers(f, q, a) => f.ops[a] = After(over[q][a])

IInv ==
    /\ Flag
    /\ queue \in [Queues -> [Accounts -> Seq(Operations)]]
    /\ over \in [Queues -> [Accounts -> Operations]]
    /\ \A q \in Queues, a \in Accounts : Ordered(q, a)

\* SetToSeq of at most one bundle: one way to put it in a row.
LEMMA EmptyToSeq == SetToSeq({}) \in [1 .. 0 -> {}]
<1>1. \E s \in [1 .. 0 -> {}] : IsInjective(s)
  <2>1. [k \in 1 .. 0 |-> k] \in [1 .. 0 -> {}]
    OBVIOUS
  <2>2. IsInjective([k \in 1 .. 0 |-> k])
    BY DEF IsInjective
  <2> QED BY <2>1, <2>2
<1>2. Cardinality({}) = 0
  BY FS_EmptySet
<1>3. SetToSeq({}) = CHOOSE s \in [1 .. 0 -> {}] : IsInjective(s)
  BY <1>2 DEF SetToSeq
<1> QED BY <1>1, <1>3

LEMMA OneToSeq ==
    ASSUME NEW x
    PROVE  SetToSeq({x}) \in [1 .. 1 -> {x}]
<1>1. \E s \in [1 .. 1 -> {x}] : IsInjective(s)
  <2>1. [k \in 1 .. 1 |-> x] \in [1 .. 1 -> {x}]
    OBVIOUS
  <2>2. IsInjective([k \in 1 .. 1 |-> x])
    BY DEF IsInjective
  <2> QED BY <2>1, <2>2
<1>2. Cardinality({x}) = 1
  BY FS_Singleton
<1>3. SetToSeq({x}) = CHOOSE s \in [1 .. 1 -> {x}] : IsInjective(s)
  BY <1>2 DEF SetToSeq
<1> QED BY <1>1, <1>3


\* What the line is, with at most one bundle on its way.
LEMMA LineIs ==
    ASSUME IInv, NEW q \in Queues, NEW a \in Accounts
    PROVE  \E n \in {0, 1} :
              LET line  == Line(q, a)
                  waits == queue[q][a]
              IN  /\ waits \in Seq(Operations)
                  /\ line \in Seq(Operations) /\ Len(line) = 1 + n + Len(waits)
                  /\ line[1] = over[q][a]
                  /\ n = 1 => line[2] = After(over[q][a])
                  /\ line[1 + n] = LastSent(q, a)
                  /\ \A k \in 1 .. Len(waits) : line[1 + n + k] = waits[k]
<1> DEFINE Flying == {f \in flights : f.from = q /\ a \in DOMAIN f.ops}
           under == SetToSeq(Flying)
           middle == [k \in DOMAIN under |-> under[k].ops[a]]
           first == <<over[q][a]>> \o middle
           waits == queue[q][a]
           n == IF \E f \in flights : Covers(f, q, a) THEN 1 ELSE 0
<1>1. /\ Flag /\ over[q][a] \in Operations /\ waits \in Seq(Operations)
      /\ After(over[q][a]) \in Operations
  BY AfterInType DEF IInv
<1>2. under \in [1 .. n -> Flying]
  <2>1. CASE \E f \in flights : Covers(f, q, a)
    <3>1. PICK f : Flying = {f}
      BY <1>1, <2>1 DEF Flag, Covers
    <3> HIDE DEF Flying
    <3> QED BY <2>1, <3>1, OneToSeq
  <2>2. CASE ~\E f \in flights : Covers(f, q, a)
    <3>1. Flying = {}
      BY <2>2 DEF Covers
    <3> HIDE DEF Flying
    <3> QED BY <2>2, <3>1, EmptyToSeq
  <2> QED BY <2>1, <2>2
<1>3. n \in {0, 1}
  OBVIOUS
<1>4. /\ middle \in Seq(Operations) /\ Len(middle) = n
      /\ n = 1 => middle[1] = After(over[q][a])
  <2>1. ASSUME NEW k \in 1 .. n
        PROVE  under[k].ops[a] = After(over[q][a])
    <3>1. under[k] \in flights /\ Covers(under[k], q, a)
      BY <1>2 DEF Covers
    <3> QED BY <3>1 DEF IInv, Ordered
  <2>2. middle = [k \in 1 .. n |-> under[k].ops[a]]
    BY <1>2
  <2> HIDE DEF middle, under, Flying, n
  <2>3. middle \in [1 .. n -> Operations]
    BY <1>1, <2>1, <2>2
  <2> QED BY <1>3, <2>1, <2>2, <2>3
<1>5. LastSent(q, a) = IF n = 1 THEN After(over[q][a]) ELSE over[q][a]
  BY DEF LastSent
<1> HIDE DEF middle, n
<1>6. /\ first \in Seq(Operations) /\ Len(first) = 1 + n /\ first[1] = over[q][a]
      /\ n = 1 => first[2] = After(over[q][a])
  <2>1. /\ <<over[q][a]>> \in Seq(Operations) /\ Len(<<over[q][a]>>) = 1
        /\ <<over[q][a]>>[1] = over[q][a]
    BY <1>1
  <2> QED BY <1>3, <1>4, <2>1, ConcatProperties
<1> HIDE DEF first, waits
<1>7. /\ first \o waits \in Seq(Operations) /\ Len(first \o waits) = 1 + n + Len(waits)
      /\ \A k \in 1 .. 1 + n : (first \o waits)[k] = first[k]
      /\ \A k \in 1 .. Len(waits) : (first \o waits)[1 + n + k] = waits[k]
  <2>1. /\ first \o waits \in Seq(Operations)
        /\ Len(first \o waits) = Len(first) + Len(waits)
        /\ \A k \in 1 .. Len(first) + Len(waits) :
              (first \o waits)[k] = IF k <= Len(first) THEN first[k]
                                    ELSE waits[k - Len(first)]
    BY <1>1, <1>6, ConcatProperties
  <2>2. Len(first) \in Nat /\ Len(waits) \in Nat
    BY <1>1, <1>6
  <2>3. ASSUME NEW k \in 1 .. Len(waits)
        PROVE  (first \o waits)[1 + n + k] = waits[k]
    <3>1. /\ 1 + n + k \in 1 .. Len(first) + Len(waits) /\ ~(1 + n + k <= Len(first))
          /\ (1 + n + k) - Len(first) = k
      BY <1>3, <1>6, <2>2
    <3> QED BY <2>1, <3>1
  <2>4. \A k \in 1 .. 1 + n : k \in 1 .. Len(first) + Len(waits) /\ k <= Len(first)
    BY <1>3, <1>6, <2>2
  <2> QED BY <1>6, <2>1, <2>3, <2>4
<1>8. Line(q, a) = first \o waits
  BY DEF Line, first, middle, waits
<1>9. 1 \in 1 .. 1 + n /\ 1 + n \in 1 .. 1 + n /\ n = 1 => 2 \in 1 .. 1 + n
  BY <1>3
<1>10. first[1 + n] = LastSent(q, a)
  BY <1>3, <1>5, <1>6
<1> QED BY <1>1, <1>3, <1>6, <1>7, <1>8, <1>9, <1>10 DEF waits

\* The number that the next operation gets.
LEMMA LastOfLine ==
    ASSUME IInv, NEW q \in Queues, NEW a \in Accounts
    PROVE  Last(Line(q, a)) = EndOf(queue[q][a], LastSent(q, a))
<1> DEFINE line == Line(q, a)
           waits == queue[q][a]
<1>1. PICK n \in {0, 1} :
         /\ waits \in Seq(Operations)
         /\ line \in Seq(Operations) /\ Len(line) = 1 + n + Len(waits)
         /\ line[1 + n] = LastSent(q, a)
         /\ \A k \in 1 .. Len(waits) : line[1 + n + k] = waits[k]
  BY LineIs
<1> HIDE DEF line, waits
<1>2. Last(line) = line[Len(line)]
  BY DEF Last
<1>3. waits = <<>> => Len(line) = 1 + n
  BY <1>1
<1>4. waits # <<>> => Len(waits) \in 1 .. Len(waits)
  BY <1>1
<1> QED BY <1>1, <1>2, <1>3, <1>4 DEF EndOf, line, waits

LEMMA QueueIInv ==
    ASSUME IInv, NEW q \in Queues, NEW a \in Accounts, QueueUserOp(q, a), Flag'
    PROVE  IInv'
<1> DEFINE n == LastSent(q, a)
           op == After(Last(Line(q, a)))
<1>1. /\ queue' = [queue EXCEPT ![q][a] = Append(@, op)]
      /\ over' = over /\ flights' = flights
  BY DEF QueueUserOp
<1>2. Follows(Append(queue[q][a], op), n)
  <2>1. n \in Operations
    BY AfterInType DEF IInv, LastSent
  <2>2. Follows(queue[q][a], n)
    BY DEF IInv, Ordered
  <2>3. op = After(EndOf(queue[q][a], n))
    BY LastOfLine
  <2> HIDE DEF n, op
  <2> QED BY <2>1, <2>2, <2>3, FollowsAppend
<1> HIDE DEF op
<1>3. queue' \in [Queues -> [Accounts -> Seq(Operations)]]
  BY <1>1, <1>2 DEF IInv, Follows
<1>4. ASSUME NEW p \in Queues, NEW b \in Accounts
      PROVE  Ordered(p, b)'
  <2>1. LastSent(p, b)' = LastSent(p, b)
    BY <1>1 DEF LastSent
  <2>2. queue'[p][b] = IF p = q /\ b = a THEN Append(queue[q][a], op) ELSE queue[p][b]
    BY <1>1 DEF IInv
  <2>3. Follows(queue'[p][b], LastSent(p, b))
    BY <1>2, <2>2 DEF IInv, Ordered
  <2> QED BY <1>1, <2>1, <2>3 DEF IInv, Ordered
<1> QED BY <1>1, <1>3, <1>4 DEF IInv

LEMMA SendIInv ==
    ASSUME IInv, NEW q \in Queues, PushSends(q), Flag'
    PROVE  IInv'
<1> DEFINE f == [from |-> q, ops |-> [a \in Chosen(q) |-> Shift(queue[q][a]).op]]
           left == [a \in Accounts |-> IF a \in Chosen(q) THEN Shift(queue[q][a]).rest
                                                         ELSE queue[q][a]]
<1>1. /\ flights = {} /\ flights' = {f} /\ over' = over
      /\ queue' = [queue EXCEPT ![q] = left]
  BY DEF PushSends, IInv, Flag
<1>2. \A a \in Chosen(q) : queue[q][a] # <<>> /\ a \in Accounts
  BY DEF Chosen
<1>3. \A p \in Queues, a \in Accounts : Follows(queue[p][a], over[p][a])
  BY <1>1 DEF IInv, Ordered, LastSent
<1>4. \A a \in Chosen(q) : /\ left[a] = Tail(queue[q][a])
                           /\ f.ops[a] = After(over[q][a])
                           /\ Follows(left[a], After(over[q][a]))
  BY <1>2, <1>3, FollowsTail DEF Shift
<1>5. left \in [Accounts -> Seq(Operations)]
  BY <1>3, <1>4 DEF Follows
<1>6. f.from = q /\ DOMAIN f.ops = Chosen(q)
  OBVIOUS
<1>7. \A a \in Accounts : a \notin Chosen(q) => left[a] = queue[q][a]
  OBVIOUS
<1> HIDE DEF f, left
<1>8. queue' \in [Queues -> [Accounts -> Seq(Operations)]]
  BY <1>1, <1>5 DEF IInv
<1>9. ASSUME NEW p \in Queues, NEW a \in Accounts
      PROVE  Ordered(p, a)'
  <2>1. CASE p = q /\ a \in Chosen(q)
    <3>1. queue'[p][a] = left[a]
      BY <1>1, <2>1 DEF IInv
    <3>2. LastSent(p, a)' = After(over[q][a])
      BY <1>1, <1>6, <2>1 DEF LastSent, Covers
    <3> QED BY <1>1, <1>4, <2>1, <3>1, <3>2 DEF Ordered
  <2>2. CASE ~(p = q /\ a \in Chosen(q))
    <3>1. queue'[p][a] = queue[p][a]
      BY <1>1, <1>7, <2>2 DEF IInv
    <3>2. ~Covers(f, p, a)
      BY <1>6, <2>2 DEF Covers
    <3>3. LastSent(p, a)' = over[p][a]
      BY <1>1, <3>2 DEF LastSent
    <3> QED BY <1>1, <1>3, <3>1, <3>2, <3>3 DEF Ordered
  <2> QED BY <2>1, <2>2
<1> QED BY <1>1, <1>8, <1>9 DEF IInv

LEMMA AnswerIInv ==
    ASSUME IInv, NEW f \in flights, PushAnswered(f), Flag'
    PROVE  IInv'
<1> DEFINE ends == [a \in Accounts |-> IF a \in DOMAIN f.ops THEN f.ops[a]
                                                             ELSE over[f.from][a]]
<1>1. /\ flights = {f} /\ flights' = {} /\ queue' = queue
      /\ over' = [over EXCEPT ![f.from] = ends]
  BY DEF PushAnswered, IInv, Flag
<1>2. ASSUME NEW p \in Queues, NEW a \in Accounts
      PROVE  over'[p][a] = LastSent(p, a) /\ LastSent(p, a) \in Operations
  <2>1. LastSent(p, a) \in Operations
    BY AfterInType DEF IInv, LastSent
  <2>2. CASE Covers(f, p, a)
    <3>1. over'[p][a] = f.ops[a]
      BY <1>1, <2>2 DEF Covers, IInv
    <3>2. f.ops[a] = After(over[p][a])
      BY <2>2 DEF IInv, Ordered
    <3> QED BY <1>1, <2>1, <2>2, <3>1, <3>2 DEF LastSent
  <2>3. CASE ~Covers(f, p, a)
    <3>1. over'[p][a] = over[p][a]
      BY <1>1, <2>3 DEF Covers, IInv
    <3> QED BY <1>1, <2>1, <2>3, <3>1 DEF LastSent
  <2> QED BY <2>2, <2>3
<1>3. over' \in [Queues -> [Accounts -> Operations]]
  <2>1. \A p \in Queues : over'[p] \in [Accounts -> Operations]
    <3> SUFFICES ASSUME NEW p \in Queues PROVE over'[p] \in [Accounts -> Operations]
      OBVIOUS
    <3>1. over'[p] = IF p = f.from THEN ends ELSE over[p]
      BY <1>1 DEF IInv
    <3>2. DOMAIN over'[p] = Accounts /\ over'[p] = [a \in Accounts |-> over'[p][a]]
      BY <3>1 DEF IInv
    <3> QED BY <1>2, <3>2
  <2>2. over' = [p \in Queues |-> over'[p]]
    BY <1>1 DEF IInv
  <2> QED BY <2>1, <2>2
<1>4. ASSUME NEW p \in Queues, NEW a \in Accounts
      PROVE  Ordered(p, a)'
  <2>1. LastSent(p, a)' = over'[p][a]
    BY <1>1 DEF LastSent
  <2>2. Follows(queue[p][a], LastSent(p, a))
    BY DEF IInv, Ordered
  <2> QED BY <1>1, <1>2, <2>1, <2>2 DEF Ordered
<1> QED BY <1>1, <1>3, <1>4 DEF IInv

LEMMA NextIInv == IInv /\ [Next]_vars => IInv'
<1> SUFFICES ASSUME IInv, [Next]_vars PROVE IInv'
  OBVIOUS
<1>1. Flag'
  BY NextFlag DEF IInv
<1>2. CASE UNCHANGED <<queue, over, flights>>
  <2>1. ASSUME NEW q \in Queues, NEW a \in Accounts
        PROVE  Ordered(q, a)'
    BY <1>2 DEF IInv, Ordered, LastSent
  <2> QED BY <1>1, <1>2, <2>1 DEF IInv
<1>3. ASSUME NEW q \in Queues, Push(q)
      PROVE  IInv'
  <2>1. CASE PushSends(q)
    BY <1>1, <2>1, SendIInv
  <2>2. CASE PushBusy(q) \/ PushWaits(q) \/ PushEmpty(q)
    BY <1>2, <2>2 DEF PushBusy, PushWaits, PushEmpty, vars
  <2> QED BY <1>3, <2>1, <2>2 DEF Push
<1>4. ASSUME NEW q \in Queues, NEW a \in Accounts, QueueUserOp(q, a)
      PROVE  IInv'
  BY <1>1, <1>4, QueueIInv
<1>5. ASSUME NEW f \in flights, PushAnswered(f)
      PROVE  IInv'
  BY <1>1, <1>5, AnswerIInv
<1>6. CASE Tick
  BY <1>2, <1>6 DEF Tick
<1>7. CASE UNCHANGED vars
  BY <1>2, <1>7 DEF vars
<1> QED BY <1>3, <1>4, <1>5, <1>6, <1>7 DEF Next, NewOperation

LEMMA Invariant == Spec => []IInv
<1>1. Init => IInv
  <2> SUFFICES ASSUME Init PROVE IInv
    OBVIOUS
  <2>1. 0 \in Operations
    BY QueueAssumption DEF Operations
  <2>2. \A q \in Queues, a \in Accounts : Ordered(q, a)
    BY DEF Init, Ordered, Follows
  <2>3. /\ queue \in [Queues -> [Accounts -> Seq(Operations)]]
        /\ over \in [Queues -> [Accounts -> Operations]]
    BY <2>1 DEF Init
  <2>4. Flag
    BY DEF Init, Flag
  <2> QED BY <2>2, <2>3, <2>4 DEF IInv
<1> QED BY <1>1, NextIInv, PTL DEF Spec

\* Whatever is queued, pushed and answered, in whatever order, through whatever
\* senders and for however long: an account's operations reach the EntryPoint in the
\* order in which they were queued, each once, none left out.  (AASigner.ts:108, 171)
THEOREM AlwaysInOrder == Spec => []InOrder
<1>1. IInv => InOrder
  <2> SUFFICES ASSUME IInv, NEW q \in Queues, NEW a \in Accounts,
                      NEW j \in 1 .. Len(Line(q, a)) - 1
               PROVE  Line(q, a)[j + 1] = After(Line(q, a)[j])
    BY DEF InOrder
  <2> DEFINE line == Line(q, a)
             waits == queue[q][a]
  <2>1. PICK n \in {0, 1} :
           /\ waits \in Seq(Operations)
           /\ line \in Seq(Operations) /\ Len(line) = 1 + n + Len(waits)
           /\ line[1] = over[q][a]
           /\ n = 1 => line[2] = After(over[q][a])
           /\ line[1 + n] = LastSent(q, a)
           /\ \A k \in 1 .. Len(waits) : line[1 + n + k] = waits[k]
    BY LineIs
  <2>2. \A k \in 1 .. Len(waits) :
           waits[k] = After(IF k = 1 THEN LastSent(q, a) ELSE waits[k - 1])
    BY DEF IInv, Ordered, Follows
  <2>3. j \in 1 .. Len(line) - 1
    OBVIOUS
  <2> HIDE DEF line, waits
  <2>4. CASE j = 1 /\ n = 1
    BY <2>1, <2>4 DEF line
  <2>5. CASE j > n
    <3> DEFINE k == j - n
    <3>1. k \in 1 .. Len(waits) /\ j + 1 = 1 + n + k
      BY <2>1, <2>3, <2>5
    <3>2. line[j + 1] = waits[k]
      BY <2>1, <3>1
    <3>3. CASE k = 1
      BY <2>1, <2>2, <3>1, <3>2, <3>3 DEF line
    <3>4. CASE k # 1
      <4>1. k - 1 \in 1 .. Len(waits) /\ 1 + n + (k - 1) = j
        BY <2>1, <3>1, <3>4
      <4>2. line[j] = waits[k - 1]
        BY <2>1, <4>1
      <4> QED BY <2>2, <3>1, <3>2, <3>4, <4>2 DEF line
    <3> QED BY <3>3, <3>4
  <2> QED BY <2>1, <2>3, <2>4, <2>5
<1> QED BY <1>1, Invariant, PTL

-----------------------------------------------------------------------------
(* Types.                                                                  *)

LEMMA PlusInType ==
    ASSUME NEW x \in Numbers, NEW n \in Int
    PROVE  Plus(x, n) \in Numbers
BY DEF Plus, Numbers

LEMMA QueueTypeOK ==
    ASSUME IInv', TypeOK, NEW q \in Queues, NEW a \in Accounts, QueueUserOp(q, a)
    PROVE  TypeOK'
<1>1. /\ age' = [age EXCEPT ![q] = 0]
      /\ queueSize' = [queueSize EXCEPT ![q] = Plus(@, 1)]
      /\ UNCHANGED <<sending, flights, over>>
  BY DEF QueueUserOp
<1>2. queue' \in [Queues -> [Accounts -> Seq(Operations)]]
  BY DEF IInv
<1>3. queueSize' \in [Queues -> Numbers]
  BY <1>1, PlusInType DEF TypeOK
<1>4. age' \in [Queues -> 0 .. IDLE_TIME \cup {Undefined}]
  <2>1. 0 \in 0 .. IDLE_TIME
    BY QueueAssumption
  <2> QED BY <1>1, <2>1 DEF TypeOK
<1> QED BY <1>1, <1>2, <1>3, <1>4 DEF TypeOK

LEMMA SendTypeOK ==
    ASSUME TypeOK, NEW q \in Queues, PushSends(q)
    PROVE  TypeOK'
<1> DEFINE ops == [a \in Chosen(q) |-> Shift(queue[q][a]).op]
           left == [a \in Accounts |-> IF a \in Chosen(q) THEN Shift(queue[q][a]).rest
                                                         ELSE queue[q][a]]
<1>1. /\ flights' = flights \cup {[from |-> q, ops |-> ops]}
      /\ queue' = [queue EXCEPT ![q] = left]
      /\ queueSize' = [queueSize EXCEPT ![q] = Plus(@, -Cardinality(Chosen(q)))]
      /\ sending' = TRUE /\ UNCHANGED <<age, over>>
  BY DEF PushSends
<1>2. ASSUME NEW a \in Chosen(q)
      PROVE  /\ a \in Accounts /\ Shift(queue[q][a]).op \in Operations
             /\ Shift(queue[q][a]).rest \in Seq(Operations)
  <2>1. a \in Accounts /\ queue[q][a] \in Seq(Operations) /\ queue[q][a] # <<>>
    BY <1>2 DEF Chosen, TypeOK
  <2>2. Head(queue[q][a]) \in Operations /\ Tail(queue[q][a]) \in Seq(Operations)
    BY <2>1
  <2> QED BY <2>1, <2>2 DEF Shift
<1>3. [from |-> q, ops |-> ops] \in Bundles
  <2>1. ops \in [Chosen(q) -> Operations] /\ Chosen(q) \in SUBSET Accounts
    BY <1>2
  <2> HIDE DEF ops
  <2> QED BY <2>1 DEF Bundles
<1>4. left \in [Accounts -> Seq(Operations)]
  BY <1>2 DEF TypeOK
<1> HIDE DEF ops, left
<1>5. flights' \subseteq Bundles /\ queue' \in [Queues -> [Accounts -> Seq(Operations)]]
  BY <1>1, <1>3, <1>4 DEF TypeOK
<1>6. queueSize' \in [Queues -> Numbers]
  <2>1. Cardinality(Chosen(q)) \in Nat
    BY QueueAssumption, FS_Subset, FS_CardinalityType DEF Chosen
  <2>2. Plus(queueSize[q], -Cardinality(Chosen(q))) \in Numbers
    BY <2>1, PlusInType DEF TypeOK
  <2> QED BY <1>1, <2>2 DEF TypeOK
<1> QED BY <1>1, <1>5, <1>6 DEF TypeOK

LEMMA AnswerTypeOK ==
    ASSUME IInv', TypeOK, NEW f \in flights, PushAnswered(f)
    PROVE  TypeOK'
<1>1. /\ flights' = flights \ {f} /\ sending' = FALSE /\ UNCHANGED <<queue, queueSize, age>>
  BY DEF PushAnswered
<1> QED BY <1>1 DEF TypeOK, IInv

LEMMA TickTypeOK == TypeOK /\ Tick => TypeOK'
<1> SUFFICES ASSUME TypeOK, Tick PROVE TypeOK'
  OBVIOUS
<1>1. ASSUME NEW q \in Queues
      PROVE  (IF LessThan(age[q], IDLE_TIME) THEN age[q] + 1 ELSE age[q])
                \in 0 .. IDLE_TIME \cup {Undefined}
  <2>1. age[q] \in 0 .. IDLE_TIME \cup {Undefined} /\ IDLE_TIME \in Nat
    BY QueueAssumption DEF TypeOK
  <2>2. LessThan(age[q], IDLE_TIME) => age[q] \in Int /\ age[q] < IDLE_TIME
    BY DEF LessThan
  <2> QED BY <2>1, <2>2, QueueAssumption
<1>2. age' \in [Queues -> 0 .. IDLE_TIME \cup {Undefined}]
  BY <1>1 DEF Tick
<1> QED BY <1>2 DEF Tick, TypeOK

\* Types; only operations are sent, and no queue that is empty adds one to a bundle.
\* (AASigner.ts:171-175)
THEOREM TypeCorrect == Spec => []TypeOK
<1>1. Init => TypeOK
  <2> SUFFICES ASSUME Init PROVE TypeOK
    OBVIOUS
  <2>1. 0 \in Operations
    BY QueueAssumption DEF Operations
  <2>2. /\ queue \in [Queues -> [Accounts -> Seq(Operations)]]
        /\ over \in [Queues -> [Accounts -> Operations]]
    BY <2>1 DEF Init
  <2>3. /\ queueSize \in [Queues -> Numbers]
        /\ age \in [Queues -> 0 .. IDLE_TIME \cup {Undefined}]
        /\ sending \in BOOLEAN /\ flights \subseteq Bundles
    BY DEF Init, FirstSize, Numbers
  <2> QED BY <2>2, <2>3 DEF TypeOK
<1>2. IInv /\ TypeOK /\ [Next]_vars => TypeOK'
  <2> SUFFICES ASSUME IInv, TypeOK, [Next]_vars PROVE TypeOK'
    OBVIOUS
  <2>1. CASE UNCHANGED vars
    BY <2>1 DEF vars, TypeOK
  <2>0. IInv'
    BY NextIInv
  <2>2. ASSUME NEW q \in Queues, Push(q) PROVE TypeOK'
    BY <2>1, <2>2, SendTypeOK DEF Push, PushBusy, PushWaits, PushEmpty
  <2> QED BY <2>0, <2>1, <2>2, QueueTypeOK, AnswerTypeOK, TickTypeOK DEF Next, NewOperation
<1> QED BY <1>1, <1>2, Invariant, PTL DEF Spec
=============================================================================
