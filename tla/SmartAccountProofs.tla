------------------------- MODULE SmartAccountProofs -------------------------
(***************************************************************************)
(* The invariants of SmartAccount, proved for every set of addresses and   *)
(* every bound.                                                            *)
(***************************************************************************)
EXTENDS SmartAccount, Sums

(***************************************************************************)
(* Part 1: the list of modules.  Its operations keep it one ring through   *)
(* the sentinel and do to the set of enabled modules what their names say, *)
(* and pages read off the ring are segments of it.                         *)
(***************************************************************************)

\* Storage never written is a list of nothing.
LEMMA BlankWellFormed == WellFormed(Blank) /\ ~Started(Blank) /\ Enabled(Blank) = {}
BY ListAssumption DEF WellFormed, Blank, Mapping, Permutes, Returns, Linked,
                      Started, Enabled, IsEnabled

\* A list that holds anything holds the sentinel.
LEMMA LinkedStarted ==
    ASSUME NEW ms, WellFormed(ms), NEW a \in Addr, ms[a] # Zero
    PROVE  Started(ms)
<1>1. Linked(ms) # {} /\ Linked(ms) \in SUBSET Linked(ms)
  BY DEF Linked
<1>2. \A b \in Linked(ms) : ms[b] \in Linked(ms)
  BY DEF WellFormed, Permutes
<1>3. Sentinel \in Linked(ms)
  BY <1>1, <1>2 DEF WellFormed, Returns
<1> QED BY <1>3 DEF Linked, Started

\* Without a sentinel entry there is no entry at all.
LEMMA NotStartedBlank ==
    ASSUME NEW ms, WellFormed(ms), ~Started(ms)
    PROVE  ms = Blank
<1>1. \A a \in Addr : ms[a] = Zero
  BY LinkedStarted
<1> QED BY <1>1 DEF WellFormed, Mapping, Blank

\* No module follows itself.
LEMMA NoSelfLoop ==
    ASSUME NEW ms, WellFormed(ms), NEW m \in Proper
    PROVE  ms[m] # m
<1> SUFFICES ASSUME ms[m] = m PROVE FALSE
  OBVIOUS
<1>1. {m} \in SUBSET Linked(ms)
  BY DEF Linked, Proper
<1>2. Sentinel \in {m}
  BY <1>1 DEF WellFormed, Returns
<1> QED BY <1>2 DEF Proper

\* The first module makes a ring of one, provided nothing else was written.
LEMMA StartWellFormed ==
    ASSUME NEW ms \in Mapping, NEW m \in Proper,
           \A a \in Addr \ {m, Sentinel} : ms[a] = Zero
    PROVE  /\ WellFormed(Start(ms, m))
           /\ Started(Start(ms, m))
           /\ Enabled(Start(ms, m)) = {m}
<1> DEFINE new == Start(ms, m)
<1>1. new \in Mapping
  BY ListAssumption DEF Start, Mapping, Proper
<1>2. /\ new[m] = Sentinel
      /\ new[Sentinel] = m
      /\ \A a \in Addr \ {m, Sentinel} : new[a] = Zero
  BY ListAssumption DEF Start, Mapping, Proper
<1> HIDE DEF new
<1>3. Linked(new) = {m, Sentinel}
  BY <1>2, ListAssumption DEF Linked, Proper
<1>4. Permutes(new)
  BY <1>2, <1>3 DEF Permutes, Proper
<1>5. Returns(new)
  BY <1>2, <1>3 DEF Returns
<1>6. new[Zero] = Zero
  BY <1>2, ListAssumption DEF Proper
<1>7. Enabled(new) = {m}
  BY <1>2, ListAssumption DEF Enabled, IsEnabled, Proper
<1>8. Started(new)
  BY <1>2 DEF Started, Proper
<1> QED BY <1>1, <1>4, <1>5, <1>6, <1>7, <1>8 DEF WellFormed, new

\* An insertion behind the sentinel.
LEMMA LinkWellFormed ==
    ASSUME NEW ms, WellFormed(ms), Started(ms), NEW m, CanLink(ms, m)
    PROVE  /\ WellFormed(Link(ms, m))
           /\ Started(Link(ms, m))
           /\ m \notin Enabled(ms)
           /\ Enabled(Link(ms, m)) = Enabled(ms) \cup {m}
<1> DEFINE new == Link(ms, m)
<1>0. /\ m \in Addr /\ m # Zero /\ m # Sentinel /\ ms[m] = Zero
      /\ ms \in Mapping /\ ms[Zero] = Zero /\ ms[Sentinel] # Zero
      /\ Sentinel \in Addr /\ Zero \in Addr
  BY ListAssumption DEF CanLink, Proper, WellFormed, Started
<1>1. new \in Mapping
  BY <1>0 DEF Link, Mapping
<1>2. /\ new[m] = ms[Sentinel]
      /\ new[Sentinel] = m
      /\ \A a \in Addr \ {m, Sentinel} : new[a] = ms[a]
  BY <1>0 DEF Link, Mapping
<1> HIDE DEF new
<1>3. Linked(new) = Linked(ms) \cup {m}
  BY <1>0, <1>2 DEF Linked
<1>4. Sentinel \in Linked(ms) /\ m \notin Linked(ms)
  BY <1>0 DEF Linked
<1>5. Permutes(ms) /\ Returns(ms)
  BY DEF WellFormed
<1>6. \A a \in Linked(ms) : ms[a] \in Linked(ms) /\ ms[a] # m
  BY <1>4, <1>5 DEF Permutes
<1>7. Permutes(new)
  <2>1. \A a \in Linked(new) : new[a] \in Linked(new)
    BY <1>2, <1>3, <1>4, <1>6 DEF Linked
  <2>2. ASSUME NEW a \in Linked(new), NEW b \in Linked(new), new[a] = new[b]
        PROVE  a = b
    <3>0. a \in Addr /\ b \in Addr
      BY DEF Linked
    <3>1. CASE a = Sentinel
      BY <3>0, <3>1, <1>2, <1>3, <1>4, <1>6, <2>2
    <3>2. CASE b = Sentinel
      BY <3>0, <3>2, <1>2, <1>3, <1>4, <1>6, <2>2
    <3>3. CASE a # Sentinel /\ b # Sentinel
      <4>1. CASE a = m /\ b = m
        BY <4>1
      <4>2. CASE a = m /\ b # m
        BY <3>0, <3>3, <4>2, <1>2, <1>3, <1>4, <1>5, <2>2 DEF Permutes
      <4>3. CASE a # m /\ b = m
        BY <3>0, <3>3, <4>3, <1>2, <1>3, <1>4, <1>5, <2>2 DEF Permutes
      <4>4. CASE a # m /\ b # m
        BY <3>0, <3>3, <4>4, <1>2, <1>3, <1>5, <2>2 DEF Permutes
      <4> QED BY <4>1, <4>2, <4>3, <4>4
    <3> QED BY <3>1, <3>2, <3>3
  <2> QED BY <2>1, <2>2 DEF Permutes
<1>8. Returns(new)
  <2> SUFFICES ASSUME NEW T \in SUBSET Linked(new), T # {},
                      \A a \in T : new[a] \in T, Sentinel \notin T
               PROVE  FALSE
    BY DEF Returns
  <2> DEFINE U == T \ {m}
  <2>1. U \in SUBSET Linked(ms)
    BY <1>3
  <2>2. \A a \in U : ms[a] \in U
    <3> TAKE a \in U
    <3>1. a \in Linked(ms) /\ a # m /\ a # Sentinel /\ a \in Addr
      BY <2>1 DEF Linked
    <3>2. new[a] = ms[a] /\ new[a] \in T
      BY <3>1, <1>2
    <3> QED BY <3>1, <3>2, <1>6
  <2>3. U # {}
    <3>1. CASE m \in T
      <4>1. new[m] \in T /\ new[m] = ms[Sentinel]
        BY <3>1, <1>2
      <4>2. ms[Sentinel] # m
        BY <1>4, <1>6
      <4> QED BY <4>1, <4>2
    <3>2. CASE m \notin T
      BY <3>2
    <3> QED BY <3>1, <3>2
  <2>4. Sentinel \in U
    BY <2>1, <2>2, <2>3, <1>5 DEF Returns
  <2> QED BY <2>4
<1>9. new[Zero] = Zero
  BY <1>0, <1>2, ListAssumption
<1>10. Enabled(new) = Enabled(ms) \cup {m} /\ m \notin Enabled(ms)
  BY <1>0, <1>2 DEF Enabled, IsEnabled
<1>11. Started(new)
  BY <1>0, <1>2 DEF Started
<1> QED BY <1>1, <1>7, <1>8, <1>9, <1>10, <1>11 DEF WellFormed, new

\* A removal behind the named predecessor, the last module included.
LEMMA UnlinkWellFormed ==
    ASSUME NEW ms, WellFormed(ms), NEW prev \in Addr, NEW m, CanUnlink(ms, prev, m)
    PROVE  /\ WellFormed(Unlink(ms, prev, m))
           /\ Started(ms)
           /\ Started(Unlink(ms, prev, m))
           /\ m \in Enabled(ms)
           /\ Enabled(Unlink(ms, prev, m)) = Enabled(ms) \ {m}
<1> DEFINE new == Unlink(ms, prev, m)
<1>0. /\ m \in Addr /\ m # Zero /\ m # Sentinel /\ ms[prev] = m
      /\ ms \in Mapping /\ ms[Zero] = Zero
      /\ Sentinel \in Addr /\ Zero \in Addr
  BY ListAssumption DEF CanUnlink, Proper, WellFormed
<1>1. prev \in Linked(ms) /\ m \in Linked(ms)
  <2>1. prev \in Linked(ms)
    BY <1>0 DEF Linked
  <2> QED BY <1>0, <2>1 DEF WellFormed, Permutes
<1>2. prev # m
  BY NoSelfLoop, <1>0 DEF Proper
<1>3. /\ new[prev] = ms[m] /\ new[m] = Zero
      /\ \A a \in Addr \ {prev, m} : new[a] = ms[a]
      /\ new \in Mapping
  BY <1>0, <1>2 DEF Unlink, Mapping
<1> HIDE DEF new
<1>4. Permutes(ms) /\ Returns(ms)
  BY DEF WellFormed
<1>5. ms[m] \in Linked(ms) /\ ms[m] # Zero /\ ms[m] # m
  BY <1>0, <1>1, <1>2, <1>4 DEF Permutes, Linked
<1>6. Linked(new) = Linked(ms) \ {m}
  BY <1>0, <1>1, <1>2, <1>3, <1>5 DEF Linked
<1>7. Permutes(new)
  <2>1. ASSUME NEW a \in Linked(new) PROVE new[a] \in Linked(new)
    <3>0. a \in Addr /\ a # m /\ a \in Linked(ms)
      BY <1>6, <2>1 DEF Linked
    <3>1. CASE a = prev
      BY <3>1, <1>3, <1>5, <1>6
    <3>2. CASE a # prev
      <4>1. new[a] = ms[a] /\ ms[a] \in Linked(ms)
        BY <3>0, <3>2, <1>3, <1>4 DEF Permutes
      <4>2. ms[a] # m
        BY <3>0, <3>2, <1>0, <1>1, <1>4 DEF Permutes
      <4> QED BY <4>1, <4>2, <1>6
    <3> QED BY <3>1, <3>2
  <2>2. ASSUME NEW a \in Linked(new), NEW b \in Linked(new), new[a] = new[b]
        PROVE  a = b
    <3>0. /\ a \in Addr /\ a # m /\ a \in Linked(ms)
          /\ b \in Addr /\ b # m /\ b \in Linked(ms)
      BY <1>6, <2>2 DEF Linked
    <3>1. CASE a = prev /\ b # prev
      BY <3>0, <3>1, <1>1, <1>3, <1>4, <2>2 DEF Permutes
    <3>2. CASE a # prev /\ b = prev
      BY <3>0, <3>2, <1>1, <1>3, <1>4, <2>2 DEF Permutes
    <3>3. CASE a # prev /\ b # prev
      BY <3>0, <3>3, <1>3, <1>4, <2>2 DEF Permutes
    <3> QED BY <3>1, <3>2, <3>3
  <2> QED BY <2>1, <2>2 DEF Permutes
<1>8. Returns(new)
  <2> SUFFICES ASSUME NEW T \in SUBSET Linked(new), T # {},
                      \A a \in T : new[a] \in T, Sentinel \notin T
               PROVE  FALSE
    BY DEF Returns
  <2>0. T \in SUBSET Linked(ms) /\ m \notin T /\ T \subseteq Addr
    BY <1>6 DEF Linked
  <2>1. CASE prev \notin T
    <3>1. \A a \in T : ms[a] \in T
      BY <2>0, <2>1, <1>3
    <3> QED BY <3>1, <2>0, <1>4 DEF Returns
  <2>2. CASE prev \in T
    <3> DEFINE U == T \cup {m}
    <3>1. U \in SUBSET Linked(ms) /\ U # {}
      BY <2>0, <1>1
    <3>2. ms[m] \in T
      BY <2>2, <1>3
    <3>3. \A a \in U : ms[a] \in U
      BY <3>2, <2>0, <1>0, <1>3
    <3>4. Sentinel \in U
      BY <3>1, <3>3, <1>4 DEF Returns
    <3> QED BY <3>4, <1>0
  <2> QED BY <2>1, <2>2
<1>9. new[Zero] = Zero
  BY <1>0, <1>1, <1>3 DEF Linked
<1>10. Enabled(new) = Enabled(ms) \ {m} /\ m \in Enabled(ms)
  BY <1>0, <1>1, <1>2, <1>3, <1>5 DEF Enabled, IsEnabled, Linked
<1>11. Started(ms)
  BY <1>0, LinkedStarted
<1>12. Started(new)
  BY <1>0, <1>3, <1>5, <1>11 DEF Started
<1> QED BY <1>3, <1>7, <1>8, <1>9, <1>10, <1>11, <1>12 DEF WellFormed, new

-----------------------------------------------------------------------------
(* Walks along the links.                                                  *)

\* The next address on a walk that stays where it has come to an end.
Step(ms, a) == IF AtEnd(a) THEN a ELSE ms[a]

Walk(ms, start, n, w) ==
    w = [k \in 0 .. n |-> IF k = 0 THEN ms[start] ELSE Step(ms, w[k - 1])]

LEMMA WalkAt ==
    \A ms, start, w : \A n \in Nat :
       Walk(ms, start, n, w) => /\ w[0] = ms[start]
                                /\ \A k \in 1 .. n : w[k] = Step(ms, w[k - 1])
<1> SUFFICES ASSUME NEW ms, NEW start, NEW w, NEW n \in Nat, Walk(ms, start, n, w)
             PROVE  /\ w[0] = ms[start]
                    /\ \A k \in 1 .. n : w[k] = Step(ms, w[k - 1])
  OBVIOUS
<1> DEFINE rhs == [k \in 0 .. n |-> IF k = 0 THEN ms[start] ELSE Step(ms, w[k - 1])]
<1>1. w = rhs
  BY DEF Walk
<1>2. rhs[0] = ms[start] /\ \A k \in 1 .. n : rhs[k] = Step(ms, w[k - 1])
  OBVIOUS
<1> HIDE DEF rhs
<1> QED BY <1>1, <1>2

\* There is a walk of any length: the shortest for which there is none would be one
\* step longer than one.
LEMMA WalkExists ==
    ASSUME NEW ms, NEW start, NEW n \in Nat
    PROVE  \E w : Walk(ms, start, n, w)
<1> DEFINE Bad == {k \in Nat : ~ \E w : Walk(ms, start, k, w)}
<1> SUFFICES ASSUME Bad # {} PROVE FALSE
  OBVIOUS
<1>1. PICK m \in Bad : \A k \in Bad : m <= k
  <2>1. Bad \in SUBSET Nat
    OBVIOUS
  <2> HIDE DEF Bad
  <2> QED BY <2>1, LeastOf
<1>2. m # 0
  <2>1. Walk(ms, start, 0, [k \in 0 .. 0 |-> ms[start]])
    BY DEF Walk
  <2> QED BY <1>1, <2>1
<1>3. m - 1 \in Nat /\ m - 1 \notin Bad
  BY <1>1, <1>2
<1>4. PICK v : Walk(ms, start, m - 1, v)
  BY <1>3
<1> DEFINE w == [k \in 0 .. m |-> IF k = m THEN Step(ms, v[m - 1]) ELSE v[k]]
<1>5. v[0] = ms[start] /\ \A k \in 1 .. m - 1 : v[k] = Step(ms, v[k - 1])
  BY <1>3, <1>4, WalkAt
<1>6. ASSUME NEW k \in 0 .. m
      PROVE  w[k] = IF k = 0 THEN ms[start] ELSE Step(ms, w[k - 1])
  <2>1. CASE k = 0
    BY <1>2, <1>5, <2>1
  <2>2. CASE k # 0 /\ k # m
    <3>1. k \in 1 .. m - 1 /\ w[k] = v[k] /\ w[k - 1] = v[k - 1]
      BY <2>2
    <3> QED BY <1>5, <2>2, <3>1
  <2>3. CASE k # 0 /\ k = m
    <3>1. w[k - 1] = v[m - 1] /\ w[k] = Step(ms, v[m - 1])
      BY <2>3
    <3> QED BY <2>3, <3>1
  <2> QED BY <2>1, <2>2, <2>3
<1>7. Walk(ms, start, m, w)
  <2>1. w = [k \in 0 .. m |-> w[k]]
    OBVIOUS
  <2> HIDE DEF w
  <2> QED BY <1>6, <2>1 DEF Walk
<1> QED BY <1>1, <1>7

\* Walks from one start do not part.
LEMMA WalksAgree ==
    ASSUME NEW ms, NEW start, NEW n \in Nat, NEW m \in Nat, NEW v, NEW w,
           Walk(ms, start, n, v), Walk(ms, start, m, w), NEW k0 \in Nat, k0 <= n, k0 <= m
    PROVE  v[k0] = w[k0]
<1> DEFINE Bad == {k \in 0 .. n : k <= m /\ v[k] # w[k]}
<1> SUFFICES ASSUME Bad # {} PROVE FALSE
  OBVIOUS
<1>1. PICK k \in Bad : \A j \in Bad : k <= j
  <2>1. Bad \in SUBSET Nat
    OBVIOUS
  <2> HIDE DEF Bad
  <2> QED BY <2>1, LeastOf
<1>2. /\ v[0] = ms[start] /\ \A j \in 1 .. n : v[j] = Step(ms, v[j - 1])
      /\ w[0] = ms[start] /\ \A j \in 1 .. m : w[j] = Step(ms, w[j - 1])
  <2>1. v[0] = ms[start] /\ \A j \in 1 .. n : v[j] = Step(ms, v[j - 1])
    BY WalkAt
  <2>2. w[0] = ms[start] /\ \A j \in 1 .. m : w[j] = Step(ms, w[j - 1])
    BY WalkAt
  <2> QED BY <2>1, <2>2
<1>3. k # 0
  BY <1>1, <1>2
<1>4. v[k - 1] = w[k - 1]
  BY <1>1, <1>3
<1>5. k \in 1 .. n /\ k \in 1 .. m
  BY <1>1, <1>3
<1> QED BY <1>1, <1>2, <1>4, <1>5

\* The cursor walks.
LEMMA CursorWalks ==
    ASSUME NEW ms, NEW start, NEW n \in Nat
    PROVE  \E w : Walk(ms, start, n, w) /\ Cursor(ms, start, n) = w[n]
<1> DEFINE at == CHOOSE w : w = [k \in 0 .. n |-> IF k = 0 THEN ms[start]
                                                  ELSE IF AtEnd(w[k - 1]) THEN w[k - 1]
                                                       ELSE ms[w[k - 1]]]
<1>1. Cursor(ms, start, n) = at[n]
  BY DEF Cursor
<1>2. \E w : w = [k \in 0 .. n |-> IF k = 0 THEN ms[start]
                                   ELSE IF AtEnd(w[k - 1]) THEN w[k - 1]
                                        ELSE ms[w[k - 1]]]
  <2>1. PICK w : Walk(ms, start, n, w)
    BY WalkExists
  <2> QED BY <2>1 DEF Walk, Step
<1>3. Walk(ms, start, n, at)
  BY <1>2 DEF Walk, Step
<1> HIDE DEF at
<1> QED BY <1>1, <1>3

LEMMA CursorStart ==
    ASSUME NEW ms, NEW start
    PROVE  Cursor(ms, start, 0) = ms[start]
<1>1. PICK w : Walk(ms, start, 0, w) /\ Cursor(ms, start, 0) = w[0]
  BY CursorWalks
<1>2. w = [k \in 0 .. 0 |-> IF k = 0 THEN ms[start] ELSE Step(ms, w[k - 1])]
  BY <1>1 DEF Walk
<1>3. w[0] = ms[start]
  <2>1. 0 \in 0 .. 0
    OBVIOUS
  <2> QED BY <1>2, <2>1
<1> QED BY <1>1, <1>3

LEMMA WalkLast ==
    ASSUME NEW ms, NEW start, NEW n \in Nat, NEW m \in Nat, m = n + 1,
           NEW w, Walk(ms, start, m, w)
    PROVE  w[m] = Step(ms, w[n])
<1> DEFINE rhs == [k \in 0 .. m |-> IF k = 0 THEN ms[start] ELSE Step(ms, w[k - 1])]
<1>1. w = rhs
  BY DEF Walk
<1>2. m \in 0 .. m /\ m # 0 /\ m - 1 = n
  OBVIOUS
<1>3. rhs[m] = Step(ms, w[n])
  BY <1>2
<1> HIDE DEF rhs
<1> QED BY <1>1, <1>3

LEMMA CursorStep ==
    ASSUME NEW ms, NEW start, NEW n \in Nat
    PROVE  Cursor(ms, start, n + 1) = Step(ms, Cursor(ms, start, n))
<1>1. PICK v : Walk(ms, start, n, v) /\ Cursor(ms, start, n) = v[n]
  BY CursorWalks
<1>2. PICK m \in Nat : m = n + 1
  OBVIOUS
<1>3. PICK w : Walk(ms, start, m, w) /\ Cursor(ms, start, m) = w[m]
  BY <1>2, CursorWalks
<1>4. w[m] = Step(ms, w[n])
  BY <1>2, <1>3, WalkLast
<1>5. v[n] = w[n]
  BY <1>1, <1>2, <1>3, WalksAgree
<1> QED BY <1>1, <1>2, <1>3, <1>4, <1>5

\* A walk meets its end after n addresses.
Ends(ms, start, n) == /\ AtEnd(Cursor(ms, start, n))
                      /\ \A k \in 0 .. n - 1 : ~AtEnd(Cursor(ms, start, k))

\* What a page holds of such a walk: all there is, or as much as was asked for.
LEMMA PageHolds ==
    ASSUME NEW ms, NEW start, NEW n \in Nat, Ends(ms, start, n), NEW size \in Nat,
           NEW m, m = IF n <= size THEN n ELSE size
    PROVE  /\ Page(ms, start, size).array = [k \in 1 .. m |-> Cursor(ms, start, k - 1)]
           /\ Page(ms, start, size).next = Cursor(ms, start, m)
<1> DEFINE ends  == {k \in 0 .. size : AtEnd(Cursor(ms, start, k))}
           count == IF ends = {} THEN size
                    ELSE CHOOSE k \in ends : \A j \in ends : k <= j
<1>1. Page(ms, start, size) = [array |-> [k \in 1 .. count |-> Cursor(ms, start, k - 1)],
                               next  |-> Cursor(ms, start, count)]
  BY DEF Page
<1>2. \A k \in ends : n <= k
  BY DEF Ends
<1>3. CASE n <= size
  <2>1. n \in ends
    BY <1>3 DEF Ends
  <2>2. count \in ends /\ \A j \in ends : count <= j
    <3> HIDE DEF ends
    <3> QED BY <1>2, <2>1
  <2>3. count = n /\ m = n
    <3>1. count \in Nat /\ count <= n /\ n <= count
      BY <1>2, <2>1, <2>2
    <3> QED BY <1>3, <3>1
  <2> HIDE DEF count
  <2> QED BY <1>1, <2>3
<1>4. CASE ~(n <= size)
  <2>1. ends = {}
    BY <1>2, <1>4
  <2>2. count = size /\ m = size
    BY <1>4, <2>1
  <2> HIDE DEF count
  <2> QED BY <1>1, <2>2
<1> QED BY <1>3, <1>4

\* In a ring the cursor stays among the entries.
LEMMA CursorLinked ==
    ASSUME NEW ms, WellFormed(ms), Started(ms), NEW k0 \in Nat
    PROVE  Cursor(ms, Sentinel, k0) \in Linked(ms)
<1> DEFINE Bad == {k \in Nat : Cursor(ms, Sentinel, k) \notin Linked(ms)}
<1> SUFFICES ASSUME Bad # {} PROVE FALSE
  OBVIOUS
<1>1. PICK k \in Bad : \A j \in Bad : k <= j
  <2>1. Bad \in SUBSET Nat
    OBVIOUS
  <2> HIDE DEF Bad
  <2> QED BY <2>1, LeastOf
<1>2. Sentinel \in Linked(ms) /\ \A a \in Linked(ms) : ms[a] \in Linked(ms)
  BY ListAssumption DEF Started, Linked, WellFormed, Permutes
<1>3. k # 0
  BY <1>1, <1>2, CursorStart
<1>4. PICK j \in Nat : k = j + 1
  BY <1>1, <1>3
<1>5. Cursor(ms, Sentinel, j) \in Linked(ms)
  BY <1>1, <1>4
<1>6. Cursor(ms, Sentinel, k) = Step(ms, Cursor(ms, Sentinel, j))
  BY <1>4, CursorStep
<1> QED BY <1>1, <1>2, <1>5, <1>6 DEF Step

\* So it is at an end exactly at the sentinel.
LEMMA EndIsSentinel ==
    ASSUME NEW ms, WellFormed(ms), NEW a \in Linked(ms)
    PROVE  AtEnd(a) <=> a = Sentinel
BY DEF AtEnd, WellFormed, Linked

\* From the sentinel it comes back to the sentinel, after some number of modules.
LEMMA RingEnds ==
    ASSUME NEW ms, WellFormed(ms), Started(ms)
    PROVE  \E n \in Nat : Ends(ms, Sentinel, n)
<1> DEFINE c(k) == Cursor(ms, Sentinel, k)
           E == {k \in Nat : AtEnd(c(k))}
<1>1. E # {}
  <2> SUFFICES ASSUME E = {} PROVE FALSE
    OBVIOUS
  <2> DEFINE T == {c(k) : k \in Nat}
  <2>1. T \in SUBSET Linked(ms)
    BY CursorLinked
  <2>2. \A k \in Nat : ~AtEnd(c(k))
    OBVIOUS
  <2>3. \A k \in Nat : k + 1 \in Nat /\ c(k + 1) = ms[c(k)]
    BY <2>2, CursorStep DEF Step
  <2>4. T # {} /\ \A a \in T : ms[a] \in T
    BY <2>3
  <2>5. Sentinel \in T
    <3> HIDE DEF T
    <3> QED BY <2>1, <2>4 DEF WellFormed, Returns
  <2> QED BY <2>2, <2>5 DEF AtEnd
<1>2. PICK n \in E : \A k \in E : n <= k
  <2>1. E \in SUBSET Nat
    OBVIOUS
  <2> HIDE DEF E
  <2> QED BY <1>1, <2>1, LeastOf
<1>3. n \in Nat /\ AtEnd(c(n)) /\ \A k \in 0 .. n - 1 : ~AtEnd(c(k))
  BY <1>2
<1> QED BY <1>3 DEF Ends

\* On the way it meets every enabled module, and none twice.
LEMMA RingShows ==
    ASSUME NEW ms, WellFormed(ms), Started(ms), NEW n \in Nat, Ends(ms, Sentinel, n)
    PROVE  /\ Cursor(ms, Sentinel, n) = Sentinel
           /\ {Cursor(ms, Sentinel, k - 1) : k \in 1 .. n} = Enabled(ms)
           /\ \A i, j \in 1 .. n :
                 Cursor(ms, Sentinel, i - 1) = Cursor(ms, Sentinel, j - 1) => i = j
<1> DEFINE c(k) == Cursor(ms, Sentinel, k)
           M == {c(k - 1) : k \in 1 .. n}
           V == M \cup {Sentinel}
<1>1. /\ \A k \in Nat : c(k) \in Linked(ms) /\ (AtEnd(c(k)) <=> c(k) = Sentinel)
      /\ c(0) = ms[Sentinel]
      /\ \A k \in Nat : c(k + 1) = Step(ms, c(k))
  BY CursorLinked, EndIsSentinel, CursorStart, CursorStep
<1>2. c(n) = Sentinel /\ \A k \in 0 .. n - 1 : c(k) # Sentinel /\ c(k + 1) = ms[c(k)]
  BY <1>1 DEF Ends, Step
<1>3. /\ \A a, b \in Linked(ms) : ms[a] = ms[b] => a = b
      /\ \A a \in Linked(ms) : ms[a] \in Linked(ms) /\ a \in Addr
      /\ Sentinel \in Linked(ms)
  BY ListAssumption DEF WellFormed, Permutes, Started, Linked
<1> HIDE DEF c
<1>4. \A k \in 1 .. n : k - 1 \in 0 .. n - 1 /\ k - 1 \in Nat
  OBVIOUS
<1>5. M \subseteq Linked(ms) \ {Sentinel}
  BY <1>1, <1>2, <1>4
<1>6. \A b \in V : \E a \in V : a \in Linked(ms) /\ b = ms[a]
  <2> SUFFICES ASSUME NEW b \in V PROVE \E a \in V : a \in Linked(ms) /\ b = ms[a]
    OBVIOUS
  <2>1. PICK k \in 0 .. n : b = c(k)
    <3>1. CASE b = Sentinel
      BY <1>2, <3>1
    <3>2. CASE b \in M
      BY <3>2
    <3> QED BY <3>1, <3>2
  <2>2. CASE k = 0
    BY <1>1, <1>3, <2>1, <2>2
  <2>3. CASE k # 0
    <3>1. k \in 1 .. n /\ k - 1 \in 0 .. n - 1 /\ (k - 1) + 1 = k /\ k - 1 \in Nat
      BY <2>3
    <3>2. b = ms[c(k - 1)] /\ c(k - 1) \in V
      BY <1>2, <2>1, <3>1
    <3>3. c(k - 1) \in Linked(ms)
      BY <1>1, <3>1
    <3> HIDE DEF V
    <3> QED BY <3>2, <3>3
  <2> QED BY <2>2, <2>3
<1>7. Linked(ms) \subseteq V
  <2> DEFINE U == Linked(ms) \ V
  <2>1. \A a \in U : ms[a] \in U
    <3> SUFFICES ASSUME NEW a \in U, ms[a] \in V PROVE FALSE
      BY <1>3
    <3>1. PICK b \in V : b \in Linked(ms) /\ ms[a] = ms[b]
      <4> HIDE DEF V
      <4> QED BY <1>6
    <3> QED BY <1>3, <3>1
  <2>2. Sentinel \notin U /\ U \in SUBSET Linked(ms)
    OBVIOUS
  <2> HIDE DEF V
  <2>3. U = {}
    <3> HIDE DEF U
    <3> QED BY <2>1, <2>2 DEF WellFormed, Returns
  <2> QED BY <2>3
<1>8. Enabled(ms) = Linked(ms) \ {Sentinel}
  BY DEF Enabled, IsEnabled, Linked
<1>9. M = Enabled(ms)
  BY <1>5, <1>7, <1>8
<1>10. ASSUME NEW i \in 1 .. n, NEW j \in 1 .. n, c(i - 1) = c(j - 1), i < j
       PROVE  FALSE
  <2> DEFINE Bad == {k \in Nat : k < n /\ \E l \in 0 .. n - 1 : k < l /\ c(k) = c(l)}
  <2>1. PICK k \in Bad : \A l \in Bad : k <= l
    <3>1. Bad \in SUBSET Nat
      OBVIOUS
    <3>2. i - 1 \in Bad
      BY <1>10
    <3> HIDE DEF Bad
    <3> QED BY <3>1, <3>2, LeastOf
  <2>2. PICK l \in 0 .. n - 1 : k < l /\ c(k) = c(l)
    BY <2>1
  <2>3. l - 1 \in 0 .. n - 1 /\ (l - 1) + 1 = l /\ l - 1 \in Nat /\ k \in Nat /\ k < n
    BY <2>1, <2>2
  <2>4. c(l) = ms[c(l - 1)] /\ c(l - 1) \in Linked(ms) /\ c(l - 1) # Sentinel
    BY <1>1, <1>2, <2>3
  <2>5. CASE k = 0
    BY <1>1, <1>3, <2>2, <2>4, <2>5
  <2>6. CASE k # 0
    <3>1. k - 1 \in 0 .. n - 1 /\ (k - 1) + 1 = k /\ k - 1 \in Nat /\ k - 1 < l - 1 /\ k - 1 < n
      BY <2>2, <2>3, <2>6
    <3>2. c(k) = ms[c(k - 1)] /\ c(k - 1) \in Linked(ms)
      BY <1>1, <1>2, <3>1
    <3>3. c(k - 1) = c(l - 1)
      BY <1>3, <2>2, <2>4, <3>2
    <3>4. k - 1 \in Bad
      BY <2>3, <3>1, <3>3
    <3> QED BY <2>1, <2>3, <3>4
  <2> QED BY <2>5, <2>6
<1>11. \A i, j \in 1 .. n : c(i - 1) = c(j - 1) => i = j
  <2> SUFFICES ASSUME NEW i \in 1 .. n, NEW j \in 1 .. n, c(i - 1) = c(j - 1), i # j PROVE FALSE
    OBVIOUS
  <2>1. CASE i < j
    BY <1>10, <2>1
  <2>2. CASE j < i
    BY <1>10, <2>2
  <2> QED BY <2>1, <2>2
<1> QED BY <1>2, <1>9, <1>11 DEF c

\* A page that has room for every address shows the enabled modules, each once.
LEMMA PageShows ==
    ASSUME NEW ms, WellFormed(ms), Started(ms), NEW p, p = Page(ms, Sentinel, Cardinality(Addr))
    PROVE  /\ {p.array[k] : k \in 1 .. Len(p.array)} = Enabled(ms)
           /\ Len(p.array) = Cardinality(Enabled(ms))
           /\ p.next = Sentinel
<1>1. PICK n \in Nat : Ends(ms, Sentinel, n)
  BY RingEnds
<1> DEFINE show == [k \in 1 .. n |-> Cursor(ms, Sentinel, k - 1)]
<1>2. /\ Cursor(ms, Sentinel, n) = Sentinel
      /\ {Cursor(ms, Sentinel, k - 1) : k \in 1 .. n} = Enabled(ms)
      /\ \A i, j \in 1 .. n :
            Cursor(ms, Sentinel, i - 1) = Cursor(ms, Sentinel, j - 1) => i = j
  BY <1>1, RingShows
<1>3. Cardinality(Enabled(ms)) = n
  <2>1. show \in Bijection(1 .. n, Enabled(ms))
    BY <1>2 DEF Bijection, Injection, Surjection, IsInjective
  <2> HIDE DEF show
  <2> QED BY <2>1, FS_CountingElements DEF ExistsBijection
<1>4. n <= Cardinality(Addr) /\ Cardinality(Addr) \in Nat
  <2>1. IsFiniteSet(Addr) /\ Enabled(ms) \subseteq Addr
    BY ListAssumption DEF Enabled
  <2> QED BY <1>3, <2>1, FS_Subset, FS_CardinalityType
<1>5. p.array = show /\ p.next = Sentinel
  BY <1>1, <1>2, <1>4, PageHolds
<1>6. Len(show) = n
  OBVIOUS
<1>7. {show[k] : k \in 1 .. n} = Enabled(ms)
  BY <1>2
<1> HIDE DEF show
<1> QED BY <1>3, <1>5, <1>6, <1>7

(***************************************************************************)
(* Part 2: the stack operations.                                           *)
(***************************************************************************)

LEMMA AddrFacts ==
    /\ Zero \in Addr /\ Sentinel \in Addr /\ Account \in Addr /\ EntryPoint \in Addr
    /\ CodeLess \in Addr /\ Contracts \subseteq Addr /\ Implementations \subseteq Addr
    /\ Handlers \subseteq Addr /\ Candidates \subseteq Addr
    /\ Account # EntryPoint /\ Account \notin Contracts /\ EntryPoint \notin Contracts
    /\ Zero # Sentinel /\ None \notin Addr /\ Fail \notin Addr /\ None # Fail
BY AccountAssumption, ListAssumption DEF Proper

\* The current storage is a storage, so a frame entered now is a frame.
LEMMA StoreInType ==
    ASSUME TypeOK
    PROVE  Store \in StoreType
BY DEF TypeOK, Store, StoreType

LEMMA FrameInType ==
    ASSUME TypeOK, NEW c \in Code, NEW a \in Addr, NEW n \in Nat
    PROVE  /\ Frame(c, a, n) \in FrameType
           /\ Frame(c, a, n).code = c
           /\ Frame(c, a, n).self = a
           /\ Frame(c, a, n).left = n
           /\ Frame(c, a, n).saved = Store
BY StoreInType DEF Frame, FrameType

LEMMA DeliveredInType ==
    ASSUME NEW c \in Code, NEW v \in Addr \cup {Fail}
    PROVE  Delivered(c, v) \in Addr \cup {None, Fail}
BY DEF Delivered

\* The frame on top is a frame.
LEMMA TopInType ==
    ASSUME TypeOK, frames # <<>>
    PROVE  /\ Depth \in Nat /\ Depth >= 1 /\ Depth \in 1 .. Depth
           /\ Top \in FrameType
           /\ Top.code \in Code /\ Top.self \in Addr /\ Top.left \in Nat
           /\ Top.saved \in StoreType
<1>1. frames \in Seq(FrameType) /\ Len(frames) \in Nat /\ Len(frames) # 0
  BY EmptySeq, LenProperties DEF TypeOK
<1>2. Depth \in 1 .. Len(frames)
  BY <1>1 DEF Depth
<1>3. Top \in FrameType
  BY <1>1, <1>2, ElementOfSeq DEF Top, Depth
<1> QED BY <1>1, <1>2, <1>3 DEF FrameType, Depth

\* Making a call changes nothing but the calls the top frame has left.
LEMMA SpentFacts ==
    ASSUME TypeOK, frames # <<>>
    PROVE  /\ Spent \in Seq(FrameType)
           /\ Len(Spent) = Depth
           /\ \A k \in 1 .. Depth : /\ Spent[k].code = frames[k].code
                                    /\ Spent[k].self = frames[k].self
                                    /\ Spent[k].saved = frames[k].saved
                                    /\ Spent[k].left \in Nat
                                    /\ Spent[k].left <= frames[k].left
<1> DEFINE n == IF Top.left = 0 THEN 0 ELSE Top.left - 1
           new == [Top EXCEPT !.left = n]
<1>0. frames \in Seq(FrameType)
  BY DEF TypeOK
<1>1. /\ n \in Nat /\ n <= Top.left /\ new \in FrameType
      /\ new.code = Top.code /\ new.self = Top.self /\ new.saved = Top.saved
      /\ new.left = n
  BY TopInType DEF FrameType
<1>2. Spent = [frames EXCEPT ![Depth] = new]
  BY DEF Spent, Top
<1> HIDE DEF new, n
<1>3. Depth \in 1 .. Len(frames)
  BY TopInType DEF Depth
<1>4. /\ Spent \in Seq(FrameType) /\ Len(Spent) = Len(frames)
      /\ \A k \in 1 .. Len(frames) : Spent[k] = IF k = Depth THEN new ELSE frames[k]
  BY <1>0, <1>1, <1>2, <1>3, ExceptSeq
<1>5. \A k \in 1 .. Depth : frames[k].left \in Nat
  <2>1. \A k \in 1 .. Len(frames) : frames[k] \in FrameType
    BY <1>0, ElementOfSeq
  <2> QED BY <2>1 DEF Depth, FrameType
<1> QED BY <1>1, <1>4, <1>5 DEF Depth, Top

\* Entering a frame leaves the frames below as they were.
LEMMA EnterFacts ==
    ASSUME TypeOK, frames # <<>>, NEW c \in Code, NEW a \in Addr, NEW n \in Nat,
           Enter(c, a, n)
    PROVE  /\ frames' \in Seq(FrameType)
           /\ Depth' = Depth + 1
           /\ \A k \in 1 .. Depth : /\ frames'[k].code = frames[k].code
                                    /\ frames'[k].self = frames[k].self
                                    /\ frames'[k].saved = frames[k].saved
                                    /\ frames'[k].left <= frames[k].left
           /\ frames'[Depth'].code = c
           /\ frames'[Depth'].self = a
           /\ frames'[Depth'].left = n
           /\ frames'[Depth'].saved = Store
           /\ ret' = None
<1> DEFINE f == Frame(c, a, n)
<1>1. f \in FrameType /\ f.code = c /\ f.self = a /\ f.left = n /\ f.saved = Store
  BY FrameInType
<1>2. frames' = Append(Spent, f) /\ ret' = None
  BY DEF Enter
<1> HIDE DEF f
<1>3. Spent \in Seq(FrameType) /\ Len(Spent) = Depth
  BY SpentFacts
<1>4. /\ frames' \in Seq(FrameType) /\ Len(frames') = Depth + 1
      /\ \A k \in 1 .. Depth : frames'[k] = Spent[k]
      /\ frames'[Depth + 1] = f
  BY <1>1, <1>2, <1>3, AppendProperties
<1>5. Depth' = Depth + 1
  BY <1>4 DEF Depth
<1> QED BY <1>1, <1>2, <1>4, <1>5, SpentFacts

\* A call without a frame of its own leaves the stack as it was.
LEMMA AnswerFacts ==
    ASSUME TypeOK, frames # <<>>, NEW v \in Addr \cup {Fail}, Answer(v)
    PROVE  /\ frames' \in Seq(FrameType)
           /\ Depth' = Depth
           /\ \A k \in 1 .. Depth : /\ frames'[k].code = frames[k].code
                                    /\ frames'[k].self = frames[k].self
                                    /\ frames'[k].saved = frames[k].saved
                                    /\ frames'[k].left <= frames[k].left
           /\ ret' = Delivered(Top.code, v)
           /\ ret' \in Addr \cup {None, Fail}
<1>1. frames' = Spent /\ ret' = Delivered(Top.code, v)
  BY DEF Answer
<1>2. Depth' = Depth
  BY <1>1, SpentFacts DEF Depth
<1>3. ret' \in Addr \cup {None, Fail}
  BY <1>1, TopInType, DeliveredInType
<1> QED BY <1>1, <1>2, <1>3, SpentFacts

\* The end of the top frame leaves the frames below exactly as they were.
LEMMA LeaveFacts ==
    ASSUME TypeOK, frames # <<>>, NEW v \in Addr \cup {Fail}, Leave(v)
    PROVE  /\ frames' \in Seq(FrameType)
           /\ Depth' = Depth - 1
           /\ \A k \in 1 .. Depth' : frames'[k] = frames[k]
           /\ ret' \in Addr \cup {None, Fail}
<1>1. frames \in Seq(FrameType) /\ Depth \in Nat /\ Depth >= 1
  BY TopInType DEF TypeOK
<1>2. \A k \in 1 .. Depth : frames[k] \in FrameType
  BY <1>1, ElementOfSeq DEF Depth
<1>3. frames' = SubSeq(frames, 1, Depth - 1)
  BY DEF Leave
<1>4. /\ frames' \in Seq(FrameType)
      /\ Len(frames') = Depth - 1
      /\ \A k \in 1 .. Depth - 1 : frames'[k] = frames[k]
  <2>1. \A k \in 1 .. Depth - 1 : frames[k] \in FrameType
    BY <1>1, <1>2
  <2>2. Depth - 1 \in Int /\ 1 \in Int
    BY <1>1
  <2>3. /\ SubSeq(frames, 1, Depth - 1) \in Seq(FrameType)
        /\ Len(SubSeq(frames, 1, Depth - 1)) =
              IF 1 <= Depth - 1 THEN (Depth - 1) - 1 + 1 ELSE 0
        /\ \A k \in 1 .. (Depth - 1) - 1 + 1 :
              SubSeq(frames, 1, Depth - 1)[k] = frames[1 + k - 1]
    BY <2>1, <2>2, SubSeqProperties
  <2> QED BY <1>1, <1>3, <2>3
<1>5. Depth' = Depth - 1
  BY <1>4 DEF Depth
<1>6. ret' \in Addr \cup {None, Fail}
  <2>1. CASE Depth = 1
    BY <2>1 DEF Leave
  <2>2. CASE Depth # 1
    <3>1. frames[Depth - 1].code \in Code
      BY <1>1, <1>2, <2>2 DEF FrameType
    <3> QED BY <3>1, <2>2, DeliveredInType DEF Leave
  <2> QED BY <2>1, <2>2
<1> QED BY <1>4, <1>5, <1>6

(***************************************************************************)
(* Part 3: the inductive invariant.                                        *)
(***************************************************************************)

\* Whose code a frame runs.
SelfRight ==
    \A k \in 1 .. Depth :
       /\ frames[k].code \in AccountCode    => frames[k].self = Account
       /\ frames[k].code \in EntryPointCode => frames[k].self = EntryPoint
       /\ frames[k].code = "external"       => frames[k].self \in Contracts

\* What a revert puts back is a list, with a handler if it has started.
SavedGood ==
    \A k \in 1 .. Depth :
       /\ WellFormed(frames[k].saved.modules)
       /\ Started(frames[k].saved.modules) => frames[k].saved.handler # Zero

\* Within a transaction an account that has started stays started.
StartedUpwards ==
    \A k \in 1 .. Depth :
       Started(frames[k].saved.modules) =>
          /\ Started(modules)
          /\ \A j \in k .. Depth : Started(frames[j].saved.modules)

\* Authority is only ever given over a started account; that includes the
\* operations the EntryPoint has validated and not executed.
AuthorityStarted ==
    \A k \in 1 .. Depth :
       /\ frames[k].code \in Authorised => Started(frames[k].saved.modules)
       /\ (frames[k].code \in {"validating", "executing"} /\ frames[k].left > 0) =>
             /\ Started(modules)
             /\ \A j \in (k + 1) .. Depth : Started(frames[j].saved.modules)

\* An init finds blank storage, and everything above it was entered with the
\* handler set and the modules still blank.
InitBlank ==
    \A k \in 1 .. Depth : frames[k].code = "init" =>
       /\ frames[k].saved.modules = Blank
       /\ frames[k].saved.handler = Zero
       /\ handler # Zero
       /\ \A j \in (k + 1) .. Depth : /\ frames[j].saved.modules = Blank
                                     /\ frames[j].saved.handler # Zero
                                     /\ frames[j].code # "init"

\* A setup over an account that has not started is called, through setups only,
\* by the account's own init.
SetupInInit ==
    \A k \in 1 .. Depth :
       (frames[k].code = "setup" /\ ~Started(frames[k].saved.modules)) =>
          /\ k > 1
          /\ frames[k - 1].code \in {"init", "setup"}
          /\ \E j \in 1 .. (k - 1) : frames[j].code = "init"

\* What an enableModule makes of blank storage: an entry that leads nowhere, or to
\* itself.  It exists only while the account's init calls the account itself.
Stub(ms, m) == /\ ms[Sentinel] = m
               /\ ms[m] \in {Zero, m}
               /\ \A a \in Addr \ {m, Sentinel} : ms[a] = Zero

Stubbed == /\ frames # <<>>
           /\ Top.code \in {"init", "setup"}
           /\ \E m \in Proper : Stub(modules, m) /\ ret \in {m, Zero}

\* What the mapping is: a list outside init, inside it blank or such an entry.
ModulesGood == IF InInit THEN modules = Blank \/ Stubbed ELSE WellFormed(modules)

IInv == /\ TypeOK
        /\ SelfRight
        /\ SavedGood
        /\ StartedUpwards
        /\ AuthorityStarted
        /\ InitBlank
        /\ SetupInInit
        /\ ModulesGood
        /\ StartedHasHandler

(***************************************************************************)
(* Part 4: each way to change the stack keeps the parts of the invariant   *)
(* that speak of the stack.                                                *)
(***************************************************************************)

StackGood == /\ SelfRight
             /\ SavedGood
             /\ StartedUpwards
             /\ AuthorityStarted
             /\ InitBlank
             /\ SetupInInit

\* Inside an init, storage is blank while no call has just ended there.
LEMMA BlankInInit ==
    ASSUME IInv, InInit, ret \notin Addr \/ frames = <<>> \/ Top.code \notin {"init", "setup"}
    PROVE  modules = Blank /\ ~Started(modules)
<1>1. Zero \in Addr /\ Proper \subseteq Addr
  BY AddrFacts DEF Proper
<1>2. modules = Blank
  BY <1>1 DEF IInv, ModulesGood, Stubbed
<1> QED BY <1>2, BlankWellFormed

\* Authority on top of the stack: the account has started and no init runs.
LEMMA AuthorityOnTop ==
    ASSUME IInv, frames # <<>>, Started(Top.saved.modules), Top.code # "init"
    PROVE  Started(modules) /\ ~InInit /\ WellFormed(modules)
<1>1. Depth \in Nat /\ Depth \in 1 .. Depth
  BY TopInType DEF IInv
<1>2. Started(modules)
  BY <1>1 DEF IInv, StartedUpwards, Top
<1>3. ~InInit
  <2> SUFFICES ASSUME NEW k \in 1 .. Depth, frames[k].code = "init"
               PROVE  FALSE
    BY DEF InInit
  <2>1. k # Depth
    BY DEF Top
  <2>2. Depth \in (k + 1) .. Depth
    BY <1>1, <2>1
  <2>3. frames[Depth].saved.modules = Blank
    BY <2>2 DEF IInv, InitBlank
  <2> QED BY <2>3, BlankWellFormed DEF Top
<1> QED BY <1>2, <1>3 DEF IInv, ModulesGood

\* A setup outside an init was entered by authority.
LEMMA SetupOnTop ==
    ASSUME IInv, frames # <<>>, Top.code = "setup", ~InInit
    PROVE  Started(Top.saved.modules)
<1>1. Depth \in Nat /\ Depth \in 1 .. Depth
  BY TopInType DEF IInv
<1> SUFFICES ASSUME ~Started(Top.saved.modules) PROVE FALSE
  OBVIOUS
<1>2. \E j \in 1 .. (Depth - 1) : frames[j].code = "init"
  BY <1>1 DEF IInv, SetupInInit, Top
<1> QED BY <1>1, <1>2 DEF InInit

LEMMA AnswerKeeps ==
    ASSUME IInv, frames # <<>>, NEW v \in Addr \cup {Fail}, Answer(v),
           Started(modules) => Started(modules'),
           handler' = handler \/ handler' # Zero
    PROVE  StackGood' /\ InInit' = InInit /\ frames' # <<>> /\ Top'.code = Top.code
<1>1. /\ Depth \in Nat /\ Depth \in 1 .. Depth
      /\ \A k \in 1 .. Depth : frames[k].left \in Nat
  <2>1. \A k \in 1 .. Len(frames) : frames[k] \in FrameType
    BY ElementOfSeq DEF IInv, TypeOK
  <2> QED BY <2>1, TopInType DEF IInv, FrameType, Depth
<1>2. /\ frames' \in Seq(FrameType)
      /\ Depth' = Depth
      /\ \A k \in 1 .. Depth : /\ frames'[k].code = frames[k].code
                               /\ frames'[k].self = frames[k].self
                               /\ frames'[k].saved = frames[k].saved
                               /\ frames'[k].left <= frames[k].left
  BY AnswerFacts DEF IInv
<1>3. \A k \in 1 .. Depth : frames'[k].left \in Nat
  <2>1. \A k \in 1 .. Len(frames') : frames'[k] \in FrameType
    BY <1>2, ElementOfSeq
  <2> QED BY <1>2, <2>1 DEF FrameType, Depth
<1>4. SelfRight'
  BY <1>1, <1>2 DEF IInv, SelfRight
<1>5. SavedGood'
  BY <1>1, <1>2 DEF IInv, SavedGood
<1>6. StartedUpwards'
  BY <1>1, <1>2 DEF IInv, StartedUpwards, Started
<1>7. AuthorityStarted'
  <2> SUFFICES ASSUME NEW k \in 1 .. Depth
               PROVE  /\ frames'[k].code \in Authorised => Started(frames'[k].saved.modules)
                      /\ (frames'[k].code \in {"validating", "executing"} /\ frames'[k].left > 0) =>
                            /\ Started(modules')
                            /\ \A j \in (k + 1) .. Depth : Started(frames'[j].saved.modules)
    BY <1>2 DEF AuthorityStarted, Started
  <2>1. frames'[k].left > 0 => frames[k].left > 0
    BY <1>1, <1>2, <1>3
  <2>2. \A j \in (k + 1) .. Depth : j \in 1 .. Depth
    BY <1>1
  <2> QED BY <1>2, <2>1, <2>2 DEF IInv, AuthorityStarted
<1>8. InitBlank'
  <2>1. \A k \in 1 .. Depth : \A j \in (k + 1) .. Depth : j \in 1 .. Depth
    BY <1>1
  <2> QED BY <1>2, <2>1 DEF IInv, InitBlank
<1>9. SetupInInit'
  <2>1. \A k \in 1 .. Depth : k > 1 => k - 1 \in 1 .. Depth
    BY <1>1
  <2>2. \A k \in 1 .. Depth : \A j \in 1 .. (k - 1) : j \in 1 .. Depth
    BY <1>1
  <2> QED BY <1>2, <2>1, <2>2 DEF IInv, SetupInInit, Started
<1>10. InInit' = InInit
  BY <1>2 DEF InInit
<1>11. frames' # <<>>
  BY <1>1, <1>2, EmptySeq DEF Depth
<1>12. Top'.code = Top.code
  BY <1>1, <1>2 DEF Top
<1> QED BY <1>4, <1>5, <1>6, <1>7, <1>8, <1>9, <1>10, <1>11, <1>12 DEF StackGood

LEMMA LeaveKeeps ==
    ASSUME IInv, frames # <<>>, NEW v \in Addr \cup {Fail}, Leave(v),
           \/ Started(modules) => Started(modules')
           \/ modules' = Top.saved.modules,
           handler' \in {handler, Top.saved.handler}
    PROVE  /\ StackGood'
           /\ InInit' = (\E k \in 1 .. (Depth - 1) : frames[k].code = "init")
<1>1. /\ Depth \in Nat /\ Depth \in 1 .. Depth
  BY TopInType DEF IInv
<1>2. /\ frames' \in Seq(FrameType)
      /\ Depth' = Depth - 1
      /\ \A k \in 1 .. (Depth - 1) : frames'[k] = frames[k] /\ k \in 1 .. Depth
  BY <1>1, LeaveFacts DEF IInv
<1>3. \A k \in 1 .. (Depth - 1) :
         (\/ Started(frames[k].saved.modules)
          \/ frames[k].code \in {"validating", "executing"} /\ frames[k].left > 0)
             => Started(modules')
  <2> TAKE k \in 1 .. (Depth - 1)
  <2>1. Depth \in k .. Depth /\ Depth \in (k + 1) .. Depth
    BY <1>1
  <2> QED BY <2>1, <1>2 DEF IInv, StartedUpwards, AuthorityStarted, Top
<1>4. SelfRight'
  BY <1>2 DEF IInv, SelfRight
<1>5. SavedGood'
  BY <1>2 DEF IInv, SavedGood
<1>6. StartedUpwards'
  <2>1. \A k \in 1 .. (Depth - 1) : \A j \in k .. (Depth - 1) :
           j \in 1 .. (Depth - 1) /\ j \in k .. Depth
    BY <1>1
  <2> QED BY <1>2, <1>3, <2>1 DEF IInv, StartedUpwards, Started
<1>7. AuthorityStarted'
  <2>1. \A k \in 1 .. (Depth - 1) : \A j \in (k + 1) .. (Depth - 1) :
           j \in 1 .. (Depth - 1) /\ j \in (k + 1) .. Depth
    BY <1>1
  <2> QED BY <1>2, <1>3, <2>1 DEF IInv, AuthorityStarted, Started
<1>8. InitBlank'
  <2> SUFFICES ASSUME NEW k \in 1 .. (Depth - 1), frames[k].code = "init"
               PROVE  /\ frames[k].saved.modules = Blank
                      /\ frames[k].saved.handler = Zero
                      /\ handler' # Zero
                      /\ \A j \in (k + 1) .. (Depth - 1) :
                            /\ frames'[j].saved.modules = Blank
                            /\ frames'[j].saved.handler # Zero
                            /\ frames'[j].code # "init"
    BY <1>2 DEF InitBlank
  <2>1. Depth \in (k + 1) .. Depth
    BY <1>1
  <2>2. \A j \in (k + 1) .. (Depth - 1) : j \in 1 .. (Depth - 1) /\ j \in (k + 1) .. Depth
    BY <1>1
  <2>3. k \in 1 .. Depth
    BY <1>1
  <2>4. /\ frames[k].saved.modules = Blank
        /\ frames[k].saved.handler = Zero
        /\ handler # Zero
        /\ \A j \in (k + 1) .. Depth : /\ frames[j].saved.modules = Blank
                                      /\ frames[j].saved.handler # Zero
                                      /\ frames[j].code # "init"
    BY <2>3 DEF IInv, InitBlank
  <2>5. handler' # Zero
    BY <2>1, <2>4 DEF Top
  <2> QED BY <1>2, <2>2, <2>4, <2>5
<1>9. SetupInInit'
  <2> SUFFICES ASSUME NEW k \in 1 .. (Depth - 1), frames[k].code = "setup",
                      ~Started(frames[k].saved.modules)
               PROVE  /\ k > 1
                      /\ frames'[k - 1].code \in {"init", "setup"}
                      /\ \E j \in 1 .. (k - 1) : frames'[j].code = "init"
    BY <1>2 DEF SetupInInit, Started
  <2>1. \A j \in 1 .. (k - 1) : j \in 1 .. (Depth - 1)
    BY <1>1
  <2>2. k > 1 => k - 1 \in 1 .. (Depth - 1)
    BY <1>1
  <2>3. k \in 1 .. Depth
    BY <1>1
  <2>4. /\ k > 1
        /\ frames[k - 1].code \in {"init", "setup"}
        /\ \E j \in 1 .. (k - 1) : frames[j].code = "init"
    BY <2>3 DEF IInv, SetupInInit
  <2> QED BY <1>2, <2>1, <2>2, <2>4
<1>10. InInit' = (\E k \in 1 .. (Depth - 1) : frames[k].code = "init")
  BY <1>2 DEF InInit
<1> QED BY <1>4, <1>5, <1>6, <1>7, <1>8, <1>9, <1>10 DEF StackGood

LEMMA EnterKeeps ==
    ASSUME IInv, frames # <<>>, ret = None,
           NEW c \in Code \ {"init"}, NEW a \in Addr, NEW n \in Nat,
           Enter(c, a, n), UNCHANGED storage,
           c \in AccountCode    => a = Account,
           c \in EntryPointCode => a = EntryPoint,
           c = "external"       => a \in Contracts,
           c \in Authorised     => Started(modules),
           c = "setup"          => Started(modules) \/ Top.code \in {"init", "setup"},
           c \in {"validating", "executing"} => n = 0
    PROVE  IInv'
<1>1. /\ Depth \in Nat /\ Depth \in 1 .. Depth
      /\ \A k \in 1 .. Depth : frames[k].left \in Nat
  <2>1. \A k \in 1 .. Len(frames) : frames[k] \in FrameType
    BY ElementOfSeq DEF IInv, TypeOK
  <2> QED BY <2>1, TopInType DEF IInv, FrameType, Depth
<1> DEFINE D == Depth + 1
<1>2. /\ frames' \in Seq(FrameType)
      /\ Depth' = D
      /\ \A k \in 1 .. Depth : /\ frames'[k].code = frames[k].code
                               /\ frames'[k].self = frames[k].self
                               /\ frames'[k].saved = frames[k].saved
                               /\ frames'[k].left <= frames[k].left
      /\ frames'[D].code = c
      /\ frames'[D].self = a
      /\ frames'[D].left = n
      /\ frames'[D].saved = Store
      /\ ret' = None
  BY EnterFacts DEF IInv
<1>3. \A k \in 1 .. D : frames'[k].left \in Nat
  <2>1. \A k \in 1 .. Len(frames') : frames'[k] \in FrameType
    BY <1>2, ElementOfSeq
  <2> QED BY <1>2, <2>1 DEF FrameType, Depth
<1>4. /\ modules' = modules /\ handler' = handler /\ implementation' = implementation
      /\ Store.modules = modules /\ Store.handler = handler
  BY DEF storage, Store
<1>5. \A k \in 1 .. D : k \in 1 .. Depth \/ k = D
  BY <1>1
<1>6. None \notin Addr
  BY AddrFacts
<1>7. InInit => modules = Blank /\ ~Started(modules) /\ handler # Zero
  <2>1. InInit => modules = Blank /\ ~Started(modules)
    BY <1>6, BlankInInit
  <2> QED BY <2>1 DEF IInv, InitBlank, InInit
<1>8. ~InInit => WellFormed(modules)
  BY DEF IInv, ModulesGood
<1>9. TypeOK'
  BY <1>2, <1>4 DEF IInv, TypeOK
<1>10. SelfRight'
  BY <1>2, <1>5 DEF IInv, SelfRight
<1>11. SavedGood'
  <2>1. WellFormed(modules)
    BY <1>7, <1>8, BlankWellFormed
  <2> QED BY <1>2, <1>4, <1>5, <2>1 DEF IInv, SavedGood, StartedHasHandler
<1>12. StartedUpwards'
  <2>1. \A k \in 1 .. Depth : \A j \in k .. D : j \in k .. Depth \/ j = D
    BY <1>1
  <2>2. \A j \in D .. D : j = D
    BY <1>1
  <2>3. \A k \in 1 .. Depth : \A j \in k .. Depth : j \in 1 .. Depth
    BY <1>1
  <2> QED BY <1>2, <1>4, <1>5, <2>1, <2>2, <2>3 DEF IInv, StartedUpwards
<1>13. AuthorityStarted'
  <2> SUFFICES ASSUME NEW k \in 1 .. D
               PROVE  /\ frames'[k].code \in Authorised => Started(frames'[k].saved.modules)
                      /\ (frames'[k].code \in {"validating", "executing"} /\ frames'[k].left > 0) =>
                            /\ Started(modules)
                            /\ \A j \in (k + 1) .. D : Started(frames'[j].saved.modules)
    BY <1>2, <1>4 DEF AuthorityStarted
  <2>1. CASE k \in 1 .. Depth
    <3>1. frames'[k].left > 0 => frames[k].left > 0
      BY <1>1, <1>2, <1>3, <2>1
    <3>2. \A j \in (k + 1) .. D : (j \in (k + 1) .. Depth /\ j \in 1 .. Depth) \/ j = D
      BY <1>1
    <3> QED BY <1>2, <1>4, <2>1, <3>1, <3>2 DEF IInv, AuthorityStarted
  <2>2. CASE k = D
    BY <1>2, <1>4, <2>2
  <2> QED BY <1>5, <2>1, <2>2
<1>14. InitBlank'
  <2> SUFFICES ASSUME NEW k \in 1 .. D, frames'[k].code = "init"
               PROVE  /\ frames'[k].saved.modules = Blank
                      /\ frames'[k].saved.handler = Zero
                      /\ handler # Zero
                      /\ \A j \in (k + 1) .. D : /\ frames'[j].saved.modules = Blank
                                                 /\ frames'[j].saved.handler # Zero
                                                 /\ frames'[j].code # "init"
    BY <1>2, <1>4 DEF InitBlank
  <2>1. k \in 1 .. Depth /\ frames[k].code = "init"
    BY <1>2, <1>5
  <2>2. InInit
    BY <2>1 DEF InInit
  <2>3. \A j \in (k + 1) .. D : (j \in (k + 1) .. Depth /\ j \in 1 .. Depth) \/ j = D
    BY <1>1
  <2> QED BY <1>2, <1>4, <1>7, <2>1, <2>2, <2>3 DEF IInv, InitBlank
<1>15. SetupInInit'
  <2> SUFFICES ASSUME NEW k \in 1 .. D, frames'[k].code = "setup",
                      ~Started(frames'[k].saved.modules)
               PROVE  /\ k > 1
                      /\ frames'[k - 1].code \in {"init", "setup"}
                      /\ \E j \in 1 .. (k - 1) : frames'[j].code = "init"
    BY <1>2 DEF SetupInInit
  <2>1. CASE k \in 1 .. Depth
    <3>1. /\ k > 1
          /\ frames[k - 1].code \in {"init", "setup"}
          /\ \E j \in 1 .. (k - 1) : frames[j].code = "init"
      BY <1>2, <2>1 DEF IInv, SetupInInit
    <3>2. k > 1 => k - 1 \in 1 .. Depth
      BY <1>1, <2>1
    <3>3. \A j \in 1 .. (k - 1) : j \in 1 .. Depth
      BY <1>1, <2>1
    <3> QED BY <1>2, <3>1, <3>2, <3>3
  <2>2. CASE k = D
    <3>1. ~Started(modules) /\ frames[Depth].code \in {"init", "setup"}
      BY <1>2, <1>4, <2>2 DEF Top
    <3>2. \E j \in 1 .. Depth : frames[j].code = "init"
      <4>1. CASE frames[Depth].code = "init"
        BY <1>1, <4>1
      <4>2. CASE frames[Depth].code = "setup"
        <5>1. ~Started(frames[Depth].saved.modules)
          BY <1>1, <3>1 DEF IInv, StartedUpwards
        <5>2. \E j \in 1 .. (Depth - 1) : frames[j].code = "init"
          BY <1>1, <4>2, <5>1 DEF IInv, SetupInInit
        <5> QED BY <1>1, <5>2
      <4> QED BY <3>1, <4>1, <4>2
    <3>3. k > 1 /\ k - 1 = Depth
      BY <1>1, <2>2
    <3> QED BY <1>1, <1>2, <3>1, <3>2, <3>3
  <2> QED BY <1>5, <2>1, <2>2
<1>16. ModulesGood'
  <2>1. InInit' = InInit
    <3>1. D \in 1 .. D /\ \A k \in 1 .. Depth : k \in 1 .. D
      BY <1>1
    <3> QED BY <1>2, <1>5, <3>1 DEF InInit
  <2> QED BY <1>4, <1>7, <1>8, <2>1 DEF ModulesGood
<1>17. StartedHasHandler'
  BY <1>4 DEF IInv, StartedHasHandler
<1> QED BY <1>9, <1>10, <1>11, <1>12, <1>13, <1>14, <1>15, <1>16, <1>17 DEF IInv

(***************************************************************************)
(* Part 5: every action keeps the invariant.                               *)
(***************************************************************************)

\* Who a caller with the account's or the EntryPoint's address can be.
LEMMA PrivilegedCaller ==
    ASSUME IInv, CallsAccount, FromEntryPointOrSelf
    PROVE  /\ frames # <<>> /\ ret = None
           /\ \/ Top.code \in Authorised /\ Started(Top.saved.modules)
              \/ Top.code \in {"init", "setup"}
<1>1. frames # <<>> /\ ret = None /\ Depth \in 1 .. Depth /\ Top.code \in Code
  BY TopInType DEF IInv, CallsAccount, Calling
<1>2. Top.code # "external"
  BY <1>1, AddrFacts DEF IInv, SelfRight, Top, Caller, FromEntryPointOrSelf
<1>3. Top.code \notin {"validating", "executing"}
  BY <1>2 DEF CallsAccount, Calling
<1>4. Top.code \in Authorised \/ Top.code \in {"init", "setup"}
  BY <1>1, <1>2, <1>3 DEF Code, AccountCode, EntryPointCode, Authorised
<1>5. Top.code \in Authorised => Started(Top.saved.modules)
  BY <1>1 DEF IInv, AuthorityStarted, Top
<1> QED BY <1>1, <1>4, <1>5

\* Such a caller finds a list to work on, or is in an init over blank storage.
LEMMA PrivilegedStarted ==
    ASSUME IInv, CallsAccount, FromEntryPointOrSelf
    PROVE  \/ Started(modules) /\ ~InInit /\ WellFormed(modules)
           \/ InInit /\ modules = Blank /\ Top.code \in {"init", "setup"}
<1>0. None \notin Addr
  BY AddrFacts
<1>1. frames # <<>> /\ ret = None /\ Depth \in 1 .. Depth
  BY TopInType DEF IInv, CallsAccount, Calling
<1>2. CASE Top.code \in Authorised /\ Started(Top.saved.modules)
  BY <1>1, <1>2, AuthorityOnTop DEF Authorised
<1>3. CASE Top.code \in {"init", "setup"} /\ InInit
  BY <1>0, <1>1, <1>3, BlankInInit
<1>4. CASE Top.code \in {"init", "setup"} /\ ~InInit
  <2>1. Top.code = "setup"
    BY <1>1, <1>4 DEF InInit, Top
  <2> QED BY <1>1, <1>4, <2>1, SetupOnTop, AuthorityOnTop
<1> QED BY <1>2, <1>3, <1>4, PrivilegedCaller

LEMMA InitAccountStep ==
    ASSUME IInv, NEW h \in Handlers \cup {Zero}, InitAccount(h)
    PROVE  IInv'
<1>0. h \in Addr /\ h # Zero /\ Account \in Addr /\ None \notin Addr
  BY AddrFacts DEF InitAccount
<1>1. frames # <<>> /\ ret = None /\ ~Started(modules) /\ handler = Zero
  BY DEF InitAccount, InitTest, CallsAccount, Calling
<1>2. /\ Depth \in Nat /\ Depth \in 1 .. Depth
      /\ \A k \in 1 .. Depth : frames[k].left \in Nat
  <2>1. \A k \in 1 .. Len(frames) : frames[k] \in FrameType
    BY ElementOfSeq DEF IInv, TypeOK
  <2> QED BY <1>1, <2>1, TopInType DEF IInv, FrameType, Depth
<1> DEFINE D == Depth + 1
<1>3. /\ frames' \in Seq(FrameType)
      /\ Depth' = D
      /\ \A k \in 1 .. Depth : /\ frames'[k].code = frames[k].code
                               /\ frames'[k].self = frames[k].self
                               /\ frames'[k].saved = frames[k].saved
                               /\ frames'[k].left <= frames[k].left
      /\ frames'[D].code = "init"
      /\ frames'[D].self = Account
      /\ frames'[D].saved = Store
      /\ ret' = None
  <2>1. Enter("init", Account, 1) /\ "init" \in Code
    BY DEF InitAccount, Code, AccountCode
  <2> QED BY <1>0, <1>1, <2>1, EnterFacts DEF IInv
<1>4. \A k \in 1 .. D : frames'[k].left \in Nat
  <2>1. \A k \in 1 .. Len(frames') : frames'[k] \in FrameType
    BY <1>3, ElementOfSeq
  <2> QED BY <1>3, <2>1 DEF FrameType, Depth
<1>5. modules' = modules /\ handler' = h /\ implementation' = implementation
  BY DEF InitAccount
<1>6. ~InInit
  BY <1>1 DEF IInv, InitBlank, InInit
<1>7. modules = Blank /\ WellFormed(modules) /\ Store.modules = Blank /\ Store.handler = Zero
  <2>1. modules = Blank
    BY <1>1, <1>6, NotStartedBlank DEF IInv, ModulesGood
  <2> QED BY <1>1, <2>1, BlankWellFormed DEF Store
<1>8. \A k \in 1 .. D : k \in 1 .. Depth \/ k = D
  BY <1>2
<1>9. \A k \in 1 .. Depth : ~Started(frames[k].saved.modules) /\ frames[k].code # "init"
  BY <1>1, <1>6 DEF IInv, StartedUpwards, InInit
<1>10. TypeOK'
  BY <1>0, <1>3, <1>5 DEF IInv, TypeOK
<1>11. SelfRight'
  BY <1>3, <1>8 DEF IInv, SelfRight, EntryPointCode
<1>12. SavedGood'
  BY <1>3, <1>7, <1>8, BlankWellFormed DEF IInv, SavedGood
<1>13. \A k \in 1 .. D : ~Started(frames'[k].saved.modules)
  BY <1>3, <1>7, <1>8, <1>9, BlankWellFormed
<1>14. StartedUpwards'
  BY <1>3, <1>13 DEF StartedUpwards, Started
<1>15. AuthorityStarted'
  <2> SUFFICES ASSUME NEW k \in 1 .. D
               PROVE  /\ frames'[k].code \notin Authorised
                      /\ ~(frames'[k].code \in {"validating", "executing"} /\ frames'[k].left > 0)
    BY <1>3 DEF AuthorityStarted
  <2>1. CASE k = D
    BY <1>3, <2>1 DEF Authorised
  <2>2. CASE k \in 1 .. Depth
    <3>1. frames'[k].left > 0 => frames[k].left > 0
      BY <1>2, <1>3, <1>4, <2>2
    <3> QED BY <1>1, <1>3, <1>9, <2>2, <3>1 DEF IInv, AuthorityStarted
  <2> QED BY <1>8, <2>1, <2>2
<1>16. InitBlank'
  <2>1. \A j \in (D + 1) .. D : FALSE
    BY <1>2
  <2> QED BY <1>0, <1>3, <1>5, <1>7, <1>8, <1>9, <2>1 DEF InitBlank
<1>17. SetupInInit'
  <2>1. ASSUME NEW k \in 1 .. Depth PROVE frames'[k].code # "setup"
    <3>1. \A j \in 1 .. (k - 1) : frames[j].code # "init"
      BY <1>2, <1>9
    <3> QED BY <1>3, <1>9, <3>1 DEF IInv, SetupInInit
  <2> QED BY <1>3, <1>8, <2>1 DEF SetupInInit
<1>18. ModulesGood'
  <2>1. InInit'
    BY <1>2, <1>3 DEF InInit
  <2> QED BY <1>5, <1>7, <2>1 DEF ModulesGood
<1>19. StartedHasHandler'
  BY <1>1, <1>5 DEF StartedHasHandler, Started
<1> QED BY <1>10, <1>11, <1>12, <1>14, <1>15, <1>16, <1>17, <1>18, <1>19 DEF IInv

LEMMA InitDoneStep ==
    ASSUME IInv, InitDone
    PROVE  IInv'
<1>1. /\ frames # <<>> /\ Top.code = "init" /\ ret \in Proper
      /\ modules' = Start(modules, ret) /\ Leave(ret)
      /\ handler' = handler /\ implementation' = implementation
      /\ ret \in Addr
  BY DEF InitDone, CanStart
<1>2. Depth \in Nat /\ Depth \in 1 .. Depth /\ modules \in Mapping
  BY <1>1, TopInType DEF IInv, TypeOK
<1>3. InInit
  BY <1>1, <1>2 DEF InInit, Top
<1>4. \A a \in Addr \ {ret, Sentinel} : modules[a] = Zero
  <2>1. CASE modules = Blank
    BY <2>1 DEF Blank
  <2>2. CASE Stubbed
    <3>1. PICK m \in Proper : Stub(modules, m) /\ ret \in {m, Zero}
      BY <2>2 DEF Stubbed
    <3> QED BY <1>1, <3>1 DEF Stub, Proper
  <2> QED BY <1>3, <2>1, <2>2 DEF IInv, ModulesGood
<1>5. WellFormed(modules') /\ Started(modules')
  BY <1>1, <1>2, <1>4, StartWellFormed
<1>6. StackGood' /\ InInit' = (\E k \in 1 .. (Depth - 1) : frames[k].code = "init")
  BY <1>1, <1>5, LeaveKeeps
<1>7. ~InInit'
  <2> SUFFICES ASSUME NEW k \in 1 .. (Depth - 1), frames[k].code = "init"
               PROVE  FALSE
    BY <1>6
  <2>1. k \in 1 .. Depth /\ Depth \in (k + 1) .. Depth
    BY <1>2
  <2> QED BY <1>1, <2>1 DEF IInv, InitBlank, Top
<1>8. handler # Zero
  BY <1>3 DEF IInv, InitBlank, InInit
<1>9. TypeOK'
  BY <1>1, <1>5, LeaveFacts DEF IInv, TypeOK, WellFormed
<1> QED BY <1>1, <1>5, <1>6, <1>7, <1>8, <1>9
        DEF IInv, StackGood, ModulesGood, StartedHasHandler

\* _enableModule over blank storage makes a stub, and a stub stays one.
LEMMA LinkStub ==
    ASSUME NEW ms \in Mapping, NEW m, CanLink(ms, m), ms = Blank \/ Stub(ms, m)
    PROVE  Link(ms, m) \in Mapping /\ Stub(Link(ms, m), m)
<1>1. m \in Addr /\ m # Zero /\ m # Sentinel /\ Sentinel \in Addr /\ ms[Sentinel] \in Addr
  BY ListAssumption DEF CanLink, Proper, Mapping
<1>2. ms[Sentinel] \in {Zero, m} /\ \A a \in Addr \ {m, Sentinel} : ms[a] = Zero
  BY <1>1 DEF Blank, Stub
<1> QED BY <1>1, <1>2 DEF Link, Stub, Mapping

LEMMA EnableModuleStep ==
    ASSUME IInv, NEW m, EnableModule(m)
    PROVE  IInv'
<1>1. /\ CallsAccount /\ FromEntryPointOrSelf /\ CanLink(modules, m)
      /\ modules' = Link(modules, m) /\ Answer(Zero)
      /\ handler' = handler /\ implementation' = implementation
      /\ frames # <<>> /\ Zero \in Addr /\ Fail # Zero /\ modules \in Mapping
  BY AddrFacts DEF EnableModule, CallsAccount, Calling, IInv, TypeOK
<1>2. Started(modules')
  <2>1. m \in Addr /\ m # Zero /\ m # Sentinel /\ Sentinel \in Addr
    BY <1>1, AddrFacts DEF CanLink, Proper
  <2> QED BY <1>1, <2>1 DEF Link, Started, Mapping
<1>3. StackGood' /\ InInit' = InInit /\ frames' # <<>> /\ Top'.code = Top.code
  BY <1>1, <1>2, AnswerKeeps
<1>4. CASE Started(modules) /\ ~InInit /\ WellFormed(modules)
  <2>1. WellFormed(modules')
    BY <1>1, <1>4, LinkWellFormed
  <2>2. TypeOK'
    BY <1>1, <2>1, AnswerFacts DEF IInv, TypeOK, WellFormed
  <2>3. handler # Zero
    BY <1>4 DEF IInv, StartedHasHandler
  <2> QED BY <1>1, <1>3, <1>4, <2>1, <2>2, <2>3
          DEF IInv, StackGood, ModulesGood, StartedHasHandler
<1>5. CASE InInit /\ modules = Blank /\ Top.code \in {"init", "setup"}
  <2>1. modules' \in Mapping /\ Stub(modules', m)
    BY <1>1, <1>5, LinkStub
  <2>2. ret' = Zero
    BY <1>1, <1>5, AnswerFacts DEF IInv, Delivered, Awaiting
  <2>3. TypeOK'
    BY <1>1, <2>1, AnswerFacts DEF IInv, TypeOK
  <2>4. handler # Zero
    BY <1>5 DEF IInv, InitBlank, InInit
  <2>5. Stubbed'
    BY <1>1, <1>3, <1>5, <2>1, <2>2 DEF Stubbed, Stub, CanLink
  <2> QED BY <1>1, <1>3, <1>5, <2>3, <2>4, <2>5
          DEF IInv, StackGood, ModulesGood, StartedHasHandler
<1> QED BY <1>1, <1>4, <1>5, PrivilegedStarted

LEMMA SetupDoneStep ==
    ASSUME IInv, SetupDone
    PROVE  IInv'
<1>1. /\ frames # <<>> /\ Top.code = "setup" /\ ret \in Addr /\ CanLink(modules, ret)
      /\ modules' = Link(modules, ret) /\ Leave(ret)
      /\ handler' = handler /\ implementation' = implementation
      /\ modules \in Mapping /\ ret # Fail
  BY AddrFacts DEF SetupDone, IInv, TypeOK
<1>2. Depth \in Nat /\ Depth \in 1 .. Depth
  BY <1>1, TopInType DEF IInv
<1>3. Started(modules')
  <2>1. ret \in Addr /\ ret # Zero /\ ret # Sentinel /\ Sentinel \in Addr
    BY <1>1, AddrFacts DEF CanLink, Proper
  <2> QED BY <1>1, <2>1 DEF Link, Started, Mapping
<1>4. StackGood' /\ InInit' = (\E k \in 1 .. (Depth - 1) : frames[k].code = "init")
  BY <1>1, <1>3, LeaveKeeps
<1>5. InInit' = InInit
  <2>1. \A k \in 1 .. Depth : k \in 1 .. (Depth - 1) \/ k = Depth
    BY <1>2
  <2>2. \A k \in 1 .. (Depth - 1) : k \in 1 .. Depth
    BY <1>2
  <2> QED BY <1>1, <1>4, <2>1, <2>2 DEF InInit, Top
<1>6. CASE ~InInit
  <2>1. Started(modules) /\ WellFormed(modules)
    BY <1>1, <1>6, SetupOnTop, AuthorityOnTop
  <2>2. WellFormed(modules')
    BY <1>1, <2>1, LinkWellFormed
  <2>3. TypeOK'
    BY <1>1, <2>2, LeaveFacts DEF IInv, TypeOK, WellFormed
  <2>4. StartedHasHandler' /\ ModulesGood'
    BY <1>1, <1>5, <1>6, <2>1, <2>2 DEF IInv, ModulesGood, StartedHasHandler
  <2> QED BY <1>4, <2>3, <2>4 DEF IInv, StackGood
<1>7. CASE InInit
  <2>1. modules = Blank \/ Stub(modules, ret)
    <3>1. ret # Zero
      BY <1>1 DEF CanLink, Proper
    <3> QED BY <1>7, <3>1 DEF IInv, ModulesGood, Stubbed
  <2>2. modules' \in Mapping /\ Stub(modules', ret)
    BY <1>1, <2>1, LinkStub
  <2>3. PICK i \in 1 .. Depth : frames[i].code = "init"
    BY <1>7 DEF InInit
  <2>4. Top.saved.modules = Blank
    <3>1. i # Depth
      BY <1>1, <2>3 DEF Top
    <3>2. Depth \in (i + 1) .. Depth
      BY <1>2, <3>1
    <3> QED BY <2>3, <3>2 DEF IInv, InitBlank, Top
  <2>5. Depth > 1 /\ frames[Depth - 1].code \in {"init", "setup"}
    BY <1>1, <1>2, <2>4, BlankWellFormed DEF IInv, SetupInInit, Top
  <2>6. ret' = ret
    BY <1>1, <1>2, <2>5 DEF Leave, Delivered, Awaiting
  <2>7. Depth' = Depth - 1 /\ frames'[Depth'] = frames[Depth - 1]
    <3>1. /\ Depth' = Depth - 1
          /\ \A k \in 1 .. Depth' : frames'[k] = frames[k]
      BY <1>1, LeaveFacts DEF IInv
    <3>2. Depth - 1 \in 1 .. (Depth - 1)
      BY <1>2, <2>5
    <3> QED BY <3>1, <3>2
  <2>8. frames' # <<>>
    BY <1>2, <2>5, <2>7, EmptySeq DEF Depth
  <2>9. Stubbed'
    BY <1>1, <2>2, <2>5, <2>6, <2>7, <2>8 DEF Stubbed, Stub, CanLink, Top
  <2>10. TypeOK'
    BY <1>1, <2>2, LeaveFacts DEF IInv, TypeOK
  <2>11. handler # Zero
    BY <1>7 DEF IInv, InitBlank, InInit
  <2> QED BY <1>1, <1>4, <1>5, <1>7, <2>9, <2>10, <2>11
          DEF IInv, StackGood, ModulesGood, StartedHasHandler
<1> QED BY <1>6, <1>7

LEMMA DisableModuleStep ==
    ASSUME IInv, NEW prev \in Addr, NEW m, DisableModule(prev, m)
    PROVE  IInv'
<1>1. /\ CallsAccount /\ FromEntryPointOrSelf /\ CanUnlink(modules, prev, m)
      /\ modules' = Unlink(modules, prev, m) /\ Answer(Zero)
      /\ handler' = handler /\ implementation' = implementation
      /\ frames # <<>> /\ Zero \in Addr
  BY AddrFacts DEF DisableModule, CallsAccount, Calling
<1>2. modules # Blank
  BY <1>1 DEF CanUnlink, Proper, Blank
<1>3. Started(modules) /\ ~InInit /\ WellFormed(modules)
  BY <1>1, <1>2, PrivilegedStarted
<1>4. WellFormed(modules') /\ Started(modules')
  BY <1>1, <1>3, UnlinkWellFormed
<1>5. StackGood' /\ InInit' = InInit
  BY <1>1, <1>4, AnswerKeeps
<1>6. TypeOK'
  BY <1>1, <1>4, AnswerFacts DEF IInv, TypeOK, WellFormed
<1> QED BY <1>1, <1>3, <1>4, <1>5, <1>6
        DEF IInv, StackGood, ModulesGood, StartedHasHandler

LEMMA SetFallbackHandlerStep ==
    ASSUME IInv, NEW h \in Handlers \cup {Zero}, SetFallbackHandler(h)
    PROVE  IInv'
<1>1. /\ CallsAccount /\ FromEntryPointOrSelf /\ h # Zero /\ h \in Addr
      /\ handler' = h /\ Answer(Zero)
      /\ modules' = modules /\ implementation' = implementation
      /\ frames # <<>> /\ Zero \in Addr
  BY AddrFacts DEF SetFallbackHandler, CallsAccount, Calling
<1>2. StackGood' /\ InInit' = InInit
  BY <1>1, AnswerKeeps
<1>3. TypeOK'
  BY <1>1, AnswerFacts DEF IInv, TypeOK
<1>4. InInit \/ WellFormed(modules)
  BY PrivilegedStarted, <1>1
<1>5. InInit => modules = Blank
  BY PrivilegedStarted, <1>1
<1> QED BY <1>1, <1>2, <1>3, <1>4, <1>5
        DEF IInv, StackGood, ModulesGood, StartedHasHandler

LEMMA UpdateImplementationStep ==
    ASSUME IInv, NEW i \in Implementations \cup {CodeLess, Zero}, UpdateImplementation(i)
    PROVE  IInv'
<1>1. /\ CallsAccount /\ FromEntryPointOrSelf /\ i \in Implementations
      /\ implementation' = i /\ Answer(Zero)
      /\ modules' = modules /\ handler' = handler
      /\ frames # <<>> /\ Zero \in Addr
  BY AddrFacts DEF UpdateImplementation, CallsAccount, Calling
<1>2. StackGood' /\ InInit' = InInit
  BY <1>1, AnswerKeeps
<1>3. TypeOK'
  BY <1>1, AnswerFacts DEF IInv, TypeOK
<1>4. InInit \/ WellFormed(modules)
  BY PrivilegedStarted, <1>1
<1>5. InInit => modules = Blank
  BY PrivilegedStarted, <1>1
<1> QED BY <1>1, <1>2, <1>3, <1>4, <1>5
        DEF IInv, StackGood, ModulesGood, StartedHasHandler

\* A frame entered over unchanged storage.
LEMMA EnterSteps ==
    ASSUME IInv,
           \/ SetupAndEnableModule \/ Execute \/ ExecuteBatch
           \/ ExecFromModule \/ ExecBatchFromModule \/ MultiSend \/ Fallback
           \/ HandleOps \/ InnerHandleOp
           \/ \E c \in Contracts : CallContract(c)
    PROVE  IInv'
<1>0. /\ Account \in Addr /\ EntryPoint \in Addr /\ Contracts \subseteq Addr
      /\ Account # EntryPoint /\ EntryPoint \notin Contracts /\ Account \notin Contracts
      /\ Zero \in Addr
  BY AddrFacts
<1>1. 0 \in Nat /\ 1 \in Nat /\ 2 \in Nat /\ 1 .. MaxBatch \subseteq Nat
  BY BoundsAssumption
<1>2. /\ {"setup", "execute", "execFromModule", "multiSend", "external",
          "validating", "innerHandleOp"} \subseteq Code \ {"init"}
      /\ {"setup", "execute", "execFromModule", "multiSend"} \subseteq AccountCode
      /\ {"setup", "execute", "execFromModule", "multiSend", "external"}
            \cap EntryPointCode = {}
      /\ {"validating", "innerHandleOp", "external"} \cap AccountCode = {}
      /\ {"setup", "external", "validating"} \cap Authorised = {}
  BY DEF Code, AccountCode, EntryPointCode, Authorised
<1>3. CASE SetupAndEnableModule
  <2>1. /\ CallsAccount /\ FromEntryPointOrSelf /\ Enter("setup", Account, 1)
        /\ UNCHANGED storage /\ frames # <<>> /\ ret = None
    BY <1>3 DEF SetupAndEnableModule, CallsAccount, Calling
  <2>2. Started(modules) \/ Top.code \in {"init", "setup"}
    BY <2>1, PrivilegedStarted
  <2> QED BY <1>0, <1>1, <1>2, <2>1, <2>2, EnterKeeps
<1>4. ASSUME CallsAccount, FromEntryPoint
      PROVE  Started(modules) /\ frames # <<>> /\ ret = None
  <2>1. FromEntryPointOrSelf /\ frames # <<>> /\ ret = None
    BY <1>4, AddrFacts DEF FromEntryPoint, FromEntryPointOrSelf, CallsAccount, Calling
  <2>2. Top.code \notin {"init", "setup"}
    <3>1. Depth \in 1 .. Depth
      BY <2>1, TopInType DEF IInv
    <3> QED BY <1>0, <1>4, <3>1
            DEF IInv, SelfRight, AccountCode, FromEntryPoint, Caller, Top
  <2> QED BY <1>4, <2>1, <2>2, PrivilegedStarted
<1>5. CASE Execute
  <2>1. CallsAccount /\ FromEntryPoint /\ Enter("execute", Account, 1) /\ UNCHANGED storage
    BY <1>5 DEF Execute
  <2> QED BY <1>0, <1>1, <1>2, <1>4, <2>1, EnterKeeps
<1>6. CASE ExecuteBatch
  <2>1. CallsAccount /\ FromEntryPoint /\ UNCHANGED storage
    BY <1>6 DEF ExecuteBatch
  <2>2. PICK n \in 1 .. MaxBatch : Enter("execute", Account, n)
    BY <1>6 DEF ExecuteBatch
  <2>3. n \in Nat
    BY <1>1
  <2> QED BY <1>0, <1>2, <1>4, <2>1, <2>2, <2>3, EnterKeeps
<1>7. ASSUME CallsAccount, FromModule
      PROVE  Started(modules) /\ frames # <<>> /\ ret = None
  <2>1. frames # <<>> /\ ret = None /\ Depth \in 1 .. Depth /\ Caller \in Addr
    BY <1>7, TopInType DEF IInv, CallsAccount, Calling, Caller
  <2>2. modules[Caller] # Zero
    BY <1>7 DEF FromModule, IsEnabled
  <2>3. ~InInit
    <3>1. modules # Blank
      BY <2>1, <2>2 DEF Blank
    <3> QED BY <2>1, <3>1, BlankInInit, AddrFacts
  <2> QED BY <2>1, <2>2, <2>3, LinkedStarted DEF IInv, ModulesGood
<1>8. CASE ExecFromModule
  <2>1. CallsAccount /\ FromModule /\ Enter("execFromModule", Account, 1) /\ UNCHANGED storage
    BY <1>8 DEF ExecFromModule
  <2> QED BY <1>0, <1>1, <1>2, <1>7, <2>1, EnterKeeps
<1>9. CASE ExecBatchFromModule
  <2>1. CallsAccount /\ FromModule /\ UNCHANGED storage
    BY <1>9 DEF ExecBatchFromModule
  <2>2. PICK n \in 1 .. MaxBatch : Enter("execFromModule", Account, n)
    BY <1>9 DEF ExecBatchFromModule
  <2>3. n \in Nat
    BY <1>1
  <2> QED BY <1>0, <1>2, <1>7, <2>1, <2>2, <2>3, EnterKeeps
<1>10. CASE MultiSend
  <2>1. /\ Calling /\ Top.code \in {"execFromModule", "multiSend"} /\ UNCHANGED storage
        /\ frames # <<>> /\ ret = None
    BY <1>10 DEF MultiSend, Calling
  <2>2. PICK n \in 1 .. MaxBatch : Enter("multiSend", Account, n)
    BY <1>10 DEF MultiSend
  <2>3. n \in Nat /\ Depth \in 1 .. Depth
    BY <1>1, <2>1, TopInType DEF IInv
  <2>4. Started(modules)
    <3>1. Started(Top.saved.modules) /\ Top.code # "init"
      BY <2>1, <2>3 DEF IInv, AuthorityStarted, Authorised, Top
    <3> QED BY <2>1, <3>1, AuthorityOnTop
  <2> QED BY <1>0, <1>2, <2>1, <2>2, <2>3, <2>4, EnterKeeps
<1>11. CASE Fallback
  <2>1. /\ UNCHANGED storage /\ frames # <<>> /\ ret = None
        /\ \/ handler \in Contracts /\ Enter("external", handler, 0)
           \/ Enter("validating", EntryPoint, 0)
    BY <1>11 DEF Fallback, CallsAccount, Calling
  <2>2. CASE handler \in Contracts /\ Enter("external", handler, 0)
    BY <1>0, <1>1, <1>2, <2>1, <2>2, EnterKeeps
  <2>3. CASE Enter("validating", EntryPoint, 0)
    BY <1>0, <1>1, <1>2, <2>1, <2>3, EnterKeeps
  <2> QED BY <2>1, <2>2, <2>3
<1>12. CASE HandleOps
  <2>1. /\ Enter("validating", EntryPoint, 0) /\ UNCHANGED storage
        /\ frames # <<>> /\ ret = None
    BY <1>12 DEF HandleOps, Calling
  <2> QED BY <1>0, <1>1, <1>2, <2>1, EnterKeeps
<1>13. CASE InnerHandleOp
  <2>1. /\ Enter("innerHandleOp", EntryPoint, 2) /\ UNCHANGED storage
        /\ frames # <<>> /\ ret = None /\ Top.code = "executing" /\ Top.left > 0
    BY <1>13 DEF InnerHandleOp
  <2>2. Started(modules)
    BY <2>1, TopInType DEF IInv, AuthorityStarted, Top
  <2> QED BY <1>0, <1>1, <1>2, <2>1, <2>2, EnterKeeps
<1>14. ASSUME NEW c \in Contracts, CallContract(c)
       PROVE  IInv'
  <2>1. /\ Enter("external", c, 0) /\ UNCHANGED storage
        /\ frames # <<>> /\ ret = None
    BY <1>14 DEF CallContract, Calling
  <2> QED BY <1>0, <1>1, <1>2, <2>1, EnterKeeps
<1> QED BY <1>3, <1>5, <1>6, <1>8, <1>9, <1>10, <1>11, <1>12, <1>13, <1>14

\* The end of a frame over unchanged storage.
LEMMA LeaveSteps ==
    ASSUME IInv, frames # <<>>, NEW v \in Addr, Leave(v), UNCHANGED storage,
           Top.code \notin {"init", "setup"}
    PROVE  IInv'
<1>1. /\ modules' = modules /\ handler' = handler /\ implementation' = implementation
  BY DEF storage
<1>2. StackGood' /\ InInit' = (\E k \in 1 .. (Depth - 1) : frames[k].code = "init")
  BY <1>1, LeaveKeeps
<1>3. InInit' = InInit
  <2>1. Depth \in Nat /\ Depth >= 1
    BY TopInType DEF IInv
  <2>2. \A k \in 1 .. Depth : k \in 1 .. (Depth - 1) \/ k = Depth
    BY <2>1
  <2>3. \A k \in 1 .. (Depth - 1) : k \in 1 .. Depth
    BY <2>1
  <2> QED BY <1>2, <2>2, <2>3 DEF InInit, Top
<1>4. TypeOK'
  BY <1>1, LeaveFacts DEF IInv, TypeOK
<1>5. ModulesGood'
  BY <1>1, <1>3, BlankInInit DEF IInv, ModulesGood
<1> QED BY <1>1, <1>2, <1>4, <1>5 DEF IInv, StackGood, StartedHasHandler

LEMMA ReturnStep ==
    ASSUME IInv, Return
    PROVE  IInv'
<1>1. frames # <<>> /\ UNCHANGED storage /\ Top.code \notin {"init", "setup"}
  BY DEF Return, Awaiting
<1>2. PICK v \in (IF Top.code = "external" THEN Answers ELSE {Zero}) : Leave(v)
  BY DEF Return
<1>3. v \in Addr
  BY AddrFacts DEF Answers
<1> QED BY <1>1, <1>2, <1>3, LeaveSteps

LEMMA ValidateUserOpDoneStep ==
    ASSUME IInv, ValidateUserOpDone
    PROVE  IInv'
BY LeaveSteps, AddrFacts DEF ValidateUserOpDone

LEMMA CallFailsStep ==
    ASSUME IInv, CallFails \/ FallbackEnds
    PROVE  IInv'
<1>1. /\ frames # <<>> /\ ret = None
      /\ modules' = modules /\ handler' = handler /\ implementation' = implementation
      /\ \E v \in Addr \cup {Fail} : Answer(v)
  BY AddrFacts DEF CallFails, FallbackEnds, CallsAccount, storage, Calling
<1>2. StackGood' /\ InInit' = InInit
  BY <1>1, AnswerKeeps
<1>3. TypeOK'
  BY <1>1, AnswerFacts DEF IInv, TypeOK
<1>4. InInit => modules = Blank
  BY <1>1, BlankInInit, AddrFacts
<1> QED BY <1>1, <1>2, <1>3, <1>4 DEF IInv, StackGood, ModulesGood, StartedHasHandler

LEMMA RevertStep ==
    ASSUME IInv, Revert
    PROVE  IInv'
<1>1. /\ frames # <<>> /\ Leave(Fail)
      /\ modules' = Top.saved.modules /\ handler' = Top.saved.handler
      /\ implementation' = Top.saved.implementation
  BY DEF Revert
<1>2. /\ Depth \in Nat /\ Depth \in 1 .. Depth /\ Top.saved \in StoreType
  BY <1>1, TopInType DEF IInv
<1>3. StackGood' /\ InInit' = (\E k \in 1 .. (Depth - 1) : frames[k].code = "init")
  BY <1>1, LeaveKeeps
<1>4. /\ WellFormed(modules')
      /\ Started(modules') => handler' # Zero
  BY <1>1, <1>2 DEF IInv, SavedGood, Top
<1>5. InInit' => modules' = Blank
  <2> SUFFICES ASSUME NEW k \in 1 .. (Depth - 1), frames[k].code = "init"
               PROVE  modules' = Blank
    BY <1>3
  <2>1. k \in 1 .. Depth /\ Depth \in (k + 1) .. Depth
    BY <1>2
  <2> QED BY <1>1, <2>1 DEF IInv, InitBlank, Top
<1>6. TypeOK'
  BY <1>1, <1>2, LeaveFacts DEF IInv, TypeOK, StoreType
<1> QED BY <1>3, <1>4, <1>5, <1>6 DEF IInv, StackGood, ModulesGood, StartedHasHandler

\* A transaction begins with one frame.
LEMMA TransactStep ==
    ASSUME IInv, Transact
    PROVE  IInv'
<1>1. /\ frames = <<>> /\ ret' = None
      /\ modules' = modules /\ handler' = handler /\ implementation' = implementation
  BY DEF Transact, storage
<1>2. PICK c \in {"external", "validating"}, a \in Addr :
         /\ frames' = <<Frame(c, a, 0)>>
         /\ c = "external"   => a \in Contracts
         /\ c = "validating" => a = EntryPoint
  BY AddrFacts DEF Transact
<1>3. c \in Code /\ c \notin AccountCode /\ c \notin Authorised /\ 0 \in Nat
      /\ c \notin {"init", "setup"} /\ (c \in EntryPointCode => c = "validating")
  BY <1>2 DEF Code, AccountCode, EntryPointCode, Authorised
<1> DEFINE f == Frame(c, a, 0)
<1>4. f \in FrameType /\ f.code = c /\ f.self = a /\ f.left = 0 /\ f.saved = Store
  BY <1>3, FrameInType DEF IInv
<1> HIDE DEF f
<1>5. frames' = <<f>> /\ Len(<<f>>) = 1 /\ <<f>>[1] = f /\ <<f>> \in Seq(FrameType)
  BY <1>2, <1>4 DEF f
<1>6. Depth' = 1 /\ frames'[1] = f /\ frames' \in Seq(FrameType)
  BY <1>5 DEF Depth
<1>7. \A k \in 1 .. 1 : k = 1
  OBVIOUS
<1>8. ~InInit /\ ~InInit'
  <2>1. Depth = 0
    BY <1>1, EmptySeq DEF Depth
  <2> QED BY <1>3, <1>4, <1>6, <1>7, <2>1 DEF InInit
<1>9. WellFormed(modules) /\ (Started(modules) => handler # Zero)
  BY <1>8 DEF IInv, ModulesGood, StartedHasHandler
<1>10. TypeOK'
  BY <1>1, <1>6 DEF IInv, TypeOK
<1>11. SelfRight'
  BY <1>2, <1>3, <1>4, <1>6, <1>7 DEF SelfRight
<1>12. SavedGood'
  BY <1>4, <1>6, <1>7, <1>9 DEF SavedGood, Store
<1>13. StartedUpwards'
  BY <1>1, <1>4, <1>6, <1>7 DEF StartedUpwards, Store, Started
<1>14. AuthorityStarted'
  BY <1>3, <1>4, <1>6, <1>7 DEF AuthorityStarted
<1>15. InitBlank' /\ SetupInInit'
  BY <1>3, <1>4, <1>6, <1>7 DEF InitBlank, SetupInInit
<1>16. ModulesGood' /\ StartedHasHandler'
  BY <1>1, <1>8, <1>9 DEF ModulesGood, StartedHasHandler
<1> QED BY <1>10, <1>11, <1>12, <1>13, <1>14, <1>15, <1>16 DEF IInv

\* Two frames at once: the account's, and the module's it calls.
LEMMA ValidateUserOpStep ==
    ASSUME IInv, NEW m \in Contracts, ValidateUserOp(m)
    PROVE  IInv'
<1>0. Account \in Addr /\ m \in Addr /\ None \notin Addr
  BY AddrFacts
<1>1. /\ frames # <<>> /\ ret = None /\ Top.code = "validating"
      /\ modules[m] # Zero /\ ret' = None
      /\ modules' = modules /\ handler' = handler /\ implementation' = implementation
  BY DEF ValidateUserOp, storage
<1>2. /\ Depth \in Nat /\ Depth \in 1 .. Depth /\ frames \in Seq(FrameType)
      /\ Top \in FrameType /\ Top.left \in Nat
      /\ \A k \in 1 .. Depth : frames[k].left \in Nat
  <2>1. \A k \in 1 .. Len(frames) : frames[k] \in FrameType
    BY ElementOfSeq DEF IInv, TypeOK
  <2> QED BY <1>1, <2>1, TopInType DEF IInv, TypeOK, FrameType, Depth
<1>3. ~InInit /\ WellFormed(modules) /\ Started(modules)
  <2>1. ~InInit
    <3>1. modules # Blank
      BY <1>0, <1>1 DEF Blank
    <3> QED BY <1>1, <3>1, BlankInInit, <1>0
  <2> QED BY <1>0, <1>1, <2>1, LinkedStarted DEF IInv, ModulesGood
<1> DEFINE n    == Top.left + 1
           top  == [Top EXCEPT !.left = n]
           more == [frames EXCEPT ![Depth] = top]
           f1   == Frame("validateUserOp", Account, 0)
           f2   == Frame("external", m, 0)
<1>4. frames' = Append(Append(more, f1), f2)
  <2>1. [frames EXCEPT ![Depth].left = @ + 1] = more
    BY DEF Top
  <2> QED BY <2>1 DEF ValidateUserOp
<1>5. /\ top \in FrameType /\ top.code = Top.code /\ top.self = Top.self
      /\ top.saved = Top.saved
  BY <1>2 DEF FrameType
<1>6. /\ f1 \in FrameType /\ f1.code = "validateUserOp" /\ f1.self = Account
      /\ f1.left = 0 /\ f1.saved = Store
      /\ f2 \in FrameType /\ f2.code = "external" /\ f2.self = m
      /\ f2.left = 0 /\ f2.saved = Store
  <2>1. {"validateUserOp", "external"} \subseteq Code /\ 0 \in Nat
    BY DEF Code, AccountCode
  <2> QED BY <1>0, <2>1, FrameInType DEF IInv
<1> HIDE DEF n, top, f1, f2
<1>7. /\ more \in Seq(FrameType) /\ Len(more) = Depth
      /\ \A k \in 1 .. Depth : more[k] = IF k = Depth THEN top ELSE frames[k]
  BY <1>2, <1>5, ExceptSeq DEF Depth
<1> HIDE DEF more
<1> DEFINE D == Depth + 1
           E == Depth + 2
<1>8. /\ frames' \in Seq(FrameType) /\ Depth' = E
      /\ \A k \in 1 .. Depth : frames'[k] = more[k]
      /\ frames'[D] = f1 /\ frames'[E] = f2
  <2>1. /\ Append(more, f1) \in Seq(FrameType)
        /\ Len(Append(more, f1)) = Depth + 1
        /\ \A k \in 1 .. Depth : Append(more, f1)[k] = more[k]
        /\ Append(more, f1)[Depth + 1] = f1
    BY <1>6, <1>7, AppendProperties
  <2>2. /\ frames' \in Seq(FrameType)
        /\ Len(frames') = Depth + 1 + 1
        /\ \A k \in 1 .. (Depth + 1) : frames'[k] = Append(more, f1)[k]
        /\ frames'[Depth + 1 + 1] = f2
    BY <1>4, <1>6, <2>1, AppendProperties
  <2> QED BY <1>2, <2>1, <2>2 DEF Depth
<1>9. \A k \in 1 .. Depth : /\ frames'[k].code = frames[k].code
                            /\ frames'[k].self = frames[k].self
                            /\ frames'[k].saved = frames[k].saved
  BY <1>5, <1>7, <1>8 DEF Top
<1>10. \A k \in 1 .. E : k \in 1 .. Depth \/ k = D \/ k = E
  BY <1>2
<1>11. /\ modules' = modules /\ Store.modules = modules /\ Store.handler = handler
  BY <1>1 DEF Store
<1>12. \A k \in 1 .. Depth : frames[k].code # "init"
  BY <1>3 DEF InInit
<1>13. TypeOK'
  BY <1>1, <1>8 DEF IInv, TypeOK
<1>14. SelfRight'
  BY <1>6, <1>8, <1>9, <1>10 DEF IInv, SelfRight, AccountCode, EntryPointCode
<1>15. SavedGood'
  BY <1>3, <1>6, <1>8, <1>9, <1>10, <1>11 DEF IInv, SavedGood, StartedHasHandler
<1>16. \A k \in 1 .. Depth : \A j \in k .. E :
          (j \in k .. Depth /\ j \in 1 .. Depth) \/ j = D \/ j = E
  <2> SUFFICES ASSUME NEW k \in 1 .. Depth, NEW j \in k .. E
               PROVE  (j \in k .. Depth /\ j \in 1 .. Depth) \/ j = D \/ j = E
    OBVIOUS
  <2>1. CASE j <= Depth
    BY <1>2, <2>1
  <2>2. CASE j > Depth
    BY <1>2, <2>2
  <2> QED BY <1>2, <2>1, <2>2
<1>17. StartedUpwards'
  <2> SUFFICES ASSUME NEW k \in 1 .. E, Started(frames'[k].saved.modules)
               PROVE  \A j \in k .. E : Started(frames'[j].saved.modules)
    BY <1>3, <1>8, <1>11 DEF StartedUpwards
  <2>1. CASE k \in 1 .. Depth
    BY <1>3, <1>6, <1>8, <1>9, <1>11, <1>16, <2>1 DEF IInv, StartedUpwards
  <2>2. CASE k = D \/ k = E
    <3>1. \A j \in k .. E : j = D \/ j = E
      BY <1>2, <2>2
    <3> QED BY <1>3, <1>6, <1>8, <1>11, <3>1
  <2> QED BY <1>10, <2>1, <2>2
<1>18. AuthorityStarted'
  <2> SUFFICES ASSUME NEW k \in 1 .. E
               PROVE  /\ frames'[k].code \in Authorised => Started(frames'[k].saved.modules)
                      /\ (frames'[k].code \in {"validating", "executing"} /\ frames'[k].left > 0) =>
                            \A j \in (k + 1) .. E : Started(frames'[j].saved.modules)
    BY <1>3, <1>8, <1>11 DEF AuthorityStarted
  <2>1. CASE k = D \/ k = E
    BY <1>3, <1>6, <1>8, <1>11, <2>1 DEF Authorised
  <2>2. CASE k = Depth
    <3>1. \A j \in (k + 1) .. E : j = D \/ j = E
      BY <1>2, <2>2
    <3> QED BY <1>1, <1>2, <1>3, <1>6, <1>8, <1>9, <1>11, <2>2, <3>1 DEF Authorised, Top
  <2>3. CASE k \in 1 .. Depth /\ k # Depth
    <3>1. \A j \in (k + 1) .. E :
             (j \in (k + 1) .. Depth /\ j \in 1 .. Depth) \/ j = D \/ j = E
      BY <1>2, <2>3
    <3>2. frames'[k] = frames[k]
      BY <1>7, <1>8, <2>3
    <3>3. /\ frames[k].code \in Authorised => Started(frames[k].saved.modules)
          /\ (frames[k].code \in {"validating", "executing"} /\ frames[k].left > 0) =>
                \A j \in (k + 1) .. Depth : Started(frames[j].saved.modules)
      BY <2>3 DEF IInv, AuthorityStarted
    <3> QED BY <1>3, <1>6, <1>8, <1>9, <1>11, <3>1, <3>2, <3>3
  <2> QED BY <1>10, <2>1, <2>2, <2>3
<1>19. InitBlank'
  BY <1>6, <1>8, <1>9, <1>10, <1>12 DEF InitBlank
<1>20. SetupInInit'
  <2> SUFFICES ASSUME NEW k \in 1 .. E, frames'[k].code = "setup",
                      ~Started(frames'[k].saved.modules)
               PROVE  FALSE
    BY <1>8 DEF SetupInInit
  <2>1. k \in 1 .. Depth
    BY <1>6, <1>8, <1>10
  <2>2. \E j \in 1 .. (k - 1) : frames[j].code = "init"
    BY <1>9, <2>1 DEF IInv, SetupInInit
  <2> QED BY <1>2, <1>12, <2>1, <2>2
<1>21. ModulesGood' /\ StartedHasHandler'
  <2>1. ~InInit'
    BY <1>6, <1>8, <1>9, <1>10, <1>12 DEF InInit
  <2> QED BY <1>1, <1>3, <2>1 DEF IInv, ModulesGood, StartedHasHandler
<1> QED BY <1>13, <1>14, <1>15, <1>17, <1>18, <1>19, <1>20, <1>21 DEF IInv

\* The EntryPoint goes on to its second phase.
LEMMA ExecuteBundleStep ==
    ASSUME IInv, ExecuteBundle
    PROVE  IInv'
<1>1. /\ frames # <<>> /\ ret = None /\ Top.code = "validating" /\ ret' = None
      /\ modules' = modules /\ handler' = handler /\ implementation' = implementation
  BY DEF ExecuteBundle, storage
<1>2. Depth \in Nat /\ Depth \in 1 .. Depth /\ frames \in Seq(FrameType) /\ Top \in FrameType
  BY <1>1, TopInType DEF IInv, TypeOK
<1> DEFINE top == [Top EXCEPT !.code = "executing"]
<1>3. /\ top \in FrameType /\ top.code = "executing" /\ top.self = Top.self
      /\ top.saved = Top.saved /\ top.left = Top.left
  BY <1>2 DEF FrameType, Code, EntryPointCode
<1>4. frames' = [frames EXCEPT ![Depth] = top]
  BY DEF ExecuteBundle, Top
<1> HIDE DEF top
<1>5. /\ frames' \in Seq(FrameType) /\ Depth' = Depth
      /\ \A k \in 1 .. Depth : frames'[k] = IF k = Depth THEN top ELSE frames[k]
  BY <1>2, <1>3, <1>4, ExceptSeq DEF Depth
<1>6. \A k \in 1 .. Depth :
         /\ frames'[k].self = frames[k].self
         /\ frames'[k].saved = frames[k].saved
         /\ frames'[k].left = frames[k].left
         /\ \/ frames'[k].code = frames[k].code
            \/ frames'[k].code = "executing" /\ frames[k].code = "validating"
  BY <1>1, <1>3, <1>5 DEF Top
<1>7. \A k \in 1 .. Depth : \A j \in k .. Depth : j \in 1 .. Depth
  BY <1>2
<1>8. \A k \in 1 .. Depth : \A j \in (k + 1) .. Depth : j \in 1 .. Depth
  BY <1>2
<1>9. TypeOK'
  BY <1>1, <1>5 DEF IInv, TypeOK
<1>10. SelfRight'
  BY <1>5, <1>6 DEF IInv, SelfRight, AccountCode, EntryPointCode
<1>11. SavedGood'
  BY <1>5, <1>6 DEF IInv, SavedGood
<1>12. StartedUpwards'
  BY <1>1, <1>5, <1>6, <1>7 DEF IInv, StartedUpwards
<1>13. AuthorityStarted'
  <2> SUFFICES ASSUME NEW k \in 1 .. Depth
               PROVE  /\ frames'[k].code \in Authorised => Started(frames'[k].saved.modules)
                      /\ (frames'[k].code \in {"validating", "executing"} /\ frames'[k].left > 0) =>
                            /\ Started(modules)
                            /\ \A j \in (k + 1) .. Depth : Started(frames'[j].saved.modules)
    BY <1>1, <1>5 DEF AuthorityStarted
  <2> QED BY <1>6, <1>8 DEF IInv, AuthorityStarted, Authorised
<1>14. InitBlank'
  BY <1>1, <1>5, <1>6, <1>8 DEF IInv, InitBlank
<1>15. SetupInInit'
  <2> SUFFICES ASSUME NEW k \in 1 .. Depth, frames'[k].code = "setup",
                      ~Started(frames'[k].saved.modules)
               PROVE  /\ k > 1
                      /\ frames'[k - 1].code \in {"init", "setup"}
                      /\ \E j \in 1 .. (k - 1) : frames'[j].code = "init"
    BY <1>5 DEF SetupInInit
  <2>1. /\ k > 1
        /\ frames[k - 1].code \in {"init", "setup"}
        /\ \E j \in 1 .. (k - 1) : frames[j].code = "init"
    BY <1>6 DEF IInv, SetupInInit
  <2>2. k - 1 \in 1 .. Depth /\ \A j \in 1 .. (k - 1) : j \in 1 .. Depth
    BY <1>2, <2>1
  <2> QED BY <1>6, <2>1, <2>2
<1>16. InInit' = InInit
  BY <1>5, <1>6 DEF InInit
<1>17. InInit => modules = Blank
  BY <1>1, BlankInInit, AddrFacts
<1>18. ModulesGood' /\ StartedHasHandler'
  BY <1>1, <1>16, <1>17 DEF IInv, ModulesGood, StartedHasHandler
<1> QED BY <1>9, <1>10, <1>11, <1>12, <1>13, <1>14, <1>15, <1>18 DEF IInv

(***************************************************************************)
(* Part 6: the invariant, and what follows from it.                        *)
(***************************************************************************)

LEMMA InitIInv == Init => IInv
<1> SUFFICES ASSUME Init PROVE IInv
  OBVIOUS
<1>1. /\ modules = Blank /\ handler = Zero /\ frames = <<>> /\ ret = None
      /\ implementation \in Implementations
  BY DEF Init
<1>2. Depth = 0 /\ \A k \in 1 .. Depth : FALSE
  BY <1>1, EmptySeq DEF Depth
<1>3. TypeOK
  BY <1>1, AddrFacts, EmptySeq DEF TypeOK, Blank, Mapping
<1>4. ~InInit
  BY <1>2 DEF InInit
<1>5. ModulesGood /\ StartedHasHandler
  BY <1>1, <1>4, BlankWellFormed DEF ModulesGood, StartedHasHandler
<1>6. SelfRight /\ SavedGood /\ StartedUpwards /\ AuthorityStarted /\ InitBlank /\ SetupInInit
  BY <1>2 DEF SelfRight, SavedGood, StartedUpwards, AuthorityStarted, InitBlank, SetupInInit
<1> QED BY <1>3, <1>5, <1>6 DEF IInv

LEMMA StutterIInv ==
    ASSUME IInv, UNCHANGED vars
    PROVE  IInv'
<1>1. /\ modules' = modules /\ handler' = handler /\ implementation' = implementation
      /\ frames' = frames /\ ret' = ret
  BY DEF vars
<1>2. Depth' = Depth /\ Top' = Top
  BY <1>1 DEF Depth, Top
<1>3. InInit' = InInit /\ Stubbed' = Stubbed
  BY <1>1, <1>2 DEF InInit, Stubbed
<1> QED BY <1>1, <1>2, <1>3
        DEF IInv, TypeOK, SelfRight, SavedGood, StartedUpwards, AuthorityStarted,
            InitBlank, SetupInInit, ModulesGood, StartedHasHandler, Started

LEMMA NextIInv == IInv /\ [Next]_vars => IInv'
<1> SUFFICES ASSUME IInv, [Next]_vars PROVE IInv'
  OBVIOUS
<1>1. ASSUME NEW h \in Handlers \cup {Zero}, InitAccount(h) \/ SetFallbackHandler(h)
      PROVE  IInv'
  BY <1>1, InitAccountStep, SetFallbackHandlerStep
<1>2. ASSUME NEW m \in Candidates \cup {Zero, Sentinel},
             EnableModule(m) \/ \E prev \in Addr : DisableModule(prev, m)
      PROVE  IInv'
  BY <1>2, EnableModuleStep, DisableModuleStep
<1>3. ASSUME NEW i \in Implementations \cup {CodeLess, Zero}, UpdateImplementation(i)
      PROVE  IInv'
  BY <1>3, UpdateImplementationStep
<1>4. CASE InitDone \/ SetupDone
  BY <1>4, InitDoneStep, SetupDoneStep
<1>5. CASE \/ SetupAndEnableModule \/ Execute \/ ExecuteBatch
           \/ ExecFromModule \/ ExecBatchFromModule \/ MultiSend \/ Fallback
           \/ HandleOps \/ InnerHandleOp
           \/ \E c \in Contracts : CallContract(c)
  BY <1>5, EnterSteps
<1>6. CASE ValidateUserOpDone \/ ExecuteBundle
  BY <1>6, ValidateUserOpDoneStep, ExecuteBundleStep
<1>7. ASSUME NEW c \in Contracts, ValidateUserOp(c)
      PROVE  IInv'
  BY <1>7, ValidateUserOpStep
<1>8. CASE Transact \/ CallFails \/ FallbackEnds \/ Return \/ Revert
  BY <1>8, TransactStep, CallFailsStep, ReturnStep, RevertStep
<1>9. CASE UNCHANGED vars
  BY <1>9, StutterIInv
<1> QED BY <1>1, <1>2, <1>3, <1>4, <1>5, <1>6, <1>7, <1>8, <1>9 DEF Next

\* The invariant holds in every state an account reaches.
THEOREM Invariance == Spec => []IInv
BY InitIInv, NextIInv, PTL DEF Spec

\* Every variable keeps its type, the implementation slot included.
THEOREM TypeCorrect == Spec => []TypeOK
<1>1. IInv => TypeOK
  BY DEF IInv
<1> QED BY <1>1, Invariance, PTL

\* Outside init the module list is one ring through the sentinel, whatever
\* re-enters and whatever reverts, and so is all that a revert puts back.
THEOREM ListAlwaysIntact == Spec => []ListIntact
<1>1. IInv => ListIntact
  BY DEF IInv, ModulesGood, SavedGood, ListIntact
<1> QED BY <1>1, Invariance, PTL

\* However many modules there are: a page with room for every address shows the enabled
\* ones, each once.  (ModuleManager.sol:56-81)
THEOREM PageAlwaysShowsAll == Spec => []PageShowsAll
<1>1. IInv => PageShowsAll
  <2> SUFFICES ASSUME IInv, Started(modules), ~InInit
               PROVE  LET p == Page(modules, Sentinel, Cardinality(Addr))
                      IN  /\ {p.array[k] : k \in 1 .. Len(p.array)} = Enabled(modules)
                          /\ Len(p.array) = Cardinality(Enabled(modules))
                          /\ p.next = Sentinel
    BY DEF PageShowsAll
  <2>1. WellFormed(modules)
    BY DEF IInv, ModulesGood
  <2> QED BY <2>1, PageShows
<1> QED BY <1>1, Invariance, PTL

\* init is never re-entered and only ever starts blank storage.
THEOREM InitAlwaysAlone == Spec => []InitAlone
<1>1. IInv => InitAlone
  BY DEF IInv, InitBlank, InitAlone
<1> QED BY <1>1, Invariance, PTL

\* Nobody holds authority over an account while its init runs.
THEOREM InitAlwaysIsolated == Spec => []InitIsolated
<1>1. IInv => InitIsolated
  <2> SUFFICES ASSUME IInv, NEW i \in 1 .. Depth, frames[i].code = "init",
                      NEW k \in 1 .. Depth, frames[k].code \in Authorised
               PROVE  FALSE
    BY DEF InitIsolated, InInit
  <2>0. Depth \in Nat
    BY LenProperties DEF IInv, TypeOK, Depth
  <2>1. Started(frames[k].saved.modules)
    BY DEF IInv, AuthorityStarted
  <2>2. ~Started(frames[i].saved.modules)
    BY BlankWellFormed DEF IInv, InitBlank
  <2>3. i # k
    BY DEF Authorised
  <2>4. CASE k < i
    <3>1. i \in k .. Depth
      BY <2>0, <2>4
    <3> QED BY <2>1, <2>2, <3>1 DEF IInv, StartedUpwards
  <2>5. CASE k > i
    <3>1. k \in (i + 1) .. Depth
      BY <2>0, <2>5
    <3>2. frames[k].saved.modules = Blank
      BY <3>1 DEF IInv, InitBlank
    <3> QED BY <2>1, <3>2, BlankWellFormed
  <2> QED BY <2>0, <2>3, <2>4, <2>5
<1> QED BY <1>1, Invariance, PTL

\* A started account has a fallback handler.
THEOREM StartedAlwaysHasHandler == Spec => []StartedHasHandler
<1>1. IInv => StartedHasHandler
  BY DEF IInv
<1> QED BY <1>1, Invariance, PTL

(***************************************************************************)
(* Part 7: what a step does to a started account.                          *)
(***************************************************************************)

\* Undoing the top frame.
LEMMA RevertUnwinds ==
    ASSUME IInv, Revert
    PROVE  Unwound /\ frames # <<>>
<1>1. frames # <<>> /\ Leave(Fail) /\ Store' = Top.saved
  <2>1. Top.saved \in StoreType
    BY TopInType DEF IInv, Revert
  <2> QED BY <2>1 DEF Revert, Store, StoreType
<1>2. Depth \in Nat /\ Depth' = Depth - 1
  BY <1>1, TopInType, LeaveFacts DEF IInv
<1> QED BY <1>1, <1>2 DEF Unwound

LEMMA StartedStep ==
    ASSUME IInv, [Next]_vars, Started(modules), ~Started(modules')
    PROVE  Unwound /\ frames # <<>>
<1>0. modules \in Mapping /\ Sentinel \in Addr /\ modules' # modules
  BY AddrFacts DEF IInv, TypeOK
<1>1. ~(\E h \in Handlers \cup {Zero} : InitAccount(h) \/ SetFallbackHandler(h))
  BY <1>0 DEF InitAccount, SetFallbackHandler
<1>2. ASSUME NEW m, EnableModule(m)
      PROVE  FALSE
  <2>1. m # Zero /\ modules' = Link(modules, m)
    BY <1>2 DEF EnableModule, CanLink, Proper
  <2> QED BY <1>0, <2>1 DEF Link, Started, Mapping
<1>3. ASSUME NEW m, NEW prev \in Addr, DisableModule(prev, m)
      PROVE  FALSE
  <2>1. /\ CanUnlink(modules, prev, m) /\ modules' = Unlink(modules, prev, m)
        /\ CallsAccount /\ FromEntryPointOrSelf
    BY <1>3 DEF DisableModule
  <2>2. WellFormed(modules)
    BY <2>1, PrivilegedStarted, BlankWellFormed
  <2> QED BY <2>1, <2>2, UnlinkWellFormed
<1>4. ~(\E i \in Implementations \cup {CodeLess, Zero} : UpdateImplementation(i))
  BY <1>0 DEF UpdateImplementation
<1>5. ~InitDone
  <2> SUFFICES ASSUME InitDone PROVE FALSE
    OBVIOUS
  <2>1. ret # Zero /\ modules' = Start(modules, ret)
    BY DEF InitDone, CanStart, Proper
  <2> QED BY <1>0, <2>1 DEF Start, Started, Mapping
<1>6. ~SetupDone
  <2> SUFFICES ASSUME SetupDone PROVE FALSE
    OBVIOUS
  <2>1. ret # Zero /\ modules' = Link(modules, ret)
    BY DEF SetupDone, CanLink, Proper
  <2> QED BY <1>0, <2>1 DEF Link, Started, Mapping
<1>7. ~(\/ SetupAndEnableModule \/ Execute \/ ExecuteBatch
        \/ ExecFromModule \/ ExecBatchFromModule \/ MultiSend \/ Fallback
        \/ HandleOps \/ InnerHandleOp
        \/ \E c \in Contracts : CallContract(c))
  BY <1>0 DEF SetupAndEnableModule, Execute, ExecuteBatch, ExecFromModule,
              ExecBatchFromModule, MultiSend, Fallback, HandleOps, InnerHandleOp,
              CallContract, storage
<1>8. ~(\/ ValidateUserOpDone \/ ExecuteBundle \/ Transact \/ CallFails \/ FallbackEnds \/ Return
        \/ \E c \in Contracts : ValidateUserOp(c))
  BY <1>0 DEF ValidateUserOpDone, ExecuteBundle, Transact, CallFails, FallbackEnds, Return,
              ValidateUserOp, storage
<1>9. ~UNCHANGED vars
  BY <1>0 DEF vars
<1>10. Revert
  BY <1>1, <1>2, <1>3, <1>4, <1>5, <1>6, <1>7, <1>8, <1>9 DEF Next
<1> QED BY <1>10, RevertUnwinds

\* No call, however deep, makes a started account one that init could take: only
\* undoing what started it does.  (SmartAccount.sol:95-106, ModuleManager.sol:247-257)
THEOREM StartedAlwaysForGood == Spec => StartedForGood
<1>1. IInv /\ [Next]_vars =>
         [Started(modules) /\ ~Started(modules') => Unwound /\ frames # <<>>]_vars
  BY StartedStep
<1> QED BY <1>1, Invariance, PTL DEF StartedForGood, Spec

(***************************************************************************)
(* Part 8: by whose authority a started account's storage changes.         *)
(***************************************************************************)

\* Mandated, for a given stack.
Mandate(fs, k) ==
    \E j \in 1 .. k :
       /\ \/ fs[j].code = "innerHandleOp"
          \/ /\ fs[j].code = "execFromModule"
             /\ j > 1
             /\ IsEnabled(fs[j].saved.modules, fs[j - 1].self)
       /\ \A i \in (j + 1) .. k : fs[i].self = Account

\* Code that calls from the account's address and may call the account.
Acting == {"setup", "execute", "execFromModule", "multiSend"}

\* What acts as the account is mandated, or part of its init.
Vouched(fs, k) ==
    /\ fs[k].code \in Acting =>
          Mandate(fs, k) \/ \E j \in 1 .. k : fs[j].code = "init"
    /\ fs[k].code = "validateUserOp" => fs[k].left = 0

AllVouched == \A k \in 1 .. Depth : Vouched(frames, k)

\* A frame keeps its mandate while the frames up to it stay what they are.
Same(f, g) == /\ g.self = f.self /\ g.saved = f.saved
              /\ g.left \in Nat /\ (f.left = 0 => g.left = 0)
              /\ \/ g.code = f.code
                 \/ f.code = "validating" /\ g.code = "executing"

LEMMA MandateSame ==
    ASSUME NEW fs, NEW gs, NEW k \in Nat, Mandate(fs, k),
           \A j \in 1 .. k : Same(fs[j], gs[j])
    PROVE  Mandate(gs, k)
<1>1. PICK j \in 1 .. k :
         /\ \/ fs[j].code = "innerHandleOp"
            \/ /\ fs[j].code = "execFromModule"
               /\ j > 1
               /\ IsEnabled(fs[j].saved.modules, fs[j - 1].self)
         /\ \A i \in (j + 1) .. k : fs[i].self = Account
  BY DEF Mandate
<1>2. gs[j].code = fs[j].code /\ gs[j].saved = fs[j].saved
  BY <1>1 DEF Same
<1>3. j > 1 => gs[j - 1].self = fs[j - 1].self
  <2>1. j > 1 => j - 1 \in 1 .. k
    OBVIOUS
  <2> QED BY <2>1 DEF Same
<1>4. \A i \in (j + 1) .. k : gs[i].self = Account
  <2>1. \A i \in (j + 1) .. k : i \in 1 .. k
    OBVIOUS
  <2> QED BY <1>1, <2>1 DEF Same
<1> QED BY <1>1, <1>2, <1>3, <1>4 DEF Mandate

LEMMA VouchedSame ==
    ASSUME NEW fs, NEW gs, NEW n \in Nat, \A k \in 1 .. n : Vouched(fs, k),
           \A j \in 1 .. n : Same(fs[j], gs[j])
    PROVE  \A k \in 1 .. n : Vouched(gs, k)
<1> SUFFICES ASSUME NEW k \in 1 .. n PROVE Vouched(gs, k)
  OBVIOUS
<1>1. k \in Nat /\ \A j \in 1 .. k : j \in 1 .. n
  OBVIOUS
<1>2. Mandate(fs, k) => Mandate(gs, k)
  BY <1>1, MandateSame
<1>3. Vouched(fs, k) /\ Same(fs[k], gs[k])
  OBVIOUS
<1>4. \A j \in 1 .. k : fs[j].code = "init" => gs[j].code = "init"
  BY <1>1 DEF Same
<1> QED BY <1>2, <1>3, <1>4 DEF Vouched, Same, Acting

\* A mandate extends to what the account calls from itself.
LEMMA MandateExtends ==
    ASSUME NEW fs, NEW n \in Nat, n > 0, Vouched(fs, n), fs[n].code \in Acting,
           fs[n + 1].self = Account
    PROVE  Mandate(fs, n + 1) \/ \E j \in 1 .. n + 1 : fs[j].code = "init"
<1>1. CASE Mandate(fs, n)
  <2>1. PICK j \in 1 .. n :
           /\ \/ fs[j].code = "innerHandleOp"
              \/ /\ fs[j].code = "execFromModule"
                 /\ j > 1
                 /\ IsEnabled(fs[j].saved.modules, fs[j - 1].self)
           /\ \A i \in (j + 1) .. n : fs[i].self = Account
    BY <1>1 DEF Mandate
  <2>2. \A i \in (j + 1) .. n + 1 : i \in (j + 1) .. n \/ i = n + 1
    OBVIOUS
  <2>3. j \in 1 .. n + 1
    OBVIOUS
  <2> QED BY <2>1, <2>2, <2>3 DEF Mandate
<1>2. CASE \E j \in 1 .. n : fs[j].code = "init"
  <2>1. \A j \in 1 .. n : j \in 1 .. n + 1
    OBVIOUS
  <2> QED BY <1>2, <2>1
<1> QED BY <1>1, <1>2 DEF Vouched

\* A frame that may call the account with its own address, or the EntryPoint's.
LEMMA PrivilegedCode ==
    ASSUME IInv, AllVouched, CallsAccount, FromEntryPointOrSelf
    PROVE  Top.code \in Acting \cup {"init", "innerHandleOp"}
<1>1. frames # <<>> /\ Depth \in 1 .. Depth /\ Top.left \in Nat
  BY TopInType DEF IInv, CallsAccount, Calling
<1>2. Top.code \in Authorised \cup {"init", "setup"}
  BY PrivilegedCaller
<1>3. Top.code # "validateUserOp"
  <2> SUFFICES ASSUME Top.code = "validateUserOp" PROVE FALSE
    OBVIOUS
  <2>1. Top.left = 0
    BY <1>1 DEF AllVouched, Vouched, Top
  <2> QED BY <2>1 DEF CallsAccount, Calling
<1> QED BY <1>2, <1>3 DEF Authorised, Acting

LEMMA AnswerVouched ==
    ASSUME IInv, AllVouched, frames # <<>>, NEW v \in Addr \cup {Fail}, Answer(v)
    PROVE  AllVouched'
<1>1. Depth \in Nat /\ frames \in Seq(FrameType)
  BY TopInType DEF IInv, TypeOK
<1>2. /\ frames' \in Seq(FrameType)
      /\ Depth' = Depth
      /\ \A k \in 1 .. Depth : /\ frames'[k].code = frames[k].code
                               /\ frames'[k].self = frames[k].self
                               /\ frames'[k].saved = frames[k].saved
                               /\ frames'[k].left <= frames[k].left
  BY AnswerFacts DEF IInv
<1>3. \A k \in 1 .. Depth : frames'[k] \in FrameType
  BY <1>2, ElementOfSeq DEF Depth
<1>4. \A k \in 1 .. Depth : frames'[k].left \in Nat
  BY <1>3 DEF FrameType
<1>5. \A k \in 1 .. Depth : Same(frames[k], frames'[k])
  BY <1>2, <1>4 DEF Same
<1>6. \A k \in 1 .. Depth : Vouched(frames', k)
  BY <1>1, <1>5, VouchedSame DEF AllVouched
<1> QED BY <1>2, <1>6 DEF AllVouched, Vouched, Mandate

LEMMA LeaveVouched ==
    ASSUME IInv, AllVouched, frames # <<>>, NEW v \in Addr \cup {Fail}, Leave(v)
    PROVE  AllVouched'
<1>1. Depth \in Nat /\ Depth >= 1 /\ frames \in Seq(FrameType)
  BY TopInType DEF IInv, TypeOK
<1>2. Depth' = Depth - 1 /\ \A k \in 1 .. Depth - 1 : frames'[k] = frames[k]
  BY LeaveFacts DEF IInv
<1>3. \A k \in 1 .. Depth - 1 : k \in 1 .. Depth
  BY <1>1
<1>4. \A k \in 1 .. Depth - 1 : frames[k].left \in Nat
  <2>1. \A k \in 1 .. Depth - 1 : frames[k] \in FrameType
    BY <1>1, <1>3, ElementOfSeq DEF Depth
  <2> QED BY <2>1 DEF FrameType
<1>5. \A k \in 1 .. Depth - 1 : Same(frames[k], frames'[k])
  BY <1>2, <1>4 DEF Same
<1>6. \A k \in 1 .. Depth - 1 : Vouched(frames, k)
  BY <1>3 DEF AllVouched
<1>7. Depth - 1 \in Nat
  BY <1>1
<1>8. \A k \in 1 .. Depth - 1 : Vouched(frames', k)
  BY <1>5, <1>6, <1>7, VouchedSame
<1> QED BY <1>2, <1>8 DEF AllVouched, Vouched, Mandate

\* Who may make the account act: itself, an operation, or a module.
LEMMA EnterVouched ==
    ASSUME IInv, AllVouched, frames # <<>>,
           NEW c \in Code \ {"validateUserOp"}, NEW a \in Addr, NEW n \in Nat,
           Enter(c, a, n),
           c \in Acting =>
              /\ a = Account
              /\ \/ Top.code \in Acting \cup {"init", "innerHandleOp"}
                 \/ c = "execFromModule" /\ IsEnabled(modules, Caller)
    PROVE  AllVouched'
<1>1. Depth \in Nat /\ Depth >= 1 /\ Depth \in 1 .. Depth /\ Depth + 1 \in 1 .. Depth + 1
  BY TopInType DEF IInv
<1>2. /\ frames' \in Seq(FrameType)
      /\ Depth' = Depth + 1
      /\ \A k \in 1 .. Depth : /\ frames'[k].code = frames[k].code
                               /\ frames'[k].self = frames[k].self
                               /\ frames'[k].saved = frames[k].saved
                               /\ frames'[k].left <= frames[k].left
      /\ frames'[Depth + 1].code = c
      /\ frames'[Depth + 1].self = a
      /\ frames'[Depth + 1].saved = Store
  BY EnterFacts DEF IInv
<1>3. \A k \in 1 .. Depth : frames[k].left \in Nat /\ frames'[k].left \in Nat
  <2>1. \A k \in 1 .. Depth : frames[k] \in FrameType
    BY ElementOfSeq DEF IInv, TypeOK, Depth
  <2>2. \A k \in 1 .. Depth + 1 : frames'[k] \in FrameType
    BY <1>2, ElementOfSeq DEF Depth
  <2>3. \A k \in 1 .. Depth : k \in 1 .. Depth + 1
    BY <1>1
  <2> QED BY <2>1, <2>2, <2>3 DEF FrameType
<1>4. \A k \in 1 .. Depth : Same(frames[k], frames'[k])
  BY <1>2, <1>3 DEF Same
<1>5. \A k \in 1 .. Depth : Vouched(frames', k)
  BY <1>1, <1>4, VouchedSame DEF AllVouched
<1>6. frames'[Depth].code = Top.code /\ frames'[Depth].self = Caller
  BY <1>1, <1>2 DEF Top, Caller
<1>7. ASSUME c \in Acting
      PROVE  Mandate(frames', Depth + 1) \/ \E j \in 1 .. Depth + 1 : frames'[j].code = "init"
  <2>1. CASE Top.code \in Acting
    BY <1>1, <1>2, <1>5, <1>6, <1>7, <2>1, MandateExtends
  <2>2. CASE Top.code = "init"
    <3>1. Depth \in 1 .. Depth + 1
      BY <1>1
    <3> QED BY <1>6, <2>2, <3>1
  <2>3. CASE Top.code = "innerHandleOp"
    <3>1. Depth \in 1 .. Depth + 1 /\ \A i \in Depth + 1 .. Depth + 1 : i = Depth + 1
      BY <1>1
    <3> QED BY <1>2, <1>6, <1>7, <2>3, <3>1 DEF Mandate
  <2>4. CASE c = "execFromModule" /\ IsEnabled(modules, Caller)
    <3>1. /\ Depth + 1 > 1 /\ (Depth + 1) - 1 = Depth
          /\ \A i \in (Depth + 1) + 1 .. Depth + 1 : FALSE
      BY <1>1
    <3>2. IsEnabled(frames'[Depth + 1].saved.modules, frames'[(Depth + 1) - 1].self)
      BY <1>2, <1>6, <2>4, <3>1 DEF Store
    <3> QED BY <1>1, <1>2, <2>4, <3>1, <3>2 DEF Mandate
  <2> QED BY <1>7, <2>1, <2>2, <2>3, <2>4
<1>8. Vouched(frames', Depth + 1)
  BY <1>2, <1>7 DEF Vouched
<1>9. \A k \in 1 .. Depth + 1 : k \in 1 .. Depth \/ k = Depth + 1
  BY <1>1
<1>10. \A k \in 1 .. Depth + 1 : Vouched(frames', k)
  BY <1>5, <1>8, <1>9
<1> QED BY <1>2, <1>10 DEF AllVouched, Vouched, Mandate

\* What enters a frame.
LEMMA EnterStepsVouched ==
    ASSUME IInv, AllVouched,
           \/ \E h \in Handlers \cup {Zero} : InitAccount(h)
           \/ SetupAndEnableModule \/ Execute \/ ExecuteBatch
           \/ ExecFromModule \/ ExecBatchFromModule \/ MultiSend \/ Fallback
           \/ HandleOps \/ InnerHandleOp
           \/ \E c \in Contracts : CallContract(c)
    PROVE  AllVouched'
<1>0. /\ Account \in Addr /\ EntryPoint \in Addr /\ Contracts \subseteq Addr
      /\ Account # EntryPoint /\ EntryPoint \notin Contracts
      /\ 0 \in Nat /\ 1 \in Nat /\ 2 \in Nat /\ 1 .. MaxBatch \subseteq Nat
  BY AddrFacts, BoundsAssumption
<1>1. /\ {"init", "setup", "execute", "execFromModule", "multiSend", "external",
          "validating", "innerHandleOp"} \subseteq Code \ {"validateUserOp"}
      /\ {"init", "external", "validating", "innerHandleOp"} \cap Acting = {}
      /\ {"execFromModule", "multiSend"} \subseteq Acting
  BY DEF Code, AccountCode, EntryPointCode, Acting
<1>2. ASSUME NEW h \in Handlers \cup {Zero}, InitAccount(h)
      PROVE  AllVouched'
  <2>1. frames # <<>> /\ Enter("init", Account, 1)
    BY <1>2 DEF InitAccount, CallsAccount, Calling
  <2> QED BY <1>0, <1>1, <2>1, EnterVouched
<1>3. CASE SetupAndEnableModule
  <2>1. /\ CallsAccount /\ FromEntryPointOrSelf /\ Enter("setup", Account, 1)
        /\ frames # <<>>
    BY <1>3 DEF SetupAndEnableModule, CallsAccount, Calling
  <2>2. Top.code \in Acting \cup {"init", "innerHandleOp"}
    BY <2>1, PrivilegedCode
  <2> QED BY <1>0, <1>1, <2>1, <2>2, EnterVouched
<1>4. ASSUME CallsAccount, FromEntryPoint, NEW n \in Nat, Enter("execute", Account, n)
      PROVE  AllVouched'
  <2>1. FromEntryPointOrSelf /\ frames # <<>>
    BY <1>4 DEF FromEntryPoint, FromEntryPointOrSelf, CallsAccount, Calling
  <2>2. Top.code \in Acting \cup {"init", "innerHandleOp"}
    BY <1>4, <2>1, PrivilegedCode
  <2> QED BY <1>0, <1>1, <1>4, <2>1, <2>2, EnterVouched
<1>5. CASE Execute \/ ExecuteBatch
  <2>1. CallsAccount /\ FromEntryPoint /\ \E n \in Nat : Enter("execute", Account, n)
    BY <1>0, <1>5 DEF Execute, ExecuteBatch
  <2> QED BY <1>4, <2>1
<1>6. CASE ExecFromModule \/ ExecBatchFromModule
  <2>1. /\ CallsAccount /\ FromModule /\ frames # <<>>
        /\ \E n \in Nat : Enter("execFromModule", Account, n)
    BY <1>0, <1>6 DEF ExecFromModule, ExecBatchFromModule, CallsAccount, Calling
  <2>2. PICK n \in Nat : Enter("execFromModule", Account, n)
    BY <2>1
  <2> QED BY <1>0, <1>1, <2>1, <2>2, EnterVouched DEF FromModule
<1>7. CASE MultiSend
  <2>1. /\ Top.code \in {"execFromModule", "multiSend"} /\ frames # <<>>
        /\ \E n \in Nat : Enter("multiSend", Account, n)
    BY <1>0, <1>7 DEF MultiSend, Calling
  <2>2. PICK n \in Nat : Enter("multiSend", Account, n)
    BY <2>1
  <2> QED BY <1>0, <1>1, <2>1, <2>2, EnterVouched
<1>8. CASE Fallback \/ \E c \in Contracts : CallContract(c)
  <2>1. /\ frames # <<>>
        /\ \E c \in {"external", "validating"}, a \in Addr : Enter(c, a, 0)
    BY <1>0, <1>8 DEF Fallback, CallContract, CallsAccount, Calling
  <2>2. PICK c \in {"external", "validating"}, a \in Addr : Enter(c, a, 0)
    BY <2>1
  <2>3. c \in Code \ {"validateUserOp"} /\ c \notin Acting
    BY <1>1
  <2> QED BY <1>0, <2>1, <2>2, <2>3, EnterVouched
<1>9. CASE HandleOps
  <2>1. frames # <<>> /\ Enter("validating", EntryPoint, 0)
    BY <1>9 DEF HandleOps, Calling
  <2> QED BY <1>0, <1>1, <2>1, EnterVouched
<1>10. CASE InnerHandleOp
  <2>1. frames # <<>> /\ Enter("innerHandleOp", EntryPoint, 2)
    BY <1>10 DEF InnerHandleOp
  <2> QED BY <1>0, <1>1, <2>1, EnterVouched
<1> QED BY <1>2, <1>3, <1>5, <1>6, <1>7, <1>8, <1>9, <1>10

\* The EntryPoint's own steps.
LEMMA ValidateUserOpVouched ==
    ASSUME IInv, AllVouched, NEW m \in Contracts, ValidateUserOp(m)
    PROVE  AllVouched'
<1>1. /\ frames # <<>> /\ Account \in Addr /\ m \in Addr
      /\ Depth \in Nat /\ Depth \in 1 .. Depth /\ frames \in Seq(FrameType)
      /\ Top \in FrameType /\ Top.left \in Nat
  BY AddrFacts, TopInType DEF ValidateUserOp, IInv, TypeOK
<1> DEFINE top  == [Top EXCEPT !.left = @ + 1]
           more == [frames EXCEPT ![Depth] = top]
           f1   == Frame("validateUserOp", Account, 0)
           f2   == Frame("external", m, 0)
<1>2. frames' = Append(Append(more, f1), f2)
  <2>1. [frames EXCEPT ![Depth].left = @ + 1] = more
    BY DEF Top
  <2> QED BY <2>1 DEF ValidateUserOp
<1>3. /\ top \in FrameType /\ top.code = Top.code /\ top.self = Top.self
      /\ top.saved = Top.saved
  BY <1>1 DEF FrameType
<1>4. /\ f1 \in FrameType /\ f1.code = "validateUserOp" /\ f1.left = 0
      /\ f2 \in FrameType /\ f2.code = "external"
  <2>1. {"validateUserOp", "external"} \subseteq Code /\ 0 \in Nat
    BY DEF Code, AccountCode
  <2> QED BY <1>1, <2>1, FrameInType DEF IInv
<1>5. Top.code = "validating"
  BY DEF ValidateUserOp
<1> HIDE DEF top, f1, f2
<1>6. /\ more \in Seq(FrameType) /\ Len(more) = Depth
      /\ \A k \in 1 .. Depth : more[k] = IF k = Depth THEN top ELSE frames[k]
  BY <1>1, <1>3, ExceptSeq DEF Depth
<1> HIDE DEF more
<1>7. /\ Depth' = Depth + 2
      /\ \A k \in 1 .. Depth : frames'[k] = more[k]
      /\ frames'[Depth + 1] = f1 /\ frames'[Depth + 2] = f2
  <2>1. /\ Append(more, f1) \in Seq(FrameType)
        /\ Len(Append(more, f1)) = Depth + 1
        /\ \A k \in 1 .. Depth : Append(more, f1)[k] = more[k]
        /\ Append(more, f1)[Depth + 1] = f1
    BY <1>4, <1>6, AppendProperties
  <2>2. /\ Len(frames') = Depth + 1 + 1
        /\ \A k \in 1 .. Depth + 1 : frames'[k] = Append(more, f1)[k]
        /\ frames'[Depth + 1 + 1] = f2
    BY <1>2, <1>4, <2>1, AppendProperties
  <2> QED BY <1>1, <2>1, <2>2 DEF Depth
<1>8. \A j \in 1 .. Depth - 1 : Same(frames[j], frames'[j])
  <2> SUFFICES ASSUME NEW j \in 1 .. Depth - 1 PROVE Same(frames[j], frames'[j])
    OBVIOUS
  <2>1. j \in 1 .. Depth /\ j # Depth
    BY <1>1
  <2>2. frames'[j] = frames[j] /\ frames[j] \in FrameType
    BY <1>1, <1>6, <1>7, <2>1, ElementOfSeq DEF Depth
  <2> QED BY <2>2 DEF Same, FrameType
<1>9. \A k \in 1 .. Depth - 1 : Vouched(frames', k)
  <2>1. Depth - 1 \in Nat /\ \A k \in 1 .. Depth - 1 : k \in 1 .. Depth
    BY <1>1
  <2> QED BY <1>8, <2>1, VouchedSame DEF AllVouched
<1>10. Vouched(frames', Depth)
  BY <1>1, <1>3, <1>5, <1>6, <1>7 DEF Vouched, Acting
<1>11. Vouched(frames', Depth + 1) /\ Vouched(frames', Depth + 2)
  BY <1>4, <1>7 DEF Vouched, Acting
<1>12. \A k \in 1 .. Depth + 2 :
          k \in 1 .. Depth - 1 \/ k = Depth \/ k = Depth + 1 \/ k = Depth + 2
  BY <1>1
<1>13. \A k \in 1 .. Depth + 2 : Vouched(frames', k)
  BY <1>9, <1>10, <1>11, <1>12
<1> QED BY <1>7, <1>13 DEF AllVouched, Vouched, Mandate

LEMMA ExecuteBundleVouched ==
    ASSUME IInv, AllVouched, ExecuteBundle
    PROVE  AllVouched'
<1>1. /\ frames # <<>> /\ Top.code = "validating"
      /\ Depth \in Nat /\ Depth \in 1 .. Depth /\ frames \in Seq(FrameType)
      /\ Top \in FrameType
  BY TopInType DEF ExecuteBundle, IInv, TypeOK
<1> DEFINE top == [Top EXCEPT !.code = "executing"]
<1>2. /\ top \in FrameType /\ top.code = "executing" /\ top.self = Top.self
      /\ top.saved = Top.saved /\ top.left = Top.left /\ top.left \in Nat
  BY <1>1 DEF FrameType, Code, EntryPointCode
<1>3. frames' = [frames EXCEPT ![Depth] = top]
  BY DEF ExecuteBundle, Top
<1> HIDE DEF top
<1>4. /\ Depth' = Depth
      /\ \A k \in 1 .. Depth : frames'[k] = IF k = Depth THEN top ELSE frames[k]
  BY <1>1, <1>2, <1>3, ExceptSeq DEF Depth
<1>5. \A k \in 1 .. Depth : frames[k].left \in Nat
  <2>1. \A k \in 1 .. Depth : frames[k] \in FrameType
    BY <1>1, ElementOfSeq DEF Depth
  <2> QED BY <2>1 DEF FrameType
<1>6. \A k \in 1 .. Depth : Same(frames[k], frames'[k])
  BY <1>1, <1>2, <1>4, <1>5 DEF Same, Top
<1>7. \A k \in 1 .. Depth : Vouched(frames', k)
  BY <1>1, <1>6, VouchedSame DEF AllVouched
<1> QED BY <1>4, <1>7 DEF AllVouched, Vouched, Mandate

LEMMA TransactVouched ==
    ASSUME IInv, Transact
    PROVE  AllVouched'
<1>1. PICK c \in {"external", "validating"}, a \in Addr : frames' = <<Frame(c, a, 0)>>
  BY AddrFacts DEF Transact
<1>2. Depth' = 1 /\ frames'[1].code = c
  BY <1>1 DEF Depth, Frame
<1>3. Vouched(frames', 1)
  BY <1>2 DEF Vouched, Acting
<1>4. \A k \in 1 .. 1 : k = 1
  OBVIOUS
<1>5. \A k \in 1 .. 1 : Vouched(frames', k)
  BY <1>3, <1>4
<1> QED BY <1>2, <1>5 DEF AllVouched, Vouched, Mandate

LEMMA NextVouched ==
    ASSUME IInv, AllVouched, [Next]_vars
    PROVE  AllVouched'
<1>0. Zero \in Addr
  BY AddrFacts
<1>1. CASE \/ \E h \in Handlers \cup {Zero} : InitAccount(h)
           \/ SetupAndEnableModule \/ Execute \/ ExecuteBatch
           \/ ExecFromModule \/ ExecBatchFromModule \/ MultiSend \/ Fallback
           \/ HandleOps \/ InnerHandleOp
           \/ \E c \in Contracts : CallContract(c)
  BY <1>1, EnterStepsVouched
<1>2. CASE \/ \E h \in Handlers \cup {Zero} : SetFallbackHandler(h)
           \/ \E m \in Candidates \cup {Zero, Sentinel} :
                 EnableModule(m) \/ \E prev \in Addr : DisableModule(prev, m)
           \/ \E i \in Implementations \cup {CodeLess, Zero} : UpdateImplementation(i)
           \/ CallFails \/ FallbackEnds
  <2>1. frames # <<>> /\ \E v \in Addr \cup {Fail} : Answer(v)
    BY <1>0, <1>2 DEF SetFallbackHandler, EnableModule, DisableModule,
                      UpdateImplementation, CallFails, FallbackEnds, CallsAccount,
                      Calling
  <2> QED BY <2>1, AnswerVouched
<1>3. CASE InitDone \/ SetupDone \/ ValidateUserOpDone \/ Return \/ Revert
  <2>1. Answers \subseteq Addr
    BY AddrFacts DEF Answers
  <2>2. frames # <<>> /\ \E v \in Addr \cup {Fail} : Leave(v)
    BY <1>0, <1>3, <2>1 DEF InitDone, SetupDone, ValidateUserOpDone, Return, Revert
  <2> QED BY <2>2, LeaveVouched
<1>4. CASE ExecuteBundle \/ \E c \in Contracts : ValidateUserOp(c)
  BY <1>4, ExecuteBundleVouched, ValidateUserOpVouched
<1>5. CASE Transact
  BY <1>5, TransactVouched
<1>6. CASE UNCHANGED vars
  BY <1>6 DEF vars, AllVouched, Vouched, Mandate, Depth
<1> QED BY <1>1, <1>2, <1>3, <1>4, <1>5, <1>6 DEF Next

\* Outside an init, what acts on top of the stack is mandated.
LEMMA ActingMandated ==
    ASSUME IInv, AllVouched, frames # <<>>, ~InInit,
           Top.code \in Acting \cup {"init", "innerHandleOp"}
    PROVE  Mandated(Depth)
<1>1. Depth \in Nat /\ Depth \in 1 .. Depth
  BY TopInType DEF IInv
<1>2. Top.code # "init"
  BY <1>1 DEF InInit, Top
<1>3. CASE Top.code = "innerHandleOp"
  <2>1. \A i \in Depth + 1 .. Depth : FALSE
    BY <1>1
  <2> QED BY <1>1, <1>3, <2>1 DEF Mandated, Top
<1>4. CASE Top.code \in Acting
  <2>1. Mandate(frames, Depth)
    BY <1>1, <1>4 DEF AllVouched, Vouched, InInit, Top
  <2> QED BY <2>1 DEF Mandate, Mandated
<1> QED BY <1>2, <1>3, <1>4

LEMMA ChangeStep ==
    ASSUME IInv, AllVouched, [Next]_vars, Started(modules), ~InInit, Store' # Store
    PROVE  Unwound \/ Mandated(Depth)
<1>1. ~UNCHANGED storage
  BY DEF storage, Store
<1>2. ASSUME CallsAccount, FromEntryPointOrSelf
      PROVE  Mandated(Depth)
  <2>1. frames # <<>>
    BY <1>2 DEF CallsAccount, Calling
  <2> QED BY <1>2, <2>1, PrivilegedCode, ActingMandated
<1>3. ~(\E h \in Handlers \cup {Zero} : InitAccount(h))
  BY DEF InitAccount, InitTest
<1>4. ASSUME \/ \E h \in Handlers \cup {Zero} : SetFallbackHandler(h)
             \/ \E m \in Candidates \cup {Zero, Sentinel} :
                   EnableModule(m) \/ \E prev \in Addr : DisableModule(prev, m)
             \/ \E i \in Implementations \cup {CodeLess, Zero} : UpdateImplementation(i)
      PROVE  Mandated(Depth)
  BY <1>2, <1>4 DEF SetFallbackHandler, EnableModule, DisableModule, UpdateImplementation
<1>5. ~InitDone
  <2>1. frames # <<>> => Depth \in 1 .. Depth
    BY TopInType DEF IInv
  <2> QED BY <2>1 DEF InitDone, InInit, Top
<1>6. SetupDone => Mandated(Depth)
  BY ActingMandated DEF SetupDone, Acting
<1>7. ~(\/ SetupAndEnableModule \/ Execute \/ ExecuteBatch
        \/ ExecFromModule \/ ExecBatchFromModule \/ MultiSend \/ Fallback
        \/ HandleOps \/ InnerHandleOp
        \/ \E c \in Contracts : CallContract(c))
  BY <1>1 DEF SetupAndEnableModule, Execute, ExecuteBatch, ExecFromModule,
              ExecBatchFromModule, MultiSend, Fallback, HandleOps, InnerHandleOp,
              CallContract
<1>8. ~(\/ ValidateUserOpDone \/ ExecuteBundle \/ Transact \/ CallFails \/ FallbackEnds \/ Return
        \/ \E c \in Contracts : ValidateUserOp(c))
  BY <1>1 DEF ValidateUserOpDone, ExecuteBundle, Transact, CallFails, FallbackEnds,
              Return, ValidateUserOp
<1>9. ~UNCHANGED vars
  BY <1>1 DEF vars, storage
<1> QED BY <1>3, <1>4, <1>5, <1>6, <1>7, <1>8, <1>9, RevertUnwinds DEF Next

\* However calls come back and whatever reverts: a started account's storage changes
\* by undoing a call, or by a chain of its own calls that an operation or an enabled
\* module began.  (SmartAccount.sol:388-402, ModuleManager.sol:97-99, 179-181)
THEOREM ChangesAlwaysMandated == Spec => ChangesMandated
<1>1. Init => AllVouched
  <2>1. Init => \A k \in 1 .. Depth : FALSE
    BY EmptySeq DEF Init, Depth
  <2> QED BY <2>1 DEF AllVouched
<1>2. IInv /\ AllVouched /\ [Next]_vars => AllVouched'
  BY NextVouched
<1>3. IInv /\ AllVouched /\ [Next]_vars =>
         [(Started(modules) /\ ~InInit /\ Store' # Store)
             => Unwound \/ Mandated(Depth)]_vars
  BY ChangeStep
<1> QED BY <1>1, <1>2, <1>3, Invariance, PTL DEF ChangesMandated, Spec

(***************************************************************************)
(* Part 9: the account implements ModuleRegistry.                          *)
(***************************************************************************)

\* What the registry is told of the account.
AbsEnabled == IF InInit THEN {} ELSE Enabled(modules)
AbsStarted == ~InInit /\ Started(modules)

MarkOf(store) == [enabled |-> Enabled(store.modules), started |-> Started(store.modules)]

MarksOf(fs) == [k \in 1 .. Len(fs) |-> MarkOf(fs[k].saved)]

Marks == MarksOf(frames)

MarkType == [enabled : SUBSET Addr, started : BOOLEAN]

LEMMA FunctionIsSeq ==
    ASSUME NEW S, NEW n \in Nat, NEW f \in [1 .. n -> S]
    PROVE  f \in Seq(S) /\ Len(f) = n
OBVIOUS

LEMMA MarksFacts ==
    ASSUME NEW fs \in Seq(FrameType)
    PROVE  /\ Len(fs) \in Nat /\ MarksOf(fs) \in Seq(MarkType)
           /\ Len(MarksOf(fs)) = Len(fs)
           /\ \A k \in 1 .. Len(fs) : MarksOf(fs)[k] = MarkOf(fs[k].saved)
<1>1. Len(fs) \in Nat
  BY LenProperties
<1>2. \A k \in 1 .. Len(fs) : MarkOf(fs[k].saved) \in MarkType
  BY DEF MarkOf, MarkType, Enabled, Started
<1>3. MarksOf(fs) \in [1 .. Len(fs) -> MarkType]
  BY <1>2 DEF MarksOf
<1> QED BY <1>1, <1>3, FunctionIsSeq DEF MarksOf

LEMMA MarksAppend ==
    ASSUME NEW fs \in Seq(FrameType), NEW gs \in Seq(FrameType),
           Len(gs) = Len(fs) + 1,
           \A k \in 1 .. Len(fs) : gs[k].saved = fs[k].saved
    PROVE  MarksOf(gs) = Append(MarksOf(fs), MarkOf(gs[Len(fs) + 1].saved))
<1> DEFINE m  == MarkOf(gs[Len(fs) + 1].saved)
           ms == Append(MarksOf(fs), m)
<1>1. m \in MarkType
  BY DEF MarkOf, MarkType, Enabled, Started
<1> HIDE DEF m
<1>2. /\ ms \in Seq(MarkType) /\ Len(ms) = Len(fs) + 1
      /\ \A k \in 1 .. Len(fs) : ms[k] = MarksOf(fs)[k]
      /\ ms[Len(fs) + 1] = m
  BY <1>1, MarksFacts, AppendProperties
<1>3. \A k \in 1 .. Len(gs) : k \in 1 .. Len(fs) \/ k = Len(fs) + 1
  BY MarksFacts
<1>4. \A k \in 1 .. Len(gs) : MarksOf(gs)[k] = MarkOf(gs[k].saved)
  BY MarksFacts
<1>5. \A k \in 1 .. Len(fs) : MarksOf(fs)[k] = MarkOf(fs[k].saved)
  BY MarksFacts
<1>6. \A k \in 1 .. Len(gs) : MarksOf(gs)[k] = ms[k]
  BY <1>2, <1>3, <1>4, <1>5 DEF m
<1>7. MarksOf(gs) \in Seq(MarkType) /\ Len(MarksOf(gs)) = Len(gs)
  BY MarksFacts
<1> HIDE DEF ms
<1>8. MarksOf(gs) = ms
  BY <1>2, <1>6, <1>7, SeqEqual
<1> QED BY <1>8 DEF ms, m

LEMMA MarksOuter ==
    ASSUME NEW fs \in Seq(FrameType), NEW gs \in Seq(FrameType), fs # <<>>,
           Len(gs) = Len(fs) - 1,
           \A k \in 1 .. Len(gs) : gs[k].saved = fs[k].saved
    PROVE  MarksOf(gs) = SubSeq(MarksOf(fs), 1, Len(MarksOf(fs)) - 1)
<1> DEFINE n  == Len(fs) - 1
           ms == SubSeq(MarksOf(fs), 1, n)
<1>1. n \in Nat /\ n + 1 = Len(fs) /\ Len(MarksOf(fs)) = Len(fs)
  <2>1. Len(fs) \in Nat \ {0}
    BY EmptySeq
  <2> QED BY <2>1, MarksFacts
<1>2. \A k \in 1 .. n : k \in 1 .. Len(fs)
  BY <1>1
<1>3. \A k \in 1 .. n : MarksOf(fs)[k] \in MarkType
  <2>1. \A k \in 1 .. Len(MarksOf(fs)) : MarksOf(fs)[k] \in MarkType
    BY MarksFacts, ElementOfSeq
  <2> QED BY <1>1, <1>2, <2>1
<1>4. /\ ms \in Seq(MarkType)
      /\ Len(ms) = IF 1 <= n THEN n - 1 + 1 ELSE 0
      /\ \A k \in 1 .. n - 1 + 1 : ms[k] = MarksOf(fs)[1 + k - 1]
  <2>1. 1 \in Int /\ n \in Int
    BY <1>1
  <2> QED BY <1>3, <2>1, SubSeqProperties
<1>5. Len(ms) = n /\ \A k \in 1 .. n : ms[k] = MarksOf(fs)[k]
  BY <1>1, <1>4
<1>6. /\ MarksOf(gs) \in Seq(MarkType) /\ Len(MarksOf(gs)) = n
      /\ \A k \in 1 .. n : MarksOf(gs)[k] = MarkOf(gs[k].saved)
  BY MarksFacts
<1>7. \A k \in 1 .. n : MarksOf(fs)[k] = MarkOf(fs[k].saved)
  BY <1>2, MarksFacts
<1>8. \A k \in 1 .. n : MarksOf(gs)[k] = ms[k]
  BY <1>5, <1>6, <1>7
<1> HIDE DEF ms
<1>9. MarksOf(gs) = ms
  BY <1>4, <1>5, <1>6, <1>8, SeqEqual
<1> QED BY <1>1, <1>9 DEF ms

\* The registry's steps in these terms.
LEMMA RegistryOpens ==
    ASSUME \/ Marks' = Append(Marks, [enabled |-> AbsEnabled, started |-> AbsStarted])
           \/ Marks' = Append(Append(Marks, [enabled |-> AbsEnabled, started |-> AbsStarted]),
                              [enabled |-> AbsEnabled, started |-> AbsStarted]),
           AbsEnabled' = AbsEnabled, AbsStarted' = AbsStarted
    PROVE  Registry!RegNext
BY DEF Registry!RegNext, Registry!Open, Registry!Mark, Marks, MarksOf, MarkOf,
       AbsEnabled, AbsStarted, Depth

LEMMA RegistryKeeps ==
    ASSUME Marks # <<>>, Marks' = SubSeq(Marks, 1, Len(Marks) - 1),
           AbsEnabled' = AbsEnabled, AbsStarted' = AbsStarted
    PROVE  Registry!RegNext
BY DEF Registry!RegNext, Registry!Keep, Registry!Outer, Marks, MarksOf, MarkOf,
       AbsEnabled, AbsStarted, Depth

LEMMA RegistryUndoes ==
    ASSUME Marks # <<>>, Marks' = SubSeq(Marks, 1, Len(Marks) - 1),
           AbsEnabled' = Marks[Len(Marks)].enabled,
           AbsStarted' = Marks[Len(Marks)].started
    PROVE  Registry!RegNext
BY DEF Registry!RegNext, Registry!Undo, Registry!Outer, Marks, MarksOf, MarkOf,
       AbsEnabled, AbsStarted, Depth

LEMMA RegistryStarts ==
    ASSUME NEW m \in Proper,
           Marks # <<>>, Marks' = SubSeq(Marks, 1, Len(Marks) - 1),
           ~AbsStarted, AbsStarted' = TRUE, AbsEnabled' = {m}
    PROVE  Registry!RegNext
BY DEF Registry!RegNext, Registry!First, Registry!Outer, Marks, MarksOf, MarkOf,
       AbsEnabled, AbsStarted, Depth

LEMMA RegistryAdds ==
    ASSUME NEW m \in Proper,
           Marks # <<>>, Marks' \in {Marks, SubSeq(Marks, 1, Len(Marks) - 1)},
           AbsStarted, AbsStarted' = AbsStarted,
           m \notin AbsEnabled, AbsEnabled' = AbsEnabled \cup {m}
    PROVE  Registry!RegNext
BY DEF Registry!RegNext, Registry!Add, Registry!Outer, Marks, MarksOf, MarkOf,
       AbsEnabled, AbsStarted, Depth

LEMMA RegistryDrops ==
    ASSUME NEW m \in Proper, Marks # <<>>, Marks' = Marks,
           AbsStarted' = AbsStarted,
           m \in AbsEnabled, AbsEnabled' = AbsEnabled \ {m}
    PROVE  Registry!RegNext
BY DEF Registry!RegNext, Registry!Drop, Marks, MarksOf, MarkOf,
       AbsEnabled, AbsStarted, Depth

LEMMA RegistryStutters ==
    ASSUME Marks' = Marks, AbsEnabled' = AbsEnabled, AbsStarted' = AbsStarted
    PROVE  UNCHANGED Registry!regVars
BY DEF Registry!regVars, Marks, MarksOf, MarkOf, AbsEnabled, AbsStarted, Depth

LEMMA MarksNotEmpty ==
    ASSUME IInv, frames # <<>>
    PROVE  /\ Depth \in Nat /\ Depth \in 1 .. Depth /\ frames \in Seq(FrameType)
           /\ Marks # <<>> /\ Len(Marks) = Depth /\ Marks[Len(Marks)] = MarkOf(Top.saved)
<1>1. Depth \in Nat /\ Depth \in 1 .. Depth /\ frames \in Seq(FrameType)
  BY TopInType DEF IInv, TypeOK
<1>2. /\ Marks \in Seq(MarkType) /\ Len(Marks) = Depth
      /\ \A k \in 1 .. Depth : Marks[k] = MarkOf(frames[k].saved)
  BY <1>1, MarksFacts DEF Marks, Depth
<1>3. Marks # <<>>
  BY <1>1, <1>2, EmptySeq
<1> QED BY <1>1, <1>2, <1>3 DEF Top

LEMMA AnswerMarks ==
    ASSUME IInv, frames # <<>>, NEW v \in Addr \cup {Fail}, Answer(v)
    PROVE  Marks' = Marks /\ InInit' = InInit
<1>1. /\ frames' \in Seq(FrameType) /\ Depth' = Depth
      /\ \A k \in 1 .. Depth : /\ frames'[k].code = frames[k].code
                               /\ frames'[k].saved = frames[k].saved
  BY AnswerFacts DEF IInv
<1>2. InInit' = InInit
  BY <1>1 DEF InInit
<1> QED BY <1>1, <1>2 DEF Marks, MarksOf, Depth

LEMMA EnterMarks ==
    ASSUME IInv, frames # <<>>, ret = None,
           NEW c \in Code, NEW a \in Addr, NEW n \in Nat, Enter(c, a, n),
           modules' = modules, c = "init" => modules = Blank
    PROVE  Registry!RegNext
<1>1. /\ frames' \in Seq(FrameType) /\ Depth' = Depth + 1
      /\ \A k \in 1 .. Depth : /\ frames'[k].code = frames[k].code
                               /\ frames'[k].saved = frames[k].saved
      /\ frames'[Depth + 1].code = c /\ frames'[Depth + 1].saved = Store
  BY EnterFacts DEF IInv
<1>2. Depth \in Nat /\ frames \in Seq(FrameType)
  BY MarksNotEmpty
<1>3. Marks' = Append(Marks, MarkOf(Store))
  BY <1>1, <1>2, MarksAppend DEF Marks, Depth
<1>4. InInit => modules = Blank
  BY BlankInInit, AddrFacts
<1>5. MarkOf(Store) = [enabled |-> AbsEnabled, started |-> AbsStarted]
  <2>1. Enabled(modules) = AbsEnabled
    BY <1>4, BlankWellFormed DEF AbsEnabled
  <2>2. Started(modules) = AbsStarted
    BY <1>4, BlankWellFormed DEF AbsStarted, Started
  <2>3. MarkOf(Store) = [enabled |-> Enabled(modules), started |-> Started(modules)]
    BY DEF MarkOf, Store
  <2> QED BY <2>1, <2>2, <2>3
<1>6. InInit' <=> (InInit \/ c = "init")
  <2>1. \A k \in 1 .. Depth + 1 : k \in 1 .. Depth \/ k = Depth + 1
    BY <1>2
  <2>2. Depth + 1 \in 1 .. Depth + 1 /\ \A k \in 1 .. Depth : k \in 1 .. Depth + 1
    BY <1>2
  <2> QED BY <1>1, <2>1, <2>2 DEF InInit
<1>7. AbsEnabled' = AbsEnabled /\ AbsStarted' = AbsStarted
  <2>1. Started(modules') = Started(modules) /\ Enabled(modules') = Enabled(modules)
    OBVIOUS
  <2>2. (InInit \/ c = "init") => Enabled(modules) = {} /\ ~Started(modules)
    BY <1>4, BlankWellFormed
  <2>3. CASE InInit \/ c = "init"
    BY <1>6, <2>1, <2>2, <2>3 DEF AbsEnabled, AbsStarted
  <2>4. CASE ~(InInit \/ c = "init")
    BY <1>6, <2>1, <2>4 DEF AbsEnabled, AbsStarted, Enabled, IsEnabled, Started
  <2> QED BY <2>3, <2>4
<1> QED BY <1>3, <1>5, <1>7, RegistryOpens

LEMMA LeaveMarks ==
    ASSUME IInv, frames # <<>>, NEW v \in Addr \cup {Fail}, Leave(v)
    PROVE  /\ Marks' = SubSeq(Marks, 1, Len(Marks) - 1)
           /\ InInit' <=> \E k \in 1 .. Depth - 1 : frames[k].code = "init"
<1>1. /\ frames' \in Seq(FrameType) /\ Depth' = Depth - 1
      /\ \A k \in 1 .. Depth' : frames'[k] = frames[k]
  BY LeaveFacts DEF IInv
<1>2. Depth \in Nat /\ frames \in Seq(FrameType)
  BY MarksNotEmpty
<1>3. Marks' = SubSeq(Marks, 1, Len(Marks) - 1)
  BY <1>1, <1>2, MarksOuter DEF Marks, Depth
<1>4. InInit' <=> \E k \in 1 .. Depth - 1 : frames[k].code = "init"
  BY <1>1 DEF InInit
<1> QED BY <1>3, <1>4

\* Inside an init is what lies above it.
LEMMA InInitBelow ==
    ASSUME IInv, frames # <<>>
    PROVE  /\ Top.code # "init" =>
                 (InInit <=> \E k \in 1 .. Depth - 1 : frames[k].code = "init")
           /\ (\E k \in 1 .. Depth - 1 : frames[k].code = "init") =>
                 /\ InInit /\ Top.code # "init" /\ Top.saved.modules = Blank
           /\ Top.code = "init" => InInit
<1>1. Depth \in Nat /\ Depth \in 1 .. Depth
  BY MarksNotEmpty
<1>2. \A k \in 1 .. Depth : k \in 1 .. Depth - 1 \/ k = Depth
  BY <1>1
<1>3. \A k \in 1 .. Depth - 1 : k \in 1 .. Depth /\ Depth \in (k + 1) .. Depth
  BY <1>1
<1> QED BY <1>1, <1>2, <1>3 DEF InInit, IInv, InitBlank, Top

LEMMA LeaveKeepsRegistry ==
    ASSUME IInv, frames # <<>>, NEW v \in Addr \cup {Fail}, Leave(v),
           modules' = modules, Top.code # "init"
    PROVE  Registry!RegNext
<1>1. InInit' <=> InInit
  BY LeaveMarks, InInitBelow
<1>2. AbsEnabled' = AbsEnabled /\ AbsStarted' = AbsStarted
  BY <1>1 DEF AbsEnabled, AbsStarted, Started, Enabled, IsEnabled
<1> QED BY <1>2, LeaveMarks, MarksNotEmpty, RegistryKeeps

LEMMA RevertRegistry ==
    ASSUME IInv, Revert
    PROVE  Registry!RegNext
<1>1. frames # <<>> /\ Leave(Fail) /\ modules' = Top.saved.modules
  BY DEF Revert
<1>2. InInit' => Top.saved.modules = Blank
  BY <1>1, LeaveMarks, InInitBelow
<1>3. /\ Started(modules') = Started(Top.saved.modules)
      /\ Enabled(modules') = Enabled(Top.saved.modules)
  BY <1>1
<1>4. AbsEnabled' = Enabled(Top.saved.modules)
  BY <1>2, <1>3, BlankWellFormed DEF AbsEnabled, Enabled, IsEnabled
<1>5. AbsStarted' = Started(Top.saved.modules)
  BY <1>2, <1>3, BlankWellFormed DEF AbsStarted, Started
<1> QED BY <1>1, <1>4, <1>5, LeaveMarks, MarksNotEmpty, RegistryUndoes DEF MarkOf

LEMMA InitDoneRegistry ==
    ASSUME IInv, InitDone
    PROVE  Registry!RegNext
<1>1. /\ frames # <<>> /\ Top.code = "init" /\ ret \in Proper /\ ret \in Addr
      /\ modules' = Start(modules, ret) /\ Leave(ret) /\ modules \in Mapping
  BY DEF InitDone, CanStart, IInv, TypeOK
<1>2. InInit /\ ~InInit'
  BY <1>1, LeaveMarks, InInitBelow
<1>3. \A a \in Addr \ {ret, Sentinel} : modules[a] = Zero
  <2>1. CASE modules = Blank
    BY <2>1 DEF Blank
  <2>2. CASE Stubbed
    <3>1. PICK m \in Proper : Stub(modules, m) /\ ret \in {m, Zero}
      BY <2>2 DEF Stubbed
    <3> QED BY <1>1, <3>1 DEF Stub, Proper
  <2> QED BY <1>2, <2>1, <2>2 DEF IInv, ModulesGood
<1>4. Started(modules') /\ Enabled(modules') = {ret}
  BY <1>1, <1>3, StartWellFormed
<1>5. AbsEnabled' = {ret} /\ AbsStarted' = TRUE /\ ~AbsStarted
  BY <1>2, <1>4 DEF AbsEnabled, AbsStarted, Enabled, IsEnabled, Started
<1> QED BY <1>1, <1>5, LeaveMarks, MarksNotEmpty, RegistryStarts

\* A module linked outside an init is added; inside it, nobody sees it.
LEMMA LinkRegistry ==
    ASSUME IInv, NEW m, CanLink(modules, m), modules' = Link(modules, m),
           ~InInit => Started(modules), InInit' = InInit
    PROVE  /\ ~InInit => /\ m \in Proper /\ AbsStarted /\ AbsStarted' = AbsStarted
                         /\ m \notin AbsEnabled /\ AbsEnabled' = AbsEnabled \cup {m}
           /\ InInit  => AbsEnabled' = AbsEnabled /\ AbsStarted' = AbsStarted
<1>1. CASE ~InInit
  <2>1. WellFormed(modules) /\ Started(modules)
    BY <1>1 DEF IInv, ModulesGood
  <2>2. /\ Started(modules') /\ m \notin Enabled(modules)
        /\ Enabled(modules') = Enabled(modules) \cup {m}
    BY <2>1, LinkWellFormed
  <2>3. m \in Proper
    BY DEF CanLink
  <2> QED BY <1>1, <2>1, <2>2, <2>3 DEF AbsEnabled, AbsStarted, Enabled, IsEnabled, Started
<1>2. CASE InInit
  BY <1>2 DEF AbsEnabled, AbsStarted
<1> QED BY <1>1, <1>2

LEMMA EnableModuleRegistry ==
    ASSUME IInv, NEW m, EnableModule(m)
    PROVE  Registry!RegNext \/ UNCHANGED Registry!regVars
<1>1. /\ CallsAccount /\ FromEntryPointOrSelf /\ CanLink(modules, m) /\ Zero \in Addr
      /\ modules' = Link(modules, m) /\ Answer(Zero) /\ frames # <<>>
  BY AddrFacts DEF EnableModule, CallsAccount, Calling
<1>2. Marks' = Marks /\ InInit' = InInit
  BY <1>1, AnswerMarks
<1>3. ~InInit => Started(modules)
  BY <1>1, PrivilegedStarted
<1>4. CASE InInit
  BY <1>1, <1>2, <1>3, <1>4, LinkRegistry, RegistryStutters
<1>5. CASE ~InInit
  <2>1. /\ m \in Proper /\ AbsStarted /\ AbsStarted' = AbsStarted
        /\ m \notin AbsEnabled /\ AbsEnabled' = AbsEnabled \cup {m}
    BY <1>1, <1>2, <1>3, <1>5, LinkRegistry
  <2> QED BY <1>1, <1>2, <2>1, MarksNotEmpty, RegistryAdds
<1> QED BY <1>4, <1>5

LEMMA SetupDoneRegistry ==
    ASSUME IInv, SetupDone
    PROVE  Registry!RegNext
<1>1. /\ frames # <<>> /\ Top.code = "setup" /\ ret \in Addr /\ CanLink(modules, ret)
      /\ modules' = Link(modules, ret) /\ Leave(ret)
  BY DEF SetupDone
<1>2. InInit' <=> InInit
  BY <1>1, LeaveMarks, InInitBelow
<1>3. ~InInit => Started(modules)
  BY <1>1, SetupOnTop, AuthorityOnTop
<1>4. Marks' = SubSeq(Marks, 1, Len(Marks) - 1) /\ Marks # <<>>
  BY <1>1, LeaveMarks, MarksNotEmpty
<1>5. InInit' = InInit
  BY <1>2 DEF InInit
<1>6. CASE InInit
  BY <1>1, <1>3, <1>4, <1>5, <1>6, LinkRegistry, RegistryKeeps
<1>7. CASE ~InInit
  <2>1. /\ ret \in Proper /\ AbsStarted /\ AbsStarted' = AbsStarted
        /\ ret \notin AbsEnabled /\ AbsEnabled' = AbsEnabled \cup {ret}
    BY <1>1, <1>3, <1>5, <1>7, LinkRegistry
  <2> QED BY <1>4, <2>1, RegistryAdds
<1> QED BY <1>6, <1>7

LEMMA DisableModuleRegistry ==
    ASSUME IInv, NEW prev \in Addr, NEW m, DisableModule(prev, m)
    PROVE  Registry!RegNext
<1>1. /\ CallsAccount /\ FromEntryPointOrSelf /\ CanUnlink(modules, prev, m)
      /\ modules' = Unlink(modules, prev, m) /\ Answer(Zero)
      /\ frames # <<>> /\ Zero \in Addr
  BY AddrFacts DEF DisableModule, CallsAccount, Calling
<1>2. modules # Blank /\ m \in Proper
  BY <1>1 DEF CanUnlink, Proper, Blank
<1>3. Started(modules) /\ ~InInit /\ WellFormed(modules)
  BY <1>1, <1>2, PrivilegedStarted
<1>4. /\ Started(modules') /\ m \in Enabled(modules)
      /\ Enabled(modules') = Enabled(modules) \ {m}
  BY <1>1, <1>3, UnlinkWellFormed
<1>5. Marks' = Marks /\ InInit' = InInit
  BY <1>1, AnswerMarks
<1>6. /\ AbsStarted' = AbsStarted
      /\ m \in AbsEnabled /\ AbsEnabled' = AbsEnabled \ {m}
  BY <1>3, <1>4, <1>5 DEF AbsEnabled, AbsStarted, Enabled, IsEnabled, Started
<1> QED BY <1>1, <1>2, <1>5, <1>6, MarksNotEmpty, RegistryDrops

\* Two sub-transactions at once: the account's, and the module's that it asks.
LEMMA ValidateUserOpRegistry ==
    ASSUME IInv, NEW m \in Contracts, ValidateUserOp(m)
    PROVE  Registry!RegNext
<1>1. /\ frames # <<>> /\ ret = None /\ Account \in Addr /\ m \in Addr
      /\ Depth \in Nat /\ Depth \in 1 .. Depth /\ frames \in Seq(FrameType)
      /\ Top \in FrameType /\ Top.left \in Nat
      /\ Top.code = "validating" /\ modules' = modules /\ modules[m] # Zero
  BY AddrFacts, TopInType DEF ValidateUserOp, IInv, TypeOK, storage
<1> DEFINE top  == [Top EXCEPT !.left = @ + 1]
           more == [frames EXCEPT ![Depth] = top]
           f1   == Frame("validateUserOp", Account, 0)
           f2   == Frame("external", m, 0)
<1>2. frames' = Append(Append(more, f1), f2)
  <2>1. [frames EXCEPT ![Depth].left = @ + 1] = more
    BY DEF Top
  <2> QED BY <2>1 DEF ValidateUserOp
<1>3. top \in FrameType /\ top.code = Top.code /\ top.saved = Top.saved
  BY <1>1 DEF FrameType
<1>4. /\ f1 \in FrameType /\ f1.code # "init" /\ f1.saved = Store
      /\ f2 \in FrameType /\ f2.code # "init" /\ f2.saved = Store
  <2>1. {"validateUserOp", "external"} \subseteq Code /\ 0 \in Nat
    BY DEF Code, AccountCode
  <2> QED BY <1>1, <2>1, FrameInType DEF IInv
<1> HIDE DEF top, f1, f2
<1>5. /\ more \in Seq(FrameType) /\ Len(more) = Depth
      /\ \A k \in 1 .. Depth : more[k] = IF k = Depth THEN top ELSE frames[k]
  BY <1>1, <1>3, ExceptSeq DEF Depth
<1>6. \A k \in 1 .. Depth : more[k].saved = frames[k].saved /\ more[k].code = frames[k].code
  BY <1>3, <1>5 DEF Top
<1> HIDE DEF more
<1> DEFINE mid == Append(more, f1)
<1>7. /\ mid \in Seq(FrameType) /\ Len(mid) = Depth + 1
      /\ \A k \in 1 .. Depth : mid[k] = more[k]
      /\ mid[Depth + 1] = f1
  BY <1>4, <1>5, AppendProperties
<1>8. /\ frames' \in Seq(FrameType) /\ Len(frames') = Depth + 1 + 1
      /\ \A k \in 1 .. Depth + 1 : frames'[k] = mid[k]
      /\ frames'[Depth + 1 + 1] = f2
  BY <1>2, <1>4, <1>7, AppendProperties
<1> HIDE DEF mid
<1>9. MarksOf(mid) = Append(Marks, MarkOf(Store))
  BY <1>1, <1>4, <1>6, <1>7, MarksAppend DEF Marks, Depth
<1>10. Marks' = Append(MarksOf(mid), MarkOf(Store))
  <2>1. MarksOf(frames') = Append(MarksOf(mid), MarkOf(frames'[Len(mid) + 1].saved))
    BY <1>7, <1>8, MarksAppend
  <2> QED BY <1>4, <1>7, <1>8, <2>1 DEF Marks
<1>11. ~InInit
  <2>1. modules # Blank
    BY <1>1 DEF Blank
  <2> QED BY <1>1, <2>1, BlankInInit, AddrFacts
<1>12. ~InInit'
  <2>1. \A k \in 1 .. Depth + 1 + 1 : k \in 1 .. Depth \/ k = Depth + 1 \/ k = Depth + 1 + 1
    BY <1>1
  <2>2. /\ Depth + 1 \in 1 .. Depth + 1
        /\ \A k \in 1 .. Depth : k \in 1 .. Depth + 1
    BY <1>1
  <2>3. \A k \in 1 .. Depth : frames'[k].code # "init"
    BY <1>6, <1>7, <1>8, <1>11, <2>2 DEF InInit
  <2> QED BY <1>4, <1>7, <1>8, <2>1, <2>2, <2>3 DEF InInit, Depth
<1>13. MarkOf(Store) = [enabled |-> AbsEnabled, started |-> AbsStarted]
  <2>1. Enabled(modules) = AbsEnabled
    BY <1>11 DEF AbsEnabled
  <2>2. Started(modules) = AbsStarted
    BY <1>11 DEF AbsStarted, Started
  <2>3. MarkOf(Store) = [enabled |-> Enabled(modules), started |-> Started(modules)]
    BY DEF MarkOf, Store
  <2> QED BY <2>1, <2>2, <2>3
<1>14. AbsEnabled' = AbsEnabled /\ AbsStarted' = AbsStarted
  BY <1>1, <1>11, <1>12 DEF AbsEnabled, AbsStarted, Enabled, IsEnabled, Started
<1> QED BY <1>9, <1>10, <1>13, <1>14, RegistryOpens

\* A bundle's second phase opens nothing.
LEMMA ExecuteBundleRegistry ==
    ASSUME IInv, ExecuteBundle
    PROVE  UNCHANGED Registry!regVars
<1>1. /\ frames # <<>> /\ Top.code = "validating" /\ modules' = modules
      /\ Depth \in Nat /\ Depth \in 1 .. Depth /\ frames \in Seq(FrameType)
      /\ Top \in FrameType
  BY TopInType DEF ExecuteBundle, IInv, TypeOK, storage
<1> DEFINE top == [Top EXCEPT !.code = "executing"]
<1>2. top \in FrameType /\ top.code = "executing" /\ top.saved = Top.saved
  BY <1>1 DEF FrameType, Code, EntryPointCode
<1>3. frames' = [frames EXCEPT ![Depth] = top]
  BY DEF ExecuteBundle, Top
<1> HIDE DEF top
<1>4. /\ Len(frames') = Len(frames)
      /\ \A k \in 1 .. Depth : frames'[k] = IF k = Depth THEN top ELSE frames[k]
  BY <1>1, <1>2, <1>3, ExceptSeq DEF Depth
<1>5. \A k \in 1 .. Depth : /\ frames'[k].saved = frames[k].saved
                            /\ frames'[k].code = "init" <=> frames[k].code = "init"
  BY <1>1, <1>2, <1>4 DEF Top
<1>6. Marks' = Marks
  BY <1>4, <1>5 DEF Marks, MarksOf, Depth
<1>7. InInit' <=> InInit
  BY <1>4, <1>5 DEF InInit, Depth
<1>8. AbsEnabled' = AbsEnabled /\ AbsStarted' = AbsStarted
  BY <1>1, <1>7 DEF AbsEnabled, AbsStarted, Enabled, IsEnabled, Started
<1> QED BY <1>6, <1>8, RegistryStutters

LEMMA TransactRegistry ==
    ASSUME IInv, Transact
    PROVE  Registry!RegNext
<1>1. frames = <<>> /\ modules' = modules
  BY DEF Transact, storage
<1>2. PICK c \in {"external", "validating"}, a \in Addr : frames' = <<Frame(c, a, 0)>>
  BY AddrFacts DEF Transact
<1> DEFINE f == Frame(c, a, 0)
<1>3. f \in FrameType /\ f.code # "init" /\ f.saved = Store
  <2>1. c \in Code /\ c # "init" /\ 0 \in Nat
    BY DEF Code, EntryPointCode
  <2> QED BY <2>1, FrameInType DEF IInv
<1> HIDE DEF f
<1>4. frames' = <<f>>
  BY <1>2 DEF f
<1>5. /\ frames \in Seq(FrameType) /\ frames' \in Seq(FrameType)
      /\ Len(frames) = 0 /\ Len(frames') = 1 /\ frames'[1] = f
  BY <1>1, <1>3, <1>4
<1>6. Marks' = Append(Marks, MarkOf(Store))
  <2>1. /\ Len(frames') = Len(frames) + 1
        /\ \A k \in 1 .. Len(frames) : frames'[k].saved = frames[k].saved
        /\ frames'[Len(frames) + 1].saved = Store
    BY <1>3, <1>5
  <2> QED BY <1>5, <2>1, MarksAppend DEF Marks
<1>7. ~InInit /\ ~InInit'
  <2>1. \A k \in 1 .. 1 : k = 1
    OBVIOUS
  <2> QED BY <1>3, <1>5, <2>1 DEF InInit, Depth
<1>8. MarkOf(Store) = [enabled |-> AbsEnabled, started |-> AbsStarted]
  <2>1. Enabled(modules) = AbsEnabled
    BY <1>7 DEF AbsEnabled
  <2>2. Started(modules) = AbsStarted
    BY <1>7 DEF AbsStarted, Started
  <2>3. MarkOf(Store) = [enabled |-> Enabled(modules), started |-> Started(modules)]
    BY DEF MarkOf, Store
  <2> QED BY <2>1, <2>2, <2>3
<1>9. AbsEnabled' = AbsEnabled /\ AbsStarted' = AbsStarted
  BY <1>1, <1>7 DEF AbsEnabled, AbsStarted, Enabled, IsEnabled, Started
<1> QED BY <1>6, <1>8, <1>9, RegistryOpens

LEMMA EnterStepsRegistry ==
    ASSUME IInv,
           \/ \E h \in Handlers \cup {Zero} : InitAccount(h)
           \/ SetupAndEnableModule \/ Execute \/ ExecuteBatch
           \/ ExecFromModule \/ ExecBatchFromModule \/ MultiSend \/ Fallback
           \/ HandleOps \/ InnerHandleOp
           \/ \E c \in Contracts : CallContract(c)
    PROVE  Registry!RegNext
<1>0. /\ Account \in Addr /\ EntryPoint \in Addr /\ Contracts \subseteq Addr
      /\ None \notin Addr
      /\ 0 \in Nat /\ 1 \in Nat /\ 2 \in Nat /\ 1 .. MaxBatch \subseteq Nat
      /\ {"init", "setup", "execute", "execFromModule", "multiSend", "external",
          "validating", "innerHandleOp"} \subseteq Code
  BY AddrFacts, BoundsAssumption DEF Code, AccountCode, EntryPointCode
<1>1. ASSUME NEW h \in Handlers \cup {Zero}, InitAccount(h)
      PROVE  Registry!RegNext
  <2>1. /\ frames # <<>> /\ ret = None /\ Enter("init", Account, 1)
        /\ ~Started(modules) /\ handler = Zero /\ modules' = modules
    BY <1>1 DEF InitAccount, InitTest, CallsAccount, Calling
  <2>2. modules = Blank
    <3>1. ~InInit
      BY <2>1 DEF IInv, InitBlank, InInit
    <3> QED BY <2>1, <3>1, NotStartedBlank DEF IInv, ModulesGood
  <2> QED BY <1>0, <2>1, <2>2, EnterMarks
<1>2. ASSUME \/ SetupAndEnableModule \/ Execute \/ ExecuteBatch
             \/ ExecFromModule \/ ExecBatchFromModule \/ MultiSend \/ Fallback
             \/ HandleOps \/ InnerHandleOp
             \/ \E c \in Contracts : CallContract(c)
      PROVE  Registry!RegNext
  <2>1. /\ frames # <<>> /\ ret = None /\ modules' = modules
        /\ \E c \in Code \ {"init"}, a \in Addr, n \in Nat : Enter(c, a, n)
    BY <1>0, <1>2 DEF SetupAndEnableModule, Execute, ExecuteBatch, ExecFromModule,
                      ExecBatchFromModule, MultiSend, Fallback, HandleOps,
                      InnerHandleOp, CallContract, CallsAccount, Calling, storage
  <2>2. PICK c \in Code \ {"init"}, a \in Addr, n \in Nat : Enter(c, a, n)
    BY <2>1
  <2> QED BY <2>1, <2>2, EnterMarks
<1> QED BY <1>1, <1>2

LEMMA NextRegistry ==
    ASSUME IInv, [Next]_vars
    PROVE  Registry!RegNext \/ UNCHANGED Registry!regVars
<1>0. Zero \in Addr
  BY AddrFacts
<1>1. CASE \/ \E h \in Handlers \cup {Zero} : InitAccount(h)
           \/ SetupAndEnableModule \/ Execute \/ ExecuteBatch
           \/ ExecFromModule \/ ExecBatchFromModule \/ MultiSend \/ Fallback
           \/ HandleOps \/ InnerHandleOp
           \/ \E c \in Contracts : CallContract(c)
  BY <1>1, EnterStepsRegistry
<1>2. CASE \E m \in Candidates \cup {Zero, Sentinel} :
              EnableModule(m) \/ \E prev \in Addr : DisableModule(prev, m)
  BY <1>2, EnableModuleRegistry, DisableModuleRegistry
<1>3. CASE \/ \E h \in Handlers \cup {Zero} : SetFallbackHandler(h)
           \/ \E i \in Implementations \cup {CodeLess, Zero} : UpdateImplementation(i)
           \/ CallFails \/ FallbackEnds
  <2>1. frames # <<>> /\ modules' = modules /\ \E v \in Addr \cup {Fail} : Answer(v)
    BY <1>0, <1>3 DEF SetFallbackHandler, UpdateImplementation, CallFails, FallbackEnds,
                      CallsAccount, Calling, storage
  <2>2. Marks' = Marks /\ InInit' = InInit
    BY <2>1, AnswerMarks
  <2>3. AbsEnabled' = AbsEnabled /\ AbsStarted' = AbsStarted
    BY <2>1, <2>2 DEF AbsEnabled, AbsStarted, Enabled, IsEnabled, Started
  <2> QED BY <2>2, <2>3, RegistryStutters
<1>4. CASE ValidateUserOpDone \/ Return
  <2>1. Answers \subseteq Addr
    BY AddrFacts DEF Answers
  <2>2. /\ frames # <<>> /\ Top.code # "init" /\ modules' = modules
        /\ \E v \in Addr \cup {Fail} : Leave(v)
    BY <1>0, <1>4, <2>1 DEF ValidateUserOpDone, Return, Awaiting, storage
  <2> QED BY <2>2, LeaveKeepsRegistry
<1>5. CASE InitDone \/ SetupDone \/ Revert
  BY <1>5, InitDoneRegistry, SetupDoneRegistry, RevertRegistry
<1>6. CASE ExecuteBundle \/ \E c \in Contracts : ValidateUserOp(c)
  BY <1>6, ExecuteBundleRegistry, ValidateUserOpRegistry
<1>7. CASE Transact
  BY <1>7, TransactRegistry
<1>8. CASE UNCHANGED vars
  <2>1. Marks' = Marks /\ AbsEnabled' = AbsEnabled /\ AbsStarted' = AbsStarted
    BY <1>8 DEF vars, Marks, AbsEnabled, AbsStarted, InInit, Depth
  <2> QED BY <2>1, RegistryStutters
<1> QED BY <1>1, <1>2, <1>3, <1>4, <1>5, <1>6, <1>7, <1>8 DEF Next

LEMMA InitRegistry == Init => Registry!RegInit
<1> SUFFICES ASSUME Init PROVE Registry!RegInit
  OBVIOUS
<1>1. frames = <<>> /\ modules = Blank /\ Depth = 0
  BY EmptySeq DEF Init, Depth
<1>2. ~InInit
  BY <1>1 DEF InInit
<1>3. [k \in 1 .. Depth |-> [enabled |-> Enabled(frames[k].saved.modules),
                            started |-> Started(frames[k].saved.modules)]] = <<>>
  BY <1>1
<1> QED BY <1>1, <1>2, <1>3, BlankWellFormed DEF Registry!RegInit

\* The linked list under calls that come back and calls that fail is a set of modules,
\* started once and changed by one module at a time, inside nested transactions.
\* (ModuleManager.sol:210-299, SmartAccount.sol:95-106)
THEOREM AlwaysImplementsRegistry == Spec => ImplementsRegistry
<1>1. IInv /\ [Next]_vars => [Registry!RegNext]_(Registry!regVars)
  BY NextRegistry
<1> QED BY <1>1, InitRegistry, Invariance, PTL
        DEF ImplementsRegistry, Registry!RegSpec, Spec
=============================================================================
